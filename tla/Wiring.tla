------------------------------- MODULE Wiring -------------------------------
(* Communicator::InitTransports, run by every rank once Bootstrap has told  *)
(* it the addresses of all: a thread per peer connects to the larger        *)
(* neighbours, a thread per peer accepts from the smaller ones, both kinds  *)
(* insert into the map `transports`, and the main thread then tells the     *)
(* ranks it connected to which rank it is.  An accepting thread reads that  *)
(* number before it inserts.                                                *)
EXTENDS Group, FiniteSets

CONSTANTS Topology,     \* "ring" or "fullmesh"
          LostInserts   \* whether two unordered inserts may lose one

ASSUME WiringAssumption ==
  /\ Topology \in {"ring", "fullmesh"}
  /\ LostInserts \in BOOLEAN

VARIABLES phase,      \* phase[r]: "start", "threads", "tell", "true", "false"
          error,      \* error[r]: error_occurred
          out,        \* out[r][p]: the thread of r that connects to p
          idle,       \* idle[r]: accepting threads not begun
          accepting,  \* accepting[r]: those blocked in accept
          pending,    \* pending[r]: ranks connected to r and not accepted yet
          acc,        \* acc[r][q]: the thread of r that has accepted q
          told,       \* told[r]: the peers r has sent its rank to
          transports, \* transports[r]: the peers r's map has a transport for
          seen,       \* seen[r][side]: transports[r] when the insert began
          trouble     \* whether a listen or a connect has failed for good

vars == <<phase, error, out, idle, accepting, pending, acc, told,
          transports, seen, trouble>>

NextRank(r) == (r + 1) % N
PrevRank(r) == (r - 1 + N) % N
Neighbors(r) == IF Topology = "ring" THEN {PrevRank(r), NextRank(r)} ELSE Ranks \ {r}
ShouldConnectToNext(r, p) ==              \* mutant: every rank connects to the next
  p = NextRank(r)
ShouldConnect(r, p) == p \in Neighbors(r) /\ r < p

ConnectPeers(r) == {p \in Neighbors(r) : ShouldConnect(r, p)}
AcceptPeers(r)  == Neighbors(r) \ ConnectPeers(r)

(* The listening transport lives until InitTransports returns.              *)
Listening(r) == phase[r] \in {"threads", "tell"} /\ AcceptPeers(r) # {}

Init ==
  /\ phase = [r \in Ranks |-> "start"]
  /\ error = [r \in Ranks |-> FALSE]
  /\ out = [r \in Ranks |-> [p \in ConnectPeers(r) |-> "new"]]
  /\ idle = [r \in Ranks |-> Cardinality(AcceptPeers(r))]
  /\ accepting = [r \in Ranks |-> 0]
  /\ pending = [r \in Ranks |-> {}]
  /\ acc = [r \in Ranks |-> [q \in AcceptPeers(r) |-> "none"]]
  /\ told = [r \in Ranks |-> {}]
  /\ transports = [r \in Ranks |-> {}]
  /\ seen = [r \in Ranks |-> [side \in {"out", "acc"} |-> {}]]
  /\ trouble = FALSE

-----------------------------------------------------------------------------
(* Listen on the data port and start the threads.                           *)
Start(r) ==
  /\ phase[r] = "start"
  /\ phase' = [phase EXCEPT ![r] = "threads"]
  /\ UNCHANGED <<error, out, idle, accepting, pending, acc, told, transports, seen, trouble>>

(* Init has closed the port it found (communicator.cpp:67): another process *)
(* may have taken it.                                                       *)
ListenFails(r) ==
  /\ phase[r] = "start" /\ AcceptPeers(r) # {}
  /\ phase' = [phase EXCEPT ![r] = "false"]
  /\ trouble' = TRUE
  /\ UNCHANGED <<error, out, idle, accepting, pending, acc, told, transports, seen>>

(* Communicator::Init has returned false before InitTransports.             *)
NoTable(r) ==
  /\ phase[r] = "start"
  /\ phase' = [phase EXCEPT ![r] = "false"]
  /\ trouble' = TRUE
  /\ UNCHANGED <<error, out, idle, accepting, pending, acc, told, transports, seen>>

(* A connecting thread returns at once if error_occurred is already set.    *)
BeginConnect(r, p) ==
  /\ phase[r] = "threads" /\ out[r][p] = "new"
  /\ out' = [out EXCEPT ![r][p] = IF error[r] THEN "ended" ELSE "trying"]
  /\ UNCHANGED <<phase, error, idle, accepting, pending, acc, told, transports, seen, trouble>>

(* Attempts that are refused leave the thread trying.                       *)
Connect(r, p) ==
  /\ out[r][p] = "trying" /\ Listening(p)
  /\ out' = [out EXCEPT ![r][p] = "connected"]
  /\ pending' = [pending EXCEPT ![p] = @ \cup {r}]
  /\ UNCHANGED <<phase, error, idle, accepting, acc, told, transports, seen, trouble>>

(* The thirtieth is refused too.                                            *)
GiveUp(r, p) ==
  /\ out[r][p] = "trying" /\ ~Listening(p)
  /\ out' = [out EXCEPT ![r][p] = "ended"]
  /\ error' = [error EXCEPT ![r] = TRUE]
  /\ trouble' = TRUE
  /\ UNCHANGED <<phase, idle, accepting, pending, acc, told, transports, seen>>

(* transports[peer] = transport.  The connecting threads have one mutex,    *)
(* the accepting ones another, so an insert of each kind may overlap.       *)
Insert(r, side, p) ==
  transports' = [transports EXCEPT ![r] =
                   IF LostInserts THEN seen[r][side] \cup {p} ELSE @ \cup {p}]

LockOut(r, p) ==
  /\ out[r][p] = "connected"
  /\ \A x \in ConnectPeers(r) : out[r][x] # "storing"
  /\ out' = [out EXCEPT ![r][p] = "storing"]
  /\ seen' = [seen EXCEPT ![r]["out"] = transports[r]]
  /\ UNCHANGED <<phase, error, idle, accepting, pending, acc, told, transports, trouble>>

InsertOut(r, p) ==
  /\ out[r][p] = "storing"
  /\ out' = [out EXCEPT ![r][p] = "ended"]
  /\ Insert(r, "out", p)
  /\ seen' = [seen EXCEPT ![r]["out"] = {}]
  /\ UNCHANGED <<phase, error, idle, accepting, pending, acc, told, trouble>>

BeginAccept(r) ==
  /\ phase[r] = "threads" /\ idle[r] > 0
  /\ idle' = [idle EXCEPT ![r] = @ - 1]
  /\ accepting' = [accepting EXCEPT ![r] = IF error[r] THEN @ ELSE @ + 1]
  /\ UNCHANGED <<phase, error, out, pending, acc, told, transports, seen, trouble>>

Accept(r, q) ==
  /\ accepting[r] > 0 /\ q \in pending[r]
  /\ accepting' = [accepting EXCEPT ![r] = @ - 1]
  /\ pending' = [pending EXCEPT ![r] = @ \ {q}]
  /\ acc' = [acc EXCEPT ![r][q] = "accepted"]
  /\ UNCHANGED <<phase, error, out, idle, told, transports, seen, trouble>>

(* The accepting thread reads the rank at the other end ...                 *)
LockAcc(r, q) ==
  /\ acc[r][q] = "accepted" /\ r \in told[q]
  /\ \A x \in AcceptPeers(r) : acc[r][x] # "storing"
  /\ acc' = [acc EXCEPT ![r][q] = "storing"]
  /\ seen' = [seen EXCEPT ![r]["acc"] = transports[r]]
  /\ UNCHANGED <<phase, error, out, idle, accepting, pending, told, transports, trouble>>

InsertAcc(r, q) ==
  /\ acc[r][q] = "storing"
  /\ acc' = [acc EXCEPT ![r][q] = "ended"]
  /\ Insert(r, "acc", q)
  /\ seen' = [seen EXCEPT ![r]["acc"] = {}]
  /\ UNCHANGED <<phase, error, out, idle, accepting, pending, told, trouble>>

(* ... or finds that the other end is gone.                                 *)
RecvRankFails(r, q) ==
  /\ acc[r][q] = "accepted" /\ r \notin told[q] /\ phase[q] = "false"
  /\ acc' = [acc EXCEPT ![r][q] = "ended"]
  /\ error' = [error EXCEPT ![r] = TRUE]
  /\ UNCHANGED <<phase, out, idle, accepting, pending, told, transports, seen, trouble>>

(* connect_thread.join(), accept_thread.join(), then error_occurred.        *)
ConnectsOver(r) == phase[r] = "threads" /\ \A p \in ConnectPeers(r) : out[r][p] = "ended"
AcceptsOver(r) ==
  /\ phase[r] = "threads" /\ idle[r] = 0 /\ accepting[r] = 0
  /\ \A q \in AcceptPeers(r) : acc[r][q] \in {"none", "ended"}
GoOn(r) ==
  /\ phase' = [phase EXCEPT ![r] = IF error[r] THEN "false" ELSE "tell"]
  /\ UNCHANGED <<error, out, idle, accepting, pending, acc, told, transports, seen, trouble>>

JoinAccepts(r) == AcceptsOver(r) /\ GoOn(r)     \* mutant: connect_thread is not joined
JoinConnects(r) == ConnectsOver(r) /\ GoOn(r)   \* mutant: accept_thread is not joined
Join(r) == ConnectsOver(r) /\ AcceptsOver(r) /\ GoOn(r)

(* Send my rank to a peer I connected to.                                   *)
Tell(r, p) ==
  /\ phase[r] = "tell" /\ p \in ConnectPeers(r) \ told[r]
  /\ p \in transports[r]
  /\ told' = [told EXCEPT ![r] = @ \cup {p}]
  /\ UNCHANGED <<phase, error, out, idle, accepting, pending, acc, transports, seen, trouble>>

(* The peer is gone, or its transport is not in the map: a null pointer is  *)
(* used and the process ends.                                               *)
TellFails(r, p) ==
  /\ phase[r] = "tell" /\ p \in ConnectPeers(r) \ told[r]
  /\ p \notin transports[r] \/ phase[p] = "false"
  /\ phase' = [phase EXCEPT ![r] = "false"]
  /\ UNCHANGED <<error, out, idle, accepting, pending, acc, told, transports, seen, trouble>>

Ready(r) ==
  /\ phase[r] = "tell" /\ told[r] = ConnectPeers(r)
  /\ phase' = [phase EXCEPT ![r] = "true"]
  /\ UNCHANGED <<error, out, idle, accepting, pending, acc, told, transports, seen, trouble>>

ConnectStep(r, p) == \/ BeginConnect(r, p) \/ Connect(r, p) \/ LockOut(r, p)
                     \/ InsertOut(r, p) \/ Tell(r, p) \/ TellFails(r, p)
AcceptStep(r, q) == Accept(r, q) \/ LockAcc(r, q) \/ InsertAcc(r, q) \/ RecvRankFails(r, q)

RankStep(r) == \/ Start(r) \/ BeginAccept(r) \/ Join(r) \/ Ready(r)
               \/ \E p \in ConnectPeers(r) : ConnectStep(r, p) \/ GiveUp(r, p)
               \/ \E q \in AcceptPeers(r) : AcceptStep(r, q)

Next == \E r \in Ranks : RankStep(r) \/ ListenFails(r) \/ NoTable(r)

(* The threads of a rank run when they can, and their retries come to an    *)
(* end; a failing listen is never due.                                      *)
Fairness == \A r \in Ranks : WF_vars(RankStep(r))
SafeSpec == Init /\ [][Next]_vars
Spec == SafeSpec /\ Fairness
-----------------------------------------------------------------------------
Over(r) == phase[r] \in {"true", "false"}

(* "One transport for each peer, rank -> transport" (communicator.h:72):    *)
(* when InitTransports returns true, the map has all the neighbours.        *)
OneTransportPerPeer == \A r \in Ranks : phase[r] = "true" => transports[r] = Neighbors(r)

(* No connection is cut off in the queue of a listening transport that      *)
(* closes because InitTransports has returned true.                         *)
NoneLeftPending == \A r \in Ranks : phase[r] = "true" => pending[r] = {}

(* A rank fails only if somewhere a listen has failed or a connect was      *)
(* given up: ranks that get through do not break those still at work.       *)
NoFalseAlarm ==
  (\E r \in Ranks : error[r] \/ phase[r] = "false") => trouble

-----------------------------------------------------------------------------
(* The inductive invariant, for inserts that lose nothing.                  *)
TypeOK ==
  /\ phase \in [Ranks -> {"start", "threads", "tell", "true", "false"}]
  /\ error \in [Ranks -> BOOLEAN]
  /\ DOMAIN out = Ranks
  /\ \A r \in Ranks : out[r] \in [ConnectPeers(r) ->
                         {"new", "trying", "connected", "storing", "ended"}]
  /\ idle \in [Ranks -> Nat] /\ accepting \in [Ranks -> Nat]
  /\ pending \in [Ranks -> SUBSET Ranks]
  /\ DOMAIN acc = Ranks
  /\ \A r \in Ranks : acc[r] \in [AcceptPeers(r) ->
                         {"none", "accepted", "storing", "ended"}]
  /\ told \in [Ranks -> SUBSET Ranks]
  /\ transports \in [Ranks -> SUBSET Ranks]
  /\ seen \in [Ranks -> [{"out", "acc"} -> SUBSET Ranks]]
  /\ trouble \in BOOLEAN

(* A thread that has ended without an error has stored its peer.            *)
StoredInv == \A r \in Ranks :
  /\ transports[r] \subseteq Neighbors(r)
  /\ ~error[r] => \A p \in ConnectPeers(r) : out[r][p] = "ended" => p \in transports[r]
  /\ ~error[r] => \A q \in AcceptPeers(r) : acc[r][q] = "ended" => q \in transports[r]

(* A connection is in one place: begun at one end, in the other end's queue *)
(* or taken by one of its accepting threads.                                *)
ConnectionInv ==
  /\ \A r \in Ranks : \A q \in pending[r] : q \in AcceptPeers(r) /\ acc[r][q] = "none"
  /\ \A r \in Ranks : \A p \in ConnectPeers(r) :
       out[r][p] \in {"new", "trying"} => r \notin pending[p] /\ acc[p][r] = "none"

(* Without an error there is an accepting thread for every peer.            *)
Accepted(r) == {q \in AcceptPeers(r) : acc[r][q] # "none"}
ThreadsInv == \A r \in Ranks : ~error[r] =>
  idle[r] + accepting[r] + Cardinality(Accepted(r)) = Cardinality(AcceptPeers(r))

(* The main thread goes on when all the others have ended, with no error.   *)
JoinedInv == \A r \in Ranks : phase[r] \in {"tell", "true"} =>
  /\ ~error[r]
  /\ \A p \in ConnectPeers(r) : out[r][p] = "ended"
  /\ \A q \in AcceptPeers(r) : acc[r][q] = "ended"

(* All together: what every step keeps.                                      *)
IInv == TypeOK /\ StoredInv /\ ConnectionInv /\ ThreadsInv /\ JoinedInv /\ NoFalseAlarm
=============================================================================
