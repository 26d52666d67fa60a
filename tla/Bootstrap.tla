------------------------------ MODULE Bootstrap ------------------------------
(* Bootstrap::Run at every rank: rank 0, the master, accepts a connection   *)
(* from each worker, reads their addresses in the order it accepted them    *)
(* and sends the whole table back in that order.  Sockets are reliable; a   *)
(* process that dies closes its own.                                        *)
EXTENDS Group, FiniteSets

CONSTANT MaxDeaths       \* how many processes may die during Bootstrap

VARIABLES stage,    \* where a rank is in Run; "true", "false": it returned;
                    \*   a rank that died is at "false" too
          queue,    \* workers connected to the master and not accepted yet
          socks,    \* worker_socks, as the ranks at the other ends
          at,       \* the index of the loop the master is in
          written,  \* workers whose NodeInfo is in their stream
          sent,     \* workers whose stream has the table
          table,    \* table[r][i]: whose address all_nodes[i] is at rank r
          deaths,   \* how many processes have died
          fault     \* whether a listen, a connect or a process has failed

vars == <<stage, queue, socks, at, written, sent, table, deaths, fault>>

Master == 0
Workers == Ranks \ {Master}
Nobody == -1                             \* NodeInfo as the constructor leaves it

Init ==
  /\ stage = [r \in Ranks |-> "start"]
  /\ queue = {} /\ socks = [i \in 1 .. (N - 1) |-> Nobody] /\ at = 1
  /\ written = {} /\ sent = {}
  /\ table = [r \in Ranks |-> [i \in Ranks |-> Nobody]]
  /\ deaths = 0 /\ fault = FALSE

Accepted == {socks[i] : i \in 1 .. (N - 1)} \ {Nobody}
Over(r) == stage[r] \in {"true", "false"}
(* The next turn of the master's loop, or the first of the one after it.    *)
Turn(loop, next) ==
  /\ at' = IF at = N - 1 THEN 1 ELSE at + 1
  /\ stage' = [stage EXCEPT ![Master] = IF at = N - 1 THEN next ELSE loop]

Returns(r, result) == stage' = [stage EXCEPT ![r] = result]

(* listen_fd is open until RunMaster returns.                               *)
Listening == stage[Master] \in {"accept", "gather", "tell"}

-----------------------------------------------------------------------------
(* RunMaster.                                                               *)
Listen ==
  /\ stage[Master] = "start"
  /\ stage' = [stage EXCEPT ![Master] = "accept"]
  /\ table' = [table EXCEPT ![Master][Master] = Master]
  /\ UNCHANGED <<queue, socks, at, written, sent, deaths, fault>>

ListenFails ==
  /\ stage[Master] = "start"
  /\ Returns(Master, "false")
  /\ fault' = TRUE
  /\ UNCHANGED <<queue, socks, at, written, sent, table, deaths>>

(* AcceptConnections waits for world_size - 1 of them.                      *)
Accept(q) ==
  /\ stage[Master] = "accept" /\ q \in queue
  /\ queue' = queue \ {q}
  /\ socks' = [socks EXCEPT ![at] = q]
  /\ Turn("accept", "gather")
  /\ UNCHANGED <<written, sent, table, deaths, fault>>

GatherByOrder ==                         \* mutant: entries in the order of the accepts
  /\ stage[Master] = "gather" /\ socks[at] \in written
  /\ table' = [table EXCEPT ![Master][at] = socks[at]]
  /\ Turn("gather", "tell")
  /\ UNCHANGED <<queue, socks, written, sent, deaths, fault>>

GatherOne ==                             \* mutant: the loop reads one worker only
  /\ stage[Master] = "gather" /\ socks[at] \in written
  /\ table' = [table EXCEPT ![Master][socks[at]] = socks[at]]
  /\ at' = 1
  /\ stage' = [stage EXCEPT ![Master] = "tell"]
  /\ UNCHANGED <<queue, socks, written, sent, deaths, fault>>

Gather ==
  /\ stage[Master] = "gather" /\ socks[at] \in written
  /\ table' = [table EXCEPT ![Master][socks[at]] = socks[at]]
  /\ Turn("gather", "tell")
  /\ UNCHANGED <<queue, socks, written, sent, deaths, fault>>

GatherImpatient ==                       \* mutant: what is not there yet is an error
  /\ stage[Master] = "gather" /\ socks[at] \notin written
  /\ Returns(Master, "false")
  /\ UNCHANGED <<queue, socks, at, written, sent, table, deaths, fault>>

GatherFails ==
  /\ stage[Master] = "gather" /\ socks[at] \notin written /\ stage[socks[at]] = "false"
  /\ Returns(Master, "false")
  /\ UNCHANGED <<queue, socks, at, written, sent, table, deaths, fault>>

(* BroadcastAllNodes; a table for a worker that is gone may still go into   *)
(* its stream.                                                              *)
Tell ==
  /\ stage[Master] = "tell"
  /\ sent' = sent \cup {socks[at]}
  /\ Turn("tell", "true")
  /\ UNCHANGED <<queue, socks, written, table, deaths, fault>>

(* The loop ends at the first worker it cannot reach, or SIGPIPE ends the   *)
(* process.                                                                 *)
TellFails ==
  /\ stage[Master] = "tell" /\ stage[socks[at]] = "false"
  /\ Returns(Master, "false")
  /\ UNCHANGED <<queue, socks, at, written, sent, table, deaths, fault>>

-----------------------------------------------------------------------------
(* RunWorker.                                                               *)
Connect(q) ==
  /\ stage[q] = "start" /\ Listening
  /\ stage' = [stage EXCEPT ![q] = "connected"]
  /\ queue' = queue \cup {q}
  /\ UNCHANGED <<socks, at, written, sent, table, deaths, fault>>

(* The last of its thirty attempts is refused too.                          *)
GiveUp(q) ==
  /\ stage[q] = "start" /\ ~Listening
  /\ Returns(q, "false")
  /\ fault' = TRUE
  /\ UNCHANGED <<queue, socks, at, written, sent, table, deaths>>

Report(q) ==
  /\ stage[q] = "connected"
  /\ stage' = [stage EXCEPT ![q] = "wait"]
  /\ written' = written \cup {q}
  /\ UNCHANGED <<queue, socks, at, sent, table, deaths, fault>>

ReportFails(q) ==
  /\ stage[q] = "connected" /\ stage[Master] = "false"
  /\ Returns(q, "false")
  /\ UNCHANGED <<queue, socks, at, written, sent, table, deaths, fault>>

(* RecvAllNodes.                                                            *)
Learn(q) ==
  /\ stage[q] = "wait" /\ q \in sent
  /\ table' = [table EXCEPT ![q] = table[Master]]
  /\ Returns(q, "true")
  /\ UNCHANGED <<queue, socks, at, written, sent, deaths, fault>>

LearnNever(q) ==                         \* mutant: end of file is not noticed
  FALSE /\ UNCHANGED vars

LearnFails(q) ==
  /\ stage[q] = "wait" /\ q \notin sent /\ stage[Master] = "false"
  /\ Returns(q, "false")
  /\ UNCHANGED <<queue, socks, at, written, sent, table, deaths, fault>>

(* The process ends in the middle of Run.                                   *)
Die(r) ==
  /\ ~Over(r) /\ deaths < MaxDeaths
  /\ deaths' = deaths + 1 /\ fault' = TRUE
  /\ Returns(r, "false")
  /\ UNCHANGED <<queue, socks, at, written, sent, table>>

MasterGoes == Listen \/ (\E q \in Workers : Accept(q)) \/ Gather \/ Tell
MasterFails == GatherFails \/ TellFails
WorkerGoes(q) == Connect(q) \/ Report(q) \/ Learn(q)
WorkerFails(q) == GiveUp(q) \/ ReportFails(q) \/ LearnFails(q)

(* A step of r in Run; one that must end it without a table; and one that   *)
(* may: a failing listen and a death are never due.                         *)
Goes(r) == (r = Master /\ MasterGoes) \/ (r \in Workers /\ WorkerGoes(r))
MustFail(r) == (r = Master /\ MasterFails) \/ (r \in Workers /\ WorkerFails(r))
Fails(r) == MustFail(r) \/ (r = Master /\ ListenFails) \/ Die(r)

Next == \E r \in Ranks : Goes(r) \/ Fails(r)
SafeSpec == Init /\ [][Next]_vars
Spec == SafeSpec /\ \A r \in Ranks : WF_vars(Goes(r) \/ MustFail(r))

-----------------------------------------------------------------------------
Whole == [i \in Ranks |-> i]              \* all_nodes as it should be

(* Run returns true only with everybody's address at its own index, also    *)
(* when processes die on the way (bootstrap.cpp:72, 233).                   *)
TablesRight == \A r \in Ranks : stage[r] = "true" => table[r] = Whole

(* Run returns false, at any rank, only after a listen, a connect or a      *)
(* process has failed somewhere.                                            *)
FailsForCause == (\E r \in Ranks : stage[r] = "false") => fault

(* Once the master has accepted every worker, everyone's Run returns,       *)
(* whoever dies and whatever part of the broadcast is done.                 *)
AcceptedReturn == (Accepted = Workers) ~> (\A r \in Ranks : Over(r))

(* Bootstrap is a table exchange: a rank announces its address when it can  *)
(* be read, and knows the table when Run returns true.                      *)
presentNow == written \cup (IF table[Master][Master] = Master THEN {Master} ELSE {})
outcomeNow == [r \in Ranks |-> CASE stage[r] = "true" -> "table"
                                 [] stage[r] = "false" -> "failed"
                                 [] OTHER -> "none"]
Exchange == INSTANCE TableExchange WITH present <- presentNow, outcome <- outcomeNow
RefinesExchange == Exchange!Spec

-----------------------------------------------------------------------------
(* The inductive invariant of Run.                                          *)
Stages == {"start", "accept", "gather", "tell", "connected", "wait", "true", "false"}
TypeOK ==
  /\ stage \in [Ranks -> Stages]
  /\ queue \subseteq Workers /\ written \subseteq Workers /\ sent \subseteq Workers
  /\ socks \in [1 .. (N - 1) -> Workers \cup {Nobody}] /\ at \in 1 .. (N - 1)
  /\ table \in [Ranks -> [Ranks -> Ranks \cup {Nobody}]]
  /\ deaths \in Nat /\ fault \in BOOLEAN

(* A worker's connection is in the queue or in worker_socks, and once.      *)
SocksInv ==
  /\ \A q \in Workers : stage[q] = "start" => q \notin queue /\ q \notin Accepted
  /\ queue \cap Accepted = {}
  /\ stage[Master] \in {"start", "accept"} =>
       /\ Cardinality(Accepted) = at - 1
       /\ \A i \in 1 .. (N - 1) : socks[i] = Nobody <=> i >= at
  /\ stage[Master] \in {"gather", "tell", "true"} =>
       Accepted = Workers /\ \A i \in 1 .. (N - 1) : socks[i] # Nobody

(* Whom the master has read, it has in the table.                           *)
GatherInv ==
  /\ stage[Master] = "start" => at = 1
  /\ stage[Master] \in {"accept", "gather", "tell", "true"} => table[Master][Master] = Master
  /\ stage[Master] = "gather" =>
       \A i \in 1 .. (at - 1) : table[Master][socks[i]] = socks[i] /\ socks[i] \in written

(* The table that is sent has everybody.                                    *)
SentInv ==
  /\ stage[Master] \in {"start", "accept", "gather"} => sent = {}
  /\ stage[Master] \in {"tell", "true"} \/ sent # {} =>
       table[Master] = Whole /\ Workers \subseteq written

StageInv ==
  /\ stage[Master] \notin {"connected", "wait"}
  /\ \A q \in Workers : stage[q] \notin {"accept", "gather", "tell"}
  /\ \A q \in Workers : stage[q] = "true" => q \in sent

Inv == TypeOK /\ StageInv /\ SocksInv /\ GatherInv /\ SentInv /\ TablesRight /\ FailsForCause
=============================================================================
