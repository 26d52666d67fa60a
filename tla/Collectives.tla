---------------------------- MODULE Collectives ----------------------------
(* The ranks of one communicator run the same sequence of collective calls, *)
(* each at its own pace, over one FIFO byte stream per ordered pair of      *)
(* ranks.  There is no framing and no tag on the stream: what a Recv reads  *)
(* is whatever comes next.  A blocking Send returns once at most `cap`      *)
(* chunks wait on its stream (0: only when the peer has read everything); a *)
(* rank may crash, and a call whose transport fails returns false.          *)
EXTENDS RingPrograms, FullMeshPrograms, Bags

CONSTANT Setups          \* what a behaviour may be: records with the fields
                         \*   topology  "ring" or "fullmesh"
                         \*   work      the calls each rank makes
                         \*   cap       chunks a stream buffers before Send blocks
                         \*   crashes   ranks that may crash of themselves

ASSUME SetupsAssumption ==
  \A s \in Setups : /\ s.topology \in {"ring", "fullmesh"}
                    /\ s.work \in Seq(Calls)
                    /\ s.cap \in Nat /\ s.crashes \in Nat

VARIABLES setup,   \* the one of Setups that runs
          calls,   \* calls[r]: how many calls r has begun
          pc,      \* pc[r]: the step r is at, 0 outside a call
          part,    \* part[r]: the state of each transport call of the step
          got,     \* got[r]: chunks the step's Recv has read so far
          mem,     \* mem[r]: the slots In and Tmp of r
          results, \* results[r]: what r's calls returned
          up,      \* up[r]: r's process runs and has not finalized
          crashed, \* how many ranks crashed of themselves
          link     \* link[a][b]: the stream from a to b

vars == <<setup, calls, pc, part, got, mem, results, up, crashed, link>>

Written == 0 .. (2 * N - 1)              \* the slots a collective may write

(* A chunk is the bag of the operands <<rank, chunk>> reduced into it; a    *)
(* chunk never written is the empty bag.                                    *)
Operand(r, i) == SetToBag({<<r, i>>})
AllOperands(i) == SetToBag({<<r, i>> : r \in Ranks})
Junk == EmptyBag

RingCode == [c \in Calls |-> [r \in Ranks |-> RingProgram(c, r)]]
MeshCode == [c \in Calls |-> [r \in Ranks |-> MeshProgram(c, r)]]
CodeOf(t, c, r) == IF t = "ring" THEN RingCode[c][r] ELSE MeshCode[c][r]
ProgramOf(c, r) == CodeOf(setup.topology, c, r)

Code(r) == ProgramOf(setup.work[calls[r]], r)
InCall(r) == pc[r] > 0
Parts(r) == DOMAIN part[r]

ValueAt(m, r, slot) == IF slot \in Written THEN m[slot] ELSE Operand(r, slot - 2 * N)

(* The memcpy's and then the reductions at the end of a step.               *)
Copy(m, r, copies) ==
  [s \in Written |-> IF \E c \in copies : c[1] = s
                     THEN ValueAt(m, r, (CHOOSE c \in copies : c[1] = s)[2])
                     ELSE m[s]]
Fold(m, folds) ==
  [s \in Written |-> IF \E f \in folds : f[1] = s
                     THEN m[s] (+) m[(CHOOSE f \in folds : f[1] = s)[2]]
                     ELSE m[s]]

StartOfNoThread(step) ==                 \* mutant: the sending threads never start
  [p \in {q \in step.parts : q.dir = "recv"} |-> "todo"]
StartOf(step) == [p \in step.parts |-> "todo"]

-----------------------------------------------------------------------------
Init ==
  /\ setup \in Setups
  /\ calls = [r \in Ranks |-> 0]
  /\ pc = [r \in Ranks |-> 0]
  /\ part = [r \in Ranks |-> <<>>]
  /\ got = [r \in Ranks |-> 0]
  /\ mem = [r \in Ranks |-> [s \in Written |-> Junk]]
  /\ results = [r \in Ranks |-> <<>>]
  /\ up = [r \in Ranks |-> TRUE]
  /\ crashed = 0
  /\ link = [a \in Ranks |-> [b \in Ranks |-> <<>>]]

(* Whether the step fails once the transport calls in failed have failed:   *)
(* a step that receives looks at its Recv only, the result of a Send in a   *)
(* thread beside it is dropped.                                             *)
StepFails(parts, failed) ==
  IF \E p \in parts : p.dir = "recv"
  THEN \E p \in failed : p.dir = "recv"
  ELSE failed # {}

(* Transport call p of r ends with result ok, r's memory being m.  The last *)
(* one to end takes r to its next step or out of the call.                  *)
EndPart(r, p, ok, m) ==
  LET outcome == [part[r] EXCEPT ![p] = IF ok THEN "done" ELSE "failed"]
      over    == \A q \in DOMAIN outcome : outcome[q] \in {"done", "failed"}
      failed  == {q \in DOMAIN outcome : outcome[q] = "failed"}
      step    == Code(r).steps[pc[r]]
      after   == Fold(Copy(m, r, step.copy), step.fold)
      last    == pc[r] = Len(Code(r).steps)
  IN  \/ /\ ~over
         /\ part' = [part EXCEPT ![r] = outcome]
         /\ mem' = [mem EXCEPT ![r] = m]
         /\ UNCHANGED <<pc, results>>
      \/ /\ over /\ StepFails(DOMAIN outcome, failed)
         /\ part' = [part EXCEPT ![r] = <<>>]
         /\ mem' = [mem EXCEPT ![r] = m]
         /\ pc' = [pc EXCEPT ![r] = 0]
         /\ results' = [results EXCEPT ![r] = Append(@, FALSE)]
      \/ /\ over /\ ~StepFails(DOMAIN outcome, failed) /\ ~last
         /\ part' = [part EXCEPT ![r] = StartOf(Code(r).steps[pc[r] + 1])]
         /\ mem' = [mem EXCEPT ![r] = after]
         /\ pc' = [pc EXCEPT ![r] = @ + 1]
         /\ UNCHANGED results
      \/ /\ over /\ ~StepFails(DOMAIN outcome, failed) /\ last
         /\ part' = [part EXCEPT ![r] = <<>>]
         /\ mem' = [mem EXCEPT ![r] = Copy(after, r, Code(r).exit)]
         /\ pc' = [pc EXCEPT ![r] = 0]
         /\ results' = [results EXCEPT ![r] = Append(@, TRUE)]

(* The application calls the next collective, if none has returned false.   *)
Call(r) ==
  /\ up[r] /\ ~InCall(r) /\ calls[r] < Len(setup.work)
  /\ \A i \in DOMAIN results[r] : results[r][i]
  /\ calls' = [calls EXCEPT ![r] = @ + 1]
  /\ LET code == ProgramOf(setup.work[calls[r] + 1], r)
     IN  /\ pc' = [pc EXCEPT ![r] = 1]
         /\ part' = [part EXCEPT ![r] = StartOf(code.steps[1])]
         /\ mem' = [mem EXCEPT ![r] = Copy([s \in Written |-> Junk], r, code.entry)]
  /\ UNCHANGED <<setup, got, results, up, crashed, link>>

(* A Send hands its chunks to the stream.                                   *)
BeginSend(r) == \E p \in Parts(r) :
  /\ up[r] /\ p.dir = "send" /\ part[r][p] = "todo"
  /\ part' = [part EXCEPT ![r][p] = "open"]
  /\ link' = [link EXCEPT ![r][p.peer] =
       IF up[p.peer]
       THEN @ \o [i \in 1 .. Len(p.slots) |->
                    [val |-> ValueAt(mem[r], r, p.slots[i]), call |-> calls[r],
                     pos |-> i, of |-> Len(p.slots)]]
       ELSE @]
  /\ UNCHANGED <<setup, calls, pc, got, mem, results, up, crashed>>

EndSend(r) == \E p \in Parts(r) :
  /\ up[r] /\ p.dir = "send" /\ part[r][p] = "open"
  /\ up[p.peer] => Len(link[r][p.peer]) <= setup.cap
  /\ EndPart(r, p, TRUE, mem[r])
  /\ UNCHANGED <<setup, calls, got, up, crashed, link>>

(* A Send towards a rank that is gone may still succeed, into the socket's  *)
(* buffer, or fail.                                                         *)
FailSend(r) == \E p \in Parts(r) :
  /\ up[r] /\ p.dir = "send" /\ part[r][p] = "open" /\ ~up[p.peer]
  /\ EndPart(r, p, FALSE, mem[r])
  /\ UNCHANGED <<setup, calls, got, up, crashed, link>>

(* RecvRaw's loop: read what is there until the buffer is full.             *)
RecvChunk(r) == \E p \in Parts(r) :
  /\ up[r] /\ p.dir = "recv" /\ part[r][p] = "todo"
  /\ link[p.peer][r] # <<>>
  /\ link' = [link EXCEPT ![p.peer][r] = Tail(@)]
  /\ LET m == [mem[r] EXCEPT ![p.slots[got[r] + 1]] = Head(link[p.peer][r]).val]
     IN  IF got[r] + 1 < Len(p.slots)
         THEN /\ got' = [got EXCEPT ![r] = @ + 1]
              /\ mem' = [mem EXCEPT ![r] = m]
              /\ UNCHANGED <<pc, part, results>>
         ELSE /\ got' = [got EXCEPT ![r] = 0]
              /\ EndPart(r, p, TRUE, m)
  /\ UNCHANGED <<setup, calls, up, crashed>>

FailRecvAsData(r) == \E p \in Parts(r) : \* mutant: end of file taken for data
  /\ up[r] /\ p.dir = "recv" /\ part[r][p] = "todo"
  /\ ~up[p.peer] /\ link[p.peer][r] = <<>>
  /\ got' = [got EXCEPT ![r] = 0]
  /\ EndPart(r, p, TRUE, mem[r])
  /\ UNCHANGED <<setup, calls, up, crashed, link>>

FailRecvNever(r) == \E p \in Parts(r) :  \* mutant: end of file not noticed
  /\ up[r] /\ p.dir = "recv" /\ part[r][p] = "todo"
  /\ FALSE /\ UNCHANGED vars

(* The peer is gone and its stream is read to the end.                      *)
FailRecv(r) == \E p \in Parts(r) :
  /\ up[r] /\ p.dir = "recv" /\ part[r][p] = "todo"
  /\ ~up[p.peer] /\ link[p.peer][r] = <<>>
  /\ got' = [got EXCEPT ![r] = 0]
  /\ EndPart(r, p, FALSE, mem[r])
  /\ UNCHANGED <<setup, calls, up, crashed, link>>

(* The sockets of r close: what r sent may be lost from some point on, what *)
(* it had not read is gone.                                                 *)
CloseLinks(r) ==
  \E kept \in [Ranks -> UNION {0 .. Len(link[r][b]) : b \in Ranks}] :
    /\ \A b \in Ranks : kept[b] <= Len(link[r][b])
    /\ link' = [a \in Ranks |-> [b \in Ranks |->
                  IF a = r THEN SubSeq(link[r][b], 1, kept[b])
                  ELSE IF b = r THEN <<>> ELSE link[a][b]]]

Gone(r) ==
  /\ up' = [up EXCEPT ![r] = FALSE]
  /\ part' = [part EXCEPT ![r] = <<>>]
  /\ got' = [got EXCEPT ![r] = 0]
  /\ CloseLinks(r)
  /\ UNCHANGED <<setup, calls, pc, mem, results>>

Crash(r) == up[r] /\ crashed < setup.crashes /\ crashed' = crashed + 1 /\ Gone(r)

(* Nothing handles SIGPIPE: writing to a rank that is gone may end the      *)
(* process.                                                                 *)
BrokenPipe(r) ==
  /\ up[r]
  /\ \E p \in Parts(r) : p.dir = "send" /\ part[r][p] = "open" /\ ~up[p.peer]
  /\ crashed' = crashed
  /\ Gone(r)

(* The caller gives up after a false: Communicator::Finalize.               *)
Finalize(r) ==
  /\ up[r] /\ ~InCall(r)
  /\ \E i \in DOMAIN results[r] : ~results[r][i]
  /\ crashed' = crashed
  /\ Gone(r)

Returned(r) == ~InCall(r) /\ calls[r] = Len(setup.work)
Over == \A r \in Ranks : ~up[r] \/ Returned(r)

RankStep(r) == \/ Call(r) \/ BeginSend(r) \/ EndSend(r) \/ FailSend(r)
               \/ RecvChunk(r) \/ FailRecv(r) \/ Finalize(r)

Next == \E r \in Ranks : RankStep(r) \/ Crash(r) \/ BrokenPipe(r)

(* A stream may buffer cap chunks but need not: a Send is only sure to      *)
(* return once its peer has read everything or is gone.                     *)
Drained(r) == \E p \in Parts(r) :
  p.dir = "send" /\ part[r][p] = "open" /\ (up[p.peer] => link[r][p.peer] = <<>>)
SureStep(r) == \/ Call(r) \/ BeginSend(r) \/ RecvChunk(r) \/ FailRecv(r) \/ Finalize(r)
               \/ Drained(r) /\ (EndSend(r) \/ FailSend(r))

(* The threads of a live rank run when they can.                            *)
Fairness == \A r \in Ranks : WF_vars(SureStep(r))
Spec == Init /\ [][Next]_vars /\ Fairness

-----------------------------------------------------------------------------
(* What a collective promises, whatever the topology.                       *)

(* The chunks an AllReduce is cut into: the ring cuts the vector in N.      *)
Segments(t) == IF t = "ring" THEN Ranks ELSE {0}

(* Promise(t, c, r): what recv_buf must hold at rank r after call c.        *)
Promise(t, c, r) ==
  CASE c.op = "Broadcast"     -> [i \in {0} |-> Operand(c.root, 0)]
    [] c.op = "Gather"        -> [i \in IF r = c.root THEN Ranks ELSE {} |-> Operand(i, 0)]
    [] c.op = "Scatter"       -> [i \in {0} |-> Operand(c.root, r)]
    [] c.op = "Reduce"        -> [i \in IF r = c.root THEN {0} ELSE {} |-> AllOperands(0)]
    [] c.op = "AllGather"     -> [i \in Ranks |-> Operand(i, 0)]
    [] c.op = "ReduceScatter" -> [i \in {0} |-> AllOperands(r)]
    [] c.op = "AllReduce"     -> [i \in Segments(t) |-> AllOperands(i)]
    [] c.op = "AllToAll"      -> [i \in Ranks |-> Operand(i, r)]
    [] c.op = "Barrier"       -> [i \in {} |-> Junk]

TypeOK ==
  /\ setup \in Setups
  /\ calls \in [Ranks -> 0 .. Len(setup.work)]
  /\ \A r \in Ranks :
       /\ InCall(r) => pc[r] \in DOMAIN Code(r).steps
       /\ InCall(r) /\ up[r] => Parts(r) = Code(r).steps[pc[r]].parts
       /\ \A p \in Parts(r) : part[r][p] \in {"todo", "open", "done", "failed"}
       /\ Len(results[r]) = calls[r] - (IF InCall(r) THEN 1 ELSE 0)
  /\ up \in [Ranks -> BOOLEAN] /\ crashed \in 0 .. setup.crashes

LastTrue(r) == ~InCall(r) /\ calls[r] > 0 /\ results[r][calls[r]]

(* A collective that returns true has put in recv_buf what its name         *)
(* promises: every operand of the communicator once and nothing else,       *)
(* whichever calls came before and whichever ranks have crashed meanwhile.  *)
TrueMeansResult ==
  \A r \in Ranks : LastTrue(r) =>
    LET promise == Promise(setup.topology, setup.work[calls[r]], r)
    IN  \A i \in DOMAIN promise : mem[r][In(i)] = promise[i]

(* A Barrier that returns true at one rank has been entered by all          *)
(* ("make sure all ranks go to barrier", topology_ring.cpp:635).            *)
BarrierSafe ==
  \A r \in Ranks : \A i \in DOMAIN results[r] :
    setup.work[i].op = "Barrier" /\ results[r][i] => \A q \in Ranks : calls[q] >= i

(* What a Recv reads next is the chunk of the Send it is meant for: same    *)
(* call, same message length, same place in the message.  Nothing else      *)
(* keeps two calls apart on an untagged stream, and a transport that keeps  *)
(* message boundaries (RDMA) needs the lengths to agree.                    *)
RecvMatchesSend ==
  \A r \in Ranks : \A p \in Parts(r) :
    p.dir = "recv" /\ part[r][p] = "todo" /\ link[p.peer][r] # <<>> =>
      LET unit == Head(link[p.peer][r])
      IN  /\ unit.call = calls[r]
          /\ unit.of = Len(p.slots)
          /\ unit.pos = got[r] + 1

(* Two ranks never have data in flight towards each other at once.  The     *)
(* RDMA transport polls one completion queue for both directions and counts *)
(* on it (transport_rdma.cpp:724).                                          *)
HalfDuplex ==
  \A a, b \in Ranks : a # b => link[a][b] = <<>> \/ link[b][a] = <<>>

(* A rank whose calls have all returned true is sent nothing more: it can   *)
(* close its transports without cutting off what its peers still read.      *)
NothingUnread ==
  \A r \in Ranks : Returned(r) /\ (\A i \in DOMAIN results[r] : results[r][i]) =>
    \A q \in Ranks : up[q] => link[q][r] = <<>>

(* Every rank gets through its calls, or fails out of them, or is dead:     *)
(* no cycle of blocking Sends and Recvs, and no one left waiting for a rank *)
(* that is gone.                                                            *)
Termination == <>Over
=============================================================================
