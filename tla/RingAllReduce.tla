--------------------------- MODULE RingAllReduce ---------------------------
(* TopologyRing::AllReduce for three or more ranks: N - 1 steps of          *)
(* reduce-scatter, then N - 1 steps of all-gather, one vector of N chunks.  *)
(* In each step a thread of its own sends a chunk to the next rank while    *)
(* the main thread receives one from the previous rank; the main thread     *)
(* joins the sender, whose result is dropped, and reduces.  Ranks may die   *)
(* at any moment; a rank whose AllReduce returned false is finalized.       *)
EXTENDS Integers, FiniteSets

CONSTANTS N,         \* world_size
          Cap,       \* messages a stream buffers before Send blocks
          MaxDeaths  \* bound on the ranks that die of themselves

ASSUME RingAssumption == N \in Nat /\ N >= 3 /\ Cap \in Nat /\ MaxDeaths \in Nat

Ranks  == 0 .. (N - 1)
Steps  == 2 * (N - 1)                     \* both phases
NextRank(r) == (r + 1) % N
PrevRank(r) == (r - 1 + N) % N

SendChunkSamePhase(r, s) ==               \* mutant: all-gather without the + 1
  IF s < N - 1 THEN (r - s + N) % N ELSE (r - (s - (N - 1)) + N) % N
RecvChunkAsSent(r, s) ==                  \* mutant: all-gather with send's + 1
  IF s < N - 1 THEN (r - s + N - 1) % N ELSE (r - (s - (N - 1)) + 1 + N) % N

(* The chunk rank r sends, and the one it receives, in step s of the call.  *)
SendChunk(r, s) == IF s < N - 1 THEN (r - s + N) % N
                   ELSE (r - (s - (N - 1)) + 1 + N) % N
RecvChunk(r, s) == IF s < N - 1 THEN (r - s + N - 1) % N
                   ELSE (r - (s - (N - 1)) + N) % N

VARIABLES status,  \* status[r]: "running", "true", "false" or "dead"
          step,    \* step[r]: steps r has completed
          sender,  \* sender[r]: the step's thread: "new", "sending", "ended"
          recv,    \* recv[r]: the step's Recv: "wait", "ok", "failed"
          data,    \* data[r][c][q]: how often q's operand is in chunk c at r
          temp,    \* temp[r]: temp_buffer, the same for one chunk
          sent,    \* sent[r]: messages on the stream from r to NextRank(r)
          stream   \* stream[r][i]: the i-th of them (from 0)

vars == <<status, step, sender, recv, data, temp, sent, stream>>

Own(r) == [q \in Ranks |-> IF q = r THEN 1 ELSE 0]
Nothing == [q \in Ranks |-> 0]
Plus(u, v) == [q \in Ranks |-> u[q] + v[q]]
Message(c, v) == [chunk |-> c, val |-> v]

Running(r) == status[r] = "running"
Open(r) == status[r] \in {"running", "true"}       \* its sockets are open
Received(r) == IF recv[r] = "ok" THEN step[r] + 1 ELSE step[r]

Init ==
  /\ status = [r \in Ranks |-> "running"]
  /\ step = [r \in Ranks |-> 0]
  /\ sender = [r \in Ranks |-> "new"]
  /\ recv = [r \in Ranks |-> "wait"]
  /\ data = [r \in Ranks |-> [c \in Ranks |-> Own(r)]]
  /\ temp = [r \in Ranks |-> Nothing]
  /\ sent = [r \in Ranks |-> 0]
  /\ stream = [r \in Ranks |-> [i \in 0 .. (Steps - 1) |-> Message(0, Nothing)]]

BeginSendAfterRecv(r) ==                  \* mutant: no thread, Recv and then Send
  /\ Running(r) /\ sender[r] = "new" /\ recv[r] # "wait"
  /\ sender' = [sender EXCEPT ![r] = "sending"]
  /\ LET c == SendChunk(r, step[r])
     IN  stream' = [stream EXCEPT ![r][sent[r]] = Message(c, data[r][c])]
  /\ sent' = [sent EXCEPT ![r] = @ + 1]
  /\ UNCHANGED <<status, step, recv, data, temp>>

(* The thread calls rt.next->Send on the step's chunk.                      *)
BeginSend(r) ==
  /\ Running(r) /\ sender[r] = "new"
  /\ sender' = [sender EXCEPT ![r] = "sending"]
  /\ LET c == SendChunk(r, step[r])
     IN  stream' = [stream EXCEPT ![r][sent[r]] = Message(c, data[r][c])]
  /\ sent' = [sent EXCEPT ![r] = @ + 1]
  /\ UNCHANGED <<status, step, recv, data, temp>>

(* Send returns, true or false alike: what it wrote fits the buffers, or    *)
(* the next rank is gone.                                                   *)
EndSend(r) ==
  /\ Running(r) /\ sender[r] = "sending"
  /\ ~Open(NextRank(r)) \/ sent[r] - Received(NextRank(r)) <= Cap
  /\ sender' = [sender EXCEPT ![r] = "ended"]
  /\ UNCHANGED <<status, step, recv, data, temp, sent, stream>>

(* rt.prev->Recv into temp_buffer in the first phase, into the vector       *)
(* itself in the second.                                                    *)
RecvOk(r) ==
  /\ Running(r) /\ recv[r] = "wait" /\ step[r] < sent[PrevRank(r)]
  /\ recv' = [recv EXCEPT ![r] = "ok"]
  /\ LET v == stream[PrevRank(r)][step[r]].val
     IN  IF step[r] < N - 1
         THEN temp' = [temp EXCEPT ![r] = v] /\ UNCHANGED data
         ELSE data' = [data EXCEPT ![r][RecvChunk(r, step[r])] = v] /\ UNCHANGED temp
  /\ UNCHANGED <<status, step, sender, sent, stream>>

RecvFailAsOk(r) ==                        \* mutant: end of file taken for data
  /\ Running(r) /\ recv[r] = "wait"
  /\ ~Open(PrevRank(r)) /\ step[r] >= sent[PrevRank(r)]
  /\ recv' = [recv EXCEPT ![r] = "ok"]
  /\ UNCHANGED <<status, step, sender, data, temp, sent, stream>>

RecvFail(r) ==
  /\ Running(r) /\ recv[r] = "wait"
  /\ ~Open(PrevRank(r)) /\ step[r] >= sent[PrevRank(r)]
  /\ recv' = [recv EXCEPT ![r] = "failed"]
  /\ UNCHANGED <<status, step, sender, data, temp, sent, stream>>

JoinOkAlwaysReduce(r) ==                  \* mutant: the all-gather reduces too
  /\ Running(r) /\ recv[r] = "ok" /\ sender[r] = "ended"
  /\ step' = [step EXCEPT ![r] = @ + 1]
  /\ data' = [data EXCEPT ![r][RecvChunk(r, step[r])] = Plus(@, temp[r])]
  /\ recv' = [recv EXCEPT ![r] = "wait"]
  /\ IF step[r] + 1 = Steps
     THEN status' = [status EXCEPT ![r] = "true"] /\ UNCHANGED sender
     ELSE sender' = [sender EXCEPT ![r] = "new"] /\ UNCHANGED status
  /\ UNCHANGED <<temp, sent, stream>>

JoinOkNoRecv(r) ==                        \* mutant: does not wait for the Recv
  /\ Running(r) /\ sender[r] = "ended"
  /\ step' = [step EXCEPT ![r] = @ + 1]
  /\ UNCHANGED data
  /\ recv' = [recv EXCEPT ![r] = "wait"]
  /\ IF step[r] + 1 = Steps
     THEN status' = [status EXCEPT ![r] = "true"] /\ UNCHANGED sender
     ELSE sender' = [sender EXCEPT ![r] = "new"] /\ UNCHANGED status
  /\ UNCHANGED <<temp, sent, stream>>

(* send_thread.join() after a Recv that succeeded; then PerformReduce in    *)
(* the first phase, and the next step or the end of the call.               *)
JoinOk(r) ==
  /\ Running(r) /\ recv[r] = "ok" /\ sender[r] = "ended"
  /\ step' = [step EXCEPT ![r] = @ + 1]
  /\ data' = IF step[r] < N - 1
             THEN [data EXCEPT ![r][RecvChunk(r, step[r])] = Plus(@, temp[r])]
             ELSE data
  /\ recv' = [recv EXCEPT ![r] = "wait"]
  /\ IF step[r] + 1 = Steps
     THEN status' = [status EXCEPT ![r] = "true"] /\ UNCHANGED sender
     ELSE sender' = [sender EXCEPT ![r] = "new"] /\ UNCHANGED status
  /\ UNCHANGED <<temp, sent, stream>>

(* The sockets of r close: a suffix of what the next rank has not yet read  *)
(* may be lost.                                                             *)
Close(r) == \E kept \in 0 .. sent[r] :
  /\ Received(NextRank(r)) <= kept \/ kept = sent[r]
  /\ sent' = [sent EXCEPT ![r] = kept]

(* join after a Recv that failed; AllReduce returns false and the caller    *)
(* finalizes the communicator.                                              *)
JoinFailed(r) ==
  /\ Running(r) /\ recv[r] = "failed" /\ sender[r] = "ended"
  /\ status' = [status EXCEPT ![r] = "false"]
  /\ Close(r)
  /\ UNCHANGED <<step, sender, recv, data, temp, stream>>

Die(r) ==
  /\ Open(r) /\ Cardinality({q \in Ranks : status[q] = "dead"}) < MaxDeaths
  /\ status' = [status EXCEPT ![r] = "dead"]
  /\ Close(r)
  /\ UNCHANGED <<step, sender, recv, data, temp, stream>>

(* Nothing handles SIGPIPE: writing to a rank that is gone may end the      *)
(* process.                                                                 *)
BrokenPipe(r) ==
  /\ Running(r) /\ sender[r] = "sending" /\ ~Open(NextRank(r))
  /\ status' = [status EXCEPT ![r] = "dead"]
  /\ Close(r)
  /\ UNCHANGED <<step, sender, recv, data, temp, stream>>

RankStep(r) == BeginSend(r) \/ EndSend(r) \/ RecvOk(r) \/ RecvFail(r)
               \/ JoinOk(r) \/ JoinFailed(r)

Over == \A r \in Ranks : ~Running(r)

Next == \E r \in Ranks : RankStep(r) \/ Die(r) \/ BrokenPipe(r)

(* A stream may buffer up to Cap messages but need not: a Send is only sure *)
(* to return once all was read or the next rank is gone.                    *)
SureStep(r) ==
  \/ BeginSend(r) \/ RecvOk(r) \/ RecvFail(r) \/ JoinOk(r) \/ JoinFailed(r)
  \/ EndSend(r) /\ (~Open(NextRank(r)) \/ sent[r] = Received(NextRank(r)))

(* The sender and the main thread of a live rank run when they can.         *)
Fairness == \A r \in Ranks : WF_vars(SureStep(r))
Spec == Init /\ [][Next]_vars /\ Fairness
-----------------------------------------------------------------------------
Counts == [Ranks -> Nat]
Messages == [chunk : Ranks, val : Counts]

TypeOK ==
  /\ status \in [Ranks -> {"running", "true", "false", "dead"}]
  /\ step \in [Ranks -> 0 .. Steps]
  /\ sender \in [Ranks -> {"new", "sending", "ended"}]
  /\ recv \in [Ranks -> {"wait", "ok", "failed"}]
  /\ data \in [Ranks -> [Ranks -> Counts]]
  /\ temp \in [Ranks -> Counts]
  /\ sent \in [Ranks -> 0 .. Steps]
  /\ stream \in [Ranks -> [0 .. (Steps - 1) -> Messages]]

(* An AllReduce that returns true has every rank's operand exactly once in  *)
(* every chunk, whichever other ranks died and although failed Sends go     *)
(* unnoticed.                                                               *)
TrueMeansReduced ==
  \A r, c, q \in Ranks : status[r] = "true" => data[r][c][q] = 1

(* No chunk ever holds an operand twice: no step re-reduces what an earlier *)
(* step, or the other phase, has already put there.                         *)
NoDoubleCount == \A r, c, q \in Ranks : data[r][c][q] <= 1

(* The message a Recv reads is the chunk the step stores it as: the two     *)
(* ends compute their chunk indices apart.                                  *)
ChunksAgree ==
  \A r \in Ranks :
    Running(r) /\ recv[r] = "wait" /\ step[r] < sent[PrevRank(r)] =>
      stream[PrevRank(r)][step[r]].chunk = RecvChunk(r, step[r])

(* While a sender thread is in Send, the main thread does not write the     *)
(* chunk being sent: the two threads of a rank share the vector unlocked.   *)
SendBufferStable ==
  [][\A r \in Ranks : sender[r] = "sending" =>
       LET c == SendChunk(r, step[r]) IN data'[r][c] = data[r][c]]_vars

(* However fast the ranks run, a stream holds at most N messages.           *)
Backlog ==
  \A r \in Ranks : Open(NextRank(r)) => sent[r] - Received(NextRank(r)) <= N

(* Every rank returns or is dead: the ring of blocking Sends and Recvs does *)
(* not deadlock, and a death is noticed all around.                         *)
Termination == <>Over
-----------------------------------------------------------------------------
(* The inductive invariant.                                                 *)

(* Hops downstream from rank c to rank r.  Chunk c starts at rank c and     *)
(* gathers the operands of the ranks it passes.                             *)
Dist(r, c) == (r - c + N) % N

(* What chunk c at rank r holds when r has completed k steps: every operand *)
(* once the second phase has brought it round, those of the ranks from c to *)
(* r once the first phase has, r's own alone before.                        *)
Content(r, c, k) ==
  [q \in Ranks |->
     IF \/ Dist(r, c) < k - (N - 1)
        \/ Dist(r, c) <= k /\ Dist(q, c) <= Dist(r, c)
        \/ Dist(r, c) > k /\ q = r
     THEN 1 ELSE 0]

(* A Recv of the second phase writes the vector before the step ends.       *)
DataStep(r) == IF step[r] < N - 1 THEN step[r] ELSE Received(r)

CountersInv ==
  \A r \in Ranks :
    /\ sent[r] <= step[r] + 1
    /\ Running(r) => /\ step[r] < Steps
                     /\ sent[r] = IF sender[r] = "new" THEN step[r] ELSE step[r] + 1
    /\ status[r] = "true" => step[r] = Steps

StreamsInv ==
  \A r \in Ranks : \A i \in 0 .. (Steps - 1) : i < sent[r] =>
    LET c == SendChunk(r, i) IN stream[r][i] = Message(c, Content(r, c, i))

DataInv == \A r, c \in Ranks : data[r][c] = Content(r, c, DataStep(r))

TempInv ==
  \A r \in Ranks : step[r] < N - 1 /\ recv[r] = "ok" =>
    temp[r] = Content(PrevRank(r), RecvChunk(r, step[r]), step[r])

IInv == TypeOK /\ CountersInv /\ StreamsInv /\ DataInv /\ TempInv

(* A rank is ahead of another by no more than the hops between them, since  *)
(* each step needs a message of the previous rank's step.                   *)
LeadInv ==
  \A p, q \in Ranks : p # q => Received(q) <= step[p] + Dist(q, p)
=============================================================================
