---------------------------- MODULE MeshBarrier ----------------------------
(* TopologyFullMesh::Barrier, called again and again: rank 0 hears from     *)
(* every other rank in rank order, then answers each in the same order.     *)
EXTENDS BarrierCalls

Others == 1 .. (N - 1)

VARIABLES hello,      \* hello[p]: tokens p has sent to rank 0
          heard,      \* heard[p]: those rank 0 has received
          answered,   \* answered[p]: acks rank 0 has sent to p
          acked       \* acked[p]: those p has received

vars == <<calls, returned, hello, heard, answered, acked>>

Init ==
  /\ calls = [r \in Ranks |-> 0] /\ returned = [r \in Ranks |-> 0]
  /\ hello = [p \in Others |-> 0] /\ heard = [p \in Others |-> 0]
  /\ answered = [p \in Others |-> 0] /\ acked = [p \in Others |-> 0]

Call(r) ==
  /\ ~Inside(r) /\ calls[r] < Rounds
  /\ calls' = [calls EXCEPT ![r] = @ + 1]
  /\ UNCHANGED <<returned, hello, heard, answered, acked>>

(* A rank other than 0: Send, then Recv.                                    *)
SayHello(p) ==
  /\ Inside(p) /\ hello[p] < calls[p]
  /\ hello' = [hello EXCEPT ![p] = @ + 1]
  /\ UNCHANGED <<calls, returned, heard, answered, acked>>

TakeAck(p) ==
  /\ Inside(p) /\ hello[p] = calls[p] /\ acked[p] < answered[p]
  /\ acked' = [acked EXCEPT ![p] = @ + 1]
  /\ returned' = [returned EXCEPT ![p] = calls[p]]
  /\ UNCHANGED <<calls, hello, heard, answered>>

(* Rank 0: one loop over the peers that receives, a second that sends.      *)
Hear(p) ==
  /\ Inside(0) /\ heard[p] < calls[0]
  /\ \A q \in Others : q < p => heard[q] = calls[0]
  /\ heard[p] < hello[p]
  /\ heard' = [heard EXCEPT ![p] = @ + 1]
  /\ UNCHANGED <<calls, returned, hello, answered, acked>>

AnswerAtOnce(p) ==                        \* mutant: answers in the first loop
  /\ Inside(0) /\ heard[p] = calls[0] /\ answered[p] < calls[0]
  /\ answered' = [answered EXCEPT ![p] = @ + 1]
  /\ returned' = IF p = N - 1 THEN [returned EXCEPT ![0] = calls[0]] ELSE returned
  /\ UNCHANGED <<calls, hello, heard, acked>>

AnswerUnheard(p) ==                       \* mutant: the first loop dropped
  /\ Inside(0) /\ answered[p] < calls[0]
  /\ \A q \in Others : q < p => answered[q] = calls[0]
  /\ answered' = [answered EXCEPT ![p] = @ + 1]
  /\ returned' = IF p = N - 1 THEN [returned EXCEPT ![0] = calls[0]] ELSE returned
  /\ UNCHANGED <<calls, hello, heard, acked>>

AnswerAllButLast(p) ==                    \* mutant: peer < world_size - 1
  /\ Inside(0) /\ answered[p] < calls[0] /\ p < N - 1
  /\ \A q \in Others : heard[q] = calls[0]
  /\ \A q \in Others : q < p => answered[q] = calls[0]
  /\ answered' = [answered EXCEPT ![p] = @ + 1]
  /\ returned' = IF p = N - 2 THEN [returned EXCEPT ![0] = calls[0]] ELSE returned
  /\ UNCHANGED <<calls, hello, heard, acked>>

Answer(p) ==
  /\ Inside(0) /\ answered[p] < calls[0]
  /\ \A q \in Others : heard[q] = calls[0]
  /\ \A q \in Others : q < p => answered[q] = calls[0]
  /\ answered' = [answered EXCEPT ![p] = @ + 1]
  /\ returned' = IF p = N - 1 THEN [returned EXCEPT ![0] = calls[0]] ELSE returned
  /\ UNCHANGED <<calls, hello, heard, acked>>

RootStep == Call(0) \/ (\E p \in Others : Hear(p) \/ Answer(p))
PeerStep(p) == Call(p) \/ SayHello(p) \/ TakeAck(p)

Next == RootStep \/ (\E p \in Others : PeerStep(p))

Fairness == WF_vars(RootStep) /\ \A p \in Others : WF_vars(PeerStep(p))
Spec == Init /\ [][Next]_vars /\ Fairness
-----------------------------------------------------------------------------
TypeOK ==
  /\ calls \in [Ranks -> Nat] /\ returned \in [Ranks -> Nat]
  /\ hello \in [Others -> Nat] /\ heard \in [Others -> Nat]
  /\ answered \in [Others -> Nat] /\ acked \in [Others -> Nat]

(* A call's acknowledgement is taken by the same call: a rank never returns *)
(* on what rank 0 sent it for an earlier Barrier.                           *)
AckOfThisCall ==
  \A p \in Others : acked[p] < answered[p] => /\ Inside(p)
                                             /\ answered[p] = calls[p]

-----------------------------------------------------------------------------
(* The inductive invariant: the counters of each pair never pass one        *)
(* another, and rank 0 answers no one before it has heard from all.         *)
CallInv ==
  \A r \in Ranks : returned[r] = calls[r] \/ calls[r] = returned[r] + 1
PairInv ==
  \A p \in Others :
    /\ acked[p] = returned[p]
    /\ returned[p] <= hello[p] /\ hello[p] <= calls[p]
    /\ acked[p] <= answered[p] /\ answered[p] <= heard[p] /\ heard[p] <= hello[p]
    /\ returned[0] <= answered[p] /\ heard[p] <= calls[0]
    /\ answered[p] > returned[0] => \A q \in Others : heard[q] = calls[0]

IInv == TypeOK /\ CallInv /\ PairInv
=============================================================================
