---------------------------- MODULE RingBarrier ----------------------------
(* TopologyRing::Barrier, called again and again: each call sends a token   *)
(* twice around the ring, from rank 0.  A link is told by what its two ends *)
(* have sent and read: the tokens themselves are all alike (`dummy`).       *)
EXTENDS BarrierCalls

PrevRank(r) == (r - 1 + N) % N

VARIABLES sent,       \* sent[r]: tokens r has sent to the next rank
          got         \* got[r]: tokens r has received from the previous one

vars == <<calls, returned, sent, got>>

Init ==
  /\ calls = [r \in Ranks |-> 0]
  /\ returned = [r \in Ranks |-> 0]
  /\ sent = [r \in Ranks |-> 0]
  /\ got = [r \in Ranks |-> 0]

Call(r) ==
  /\ ~Inside(r) /\ calls[r] < Rounds
  /\ calls' = [calls EXCEPT ![r] = @ + 1]
  /\ UNCHANGED <<returned, sent, got>>

SendsAtOnce(r) == sent[r] = got[r]            \* mutant: no rank waits for rank 0

(* Rank 0 sends and then receives, twice; the others receive, then send.    *)
SendsNext(r) == IF r = 0 THEN sent[r] = got[r] ELSE got[r] = sent[r] + 1
RecvsNext(r) == IF r = 0 THEN sent[r] = got[r] + 1 ELSE got[r] = sent[r]

SendToken(r) ==
  /\ Inside(r) /\ SendsNext(r) /\ sent[r] < 2 * calls[r]
  /\ sent' = [sent EXCEPT ![r] = @ + 1]
  /\ UNCHANGED <<calls, returned, got>>

RecvToken(r) ==
  /\ Inside(r) /\ RecvsNext(r) /\ got[r] < 2 * calls[r]
  /\ got[r] < sent[PrevRank(r)]
  /\ got' = [got EXCEPT ![r] = @ + 1]
  /\ UNCHANGED <<calls, returned, sent>>

ReturnAfterOneLap(r) ==                       \* mutant: the second ring dropped
  /\ Inside(r) /\ sent[r] = 2 * calls[r] - 1 /\ got[r] = 2 * calls[r] - 1
  /\ returned' = [returned EXCEPT ![r] = calls[r]]
  /\ UNCHANGED <<calls, sent, got>>

Return(r) ==
  /\ Inside(r) /\ sent[r] = 2 * calls[r] /\ got[r] = 2 * calls[r]
  /\ returned' = [returned EXCEPT ![r] = calls[r]]
  /\ UNCHANGED <<calls, sent, got>>

RankStep(r) == Call(r) \/ SendToken(r) \/ RecvToken(r) \/ Return(r)

Next == \E r \in Ranks : RankStep(r)

Fairness == \A r \in Ranks : WF_vars(RankStep(r))
Spec == Init /\ [][Next]_vars /\ Fairness
-----------------------------------------------------------------------------
TypeOK ==
  /\ calls \in [Ranks -> Nat] /\ returned \in [Ranks -> Nat]
  /\ sent \in [Ranks -> Nat] /\ got \in [Ranks -> Nat]

(* There is one token on the ring at most: the rank that waits for the      *)
(* first token of a call cannot be handed the second, nor the next call's.  *)
OneToken ==
  \A p, q \in Ranks :
    p # q => ~(got[p] < sent[PrevRank(p)] /\ got[q] < sent[PrevRank(q)])

-----------------------------------------------------------------------------
(* The inductive invariant: in ring order from rank 0 no rank has sent or   *)
(* received more than the ranks before it have sent; rank 0 is one ahead of *)
(* itself at most.                                                          *)
CallInv ==
  \A r \in Ranks :
    /\ returned[r] = calls[r] \/ calls[r] = returned[r] + 1
    /\ sent[r] <= 2 * calls[r] /\ got[r] <= 2 * calls[r]
    /\ sent[r] >= 2 * returned[r] /\ got[r] >= 2 * returned[r]
RingInv ==
  /\ sent[0] = got[0] \/ sent[0] = got[0] + 1
  /\ \A r \in Ranks : r # 0 => got[r] = sent[r] \/ got[r] = sent[r] + 1
  /\ got[0] <= sent[N - 1]
  /\ \A p, q \in Ranks : p < q => got[q] <= sent[p]

IInv == TypeOK /\ CallInv /\ RingInv
=============================================================================
