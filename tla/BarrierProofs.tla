---------------------------- MODULE BarrierProofs ----------------------------
(* The barriers of both topologies are barriers, for every N >= 2 and any   *)
(* number of calls: first the ring's, then the full mesh's, then the two    *)
(* side by side as the runs check them.                                     *)
EXTENDS MCBarriers, TLAPS

-----------------------------------------------------------------------------
(* Who the previous rank is.                                                *)
LEMMA PrevFacts ==
  /\ 0 \in Ranks /\ (N - 1) \in Ranks
  /\ PrevRank(0) = N - 1
  /\ \A r \in Ranks : r # 0 => PrevRank(r) = r - 1 /\ (r - 1) \in Ranks
BY BarrierAssumption DEF Ranks, PrevRank

(* The counters around the ring, in order: rank 0's are at most one ahead   *)
(* of the last rank's.                                                      *)
LEMMA Chain ==
  ASSUME IInv
  PROVE  /\ \A r \in Ranks : /\ sent[r] \in Nat /\ got[r] \in Nat
                             /\ calls[r] \in Nat /\ returned[r] \in Nat
         /\ \A r \in Ranks : r # 0 => sent[r] <= got[r]
         /\ \A r \in Ranks : sent[N - 1] <= sent[r] /\ sent[r] <= sent[0]
         /\ sent[0] <= got[0] + 1 /\ got[0] <= sent[N - 1]
<1>1. \A r \in Ranks : /\ sent[r] \in Nat /\ got[r] \in Nat
                       /\ calls[r] \in Nat /\ returned[r] \in Nat
  BY DEF IInv, TypeOK
<1>2. \A r \in Ranks : r # 0 => sent[r] <= got[r]
  BY <1>1 DEF IInv, RingInv
<1>3. ASSUME NEW r \in Ranks
      PROVE  sent[N - 1] <= sent[r] /\ sent[r] <= sent[0]
  <2>1. N - 1 # 0 /\ (r = N - 1 \/ r < N - 1) /\ (r = 0 \/ 0 < r)
    BY BarrierAssumption DEF Ranks
  <2>2. r < N - 1 => got[N - 1] <= sent[r]
    BY PrevFacts DEF IInv, RingInv
  <2>3. 0 < r => got[r] <= sent[0]
    BY PrevFacts DEF IInv, RingInv
  <2>4. QED
    BY <1>1, <1>2, <2>1, <2>2, <2>3, PrevFacts, BarrierAssumption
<1>4. sent[0] <= got[0] + 1 /\ got[0] <= sent[N - 1]
  BY <1>1, PrevFacts DEF IInv, RingInv
<1>5. QED
  BY <1>1, <1>2, <1>3, <1>4

-----------------------------------------------------------------------------
(* No call has sent or received anything yet.                               *)
LEMMA RingInit == Init => IInv
BY PrevFacts DEF Init, IInv, TypeOK, CallInv, RingInv

LEMMA RingCallKeeps ==
  ASSUME IInv, NEW r \in Ranks, Call(r)
  PROVE  IInv'
<1>1. TypeOK'
  BY DEF IInv, TypeOK, Call
<1>2. CallInv'
  BY DEF IInv, TypeOK, CallInv, Call, Inside
<1>3. RingInv'
  BY DEF IInv, RingInv, Call
<1>4. QED
  BY <1>1, <1>2, <1>3 DEF IInv

LEMMA RingSendKeeps ==
  ASSUME IInv, NEW r \in Ranks, SendToken(r)
  PROVE  IInv'
<1>1. /\ TypeOK
      /\ sent' = [sent EXCEPT ![r] = @ + 1]
      /\ got' = got /\ calls' = calls /\ returned' = returned
  BY DEF IInv, SendToken
<1>2. TypeOK'
  BY <1>1 DEF TypeOK
<1>3. \A q \in Ranks : /\ sent[q] \in Nat /\ got[q] \in Nat
                       /\ sent'[q] = IF q = r THEN sent[q] + 1 ELSE sent[q]
  BY <1>1 DEF TypeOK
<1>4. CallInv'
  <2>1. sent[r] + 1 <= 2 * calls[r]
    BY <1>1, <1>3 DEF SendToken, TypeOK
  <2>2. QED
    BY <1>1, <1>3, <2>1 DEF IInv, TypeOK, CallInv
<1>5. RingInv'
  <2>1. sent'[0] = got[0] \/ sent'[0] = got[0] + 1
    BY <1>3, PrevFacts DEF IInv, RingInv, SendToken, SendsNext
  <2>2. \A q \in Ranks : q # 0 => got[q] = sent'[q] \/ got[q] = sent'[q] + 1
    BY <1>3 DEF IInv, RingInv, SendToken, SendsNext
  <2>3. got[0] <= sent'[N - 1]
    BY <1>3, PrevFacts DEF IInv, RingInv
  <2>4. \A p, q \in Ranks : p < q => got[q] <= sent'[p]
    BY <1>3 DEF IInv, RingInv
  <2>5. QED
    BY <1>1, <2>1, <2>2, <2>3, <2>4 DEF RingInv
<1>6. QED
  BY <1>2, <1>4, <1>5 DEF IInv

(* A token received is one that every rank before the receiver has sent.    *)
LEMMA RingRecvKeeps ==
  ASSUME IInv, NEW r \in Ranks, RecvToken(r)
  PROVE  IInv'
<1>1. /\ TypeOK
      /\ got' = [got EXCEPT ![r] = @ + 1]
      /\ sent' = sent /\ calls' = calls /\ returned' = returned
  BY DEF IInv, RecvToken
<1>2. TypeOK'
  BY <1>1 DEF TypeOK
<1>3. \A q \in Ranks : /\ sent[q] \in Nat /\ got[q] \in Nat
                       /\ got'[q] = IF q = r THEN got[q] + 1 ELSE got[q]
  BY <1>1 DEF TypeOK
<1>4. CallInv'
  <2>1. got[r] + 1 <= 2 * calls[r]
    BY <1>1, <1>3 DEF RecvToken, TypeOK
  <2>2. QED
    BY <1>1, <1>3, <2>1 DEF IInv, TypeOK, CallInv
<1>5. RingInv'
  <2>1. sent[0] = got'[0] \/ sent[0] = got'[0] + 1
    BY <1>3, PrevFacts DEF IInv, RingInv, RecvToken, RecvsNext
  <2>2. \A q \in Ranks : q # 0 => got'[q] = sent[q] \/ got'[q] = sent[q] + 1
    BY <1>3 DEF IInv, RingInv, RecvToken, RecvsNext
  <2>3. got'[0] <= sent[N - 1]
    BY <1>3, PrevFacts DEF IInv, RingInv, RecvToken
  <2>4. ASSUME NEW p \in Ranks, NEW q \in Ranks, p < q
        PROVE  got'[q] <= sent[p]
    <3>1. CASE q # r
      BY <1>3, <2>4, <3>1 DEF IInv, RingInv
    <3>2. CASE q = r
      <4>1. r # 0 /\ PrevRank(r) = r - 1 /\ (r - 1) \in Ranks
        BY <2>4, <3>2, PrevFacts DEF Ranks
      <4>2. got[r] + 1 <= sent[r - 1]
        BY <1>3, <4>1 DEF RecvToken
      <4>3. sent[r - 1] <= sent[p]
        <5>1. CASE p = r - 1
          BY <1>3, <5>1
        <5>2. CASE p # r - 1
          <6>1. p < r - 1 /\ r - 1 # 0
            BY <2>4, <3>2, <5>2 DEF Ranks
          <6>2. got[r - 1] <= sent[p]
            BY <4>1, <6>1 DEF IInv, RingInv
          <6>3. sent[r - 1] <= got[r - 1]
            BY <4>1, <6>1, Chain
          <6>4. QED
            BY <1>3, <4>1, <6>2, <6>3
        <5>3. QED
          BY <5>1, <5>2
      <4>4. QED
        BY <1>3, <3>2, <4>1, <4>2, <4>3
    <3>3. QED
      BY <3>1, <3>2
  <2>5. QED
    BY <1>1, <2>1, <2>2, <2>3, <2>4 DEF RingInv
<1>6. QED
  BY <1>2, <1>4, <1>5 DEF IInv

LEMMA RingReturnKeeps ==
  ASSUME IInv, NEW r \in Ranks, Return(r)
  PROVE  IInv'
<1>1. TypeOK'
  BY DEF IInv, TypeOK, Return
<1>2. CallInv'
  BY DEF IInv, TypeOK, CallInv, Return
<1>3. RingInv'
  BY DEF IInv, RingInv, Return
<1>4. QED
  BY <1>1, <1>2, <1>3 DEF IInv

LEMMA RingStep == IInv /\ [Next]_vars => IInv'
<1> SUFFICES ASSUME IInv, [Next]_vars PROVE IInv'
  OBVIOUS
<1>1. ASSUME NEW r \in Ranks, RankStep(r) PROVE IInv'
  BY <1>1, RingCallKeeps, RingSendKeeps, RingRecvKeeps, RingReturnKeeps DEF RankStep
<1>2. CASE UNCHANGED vars
  BY <1>2 DEF vars, IInv, TypeOK, CallInv, RingInv
<1>3. QED
  BY <1>1, <1>2 DEF Next

(* The inductive invariant of TopologyRing::Barrier.                        *)
THEOREM RingInvariance == Spec => []IInv
<1>1. QED
  BY RingInit, RingStep, PTL DEF Spec

(* The variables keep their types.                                          *)
THEOREM RingTypeCorrect == Spec => []TypeOK
<1>1. IInv => TypeOK
  BY DEF IInv
<1>2. QED
  BY RingInvariance, <1>1, PTL

-----------------------------------------------------------------------------
(* Two ranks cannot both have a token waiting.                              *)
LEMMA RingOneToken == IInv => OneToken
<1>1. ASSUME IInv, NEW p \in Ranks, NEW q \in Ranks, p < q
      PROVE  ~(got[p] < sent[PrevRank(p)] /\ got[q] < sent[PrevRank(q)])
  <2> SUFFICES ASSUME got[p] < sent[PrevRank(p)], got[q] < sent[PrevRank(q)]
               PROVE  FALSE
    OBVIOUS
  <2>1. \A r \in Ranks : sent[r] \in Nat /\ got[r] \in Nat
    BY <1>1, Chain
  <2>2. q # 0 /\ PrevRank(q) = q - 1 /\ (q - 1) \in Ranks
    BY <1>1, PrevFacts DEF Ranks
  <2>3. sent[N - 1] <= sent[q] /\ sent[q] <= got[q]
    BY <1>1, <2>2, Chain
  <2>4. sent[0] <= sent[N - 1] + 1
    BY <1>1, <2>1, PrevFacts, Chain, BarrierAssumption
  <2>5. sent[q - 1] <= sent[0]
    BY <1>1, <2>2, Chain
  <2>6. CASE p = 0
    BY <2>1, <2>2, <2>3, <2>4, <2>5, <2>6, <1>1, PrevFacts, Chain,
       BarrierAssumption
  <2>7. CASE p # 0
    <3>1. PrevRank(p) = p - 1 /\ (p - 1) \in Ranks /\ sent[p - 1] <= sent[0]
      BY <1>1, <2>7, PrevFacts, Chain
    <3>2. sent[q - 1] <= got[p]
      <4>1. CASE p = q - 1
        BY <1>1, <2>7, <4>1, Chain
      <4>2. CASE p # q - 1
        <5>1. p < q - 1 /\ q - 1 # 0
          BY <1>1, <4>2 DEF Ranks
        <5>2. got[q - 1] <= sent[p] /\ sent[q - 1] <= got[q - 1] /\ sent[p] <= got[p]
          BY <1>1, <2>2, <2>7, <5>1, Chain DEF IInv, RingInv
        <5>3. QED
          BY <2>1, <2>2, <5>2
      <4>3. QED
        BY <4>1, <4>2
    <3>3. QED
      BY <2>1, <2>2, <2>3, <2>4, <3>1, <3>2, PrevFacts, BarrierAssumption
  <2>8. QED
    BY <2>6, <2>7
<1>2. QED
  <2> SUFFICES ASSUME IInv, NEW p \in Ranks, NEW q \in Ranks, p # q
               PROVE  ~(got[p] < sent[PrevRank(p)] /\ got[q] < sent[PrevRank(q)])
    BY DEF OneToken
  <2>1. p < q \/ q < p
    BY DEF Ranks
  <2>2. QED
    BY <1>1, <2>1

(* Two tokens are never on the ring together: a Recv of TopologyRing's      *)
(* Barrier cannot take a token of the other lap or of another call.         *)
THEOREM RingOneTokenCorrect == Spec => []OneToken
<1>1. QED
  BY RingInvariance, RingOneToken, PTL

-----------------------------------------------------------------------------
(* A rank returns only after the token has been round once: by then every   *)
(* rank has begun the same call.                                            *)
LEMMA ReturnIsLeave ==
  ASSUME IInv, NEW r \in Ranks, Return(r)
  PROVE  Abstract!Leave(r)
<1>1. \A q \in Ranks : sent[q] \in Nat /\ got[q] \in Nat /\ calls[q] \in Nat
  BY Chain
<1>2. got[r] = 2 * calls[r]
  BY DEF Return
<1>3. got[r] <= sent[N - 1] + 1
  <2>1. CASE r = 0
    BY <1>1, <2>1, PrevFacts, Chain, BarrierAssumption
  <2>2. CASE r # 0
    <3>1. got[r] <= sent[0]
      BY <2>2, PrevFacts DEF IInv, RingInv, Ranks
    <3>2. QED
      BY <1>1, <3>1, PrevFacts, Chain, BarrierAssumption
  <2>3. QED
    BY <2>1, <2>2
<1>4. ASSUME NEW q \in Ranks
      PROVE  calls[q] >= calls[r]
  <2>1. sent[N - 1] <= sent[q] /\ sent[q] <= 2 * calls[q]
    BY Chain DEF IInv, CallInv
  <2>2. 2 * calls[r] <= 2 * calls[q] + 1
    BY <1>1, <1>2, <1>3, <2>1, PrevFacts, BarrierAssumption
  <2>3. QED
    BY <1>1, <2>2
<1>5. QED
  BY <1>4 DEF Return, Inside, Abstract!Leave, Abstract!Ranks, Ranks

(* A step of TopologyRing::Barrier enters, leaves, or shows nothing to the  *)
(* caller.                                                                  *)
LEMMA RingRefines == IInv /\ [Next]_vars => [Abstract!Next]_<<calls, returned>>
<1> SUFFICES ASSUME IInv, [Next]_vars
             PROVE  [Abstract!Next]_<<calls, returned>>
  OBVIOUS
<1>1. ASSUME NEW r \in Ranks, Call(r)
      PROVE  Abstract!Enter(r)
  BY <1>1 DEF IInv, TypeOK, CallInv, Call, Inside, Abstract!Enter
<1>2. ASSUME NEW r \in Ranks, Return(r)
      PROVE  Abstract!Leave(r)
  BY <1>2, ReturnIsLeave
<1>3. ASSUME NEW r \in Ranks, SendToken(r) \/ RecvToken(r)
      PROVE  UNCHANGED <<calls, returned>>
  BY <1>3 DEF SendToken, RecvToken
<1>4. Ranks = Abstract!Ranks
  BY DEF Ranks, Abstract!Ranks
<1>5. QED
  BY <1>1, <1>2, <1>3, <1>4 DEF Next, RankStep, vars, Abstract!Next

(* TopologyRing::Barrier implements the abstract barrier.                   *)
THEOREM RingRefinement == Spec => RefinesBarrier
<1>1. Init => Abstract!Init
  BY DEF Init, Abstract!Init, Abstract!Ranks, Ranks
<1>2. QED
  BY <1>1, RingRefines, RingInvariance, PTL DEF Spec, RefinesBarrier, Abstract!Spec

-----------------------------------------------------------------------------
(* Rank 0 and the others make up the ranks.                                 *)
LEMMA MeshRankFacts ==
  /\ 0 \in Mesh!Ranks /\ 0 \notin Mesh!Others
  /\ Mesh!Others \subseteq Mesh!Ranks /\ (N - 1) \in Mesh!Others
  /\ \A r \in Mesh!Ranks : r = 0 \/ r \in Mesh!Others
BY BarrierAssumption DEF Mesh!Ranks, Mesh!Others

(* Nothing has been sent or received yet.                                   *)
LEMMA MeshInit == Mesh!Init => Mesh!IInv
BY MeshRankFacts DEF Mesh!Init, Mesh!IInv, Mesh!TypeOK, Mesh!CallInv, Mesh!PairInv

(* Rank 0 begins a call only after it has answered everybody in the last.   *)
LEMMA MeshCallKeeps ==
  ASSUME Mesh!IInv, NEW r \in Mesh!Ranks, Mesh!Call(r)
  PROVE  Mesh!IInv'
<1>1. Mesh!TypeOK'
  BY DEF Mesh!IInv, Mesh!TypeOK, Mesh!Call
<1>2. Mesh!CallInv'
  BY DEF Mesh!IInv, Mesh!TypeOK, Mesh!CallInv, Mesh!Call, Mesh!Inside
<1>3. Mesh!PairInv'
  <2>1. \A q \in Mesh!Ranks : /\ calls[q] \in Nat
                         /\ calls'[q] = IF q = r THEN calls[q] + 1 ELSE calls[q]
    BY DEF Mesh!IInv, Mesh!TypeOK, Mesh!Call
  <2>2. /\ returned' = returned /\ hello' = hello /\ heard' = heard
        /\ answered' = answered /\ acked' = acked
    BY DEF Mesh!Call
  <2>3. ASSUME r = 0, NEW p \in Mesh!Others
        PROVE  answered[p] <= returned[0]
    BY <2>1, <2>3, MeshRankFacts DEF Mesh!IInv, Mesh!TypeOK, Mesh!CallInv, Mesh!PairInv, Mesh!Call, Mesh!Inside
  <2>4. ASSUME NEW p \in Mesh!Others
        PROVE  /\ hello[p] <= calls'[p]
               /\ heard[p] <= calls'[0]
               /\ answered[p] > returned[0] => \A q \in Mesh!Others : heard[q] = calls'[0]
    BY <2>1, <2>3, MeshRankFacts DEF Mesh!IInv, Mesh!TypeOK, Mesh!PairInv
  <2>5. QED
    BY <2>2, <2>4 DEF Mesh!IInv, Mesh!PairInv
<1>4. QED
  BY <1>1, <1>2, <1>3 DEF Mesh!IInv

LEMMA MeshSayHelloKeeps ==
  ASSUME Mesh!IInv, NEW p \in Mesh!Others, Mesh!SayHello(p)
  PROVE  Mesh!IInv'
<1>1. Mesh!TypeOK'
  BY DEF Mesh!IInv, Mesh!TypeOK, Mesh!SayHello
<1>2. Mesh!CallInv'
  BY DEF Mesh!IInv, Mesh!CallInv, Mesh!SayHello
<1>3. Mesh!PairInv'
  BY MeshRankFacts DEF Mesh!IInv, Mesh!TypeOK, Mesh!PairInv, Mesh!SayHello
<1>4. QED
  BY <1>1, <1>2, <1>3 DEF Mesh!IInv

LEMMA MeshTakeAckKeeps ==
  ASSUME Mesh!IInv, NEW p \in Mesh!Others, Mesh!TakeAck(p)
  PROVE  Mesh!IInv'
<1>1. Mesh!TypeOK'
  BY MeshRankFacts DEF Mesh!IInv, Mesh!TypeOK, Mesh!TakeAck
<1>2. Mesh!CallInv'
  BY MeshRankFacts DEF Mesh!IInv, Mesh!TypeOK, Mesh!CallInv, Mesh!TakeAck
<1>3. Mesh!PairInv'
  <2>1. p \in Mesh!Ranks /\ p # 0
    BY MeshRankFacts
  <2>2. /\ calls[p] = returned[p] + 1 /\ acked[p] = returned[p]
        /\ acked[p] + 1 <= answered[p] /\ hello[p] = calls[p]
    BY <2>1 DEF Mesh!IInv, Mesh!TypeOK, Mesh!CallInv, Mesh!PairInv, Mesh!TakeAck, Mesh!Inside
  <2>3. /\ acked' = [acked EXCEPT ![p] = @ + 1]
        /\ returned' = [returned EXCEPT ![p] = calls[p]]
        /\ calls' = calls /\ hello' = hello /\ heard' = heard /\ answered' = answered
    BY DEF Mesh!TakeAck
  <2>4. QED
    BY <2>1, <2>2, <2>3, MeshRankFacts DEF Mesh!IInv, Mesh!TypeOK, Mesh!PairInv
<1>4. QED
  BY <1>1, <1>2, <1>3 DEF Mesh!IInv

(* Rank 0 still has somebody to hear from, so it has answered no one.       *)
LEMMA MeshHearKeeps ==
  ASSUME Mesh!IInv, NEW p \in Mesh!Others, Mesh!Hear(p)
  PROVE  Mesh!IInv'
<1>1. Mesh!TypeOK'
  BY DEF Mesh!IInv, Mesh!TypeOK, Mesh!Hear
<1>2. Mesh!CallInv'
  BY DEF Mesh!IInv, Mesh!CallInv, Mesh!Hear
<1>3. Mesh!PairInv'
  <2>1. /\ heard[p] < calls[0] /\ heard[p] < hello[p]
        /\ heard' = [heard EXCEPT ![p] = @ + 1]
        /\ UNCHANGED <<calls, returned, hello, answered, acked>>
    BY DEF Mesh!Hear
  <2>2. \A q \in Mesh!Others : answered[q] <= returned[0]
    BY <2>1, MeshRankFacts DEF Mesh!IInv, Mesh!TypeOK, Mesh!PairInv
  <2>3. QED
    BY <2>1, <2>2, MeshRankFacts DEF Mesh!IInv, Mesh!TypeOK, Mesh!PairInv
<1>4. QED
  BY <1>1, <1>2, <1>3 DEF Mesh!IInv

(* The last answer ends the call of rank 0.                                 *)
LEMMA MeshAnswerKeeps ==
  ASSUME Mesh!IInv, NEW p \in Mesh!Others, Mesh!Answer(p)
  PROVE  Mesh!IInv'
<1>1. /\ calls[0] \in Nat /\ returned[0] \in Nat
      /\ calls[0] = returned[0] + 1
      /\ answered[p] + 1 <= calls[0]
      /\ \A q \in Mesh!Others : heard[q] = calls[0]
      /\ \A q \in Mesh!Others : q < p => answered[q] = calls[0]
      /\ answered' = [answered EXCEPT ![p] = @ + 1]
      /\ UNCHANGED <<calls, hello, heard, acked>>
  BY MeshRankFacts DEF Mesh!IInv, Mesh!TypeOK, Mesh!CallInv, Mesh!Answer, Mesh!Inside
<1>2. Mesh!TypeOK'
  BY <1>1, MeshRankFacts DEF Mesh!IInv, Mesh!TypeOK, Mesh!Answer
<1>3. Mesh!CallInv'
  BY <1>1, MeshRankFacts DEF Mesh!IInv, Mesh!TypeOK, Mesh!CallInv, Mesh!Answer
<1>4. Mesh!PairInv'
  <2>1. \A q \in Mesh!Others : returned'[q] = returned[q]
    BY MeshRankFacts DEF Mesh!IInv, Mesh!TypeOK, Mesh!Answer
  <2>2. ASSUME NEW q \in Mesh!Others
        PROVE  returned'[0] <= answered'[q]
    <3>1. answered[q] \in Nat /\ returned[0] <= answered[q]
      BY <2>2 DEF Mesh!IInv, Mesh!TypeOK, Mesh!PairInv
    <3>2. answered'[q] = IF q = p THEN answered[q] + 1 ELSE answered[q]
      BY <1>1, <2>2 DEF Mesh!IInv, Mesh!TypeOK
    <3>3. CASE p = N - 1
      <4>1. returned'[0] = calls[0]
        BY <3>3, MeshRankFacts DEF Mesh!IInv, Mesh!TypeOK, Mesh!Answer
      <4>2. q = p \/ q < p
        BY <3>3, BarrierAssumption DEF Mesh!Others
      <4>3. QED
        BY <1>1, <3>1, <3>2, <4>1, <4>2
    <3>4. CASE p # N - 1
      BY <1>1, <3>1, <3>2, <3>4 DEF Mesh!Answer
    <3>5. QED
      BY <3>3, <3>4
  <2>3. QED
    BY <1>1, <2>1, <2>2 DEF Mesh!IInv, Mesh!TypeOK, Mesh!PairInv
<1>5. QED
  BY <1>2, <1>3, <1>4 DEF Mesh!IInv

LEMMA MeshStep == Mesh!IInv /\ [Mesh!Next]_Mesh!vars => Mesh!IInv'
<1> SUFFICES ASSUME Mesh!IInv, [Mesh!Next]_Mesh!vars PROVE Mesh!IInv'
  OBVIOUS
<1>1. CASE Mesh!RootStep
  BY <1>1, MeshRankFacts, MeshCallKeeps, MeshHearKeeps, MeshAnswerKeeps DEF Mesh!RootStep
<1>2. ASSUME NEW p \in Mesh!Others, Mesh!PeerStep(p) PROVE Mesh!IInv'
  BY <1>2, MeshRankFacts, MeshCallKeeps, MeshSayHelloKeeps, MeshTakeAckKeeps DEF Mesh!PeerStep
<1>3. CASE UNCHANGED Mesh!vars
  BY <1>3 DEF Mesh!vars, Mesh!IInv, Mesh!TypeOK, Mesh!CallInv, Mesh!PairInv
<1>4. QED
  BY <1>1, <1>2, <1>3 DEF Mesh!Next

(* The inductive invariant of TopologyFullMesh::Barrier.                    *)
THEOREM MeshInvariance == Mesh!Spec => []Mesh!IInv
<1>1. QED
  BY MeshInit, MeshStep, PTL DEF Mesh!Spec

(* The variables keep their types.                                          *)
THEOREM MeshTypeCorrect == Mesh!Spec => []Mesh!TypeOK
<1>1. Mesh!IInv => Mesh!TypeOK
  BY DEF Mesh!IInv
<1>2. QED
  BY MeshInvariance, <1>1, PTL

(* What waits for a rank was sent in the call it is in.                     *)
LEMMA MeshAck == Mesh!IInv => Mesh!AckOfThisCall
<1> SUFFICES ASSUME Mesh!IInv, NEW p \in Mesh!Others, acked[p] < answered[p]
             PROVE  Mesh!Inside(p) /\ answered[p] = calls[p]
  BY DEF Mesh!AckOfThisCall
<1>1. /\ acked[p] \in Nat /\ answered[p] \in Nat /\ heard[p] \in Nat
      /\ hello[p] \in Nat /\ calls[p] \in Nat /\ returned[p] \in Nat
  BY MeshRankFacts DEF Mesh!IInv, Mesh!TypeOK
<1>2. /\ acked[p] = returned[p] /\ answered[p] <= heard[p]
      /\ heard[p] <= hello[p] /\ hello[p] <= calls[p]
  BY DEF Mesh!IInv, Mesh!PairInv
<1>3. calls[p] = returned[p] \/ calls[p] = returned[p] + 1
  BY MeshRankFacts DEF Mesh!IInv, Mesh!CallInv
<1>4. QED
  BY <1>1, <1>2, <1>3 DEF Mesh!Inside

(* The acknowledgement a rank finds in the stream is that of the call it is *)
(* in: back-to-back barriers do not run into each other.                    *)
THEOREM MeshAckCorrect == Mesh!Spec => []Mesh!AckOfThisCall
<1>1. QED
  BY MeshInvariance, MeshAck, PTL

-----------------------------------------------------------------------------
(* Whoever has been answered in a call, everybody has begun that call.      *)
LEMMA MeshAnsweredAll ==
  ASSUME Mesh!IInv, NEW p \in Mesh!Others, NEW q \in Mesh!Ranks
  PROVE  calls[q] >= answered[p]
<1>1. /\ \A o \in Mesh!Others : /\ answered[o] \in Nat /\ heard[o] \in Nat
                           /\ hello[o] \in Nat
      /\ calls[0] \in Nat /\ returned[0] \in Nat /\ calls[q] \in Nat
  BY MeshRankFacts DEF Mesh!IInv, Mesh!TypeOK
<1>2. answered[p] <= heard[p] /\ heard[p] <= calls[0]
  BY DEF Mesh!IInv, Mesh!PairInv
<1>3. CASE q = 0
  BY <1>1, <1>2, <1>3
<1>4. CASE q \in Mesh!Others
  <2>1. /\ answered[q] <= heard[q] /\ heard[q] <= hello[q] /\ hello[q] <= calls[q]
        /\ returned[0] <= answered[q]
    BY <1>4 DEF Mesh!IInv, Mesh!PairInv
  <2>2. answered[p] > returned[0] => heard[q] = calls[0]
    BY <1>4 DEF Mesh!IInv, Mesh!PairInv
  <2>3. QED
    BY <1>1, <1>2, <1>4, <2>1, <2>2
<1>5. QED
  BY <1>3, <1>4, MeshRankFacts

(* A step of TopologyFullMesh::Barrier enters, leaves, or shows nothing to  *)
(* the caller.                                                              *)
LEMMA MeshRefines ==
  Mesh!IInv /\ [Mesh!Next]_Mesh!vars => [Abstract!Next]_<<calls, returned>>
<1> SUFFICES ASSUME Mesh!IInv, [Mesh!Next]_Mesh!vars
             PROVE  [Abstract!Next]_<<calls, returned>>
  OBVIOUS
<1>1. Mesh!Ranks = Abstract!Ranks
  BY DEF Mesh!Ranks, Abstract!Ranks
<1>2. ASSUME NEW r \in Mesh!Ranks, Mesh!Call(r)
      PROVE  Abstract!Enter(r)
  BY <1>2 DEF Mesh!IInv, Mesh!TypeOK, Mesh!CallInv, Mesh!Call, Mesh!Inside, Abstract!Enter
<1>3. ASSUME NEW p \in Mesh!Others, Mesh!TakeAck(p)
      PROVE  Abstract!Leave(p)
  <2>1. /\ calls[p] = returned[p] + 1 /\ acked[p] = returned[p]
        /\ acked[p] < answered[p]
        /\ acked[p] \in Nat /\ answered[p] \in Nat
    BY <1>3, MeshRankFacts DEF Mesh!IInv, Mesh!TypeOK, Mesh!CallInv, Mesh!PairInv, Mesh!TakeAck, Mesh!Inside
  <2>2. ASSUME NEW q \in Mesh!Ranks
        PROVE  calls[q] >= calls[p]
    <3>1. calls[q] >= answered[p] /\ calls[q] \in Nat
      BY MeshAnsweredAll DEF Mesh!IInv, Mesh!TypeOK
    <3>2. QED
      BY <2>1, <3>1
  <2>3. QED
    BY <1>1, <1>3, <2>2 DEF Mesh!TakeAck, Mesh!Inside, Abstract!Leave
<1>4. ASSUME NEW p \in Mesh!Others, Mesh!Answer(p), p = N - 1
      PROVE  Abstract!Leave(0)
  <2>1. \A q \in Mesh!Others : heard[q] = calls[0]
    BY <1>4 DEF Mesh!Answer
  <2>2. ASSUME NEW q \in Mesh!Ranks
        PROVE  calls[q] >= calls[0]
    BY <2>1, MeshRankFacts DEF Mesh!IInv, Mesh!TypeOK, Mesh!PairInv
  <2>3. QED
    BY <1>1, <1>4, <2>2 DEF Mesh!Answer, Mesh!Inside, Abstract!Leave
<1>5. ASSUME NEW p \in Mesh!Others, Mesh!Answer(p), p # N - 1
      PROVE  UNCHANGED <<calls, returned>>
  BY <1>5 DEF Mesh!Answer
<1>6. ASSUME NEW p \in Mesh!Others, Mesh!SayHello(p) \/ Mesh!Hear(p)
      PROVE  UNCHANGED <<calls, returned>>
  BY <1>6 DEF Mesh!SayHello, Mesh!Hear
<1>7. CASE Mesh!RootStep
  BY <1>1, <1>2, <1>4, <1>5, <1>6, <1>7, MeshRankFacts DEF Mesh!RootStep, Abstract!Next
<1>8. ASSUME NEW p \in Mesh!Others, Mesh!PeerStep(p)
      PROVE  [Abstract!Next]_<<calls, returned>>
  BY <1>1, <1>2, <1>3, <1>6, <1>8, MeshRankFacts DEF Mesh!PeerStep, Abstract!Next
<1>9. QED
  BY <1>7, <1>8 DEF Mesh!Next, Mesh!vars

(* TopologyFullMesh::Barrier implements the abstract barrier.               *)
THEOREM MeshRefinement == Mesh!Spec => RefinesBarrier
<1>1. Mesh!Init => Abstract!Init
  BY DEF Mesh!Init, Abstract!Init, Abstract!Ranks, Mesh!Ranks
<1>2. QED
  BY <1>1, MeshRefines, MeshInvariance, PTL DEF Mesh!Spec, RefinesBarrier, Abstract!Spec

-----------------------------------------------------------------------------
(* Both barriers side by side, as the runs check them: the ranks run one of *)
(* the two, and the tokens of the other stay where they are.                *)
EitherInv ==
  /\ topology \in {"ring", "fullmesh"} /\ IndInv
  /\ topology = "fullmesh" => /\ sent = [r \in Ranks |-> 0]
                              /\ got = [r \in Ranks |-> 0]
evars == <<topology, vars, Mesh!vars>>

LEMMA EitherStep ==
  /\ InitEither => EitherInv
  /\ EitherInv /\ [NextEither]_evars => EitherInv'
<1>1. InitEither => EitherInv
  BY RingInit, MeshInit DEF InitEither, EitherInv, IndInv, Init
<1>2. ASSUME EitherInv, [NextEither]_evars PROVE EitherInv'
  <2>1. CASE OverRing(Next)
    <3>1. topology = "ring" /\ topology' = "ring" /\ IInv /\ Next
      BY <1>2, <2>1 DEF OverRing, EitherInv, IndInv
    <3>2. IInv'
      BY <3>1, RingStep
    <3>3. QED
      BY <3>1, <3>2 DEF EitherInv, IndInv
  <2>2. CASE OverMesh(Mesh!Next)
    <3>1. /\ topology = "fullmesh" /\ topology' = "fullmesh" /\ Mesh!IInv /\ Mesh!Next
          /\ sent' = sent /\ got' = got
      BY <1>2, <2>2 DEF OverMesh, EitherInv, IndInv
    <3>2. Mesh!IInv'
      BY <3>1, MeshStep
    <3>3. QED
      BY <1>2, <3>1, <3>2 DEF EitherInv, IndInv
  <2>3. CASE UNCHANGED evars
    <3>1. topology' = topology /\ UNCHANGED vars /\ UNCHANGED Mesh!vars
          /\ sent' = sent /\ got' = got
      BY <2>3 DEF evars, vars
    <3>2. (IInv => IInv') /\ (Mesh!IInv => Mesh!IInv')
      BY <3>1, RingStep, MeshStep
    <3>3. QED
      BY <1>2, <3>1, <3>2 DEF EitherInv, IndInv
  <2>4. QED
    BY <1>2, <2>1, <2>2, <2>3 DEF NextEither
<1>3. QED
  BY <1>1, <1>2

(* The counters of a Barrier, on either topology, never pass one another:   *)
(* no rank has read more than was sent to it.                               *)
THEOREM IndInvCorrect == SpecEither => []IndInv
<1>1. EitherInv => IndInv
  BY DEF EitherInv
<1>2. QED
  BY <1>1, EitherStep, PTL DEF SpecEither, evars

(* Two tokens are never on the ring together, so that the Recv of one lap   *)
(* or call of TopologyRing::Barrier cannot take another's.                  *)
THEOREM OneTokenCorrect == SpecEither => []OneToken
<1>1. EitherInv => OneToken
  <2> SUFFICES ASSUME EitherInv PROVE OneToken
    OBVIOUS
  <2>1. CASE topology = "ring"
    BY <2>1, RingOneToken DEF EitherInv, IndInv
  <2>2. CASE topology = "fullmesh"
    BY <2>2, PrevFacts DEF EitherInv, OneToken
  <2>3. QED
    BY <2>1, <2>2 DEF EitherInv
<1>2. QED
  BY <1>1, EitherStep, PTL DEF SpecEither, evars

(* What rank 0 has sent to a rank of the full mesh and that rank has not    *)
(* read answers the Barrier the rank is in: no acknowledgement is left over *)
(* for its next call.                                                       *)
THEOREM AckOfThisCallCorrect == SpecEither => []AckOfThisCall
<1>1. EitherInv => AckOfThisCall
  BY MeshAck DEF EitherInv, IndInv, AckOfThisCall
<1>2. QED
  BY <1>1, EitherStep, PTL DEF SpecEither, evars

(* Communicator::Barrier is the abstract barrier on either topology: a call *)
(* that returns true at one rank has been entered by every rank.            *)
THEOREM Refinement == SpecEither => RefinesBarrier
<1>1. InitEither => Abstract!Init
  BY DEF InitEither, Init, Abstract!Init, Abstract!Ranks, Ranks
<1>2. EitherInv /\ [NextEither]_evars => [Abstract!Next]_<<calls, returned>>
  <2> SUFFICES ASSUME EitherInv, [NextEither]_evars
               PROVE  [Abstract!Next]_<<calls, returned>>
    OBVIOUS
  <2>1. CASE OverRing(Next)
    BY <2>1, RingRefines DEF OverRing, EitherInv, IndInv
  <2>2. CASE OverMesh(Mesh!Next)
    BY <2>2, MeshRefines DEF OverMesh, EitherInv, IndInv
  <2>3. CASE UNCHANGED evars
    BY <2>3 DEF evars, vars
  <2>4. QED
    BY <2>1, <2>2, <2>3 DEF NextEither
<1>3. QED
  BY <1>1, <1>2, EitherStep, PTL DEF SpecEither, evars, RefinesBarrier, Abstract!Spec
=============================================================================
