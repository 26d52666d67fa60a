----------------------- MODULE CommunicatorInitProofs -----------------------
(* What Bootstrap::Run promises, for every number of ranks and of deaths;   *)
(* what InitTransports does, for both topologies, when no insert into the   *)
(* map is lost; then the two composed: what is proved of each holds in the  *)
(* whole of Communicator::Init.                                             *)
EXTENDS CommunicatorInit, FiniteSetTheorems, TLAPS

-----------------------------------------------------------------------------
(* Bootstrap::Run.  Its Cardinality is the one that this module knows.      *)
LEMMA SameCardinality == \A S : B!Cardinality(S) = Cardinality(S)
BY DEF B!Cardinality, Cardinality

(* The workers are the ranks from 1 on.                                     *)
LEMMA BootWorkerFacts ==
  /\ B!Workers = 1 .. (N - 1) /\ B!Workers \subseteq B!Ranks /\ B!Master \in B!Ranks
  /\ IsFiniteSet(B!Workers) /\ Cardinality(B!Workers) = N - 1
  /\ N \in Nat /\ N >= 2 /\ B!Master \notin B!Workers /\ B!Master = 0 /\ B!Nobody \notin B!Ranks
<1>1. /\ B!Workers = 1 .. (N - 1) /\ B!Workers \subseteq B!Ranks /\ B!Master \in B!Ranks
      /\ N \in Nat /\ N >= 2 /\ B!Master \notin B!Workers /\ B!Master = 0 /\ B!Nobody \notin B!Ranks
  BY GroupAssumption DEF B!Workers, B!Ranks, B!Master, B!Nobody
<1>2. IsFiniteSet(1 .. (N - 1)) /\ Cardinality(1 .. (N - 1)) = N - 1
  BY <1>1, FS_Interval
<1>3. QED
  BY <1>1, <1>2

(* The connections accepted so far are finitely many, and of workers; as    *)
(* many as there are workers are those of all.                              *)
LEMMA BootAcceptedFacts ==
  ASSUME socks \in [1 .. (N - 1) -> B!Workers \cup {B!Nobody}]
  PROVE  /\ B!Accepted \subseteq B!Workers /\ IsFiniteSet(B!Accepted)
         /\ Cardinality(B!Accepted) = N - 1 => B!Accepted = B!Workers
<1>1. B!Accepted \subseteq B!Workers
  BY DEF B!Accepted
<1>2. QED
  BY <1>1, BootWorkerFacts, FS_Subset

(* Nobody has begun.                                                        *)
LEMMA BootInitInv == B!Init => B!Inv
<1> SUFFICES ASSUME B!Init
             PROVE  B!Inv
  OBVIOUS
<1>1. B!TypeOK
  <2>1. at \in 1 .. (N - 1)
    BY BootWorkerFacts DEF B!Init
  <2>2. QED
    BY <2>1 DEF B!Init, B!TypeOK, B!Stages
<1>2. B!SocksInv
  <2>1. B!Accepted = {}
    BY DEF B!Init, B!Accepted
  <2>2. Cardinality(B!Accepted) = at - 1
    BY <2>1, FS_EmptySet DEF B!Init
  <2>3. QED
    BY <2>1, <2>2, BootWorkerFacts, SameCardinality DEF B!Init, B!SocksInv
<1>3. B!StageInv /\ B!GatherInv /\ B!SentInv /\ B!TablesRight /\ B!FailsForCause
  BY BootWorkerFacts DEF B!Init, B!StageInv, B!GatherInv, B!SentInv, B!TablesRight, B!FailsForCause
<1>4. QED
  BY <1>1, <1>2, <1>3 DEF B!Inv

-----------------------------------------------------------------------------
(* The steps of the master and of a worker, one by one.                     *)
LEMMA BootListenKeeps ==
  ASSUME B!Inv, B!Listen
  PROVE  B!Inv'
<1>1. B!TypeOK'
  BY BootWorkerFacts DEF B!Inv, B!TypeOK, B!Stages, B!StageInv, B!Listen, B!Returns, B!Over
<1>2. B!StageInv'
  BY BootWorkerFacts DEF B!Inv, B!TypeOK, B!Stages, B!StageInv, B!Listen, B!Returns
<1>3. B!SocksInv'
  BY BootWorkerFacts DEF B!Inv, B!TypeOK, B!Stages, B!StageInv, B!SocksInv, B!Listen, B!Returns, B!Accepted
<1>4. B!GatherInv'
  BY BootWorkerFacts DEF B!Inv, B!TypeOK, B!Stages, B!StageInv, B!GatherInv, B!Listen, B!Returns
<1>5. B!SentInv'
  BY BootWorkerFacts DEF B!Inv, B!TypeOK, B!Stages, B!StageInv, B!SentInv, B!Listen, B!Returns
<1>6. B!TablesRight'
  BY BootWorkerFacts DEF B!Inv, B!TypeOK, B!Stages, B!StageInv, B!TablesRight, B!Listen, B!Returns
<1>7. B!FailsForCause'
  BY BootWorkerFacts DEF B!Inv, B!TypeOK, B!Stages, B!StageInv, B!FailsForCause, B!Listen, B!Returns
<1>8. QED
  BY <1>1, <1>2, <1>3, <1>4, <1>5, <1>6, <1>7 DEF B!Inv

LEMMA BootListenFailsKeeps ==
  ASSUME B!Inv, B!ListenFails
  PROVE  B!Inv'
<1>1. B!TypeOK'
  BY BootWorkerFacts DEF B!Inv, B!TypeOK, B!Stages, B!StageInv, B!ListenFails, B!Returns, B!Over
<1>2. B!StageInv'
  BY BootWorkerFacts DEF B!Inv, B!TypeOK, B!Stages, B!StageInv, B!ListenFails, B!Returns
<1>3. B!SocksInv'
  BY BootWorkerFacts DEF B!Inv, B!TypeOK, B!Stages, B!StageInv, B!SocksInv, B!ListenFails, B!Returns, B!Accepted
<1>4. B!GatherInv'
  BY BootWorkerFacts DEF B!Inv, B!TypeOK, B!Stages, B!StageInv, B!GatherInv, B!ListenFails, B!Returns
<1>5. B!SentInv'
  BY BootWorkerFacts DEF B!Inv, B!TypeOK, B!Stages, B!StageInv, B!SentInv, B!ListenFails, B!Returns
<1>6. B!TablesRight'
  BY BootWorkerFacts DEF B!Inv, B!TypeOK, B!Stages, B!StageInv, B!TablesRight, B!ListenFails, B!Returns
<1>7. B!FailsForCause'
  BY BootWorkerFacts DEF B!Inv, B!TypeOK, B!Stages, B!StageInv, B!FailsForCause, B!ListenFails, B!Returns
<1>8. QED
  BY <1>1, <1>2, <1>3, <1>4, <1>5, <1>6, <1>7 DEF B!Inv

LEMMA BootAcceptKeeps ==
  ASSUME B!Inv, NEW q \in B!Workers, B!Accept(q)
  PROVE  B!Inv'
<1>1. B!TypeOK'
  BY BootWorkerFacts DEF B!Inv, B!TypeOK, B!Stages, B!StageInv, B!Accept, B!Turn, B!Over
<1>2. B!StageInv'
  BY BootWorkerFacts DEF B!Inv, B!TypeOK, B!Stages, B!StageInv, B!Accept, B!Turn
<1>3. B!SocksInv'
  <2>1. /\ stage[B!Master] = "accept" /\ q \notin B!Accepted /\ at \in 1 .. (N - 1)
        /\ Cardinality(B!Accepted) = at - 1 /\ q # B!Nobody /\ socks[at] = B!Nobody
    BY BootWorkerFacts, SameCardinality DEF B!Inv, B!TypeOK, B!SocksInv, B!Accept
  <2>2. B!Accepted' = B!Accepted \cup {q}
    BY <2>1 DEF B!Inv, B!TypeOK, B!Accept, B!Accepted
  <2>3. Cardinality(B!Accepted') = at
    <3>1. IsFiniteSet(B!Accepted)
      BY BootAcceptedFacts DEF B!Inv, B!TypeOK
    <3>2. Cardinality(B!Accepted \cup {q}) = Cardinality(B!Accepted) + 1
      BY <2>1, <3>1, FS_AddElement
    <3>3. QED
      BY <2>1, <2>2, <3>2
  <2>4. /\ \A x \in B!Workers : stage'[x] = stage[x]
        /\ stage'[B!Master] = IF at = N - 1 THEN "gather" ELSE "accept"
        /\ at' = IF at = N - 1 THEN 1 ELSE at + 1
        /\ queue' = queue \ {q}
    BY BootWorkerFacts DEF B!Inv, B!TypeOK, B!Accept, B!Turn
  <2>5. \A i \in 1 .. (N - 1) : socks'[i] = B!Nobody <=> i > at
    BY <2>1, BootWorkerFacts DEF B!Inv, B!TypeOK, B!SocksInv, B!Accept
  <2>6. at = N - 1 => B!Accepted' = B!Workers
    <3>1. socks' \in [1 .. (N - 1) -> B!Workers \cup {B!Nobody}]
      BY <1>1 DEF B!TypeOK
    <3>2. B!Accepted' \subseteq B!Workers
      BY <3>1 DEF B!Accepted
    <3>3. QED
      BY <2>3, <3>2, BootWorkerFacts, FS_Subset
  <2>7. stage[q] # "start"
    BY DEF B!Inv, B!SocksInv, B!Accept
  <2>8. QED
    BY <2>1, <2>2, <2>3, <2>4, <2>5, <2>6, <2>7, BootWorkerFacts, SameCardinality DEF B!Inv, B!SocksInv
<1>4. B!GatherInv'
  BY BootWorkerFacts DEF B!Inv, B!TypeOK, B!Stages, B!StageInv, B!GatherInv, B!Accept, B!Turn
<1>5. B!SentInv'
  BY BootWorkerFacts DEF B!Inv, B!TypeOK, B!Stages, B!StageInv, B!SentInv, B!Accept, B!Turn
<1>6. B!TablesRight'
  BY BootWorkerFacts DEF B!Inv, B!TypeOK, B!Stages, B!StageInv, B!TablesRight, B!Accept, B!Turn
<1>7. B!FailsForCause'
  BY BootWorkerFacts DEF B!Inv, B!TypeOK, B!Stages, B!StageInv, B!FailsForCause, B!Accept, B!Turn
<1>8. QED
  BY <1>1, <1>2, <1>3, <1>4, <1>5, <1>6, <1>7 DEF B!Inv

LEMMA BootGatherKeeps ==
  ASSUME B!Inv, B!Gather
  PROVE  B!Inv'
<1>0. /\ at' = (IF at = N - 1 THEN 1 ELSE at + 1) /\ at' \in 1 .. (N - 1)
      /\ stage' = [stage EXCEPT ![B!Master] = IF at = N - 1 THEN "tell" ELSE "gather"]
      /\ socks[at] \in B!Workers /\ socks[at] \in written /\ stage[B!Master] = "gather"
      /\ table' = [table EXCEPT ![B!Master][socks[at]] = socks[at]]
  BY BootWorkerFacts DEF B!Inv, B!TypeOK, B!SocksInv, B!Gather, B!Turn
<1>1. B!TypeOK'
  BY <1>0, BootWorkerFacts DEF B!Inv, B!TypeOK, B!Stages, B!Gather
<1>2. B!StageInv'
  BY BootWorkerFacts DEF B!Inv, B!TypeOK, B!Stages, B!StageInv, B!Gather, B!Turn
<1>3. B!SocksInv'
  BY BootWorkerFacts, SMTT(30) DEF B!Inv, B!TypeOK, B!Stages, B!StageInv, B!SocksInv, B!Gather, B!Turn, B!Accepted
<1>4. B!GatherInv'
  <2>1. table'[B!Master][B!Master] = B!Master /\ table'[B!Master][socks[at]] = socks[at]
    BY <1>0, BootWorkerFacts DEF B!Inv, B!TypeOK, B!GatherInv
  <2>2. \A i \in 1 .. at : table'[B!Master][socks[i]] = socks[i] /\ socks[i] \in written
    BY <1>0, <2>1, BootWorkerFacts, SMTT(30) DEF B!Inv, B!TypeOK, B!SocksInv, B!GatherInv
  <2>3. QED
    BY <1>0, <2>1, <2>2, BootWorkerFacts DEF B!Inv, B!TypeOK, B!GatherInv, B!Gather
<1>5. B!SentInv'
  <2>1. sent' = {} /\ written' = written
    BY <1>0 DEF B!Inv, B!SentInv, B!Gather
  <2>2. ASSUME stage'[B!Master] \in {"tell", "true"}
        PROVE  table'[B!Master] = B!Whole /\ B!Workers \subseteq written
    <3>1. at = N - 1
      BY <1>0, <2>2, BootWorkerFacts DEF B!Inv, B!TypeOK
    <3>2. \A i \in 1 .. (N - 1) : table'[B!Master][socks[i]] = socks[i] /\ socks[i] \in written
      BY <1>0, <3>1, BootWorkerFacts DEF B!Inv, B!TypeOK, B!SocksInv, B!GatherInv
    <3>3. \A q \in B!Workers : \E i \in 1 .. (N - 1) : socks[i] = q
      BY <1>0 DEF B!Inv, B!SocksInv, B!Accepted
    <3>4. \A q \in B!Workers : table'[B!Master][q] = q /\ q \in written
      BY <3>2, <3>3
    <3>5. table'[B!Master][B!Master] = B!Master /\ table'[B!Master] \in [B!Ranks -> B!Ranks \cup {B!Nobody}]
      BY <1>0, <1>1, BootWorkerFacts DEF B!Inv, B!TypeOK, B!GatherInv
    <3>6. \A r \in B!Ranks : table'[B!Master][r] = r
      BY <3>4, <3>5 DEF B!Workers
    <3>7. QED
      BY <3>4, <3>5, <3>6 DEF B!Whole
  <2>3. QED
    BY <2>1, <2>2 DEF B!SentInv
<1>6. B!TablesRight'
  BY BootWorkerFacts DEF B!Inv, B!TypeOK, B!Stages, B!StageInv, B!TablesRight, B!Gather, B!Turn
<1>7. B!FailsForCause'
  BY BootWorkerFacts DEF B!Inv, B!TypeOK, B!Stages, B!StageInv, B!FailsForCause, B!Gather, B!Turn
<1>8. QED
  BY <1>1, <1>2, <1>3, <1>4, <1>5, <1>6, <1>7 DEF B!Inv

LEMMA BootGatherFailsKeeps ==
  ASSUME B!Inv, B!GatherFails
  PROVE  B!Inv'
<1>1. B!TypeOK'
  BY BootWorkerFacts DEF B!Inv, B!TypeOK, B!Stages, B!StageInv, B!GatherFails, B!Returns, B!Over
<1>2. B!StageInv'
  BY BootWorkerFacts DEF B!Inv, B!TypeOK, B!Stages, B!StageInv, B!GatherFails, B!Returns
<1>3. B!SocksInv'
  BY BootWorkerFacts, SMTT(30) DEF B!Inv, B!TypeOK, B!Stages, B!StageInv, B!SocksInv, B!GatherFails, B!Returns, B!Accepted
<1>4. B!GatherInv'
  BY BootWorkerFacts DEF B!Inv, B!TypeOK, B!Stages, B!StageInv, B!GatherInv, B!GatherFails, B!Returns
<1>5. B!SentInv'
  BY BootWorkerFacts DEF B!Inv, B!TypeOK, B!Stages, B!StageInv, B!SentInv, B!GatherFails, B!Returns
<1>6. B!TablesRight'
  BY BootWorkerFacts DEF B!Inv, B!TypeOK, B!Stages, B!StageInv, B!TablesRight, B!GatherFails, B!Returns
<1>7. B!FailsForCause'
  <2>1. stage[socks[at]] = "false" /\ socks[at] \in B!Ranks
    BY BootWorkerFacts DEF B!Inv, B!TypeOK, B!SocksInv, B!GatherFails
  <2>2. QED
    BY <2>1 DEF B!Inv, B!FailsForCause, B!GatherFails
<1>8. QED
  BY <1>1, <1>2, <1>3, <1>4, <1>5, <1>6, <1>7 DEF B!Inv

LEMMA BootTellKeeps ==
  ASSUME B!Inv, B!Tell
  PROVE  B!Inv'
<1>0. /\ at' \in 1 .. (N - 1) /\ socks[at] \in B!Workers /\ stage[B!Master] = "tell"
      /\ stage' = [stage EXCEPT ![B!Master] = IF at = N - 1 THEN "true" ELSE "tell"]
  BY BootWorkerFacts DEF B!Inv, B!TypeOK, B!SocksInv, B!Tell, B!Turn
<1>1. B!TypeOK'
  BY <1>0, BootWorkerFacts DEF B!Inv, B!TypeOK, B!Stages, B!Tell
<1>2. B!StageInv'
  BY BootWorkerFacts DEF B!Inv, B!TypeOK, B!Stages, B!StageInv, B!Tell, B!Turn
<1>3. B!SocksInv'
  BY BootWorkerFacts DEF B!Inv, B!TypeOK, B!Stages, B!StageInv, B!SocksInv, B!Tell, B!Turn, B!Accepted
<1>4. B!GatherInv'
  BY BootWorkerFacts DEF B!Inv, B!TypeOK, B!Stages, B!StageInv, B!GatherInv, B!Tell, B!Turn
<1>5. B!SentInv'
  BY BootWorkerFacts DEF B!Inv, B!TypeOK, B!Stages, B!StageInv, B!SentInv, B!Tell, B!Turn
<1>6. B!TablesRight'
  <2>1. table' = table /\ table[B!Master] = B!Whole
    BY <1>0 DEF B!Inv, B!SentInv, B!Tell
  <2>2. \A r \in B!Ranks \ {B!Master} : stage'[r] = stage[r]
    BY <1>0 DEF B!Inv, B!TypeOK
  <2>3. QED
    BY <2>1, <2>2 DEF B!Inv, B!TablesRight
<1>7. B!FailsForCause'
  BY BootWorkerFacts DEF B!Inv, B!TypeOK, B!Stages, B!StageInv, B!FailsForCause, B!Tell, B!Turn
<1>8. QED
  BY <1>1, <1>2, <1>3, <1>4, <1>5, <1>6, <1>7 DEF B!Inv

LEMMA BootTellFailsKeeps ==
  ASSUME B!Inv, B!TellFails
  PROVE  B!Inv'
<1>1. B!TypeOK'
  BY BootWorkerFacts DEF B!Inv, B!TypeOK, B!Stages, B!StageInv, B!TellFails, B!Returns, B!Over
<1>2. B!StageInv'
  BY BootWorkerFacts DEF B!Inv, B!TypeOK, B!Stages, B!StageInv, B!TellFails, B!Returns
<1>3. B!SocksInv'
  BY BootWorkerFacts DEF B!Inv, B!TypeOK, B!Stages, B!StageInv, B!SocksInv, B!TellFails, B!Returns, B!Accepted
<1>4. B!GatherInv'
  BY BootWorkerFacts DEF B!Inv, B!TypeOK, B!Stages, B!StageInv, B!GatherInv, B!TellFails, B!Returns
<1>5. B!SentInv'
  BY BootWorkerFacts DEF B!Inv, B!TypeOK, B!Stages, B!StageInv, B!SentInv, B!TellFails, B!Returns
<1>6. B!TablesRight'
  BY BootWorkerFacts DEF B!Inv, B!TypeOK, B!Stages, B!StageInv, B!TablesRight, B!TellFails, B!Returns
<1>7. B!FailsForCause'
  <2>1. stage[socks[at]] = "false" /\ socks[at] \in B!Ranks
    BY BootWorkerFacts DEF B!Inv, B!TypeOK, B!SocksInv, B!TellFails
  <2>2. QED
    BY <2>1 DEF B!Inv, B!FailsForCause, B!TellFails
<1>8. QED
  BY <1>1, <1>2, <1>3, <1>4, <1>5, <1>6, <1>7 DEF B!Inv

LEMMA BootConnectKeeps ==
  ASSUME B!Inv, NEW q \in B!Workers, B!Connect(q)
  PROVE  B!Inv'
<1>1. B!TypeOK'
  BY BootWorkerFacts DEF B!Inv, B!TypeOK, B!Stages, B!StageInv, B!Connect, B!Returns, B!Over
<1>2. B!StageInv'
  BY BootWorkerFacts DEF B!Inv, B!TypeOK, B!Stages, B!StageInv, B!Connect, B!Returns
<1>3. B!SocksInv'
  BY BootWorkerFacts DEF B!Inv, B!TypeOK, B!Stages, B!StageInv, B!SocksInv, B!Connect, B!Returns, B!Accepted
<1>4. B!GatherInv'
  BY BootWorkerFacts DEF B!Inv, B!TypeOK, B!Stages, B!StageInv, B!GatherInv, B!Connect, B!Returns
<1>5. B!SentInv'
  BY BootWorkerFacts DEF B!Inv, B!TypeOK, B!Stages, B!StageInv, B!SentInv, B!Connect, B!Returns
<1>6. B!TablesRight'
  BY BootWorkerFacts DEF B!Inv, B!TypeOK, B!Stages, B!StageInv, B!TablesRight, B!Connect, B!Returns
<1>7. B!FailsForCause'
  BY BootWorkerFacts DEF B!Inv, B!TypeOK, B!Stages, B!StageInv, B!FailsForCause, B!Connect, B!Returns
<1>8. QED
  BY <1>1, <1>2, <1>3, <1>4, <1>5, <1>6, <1>7 DEF B!Inv

LEMMA BootGiveUpKeeps ==
  ASSUME B!Inv, NEW q \in B!Workers, B!GiveUp(q)
  PROVE  B!Inv'
<1>1. B!TypeOK'
  BY BootWorkerFacts DEF B!Inv, B!TypeOK, B!Stages, B!StageInv, B!GiveUp, B!Returns, B!Over
<1>2. B!StageInv'
  BY BootWorkerFacts DEF B!Inv, B!TypeOK, B!Stages, B!StageInv, B!GiveUp, B!Returns
<1>3. B!SocksInv'
  BY BootWorkerFacts DEF B!Inv, B!TypeOK, B!Stages, B!StageInv, B!SocksInv, B!GiveUp, B!Returns, B!Accepted
<1>4. B!GatherInv'
  BY BootWorkerFacts DEF B!Inv, B!TypeOK, B!Stages, B!StageInv, B!GatherInv, B!GiveUp, B!Returns
<1>5. B!SentInv'
  BY BootWorkerFacts DEF B!Inv, B!TypeOK, B!Stages, B!StageInv, B!SentInv, B!GiveUp, B!Returns
<1>6. B!TablesRight'
  BY BootWorkerFacts DEF B!Inv, B!TypeOK, B!Stages, B!StageInv, B!TablesRight, B!GiveUp, B!Returns
<1>7. B!FailsForCause'
  BY BootWorkerFacts DEF B!Inv, B!TypeOK, B!Stages, B!StageInv, B!FailsForCause, B!GiveUp, B!Returns
<1>8. QED
  BY <1>1, <1>2, <1>3, <1>4, <1>5, <1>6, <1>7 DEF B!Inv

LEMMA BootReportKeeps ==
  ASSUME B!Inv, NEW q \in B!Workers, B!Report(q)
  PROVE  B!Inv'
<1>1. B!TypeOK'
  BY BootWorkerFacts DEF B!Inv, B!TypeOK, B!Stages, B!StageInv, B!Report, B!Returns, B!Over
<1>2. B!StageInv'
  BY BootWorkerFacts DEF B!Inv, B!TypeOK, B!Stages, B!StageInv, B!Report, B!Returns
<1>3. B!SocksInv'
  BY BootWorkerFacts DEF B!Inv, B!TypeOK, B!Stages, B!StageInv, B!SocksInv, B!Report, B!Returns, B!Accepted
<1>4. B!GatherInv'
  BY BootWorkerFacts DEF B!Inv, B!TypeOK, B!Stages, B!StageInv, B!GatherInv, B!Report, B!Returns
<1>5. B!SentInv'
  BY BootWorkerFacts DEF B!Inv, B!TypeOK, B!Stages, B!StageInv, B!SentInv, B!Report, B!Returns
<1>6. B!TablesRight'
  BY BootWorkerFacts DEF B!Inv, B!TypeOK, B!Stages, B!StageInv, B!TablesRight, B!Report, B!Returns
<1>7. B!FailsForCause'
  BY BootWorkerFacts DEF B!Inv, B!TypeOK, B!Stages, B!StageInv, B!FailsForCause, B!Report, B!Returns
<1>8. QED
  BY <1>1, <1>2, <1>3, <1>4, <1>5, <1>6, <1>7 DEF B!Inv

LEMMA BootReportFailsKeeps ==
  ASSUME B!Inv, NEW q \in B!Workers, B!ReportFails(q)
  PROVE  B!Inv'
<1>1. B!TypeOK'
  BY BootWorkerFacts DEF B!Inv, B!TypeOK, B!Stages, B!StageInv, B!ReportFails, B!Returns, B!Over
<1>2. B!StageInv'
  BY BootWorkerFacts DEF B!Inv, B!TypeOK, B!Stages, B!StageInv, B!ReportFails, B!Returns
<1>3. B!SocksInv'
  BY BootWorkerFacts DEF B!Inv, B!TypeOK, B!Stages, B!StageInv, B!SocksInv, B!ReportFails, B!Returns, B!Accepted
<1>4. B!GatherInv'
  BY BootWorkerFacts DEF B!Inv, B!TypeOK, B!Stages, B!StageInv, B!GatherInv, B!ReportFails, B!Returns
<1>5. B!SentInv'
  BY BootWorkerFacts DEF B!Inv, B!TypeOK, B!Stages, B!StageInv, B!SentInv, B!ReportFails, B!Returns
<1>6. B!TablesRight'
  BY BootWorkerFacts DEF B!Inv, B!TypeOK, B!Stages, B!StageInv, B!TablesRight, B!ReportFails, B!Returns
<1>7. B!FailsForCause'
  BY BootWorkerFacts DEF B!Inv, B!TypeOK, B!Stages, B!StageInv, B!FailsForCause, B!ReportFails, B!Returns
<1>8. QED
  BY <1>1, <1>2, <1>3, <1>4, <1>5, <1>6, <1>7 DEF B!Inv

LEMMA BootLearnKeeps ==
  ASSUME B!Inv, NEW q \in B!Workers, B!Learn(q)
  PROVE  B!Inv'
<1>1. B!TypeOK'
  BY BootWorkerFacts DEF B!Inv, B!TypeOK, B!Stages, B!StageInv, B!Learn, B!Returns, B!Over
<1>2. B!StageInv'
  BY BootWorkerFacts DEF B!Inv, B!TypeOK, B!Stages, B!StageInv, B!Learn, B!Returns
<1>3. B!SocksInv'
  BY BootWorkerFacts DEF B!Inv, B!TypeOK, B!Stages, B!StageInv, B!SocksInv, B!Learn, B!Returns, B!Accepted
<1>4. B!GatherInv'
  BY BootWorkerFacts DEF B!Inv, B!TypeOK, B!Stages, B!StageInv, B!GatherInv, B!Learn, B!Returns
<1>5. B!SentInv'
  BY BootWorkerFacts DEF B!Inv, B!TypeOK, B!Stages, B!StageInv, B!SentInv, B!Learn, B!Returns
<1>6. B!TablesRight'
  <2>1. table[B!Master] = B!Whole
    BY DEF B!Inv, B!SentInv, B!Learn
  <2>2. q \in B!Ranks /\ table' = [table EXCEPT ![q] = table[B!Master]]
    BY BootWorkerFacts DEF B!Learn
  <2>3. table'[q] = B!Whole
    BY <2>1, <2>2 DEF B!Inv, B!TypeOK
  <2>4. \A r \in B!Ranks \ {q} : stage'[r] = stage[r] /\ table'[r] = table[r]
    BY <2>2 DEF B!Inv, B!TypeOK, B!Learn, B!Returns
  <2>5. QED
    BY <2>3, <2>4 DEF B!Inv, B!TablesRight
<1>7. B!FailsForCause'
  BY BootWorkerFacts DEF B!Inv, B!TypeOK, B!Stages, B!StageInv, B!FailsForCause, B!Learn, B!Returns
<1>8. QED
  BY <1>1, <1>2, <1>3, <1>4, <1>5, <1>6, <1>7 DEF B!Inv

LEMMA BootLearnFailsKeeps ==
  ASSUME B!Inv, NEW q \in B!Workers, B!LearnFails(q)
  PROVE  B!Inv'
<1>1. B!TypeOK'
  BY BootWorkerFacts DEF B!Inv, B!TypeOK, B!Stages, B!StageInv, B!LearnFails, B!Returns, B!Over
<1>2. B!StageInv'
  BY BootWorkerFacts DEF B!Inv, B!TypeOK, B!Stages, B!StageInv, B!LearnFails, B!Returns
<1>3. B!SocksInv'
  BY BootWorkerFacts DEF B!Inv, B!TypeOK, B!Stages, B!StageInv, B!SocksInv, B!LearnFails, B!Returns, B!Accepted
<1>4. B!GatherInv'
  BY BootWorkerFacts DEF B!Inv, B!TypeOK, B!Stages, B!StageInv, B!GatherInv, B!LearnFails, B!Returns
<1>5. B!SentInv'
  BY BootWorkerFacts DEF B!Inv, B!TypeOK, B!Stages, B!StageInv, B!SentInv, B!LearnFails, B!Returns
<1>6. B!TablesRight'
  BY BootWorkerFacts DEF B!Inv, B!TypeOK, B!Stages, B!StageInv, B!TablesRight, B!LearnFails, B!Returns
<1>7. B!FailsForCause'
  BY BootWorkerFacts DEF B!Inv, B!TypeOK, B!Stages, B!StageInv, B!FailsForCause, B!LearnFails, B!Returns
<1>8. QED
  BY <1>1, <1>2, <1>3, <1>4, <1>5, <1>6, <1>7 DEF B!Inv

LEMMA BootDieKeeps ==
  ASSUME B!Inv, NEW r \in B!Ranks, B!Die(r)
  PROVE  B!Inv'
<1>1. B!TypeOK'
  BY BootWorkerFacts DEF B!Inv, B!TypeOK, B!Stages, B!StageInv, B!Die, B!Returns, B!Over
<1>2. B!StageInv'
  BY BootWorkerFacts DEF B!Inv, B!TypeOK, B!Stages, B!StageInv, B!Die, B!Returns
<1>3. B!SocksInv'
  BY BootWorkerFacts DEF B!Inv, B!TypeOK, B!Stages, B!StageInv, B!SocksInv, B!Die, B!Returns, B!Accepted
<1>4. B!GatherInv'
  BY BootWorkerFacts DEF B!Inv, B!TypeOK, B!Stages, B!StageInv, B!GatherInv, B!Die, B!Returns
<1>5. B!SentInv'
  BY BootWorkerFacts DEF B!Inv, B!TypeOK, B!Stages, B!StageInv, B!SentInv, B!Die, B!Returns
<1>6. B!TablesRight'
  BY BootWorkerFacts DEF B!Inv, B!TypeOK, B!Stages, B!StageInv, B!TablesRight, B!Die, B!Returns
<1>7. B!FailsForCause'
  BY BootWorkerFacts DEF B!Inv, B!TypeOK, B!Stages, B!StageInv, B!FailsForCause, B!Die, B!Returns
<1>8. QED
  BY <1>1, <1>2, <1>3, <1>4, <1>5, <1>6, <1>7 DEF B!Inv

-----------------------------------------------------------------------------
(* Every step keeps the invariant.                                          *)
LEMMA BootNextKeeps == B!Inv /\ [B!Next]_(B!vars) => B!Inv'
<1>1. CASE UNCHANGED B!vars
  BY <1>1 DEF B!Inv, B!TypeOK, B!Stages, B!StageInv, B!SocksInv, B!Accepted, B!GatherInv, B!SentInv, B!TablesRight,
              B!FailsForCause, B!vars
<1>2. ASSUME B!Inv, B!MasterGoes \/ B!MasterFails \/ B!ListenFails
      PROVE  B!Inv'
  BY <1>2, BootListenKeeps, BootAcceptKeeps, BootGatherKeeps, BootTellKeeps, BootGatherFailsKeeps, BootTellFailsKeeps,
     BootListenFailsKeeps DEF B!MasterGoes, B!MasterFails
<1>3. ASSUME B!Inv, NEW q \in B!Workers, B!WorkerGoes(q) \/ B!WorkerFails(q)
      PROVE  B!Inv'
  BY <1>3, BootConnectKeeps, BootReportKeeps, BootLearnKeeps, BootGiveUpKeeps, BootReportFailsKeeps,
     BootLearnFailsKeeps DEF B!WorkerGoes, B!WorkerFails
<1>4. QED
  BY <1>1, <1>2, <1>3, BootDieKeeps DEF B!Next, B!Goes, B!Fails, B!MustFail

(* What Run has returned it does not take back.                             *)
LEMMA BootReturnedStays ==
  ASSUME B!Inv, [B!Next]_(B!vars), NEW r \in B!Ranks, stage[r] = "true"
  PROVE  stage'[r] = "true"
<1>1. CASE UNCHANGED B!vars
  BY <1>1 DEF B!vars
<1>2. CASE B!MasterGoes \/ B!MasterFails \/ B!ListenFails
  BY <1>2 DEF B!Inv, B!TypeOK, B!MasterGoes, B!MasterFails, B!ListenFails, B!Listen, B!Accept, B!Gather, B!Tell,
              B!GatherFails, B!TellFails, B!Turn, B!Returns
<1>3. ASSUME NEW q \in B!Workers, B!WorkerGoes(q) \/ B!WorkerFails(q)
      PROVE  stage'[r] = "true"
  BY <1>3 DEF B!Inv, B!TypeOK, B!WorkerGoes, B!WorkerFails, B!Connect, B!GiveUp, B!Report, B!ReportFails, B!Learn,
              B!LearnFails, B!Returns
<1>4. ASSUME NEW q \in B!Ranks, B!Die(q)
      PROVE  stage'[r] = "true"
  BY <1>4 DEF B!Inv, B!TypeOK, B!Die, B!Returns, B!Over
<1>5. QED
  BY <1>1, <1>2, <1>3, <1>4 DEF B!Next, B!Goes, B!Fails, B!MustFail

(* What the master knows when it sends, and what the workers learn from it. *)
THEOREM BootstrapInvariance == B!SafeSpec => []B!Inv
BY BootInitInv, BootNextKeeps, PTL DEF B!SafeSpec

-----------------------------------------------------------------------------
(* A step ends Run at one rank at most, and a rank whose Run has ended      *)
(* stays as it is.                                                          *)
LEMMA BootOutcomeOfReturn ==
  ASSUME NEW r \in B!Ranks, NEW result \in {"true", "false"}, stage \in [B!Ranks -> B!Stages],
         stage' = [stage EXCEPT ![r] = result], ~B!Over(r)
  PROVE  /\ B!outcomeNow[r] = "none"
         /\ B!outcomeNow' = [B!outcomeNow EXCEPT ![r] = IF result = "true" THEN "table" ELSE "failed"]
BY DEF B!outcomeNow, B!Over

LEMMA BootOutcomeOfWork ==
  ASSUME NEW r \in B!Ranks, NEW next, stage \in [B!Ranks -> B!Stages],
         stage' = [stage EXCEPT ![r] = next], ~B!Over(r), next \notin {"true", "false"}
  PROVE  B!outcomeNow' = B!outcomeNow
BY DEF B!outcomeNow, B!Over

(* A step that makes Run fail.                                              *)
LEMMA BootFailureRefines ==
  ASSUME B!Inv, NEW r \in B!Ranks, ~B!Over(r), B!Returns(r, "false"), UNCHANGED <<written, table>>
  PROVE  B!Exchange!Next
<1>1. stage \in [B!Ranks -> B!Stages]
  BY DEF B!Inv, B!TypeOK
<1>2. B!outcomeNow[r] = "none" /\ B!outcomeNow' = [B!outcomeNow EXCEPT ![r] = "failed"]
  BY <1>1, BootOutcomeOfReturn DEF B!Returns
<1>3. B!presentNow' = B!presentNow
  BY DEF B!presentNow
<1>4. B!Exchange!Fail(r)
  BY <1>2, <1>3 DEF B!Exchange!Fail
<1>5. QED
  BY <1>4 DEF B!Exchange!Next, B!Exchange!Ranks, B!Ranks

(* A step in the middle of Run that nobody outside sees.                    *)
LEMMA BootWorkRefines ==
  ASSUME B!Inv, NEW r \in B!Ranks, NEW next, next \notin {"true", "false"}, ~B!Over(r),
         stage' = [stage EXCEPT ![r] = next], written' = written,
         table'[B!Master][B!Master] = table[B!Master][B!Master]
  PROVE  UNCHANGED <<B!presentNow, B!outcomeNow>>
<1>1. stage \in [B!Ranks -> B!Stages]
  BY DEF B!Inv, B!TypeOK
<1>2. B!outcomeNow' = B!outcomeNow
  BY <1>1, BootOutcomeOfWork
<1>3. B!presentNow' = B!presentNow
  BY DEF B!presentNow
<1>4. QED
  BY <1>2, <1>3

(* Run returns true where everybody has announced itself.                   *)
LEMMA BootSuccessRefines ==
  ASSUME B!Inv, NEW r \in B!Ranks, ~B!Over(r), B!Returns(r, "true"), written' = written,
         table'[B!Master][B!Master] = table[B!Master][B!Master],
         B!Workers \subseteq written, table[B!Master] = B!Whole
  PROVE  B!Exchange!Next
<1>1. stage \in [B!Ranks -> B!Stages]
  BY DEF B!Inv, B!TypeOK
<1>2. B!outcomeNow[r] = "none" /\ B!outcomeNow' = [B!outcomeNow EXCEPT ![r] = "table"]
  BY <1>1, BootOutcomeOfReturn DEF B!Returns
<1>3. B!presentNow' = B!presentNow
  BY DEF B!presentNow
<1>4. table[B!Master][B!Master] = B!Master
  BY BootWorkerFacts DEF B!Whole
<1>5. B!presentNow = B!Ranks
  BY <1>4, BootWorkerFacts DEF B!presentNow, B!Workers, B!Inv, B!TypeOK
<1>6. B!Exchange!Learn(r)
  BY <1>2, <1>3, <1>5 DEF B!Exchange!Learn, B!Exchange!Ranks, B!Ranks
<1>7. QED
  BY <1>6 DEF B!Exchange!Next, B!Exchange!Ranks, B!Ranks

(* A rank can be known from now on.                                         *)
LEMMA BootAnnounceRefines ==
  ASSUME NEW r \in B!Ranks, B!presentNow' = B!presentNow \cup {r}, B!outcomeNow' = B!outcomeNow
  PROVE  B!Exchange!Next
BY DEF B!Exchange!Next, B!Exchange!Announce, B!Exchange!Ranks, B!Ranks

(* Of the master's steps, its listening announces it and its last Tell      *)
(* makes it succeed.                                                        *)
LEMMA BootMasterRefines ==
  ASSUME B!Inv, B!MasterGoes \/ B!MasterFails \/ B!ListenFails
  PROVE  B!Exchange!Next \/ UNCHANGED <<B!presentNow, B!outcomeNow>>
<1>1. B!Master \in B!Ranks
  BY BootWorkerFacts
<1>2. CASE B!Listen
  <2>1. ~B!Over(B!Master) /\ stage \in [B!Ranks -> B!Stages]
    BY <1>2 DEF B!Listen, B!Over, B!Inv, B!TypeOK
  <2>2. B!outcomeNow' = B!outcomeNow
    <3>1. PICK next : next \notin {"true", "false"} /\ stage' = [stage EXCEPT ![B!Master] = next]
      BY <1>2 DEF B!Listen
    <3>2. QED
      BY <1>1, <2>1, <3>1, BootOutcomeOfWork
  <2>3. table'[B!Master][B!Master] = B!Master
    BY <1>1, <1>2 DEF B!Listen, B!Inv, B!TypeOK
  <2>4. B!presentNow' = B!presentNow \cup {B!Master}
    BY <1>2, <2>3 DEF B!Listen, B!presentNow
  <2>5. QED
    BY <1>1, <2>2, <2>4, BootAnnounceRefines
<1>3. ASSUME NEW q \in B!Workers, B!Accept(q)
      PROVE  UNCHANGED <<B!presentNow, B!outcomeNow>>
  <2>1. ~B!Over(B!Master) /\ written' = written /\ table' = table
    BY <1>3 DEF B!Accept, B!Over
  <2>2. PICK next : next \in {"accept", "gather"} /\ stage' = [stage EXCEPT ![B!Master] = next]
    BY <1>3 DEF B!Accept, B!Turn
  <2>3. QED
    BY <1>1, <2>1, <2>2, BootWorkRefines
<1>4. CASE B!Gather
  <2>1. ~B!Over(B!Master) /\ written' = written
    BY <1>4 DEF B!Gather, B!Over
  <2>2. PICK next : next \in {"gather", "tell"} /\ stage' = [stage EXCEPT ![B!Master] = next]
    BY <1>4 DEF B!Gather, B!Turn
  <2>3. socks[at] \in B!Workers
    BY <1>4 DEF B!Gather, B!Inv, B!TypeOK
  <2>4. table'[B!Master][B!Master] = table[B!Master][B!Master]
    BY <1>1, <1>4, <2>3, BootWorkerFacts DEF B!Gather, B!Inv, B!TypeOK
  <2>5. QED
    BY <1>1, <2>1, <2>2, <2>4, BootWorkRefines
<1>5. CASE B!Tell
  <2>1. ~B!Over(B!Master) /\ written' = written /\ table' = table
    BY <1>5 DEF B!Tell, B!Over
  <2>2. B!Workers \subseteq written /\ table[B!Master] = B!Whole
    BY <1>5 DEF B!Tell, B!Inv, B!SentInv
  <2>3. CASE at = N - 1
    <3>1. B!Returns(B!Master, "true")
      BY <1>5, <2>3 DEF B!Tell, B!Turn, B!Returns
    <3>2. QED
      BY <1>1, <2>1, <2>2, <3>1, BootSuccessRefines
  <2>4. CASE at # N - 1
    <3>1. stage' = [stage EXCEPT ![B!Master] = "tell"]
      BY <1>5, <2>4 DEF B!Tell, B!Turn
    <3>2. QED
      BY <1>1, <2>1, <3>1, BootWorkRefines
  <2>5. QED
    BY <2>3, <2>4
<1>6. CASE B!MasterFails \/ B!ListenFails
  <2>1. ~B!Over(B!Master) /\ B!Returns(B!Master, "false") /\ UNCHANGED <<written, table>>
    BY <1>6 DEF B!MasterFails, B!GatherFails, B!TellFails, B!ListenFails, B!Over
  <2>2. QED
    BY <1>1, <2>1, BootFailureRefines
<1>7. QED
  BY <1>2, <1>3, <1>4, <1>5, <1>6 DEF B!MasterGoes

(* A worker announces itself when its address is in the stream, and         *)
(* succeeds when it has learnt the table.                                   *)
LEMMA BootWorkerRefines ==
  ASSUME B!Inv, NEW q \in B!Workers, B!WorkerGoes(q) \/ B!WorkerFails(q)
  PROVE  B!Exchange!Next \/ UNCHANGED <<B!presentNow, B!outcomeNow>>
<1>1. q \in B!Ranks /\ q # B!Master
  BY BootWorkerFacts
<1>2. CASE B!Connect(q)
  <2>1. /\ ~B!Over(q) /\ written' = written /\ table' = table
        /\ stage' = [stage EXCEPT ![q] = "connected"]
    BY <1>2 DEF B!Connect, B!Over
  <2>2. QED
    BY <1>1, <2>1, BootWorkRefines
<1>3. CASE B!Report(q)
  <2>1. ~B!Over(q) /\ stage \in [B!Ranks -> B!Stages]
    BY <1>3 DEF B!Report, B!Over, B!Inv, B!TypeOK
  <2>2. B!outcomeNow' = B!outcomeNow
    <3>1. PICK next : next \notin {"true", "false"} /\ stage' = [stage EXCEPT ![q] = next]
      BY <1>3 DEF B!Report
    <3>2. QED
      BY <1>1, <2>1, <3>1, BootOutcomeOfWork
  <2>3. B!presentNow' = B!presentNow \cup {q}
    BY <1>3 DEF B!Report, B!presentNow
  <2>4. QED
    BY <1>1, <2>2, <2>3, BootAnnounceRefines
<1>4. CASE B!Learn(q)
  <2>1. ~B!Over(q) /\ B!Returns(q, "true") /\ written' = written
    BY <1>4 DEF B!Learn, B!Over
  <2>2. table'[B!Master][B!Master] = table[B!Master][B!Master]
    BY <1>1, <1>4 DEF B!Learn, B!Inv, B!TypeOK
  <2>3. B!Workers \subseteq written /\ table[B!Master] = B!Whole
    BY <1>4 DEF B!Learn, B!Inv, B!SentInv
  <2>4. QED
    BY <1>1, <2>1, <2>2, <2>3, BootSuccessRefines
<1>5. CASE B!WorkerFails(q)
  <2>1. ~B!Over(q) /\ B!Returns(q, "false") /\ UNCHANGED <<written, table>>
    BY <1>5 DEF B!WorkerFails, B!GiveUp, B!ReportFails, B!LearnFails, B!Over
  <2>2. QED
    BY <1>1, <2>1, BootFailureRefines
<1>6. QED
  BY <1>2, <1>3, <1>4, <1>5 DEF B!WorkerGoes

(* Bootstrap is a table exchange: a rank learns the table only when all are *)
(* known, and what it has returned it does not take back.                   *)
THEOREM BootstrapRefinement == B!SafeSpec => B!RefinesExchange
<1>1. B!Init => B!Exchange!Init
  <2> SUFFICES ASSUME B!Init
               PROVE  B!Exchange!Init
    OBVIOUS
  <2>1. B!presentNow = {}
    BY BootWorkerFacts DEF B!Init, B!presentNow
  <2>2. B!outcomeNow = [r \in B!Ranks |-> "none"]
    BY DEF B!Init, B!outcomeNow
  <2>3. QED
    BY <2>1, <2>2 DEF B!Exchange!Init, B!Exchange!Ranks, B!Ranks
<1>2. B!Inv /\ [B!Next]_(B!vars) => [B!Exchange!Next]_(B!Exchange!vars)
  <2> SUFFICES ASSUME B!Inv, [B!Next]_(B!vars)
               PROVE  B!Exchange!Next \/ UNCHANGED <<B!presentNow, B!outcomeNow>>
    BY DEF B!Exchange!vars
  <2>1. CASE UNCHANGED B!vars
    BY <2>1 DEF B!vars, B!presentNow, B!outcomeNow
  <2>2. ASSUME NEW r \in B!Ranks, B!Die(r)
        PROVE  B!Exchange!Next
    <3>1. ~B!Over(r) /\ B!Returns(r, "false") /\ UNCHANGED <<written, table>>
      BY <2>2 DEF B!Die
    <3>2. QED
      BY <3>1, BootFailureRefines
  <2>3. QED
    BY <2>1, <2>2, BootMasterRefines, BootWorkerRefines DEF B!Next, B!Goes, B!Fails, B!MustFail
<1>3. QED
  BY <1>1, <1>2, BootstrapInvariance, PTL DEF B!SafeSpec, B!RefinesExchange, B!Exchange!Spec
-----------------------------------------------------------------------------
(* A neighbour's neighbours include oneself, and of two neighbours one      *)
(* connects and the other accepts.                                          *)
LEMMA PeerFacts ==
  /\ \A r \in Ranks : /\ Neighbors(r) \subseteq Ranks
                      /\ ConnectPeers(r) \cup AcceptPeers(r) = Neighbors(r)
                      /\ IsFiniteSet(AcceptPeers(r))
  /\ \A r \in Ranks : \A p \in ConnectPeers(r) : p \in Ranks /\ r \in AcceptPeers(p)
  /\ \A r \in Ranks : \A q \in AcceptPeers(r) : q \in Ranks /\ r \in ConnectPeers(q)
<1>1. \A r \in Ranks :
        /\ NextRank(r) = IF r = N - 1 THEN 0 ELSE r + 1
        /\ PrevRank(r) = IF r = 0 THEN N - 1 ELSE r - 1
  BY GroupAssumption DEF Ranks, NextRank, PrevRank
<1>2. \A r \in Ranks : Neighbors(r) \subseteq Ranks /\ r \notin Neighbors(r)
  BY <1>1, GroupAssumption DEF Ranks, Neighbors
<1>3. \A r, p \in Ranks : p \in Neighbors(r) => r \in Neighbors(p)
  BY <1>1, GroupAssumption DEF Ranks, Neighbors
<1>4. \A r \in Ranks : IsFiniteSet(AcceptPeers(r))
  <2>1. IsFiniteSet(Ranks)
    BY FS_Interval, GroupAssumption DEF Ranks
  <2>2. \A r \in Ranks : AcceptPeers(r) \in SUBSET Ranks
    BY <1>2 DEF AcceptPeers
  <2>3. QED
    BY <2>1, <2>2, FS_Subset
<1>5. \A r, p \in Ranks : /\ p \in ConnectPeers(r) <=> p \in Neighbors(r) /\ r < p
                         /\ p \in AcceptPeers(r) <=> p \in Neighbors(r) /\ ~(r < p)
  BY <1>2 DEF ConnectPeers, AcceptPeers, ShouldConnect
<1>6. \A r, p \in Ranks : r # p => (r < p <=> ~(p < r))
  BY GroupAssumption DEF Ranks
<1>7. \A r \in Ranks : ConnectPeers(r) \cup AcceptPeers(r) = Neighbors(r)
  BY DEF ConnectPeers, AcceptPeers
<1>8. \A r \in Ranks : \A p \in ConnectPeers(r) : p \in Ranks /\ r \in AcceptPeers(p)
  BY <1>2, <1>3, <1>5, <1>6, <1>7
<1>9. ASSUME NEW r \in Ranks, NEW q \in AcceptPeers(r)
      PROVE  q \in Ranks /\ r \in ConnectPeers(q)
  <2>1. q \in Neighbors(r)
    BY DEF AcceptPeers
  <2>2. q \in Ranks /\ q # r
    <3>1. Neighbors(r) \subseteq Ranks /\ r \notin Neighbors(r)
      BY <1>2
    <3>2. QED
      BY <2>1, <3>1
  <2>3. r \in Neighbors(q)
    BY <1>3, <2>1, <2>2
  <2>4. q < r
    <3>1. ~(r < q)
      BY <2>1, <2>2 DEF AcceptPeers, ConnectPeers, ShouldConnect
    <3>2. QED
      BY <1>6, <2>2, <3>1
  <2>5. QED
    BY <2>2, <2>3, <2>4 DEF ConnectPeers, ShouldConnect
<1>10. QED
  BY <1>2, <1>4, <1>7, <1>8, <1>9

-----------------------------------------------------------------------------
(* Nothing has begun.                                                       *)
LEMMA InitIInv == Init => IInv
<1> SUFFICES ASSUME Init
             PROVE  IInv
  OBVIOUS
<1>1. TypeOK
  BY PeerFacts, FS_CardinalityType DEF Init, TypeOK
<1>2. StoredInv /\ ConnectionInv /\ JoinedInv /\ NoFalseAlarm
  BY PeerFacts DEF Init, StoredInv, ConnectionInv, JoinedInv, NoFalseAlarm
<1>3. ThreadsInv
  <2>1. \A r \in Ranks : Accepted(r) = {}
    BY DEF Init, Accepted
  <2>2. \A r \in Ranks : Cardinality(AcceptPeers(r)) \in Nat
    BY PeerFacts, FS_CardinalityType
  <2>3. \A r \in Ranks : Cardinality(Accepted(r)) = 0
    BY <2>1, FS_EmptySet
  <2>4. QED
    BY <2>2, <2>3 DEF Init, ThreadsInv
<1>4. QED
  BY <1>1, <1>2, <1>3 DEF IInv

(* The steps of a rank, one by one.                                         *)
LEMMA StartKeeps ==
  ASSUME IInv, NEW r \in Ranks, Start(r)
  PROVE  IInv'
<1>1. TypeOK'
  BY DEF IInv, TypeOK, Start
<1>2. StoredInv'
  BY DEF IInv, StoredInv, Start
<1>3. ConnectionInv'
  BY DEF IInv, ConnectionInv, Start
<1>4. ThreadsInv'
  BY DEF IInv, ThreadsInv, Start, Accepted
<1>5. JoinedInv'
  BY DEF IInv, JoinedInv, Start
<1>6. NoFalseAlarm'
  BY DEF IInv, NoFalseAlarm, Start
<1>7. QED
  BY <1>1, <1>2, <1>3, <1>4, <1>5, <1>6 DEF IInv

(* A rank that never begins ends with the trouble that kept it.             *)
LEMMA NoTableKeeps ==
  ASSUME IInv, NEW r \in Ranks, NoTable(r)
  PROVE  IInv'
<1>1. TypeOK'
  BY DEF IInv, TypeOK, NoTable
<1>2. StoredInv'
  BY DEF IInv, StoredInv, NoTable
<1>3. ConnectionInv'
  BY DEF IInv, ConnectionInv, NoTable
<1>4. ThreadsInv'
  BY DEF IInv, ThreadsInv, NoTable, Accepted
<1>5. JoinedInv'
  BY DEF IInv, JoinedInv, NoTable
<1>6. NoFalseAlarm'
  BY DEF IInv, NoFalseAlarm, NoTable
<1>7. QED
  BY <1>1, <1>2, <1>3, <1>4, <1>5, <1>6 DEF IInv

LEMMA ListenFailsKeeps ==
  ASSUME IInv, NEW r \in Ranks, ListenFails(r)
  PROVE  IInv'
BY NoTableKeeps DEF ListenFails, NoTable

LEMMA BeginConnectKeeps ==
  ASSUME IInv, NEW r \in Ranks, NEW p \in ConnectPeers(r), BeginConnect(r, p)
  PROVE  IInv'
<1>1. TypeOK'
  BY DEF IInv, TypeOK, BeginConnect
<1>2. StoredInv'
  BY DEF IInv, StoredInv, BeginConnect
<1>3. ConnectionInv'
  BY DEF IInv, ConnectionInv, BeginConnect
<1>4. ThreadsInv'
  BY DEF IInv, ThreadsInv, BeginConnect, Accepted
<1>5. JoinedInv'
  BY DEF IInv, JoinedInv, BeginConnect
<1>6. NoFalseAlarm'
  BY DEF IInv, NoFalseAlarm, BeginConnect
<1>7. QED
  BY <1>1, <1>2, <1>3, <1>4, <1>5, <1>6 DEF IInv

(* The other end has not seen this connection before.                       *)
LEMMA ConnectKeeps ==
  ASSUME IInv, NEW r \in Ranks, NEW p \in ConnectPeers(r), Connect(r, p)
  PROVE  IInv'
<1>1. TypeOK'
  BY DEF IInv, TypeOK, Connect
<1>2. StoredInv'
  BY DEF IInv, StoredInv, Connect
<1>3. ConnectionInv'
  BY PeerFacts DEF IInv, TypeOK, ConnectionInv, Connect
<1>4. ThreadsInv'
  BY DEF IInv, ThreadsInv, Connect, Accepted
<1>5. JoinedInv'
  BY DEF IInv, JoinedInv, Connect
<1>6. NoFalseAlarm'
  BY DEF IInv, NoFalseAlarm, Connect
<1>7. QED
  BY <1>1, <1>2, <1>3, <1>4, <1>5, <1>6 DEF IInv

(* A rank that is past the joins has no thread that could still fail.       *)
LEMMA GiveUpKeeps ==
  ASSUME IInv, NEW r \in Ranks, NEW p \in ConnectPeers(r), GiveUp(r, p)
  PROVE  IInv'
<1>1. TypeOK'
  BY DEF IInv, TypeOK, GiveUp
<1>2. StoredInv'
  BY DEF IInv, TypeOK, StoredInv, GiveUp
<1>3. ConnectionInv'
  BY DEF IInv, ConnectionInv, GiveUp
<1>4. ThreadsInv'
  BY DEF IInv, ThreadsInv, GiveUp, Accepted
<1>5. JoinedInv'
  BY DEF IInv, JoinedInv, GiveUp
<1>6. NoFalseAlarm'
  BY DEF IInv, NoFalseAlarm, GiveUp
<1>7. QED
  BY <1>1, <1>2, <1>3, <1>4, <1>5, <1>6 DEF IInv

LEMMA LockOutKeeps ==
  ASSUME IInv, NEW r \in Ranks, NEW p \in ConnectPeers(r), LockOut(r, p)
  PROVE  IInv'
<1>1. TypeOK'
  BY DEF IInv, TypeOK, LockOut
<1>2. StoredInv'
  BY DEF IInv, StoredInv, LockOut
<1>3. ConnectionInv'
  BY DEF IInv, ConnectionInv, LockOut
<1>4. ThreadsInv'
  BY DEF IInv, ThreadsInv, LockOut, Accepted
<1>5. JoinedInv'
  BY DEF IInv, JoinedInv, LockOut
<1>6. NoFalseAlarm'
  BY DEF IInv, NoFalseAlarm, LockOut
<1>7. QED
  BY <1>1, <1>2, <1>3, <1>4, <1>5, <1>6 DEF IInv

(* No other entry of the map is lost.                                       *)
LEMMA InsertOutKeeps ==
  ASSUME ~LostInserts, IInv, NEW r \in Ranks, NEW p \in ConnectPeers(r), InsertOut(r, p)
  PROVE  IInv'
<1>1. TypeOK'
  BY PeerFacts DEF IInv, TypeOK, InsertOut, Insert
<1>2. StoredInv'
  BY PeerFacts DEF IInv, TypeOK, StoredInv, InsertOut, Insert
<1>3. ConnectionInv'
  BY DEF IInv, ConnectionInv, InsertOut
<1>4. ThreadsInv'
  BY DEF IInv, ThreadsInv, InsertOut, Accepted
<1>5. JoinedInv'
  BY DEF IInv, JoinedInv, InsertOut
<1>6. NoFalseAlarm'
  BY DEF IInv, NoFalseAlarm, InsertOut
<1>7. QED
  BY <1>1, <1>2, <1>3, <1>4, <1>5, <1>6 DEF IInv

(* Only an error lets an accepting thread end without a peer.               *)
LEMMA BeginAcceptKeeps ==
  ASSUME IInv, NEW r \in Ranks, BeginAccept(r)
  PROVE  IInv'
<1>1. TypeOK'
  BY DEF IInv, TypeOK, BeginAccept
<1>2. StoredInv'
  BY DEF IInv, StoredInv, BeginAccept
<1>3. ConnectionInv'
  BY DEF IInv, ConnectionInv, BeginAccept
<1>4. ThreadsInv'
  BY DEF IInv, TypeOK, ThreadsInv, BeginAccept, Accepted
<1>5. JoinedInv'
  BY DEF IInv, JoinedInv, BeginAccept
<1>6. NoFalseAlarm'
  BY DEF IInv, NoFalseAlarm, BeginAccept
<1>7. QED
  BY <1>1, <1>2, <1>3, <1>4, <1>5, <1>6 DEF IInv

(* One thread fewer waits, and one more peer is accepted.                   *)
LEMMA AcceptKeeps ==
  ASSUME IInv, NEW r \in Ranks, NEW q \in AcceptPeers(r), Accept(r, q)
  PROVE  IInv'
<1>1. TypeOK'
  BY DEF IInv, TypeOK, Accept
<1>2. StoredInv'
  BY DEF IInv, StoredInv, Accept
<1>3. ConnectionInv'
  BY DEF IInv, TypeOK, ConnectionInv, Accept
<1>4. ThreadsInv'
  <2>1. q \in AcceptPeers(r) /\ acc[r][q] = "none"
    BY DEF IInv, ConnectionInv, Accept
  <2>2. Accepted(r)' = Accepted(r) \cup {q} /\ q \notin Accepted(r)
    BY <2>1 DEF IInv, TypeOK, Accept, Accepted
  <2>3. IsFiniteSet(Accepted(r))
    BY PeerFacts, FS_Subset DEF Accepted
  <2>4. Cardinality(Accepted(r)') = Cardinality(Accepted(r)) + 1
    BY <2>2, <2>3, FS_AddElement
  <2>5. Cardinality(Accepted(r)) \in Nat
    BY <2>3, FS_CardinalityType
  <2>6. \A x \in Ranks : x # r => Accepted(x)' = Accepted(x)
    BY DEF IInv, Accept, Accepted
  <2>7. /\ accepting'[r] = accepting[r] - 1 /\ accepting[r] \in Nat /\ idle[r] \in Nat
        /\ \A x \in Ranks : x # r => accepting'[x] = accepting[x]
        /\ idle' = idle /\ error' = error
    BY DEF IInv, TypeOK, Accept
  <2>8. QED
    BY <2>4, <2>5, <2>6, <2>7 DEF IInv, ThreadsInv
<1>5. JoinedInv'
  BY DEF IInv, ConnectionInv, JoinedInv, Accept
<1>6. NoFalseAlarm'
  BY DEF IInv, NoFalseAlarm, Accept
<1>7. QED
  BY <1>1, <1>2, <1>3, <1>4, <1>5, <1>6 DEF IInv

LEMMA LockAccKeeps ==
  ASSUME IInv, NEW r \in Ranks, NEW q \in AcceptPeers(r), LockAcc(r, q)
  PROVE  IInv'
<1>1. TypeOK'
  BY DEF IInv, TypeOK, LockAcc
<1>2. StoredInv'
  BY DEF IInv, StoredInv, LockAcc
<1>3. ConnectionInv'
  BY DEF IInv, ConnectionInv, LockAcc
<1>4. ThreadsInv'
  <2>1. \A x \in Ranks : Accepted(x)' = Accepted(x)
    BY DEF IInv, LockAcc, Accepted
  <2>2. QED
    BY <2>1 DEF IInv, ThreadsInv, LockAcc
<1>5. JoinedInv'
  BY DEF IInv, JoinedInv, LockAcc
<1>6. NoFalseAlarm'
  BY DEF IInv, NoFalseAlarm, LockAcc
<1>7. QED
  BY <1>1, <1>2, <1>3, <1>4, <1>5, <1>6 DEF IInv

LEMMA InsertAccKeeps ==
  ASSUME ~LostInserts, IInv, NEW r \in Ranks, NEW q \in AcceptPeers(r), InsertAcc(r, q)
  PROVE  IInv'
<1>1. TypeOK'
  BY PeerFacts DEF IInv, TypeOK, InsertAcc, Insert
<1>2. StoredInv'
  BY PeerFacts DEF IInv, TypeOK, StoredInv, InsertAcc, Insert
<1>3. ConnectionInv'
  BY DEF IInv, ConnectionInv, InsertAcc
<1>4. ThreadsInv'
  <2>1. \A x \in Ranks : Accepted(x)' = Accepted(x)
    BY DEF IInv, InsertAcc, Accepted
  <2>2. QED
    BY <2>1 DEF IInv, ThreadsInv, InsertAcc
<1>5. JoinedInv'
  BY DEF IInv, JoinedInv, InsertAcc
<1>6. NoFalseAlarm'
  BY DEF IInv, NoFalseAlarm, InsertAcc
<1>7. QED
  BY <1>1, <1>2, <1>3, <1>4, <1>5, <1>6 DEF IInv

(* The other end has failed, so something has gone wrong before.            *)
LEMMA RecvRankFailsKeeps ==
  ASSUME IInv, NEW r \in Ranks, NEW q \in AcceptPeers(r), RecvRankFails(r, q)
  PROVE  IInv'
<1>1. TypeOK'
  BY DEF IInv, TypeOK, RecvRankFails
<1>2. StoredInv'
  BY DEF IInv, TypeOK, StoredInv, RecvRankFails
<1>3. ConnectionInv'
  BY DEF IInv, ConnectionInv, RecvRankFails
<1>4. ThreadsInv'
  BY DEF IInv, ThreadsInv, RecvRankFails, Accepted
<1>5. JoinedInv'
  BY DEF IInv, JoinedInv, RecvRankFails
<1>6. NoFalseAlarm'
  BY PeerFacts DEF IInv, NoFalseAlarm, RecvRankFails
<1>7. QED
  BY <1>1, <1>2, <1>3, <1>4, <1>5, <1>6 DEF IInv

(* All accepting threads have begun and none waits: without an error, as    *)
(* many peers as there are have been accepted, so all of them.              *)
LEMMA JoinKeeps ==
  ASSUME IInv, NEW r \in Ranks, Join(r)
  PROVE  IInv'
<1>1. TypeOK'
  BY DEF IInv, TypeOK, Join, ConnectsOver, AcceptsOver, GoOn
<1>2. StoredInv'
  BY DEF IInv, StoredInv, Join, ConnectsOver, AcceptsOver, GoOn
<1>3. ConnectionInv'
  BY DEF IInv, ConnectionInv, Join, ConnectsOver, AcceptsOver, GoOn
<1>4. ThreadsInv'
  BY DEF IInv, ThreadsInv, Join, ConnectsOver, AcceptsOver, GoOn, Accepted
<1>5. JoinedInv'
  <2>1. ASSUME ~error[r]
        PROVE  \A q \in AcceptPeers(r) : acc[r][q] = "ended"
    <3>1. Cardinality(Accepted(r)) \in Nat /\ Accepted(r) \in SUBSET AcceptPeers(r)
      BY PeerFacts, FS_Subset, FS_CardinalityType DEF Accepted
    <3>2. Cardinality(Accepted(r)) = Cardinality(AcceptPeers(r))
      BY <2>1, <3>1 DEF IInv, ThreadsInv, Join, ConnectsOver, AcceptsOver, GoOn
    <3>3. Accepted(r) = AcceptPeers(r)
      BY <3>1, <3>2, PeerFacts, FS_Subset
    <3>4. QED
      BY <3>3 DEF Join, ConnectsOver, AcceptsOver, GoOn, Accepted
  <2>2. QED
    BY <2>1 DEF IInv, JoinedInv, Join, ConnectsOver, AcceptsOver, GoOn
<1>6. NoFalseAlarm'
  BY DEF IInv, NoFalseAlarm, Join, ConnectsOver, AcceptsOver, GoOn
<1>7. QED
  BY <1>1, <1>2, <1>3, <1>4, <1>5, <1>6 DEF IInv

LEMMA TellKeeps ==
  ASSUME IInv, NEW r \in Ranks, NEW p \in ConnectPeers(r), Tell(r, p)
  PROVE  IInv'
<1>1. TypeOK'
  BY DEF IInv, TypeOK, Tell
<1>2. StoredInv'
  BY DEF IInv, StoredInv, Tell
<1>3. ConnectionInv'
  BY DEF IInv, ConnectionInv, Tell
<1>4. ThreadsInv'
  BY DEF IInv, ThreadsInv, Tell, Accepted
<1>5. JoinedInv'
  BY DEF IInv, JoinedInv, Tell
<1>6. NoFalseAlarm'
  BY DEF IInv, NoFalseAlarm, Tell
<1>7. QED
  BY <1>1, <1>2, <1>3, <1>4, <1>5, <1>6 DEF IInv

(* The transport is in the map, so the other end has failed.                *)
LEMMA TellFailsKeeps ==
  ASSUME IInv, NEW r \in Ranks, NEW p \in ConnectPeers(r), TellFails(r, p)
  PROVE  IInv'
<1>1. TypeOK'
  BY DEF IInv, TypeOK, TellFails
<1>2. StoredInv'
  BY DEF IInv, StoredInv, TellFails
<1>3. ConnectionInv'
  BY DEF IInv, ConnectionInv, TellFails
<1>4. ThreadsInv'
  BY DEF IInv, ThreadsInv, TellFails, Accepted
<1>5. JoinedInv'
  BY DEF IInv, JoinedInv, TellFails
<1>6. NoFalseAlarm'
  <2>1. p \in transports[r] /\ p \in Ranks
    BY PeerFacts DEF IInv, StoredInv, JoinedInv, TellFails
  <2>2. trouble
    BY <2>1 DEF IInv, NoFalseAlarm, TellFails
  <2>3. QED
    BY <2>2 DEF NoFalseAlarm, TellFails
<1>7. QED
  BY <1>1, <1>2, <1>3, <1>4, <1>5, <1>6 DEF IInv

LEMMA ReadyKeeps ==
  ASSUME IInv, NEW r \in Ranks, Ready(r)
  PROVE  IInv'
<1>1. TypeOK'
  BY DEF IInv, TypeOK, Ready
<1>2. StoredInv'
  BY DEF IInv, StoredInv, Ready
<1>3. ConnectionInv'
  BY DEF IInv, ConnectionInv, Ready
<1>4. ThreadsInv'
  BY DEF IInv, ThreadsInv, Ready, Accepted
<1>5. JoinedInv'
  BY DEF IInv, JoinedInv, Ready
<1>6. NoFalseAlarm'
  BY DEF IInv, NoFalseAlarm, Ready
<1>7. QED
  BY <1>1, <1>2, <1>3, <1>4, <1>5, <1>6 DEF IInv

-----------------------------------------------------------------------------
(* Every step keeps the invariant.                                          *)
LEMMA NextKeeps ==
  ASSUME ~LostInserts, IInv, [Next]_vars
  PROVE  IInv'
<1>1. CASE UNCHANGED vars
  BY <1>1 DEF IInv, TypeOK, StoredInv, ConnectionInv, ThreadsInv, Accepted,
              JoinedInv, NoFalseAlarm, vars
<1>2. ASSUME NEW r \in Ranks, Start(r) \/ BeginAccept(r) \/ Join(r) \/ Ready(r)
                        \/ ListenFails(r) \/ NoTable(r)
      PROVE  IInv'
  BY <1>2, StartKeeps, BeginAcceptKeeps, JoinKeeps, ReadyKeeps, ListenFailsKeeps,
     NoTableKeeps
<1>3. ASSUME NEW r \in Ranks, NEW p \in ConnectPeers(r), ConnectStep(r, p) \/ GiveUp(r, p)
      PROVE  IInv'
  BY <1>3, BeginConnectKeeps, ConnectKeeps, LockOutKeeps, InsertOutKeeps, TellKeeps,
     TellFailsKeeps, GiveUpKeeps DEF ConnectStep
<1>4. ASSUME NEW r \in Ranks, NEW q \in AcceptPeers(r), AcceptStep(r, q)
      PROVE  IInv'
  BY <1>4, AcceptKeeps, LockAccKeeps, InsertAccKeeps, RecvRankFailsKeeps DEF AcceptStep
<1>5. QED
  BY <1>1, <1>2, <1>3, <1>4 DEF Next, RankStep

(* What the ranks rely on while they wire up: a thread that has ended has   *)
(* stored its peer, a connection is in one place, every peer has a thread   *)
(* waiting for it, and no one goes on before all its threads have ended.    *)
THEOREM WiringInvariance == ~LostInserts => (SafeSpec => []IInv)
<1>1. SUFFICES ASSUME ~LostInserts
               PROVE  SafeSpec => []IInv
  OBVIOUS
<1>2. Init => IInv
  BY InitIInv
<1>3. IInv /\ [Next]_vars => IInv'
  BY <1>1, NextKeeps
<1>4. QED
  BY <1>2, <1>3, PTL DEF SafeSpec

(* InitTransports returns true only with a transport for every neighbour    *)
(* and for no other rank.                                                   *)
THEOREM OneTransportCorrect == ~LostInserts => (SafeSpec => []OneTransportPerPeer)
<1>1. IInv => OneTransportPerPeer
  BY PeerFacts DEF IInv, StoredInv, JoinedInv, OneTransportPerPeer
<1>2. QED
  BY <1>1, WiringInvariance, PTL

(* A listening transport that closes after a success cuts no one off.       *)
THEOREM NoneLeftCorrect == ~LostInserts => (SafeSpec => []NoneLeftPending)
<1>1. IInv => NoneLeftPending
  BY DEF IInv, ConnectionInv, JoinedInv, NoneLeftPending
<1>2. QED
  BY <1>1, WiringInvariance, PTL

(* A rank fails only after a listen or a connect has failed somewhere.      *)
THEOREM NoFalseAlarmCorrect == ~LostInserts => (SafeSpec => []NoFalseAlarm)
<1>1. IInv => NoFalseAlarm
  BY DEF IInv
<1>2. QED
  BY <1>1, WiringInvariance, PTL

-----------------------------------------------------------------------------
(* A step of one of the two parts leaves the other alone, or tells it that  *)
(* there is no table.                                                       *)
LEMMA StepOfWiring == [NextBoth]_allVars => [Next]_vars
<1>1. ASSUME NEW r \in Ranks, RunGoes(r) \/ RunFails(r) \/ Wires(r)
      PROVE  [Next]_vars
  BY <1>1 DEF RunGoes, RunFails, Wires, Next
<1>2. UNCHANGED allVars => UNCHANGED vars
  BY DEF allVars
<1>3. QED
  BY <1>1, <1>2 DEF NextBoth

LEMMA StepOfBootstrap == [NextBoth]_allVars => [B!Next]_(B!vars)
<1>1. ASSUME NEW r \in Ranks, RunGoes(r) \/ RunFails(r) \/ Wires(r)
      PROVE  [B!Next]_(B!vars)
  BY <1>1 DEF RunGoes, RunFails, Wires, bootVars, B!Next, B!vars, B!Ranks, Ranks
<1>2. UNCHANGED allVars => UNCHANGED B!vars
  BY DEF allVars, bootVars, B!vars
<1>3. QED
  BY <1>1, <1>2 DEF NextBoth

(* Communicator::Init wires up as Wiring has it.                            *)
THEOREM WiringHolds == SafeBoth => SafeSpec
BY StepOfWiring, PTL DEF SafeBoth, InitBoth, SafeSpec

(* And runs Bootstrap as Bootstrap has it.                                  *)
THEOREM BootstrapHolds == SafeBoth => B!SafeSpec
<1>1. InitBoth => B!Init
  BY DEF InitBoth
<1>2. QED
  BY <1>1, StepOfBootstrap, PTL DEF SafeBoth, B!SafeSpec

(* The invariant of Bootstrap is one of Communicator::Init.                 *)
LEMMA BootstrapInv == SafeBoth => []B!Inv
BY BootstrapInvariance, BootstrapHolds, PTL

(* Run returns true only with everybody's address, also while some ranks    *)
(* are wiring up already.                                                   *)
THEOREM TablesCorrect == SafeBoth => []TablesRight
<1>1. B!Inv => TablesRight
  BY DEF TablesRight, B!Inv
<1>2. QED
  BY <1>1, BootstrapInv, PTL

(* And it returns false only after something has failed.                    *)
THEOREM FailsCorrect == SafeBoth => []FailsForCause
<1>1. B!Inv => FailsForCause
  BY DEF FailsForCause, B!Inv
<1>2. QED
  BY <1>1, BootstrapInv, PTL

(* Communicator::Init is a table exchange as far as the table goes.         *)
THEOREM ExchangeHolds == SafeBoth => RefinesExchange
BY BootstrapRefinement, BootstrapHolds, PTL DEF RefinesExchange

(* Communicator::Init returns true only with a transport for every          *)
(* neighbour.                                                               *)
THEOREM OneTransportInInit == ~LostInserts => (SafeBoth => []OneTransportPerPeer)
BY WiringHolds, OneTransportCorrect, PTL

-----------------------------------------------------------------------------
(* A rank that is wiring up has returned from Run.                          *)
WiresWithTable == \A r \in Ranks : phase[r] # "start" /\ phase[r] # "false" => stage[r] = "true"

(* Only the rank that takes a step of InitTransports changes its phase.     *)
LEMMA PhaseOfOthers ==
  ASSUME NEW r \in Ranks, TypeOK, RankStep(r) \/ ListenFails(r) \/ NoTable(r)
  PROVE  \A x \in Ranks \ {r} : phase'[x] = phase[x]
<1>1. CASE Start(r) \/ BeginAccept(r) \/ Join(r) \/ Ready(r) \/ ListenFails(r) \/ NoTable(r)
  BY <1>1 DEF TypeOK, Start, BeginAccept, Join, GoOn, Ready, ListenFails, NoTable
<1>2. ASSUME NEW p \in ConnectPeers(r), ConnectStep(r, p) \/ GiveUp(r, p)
      PROVE  \A x \in Ranks \ {r} : phase'[x] = phase[x]
  BY <1>2 DEF TypeOK, ConnectStep, BeginConnect, Connect, LockOut, InsertOut, Tell, TellFails, GiveUp
<1>3. ASSUME NEW q \in AcceptPeers(r), AcceptStep(r, q)
      PROVE  phase' = phase
  BY <1>3 DEF AcceptStep, Accept, LockAcc, InsertAcc, RecvRankFails
<1>4. QED
  BY <1>1, <1>2, <1>3 DEF RankStep

LEMMA WiresWithTableKeeps ==
  ASSUME WiresWithTable, TypeOK, B!Inv, [NextBoth]_allVars
  PROVE  WiresWithTable'
<1>1. \A r \in Ranks : stage[r] = "true" => stage'[r] = "true"
  BY BootReturnedStays, StepOfBootstrap DEF B!Ranks, Ranks
<1>2. ASSUME NEW r \in Ranks, RunGoes(r)
      PROVE  WiresWithTable'
  BY <1>1, <1>2 DEF RunGoes, vars, WiresWithTable
<1>3. ASSUME NEW r \in Ranks, RunFails(r)
      PROVE  WiresWithTable'
  <2>1. phase'[r] = "false"
    BY <1>3 DEF RunFails, NoTable, TypeOK
  <2>2. \A x \in Ranks \ {r} : phase'[x] = phase[x]
    BY <1>3 DEF RunFails, NoTable, TypeOK
  <2>3. QED
    BY <1>1, <2>1, <2>2 DEF WiresWithTable
<1>4. ASSUME NEW r \in Ranks, Wires(r)
      PROVE  WiresWithTable'
  <2>1. stage[r] = "true"
    BY <1>4 DEF Wires
  <2>2. \A x \in Ranks \ {r} : phase'[x] = phase[x]
    BY <1>4, PhaseOfOthers DEF Wires
  <2>3. QED
    BY <1>1, <2>1, <2>2 DEF WiresWithTable
<1>5. CASE UNCHANGED allVars
  BY <1>5 DEF allVars, bootVars, vars, WiresWithTable
<1>6. QED
  BY <1>2, <1>3, <1>4, <1>5 DEF NextBoth

(* No rank connects to a port that its owner has not found and told.        *)
THEOREM PortsCorrect == ~LostInserts => (SafeBoth => []PortsKnown)
<1>1. SUFFICES ASSUME ~LostInserts
               PROVE  SafeBoth => []PortsKnown
  OBVIOUS
<1>2. SafeBoth => []TypeOK
  <2>1. IInv => TypeOK
    BY DEF IInv
  <2>2. QED
    BY <1>1, <2>1, WiringHolds, WiringInvariance, PTL
<1>3. InitBoth => WiresWithTable
  BY DEF InitBoth, Init, WiresWithTable
<1>4. WiresWithTable /\ TypeOK /\ B!Inv /\ [NextBoth]_allVars => WiresWithTable'
  BY WiresWithTableKeeps
<1>5. WiresWithTable /\ B!Inv => PortsKnown
  <2> SUFFICES ASSUME WiresWithTable, B!Inv, NEW r \in Ranks, stage[r] = "true",
                      NEW q \in Neighbors(r)
               PROVE  table[r][q] = q /\ (q = 0 \/ q \in written)
    BY DEF PortsKnown, WiresWithTable
  <2>1. q \in Ranks
    BY PeerFacts
  <2>2. table[r] = B!Whole
    BY DEF B!Inv, B!TablesRight, B!Ranks, Ranks
  <2>3. stage[0] = "true" \/ sent # {}
    BY DEF B!Inv, B!StageInv, B!Workers, B!Master, B!Ranks, Ranks
  <2>4. B!Workers \subseteq written
    BY <2>3 DEF B!Inv, B!SentInv, B!Master
  <2>5. QED
    BY <2>1, <2>2, <2>4 DEF B!Whole, B!Workers, B!Master, B!Ranks, Ranks
<1>6. QED
  BY <1>2, <1>3, <1>4, <1>5, BootstrapInv, PTL DEF SafeBoth
=============================================================================
