------------------------- MODULE RingAllReduceProofs -------------------------
(* RingAllReduce is correct for every N >= 3, every buffer capacity and any *)
(* number of deaths: proofs of its safety properties.                       *)
EXTENDS RingAllReduce, TLAPS

-----------------------------------------------------------------------------
(* The index arithmetic of the ring.                                        *)

(* The hops between two ranks are fewer than N, and fix either end.         *)
LEMMA DistFacts ==
  /\ \A r, c \in Ranks : /\ Dist(r, c) \in 0 .. (N - 1)
                         /\ Dist(r, c) = IF r < c THEN r - c + N ELSE r - c
                         /\ Dist(r, c) = 0 <=> r = c
  /\ \A r, q, c \in Ranks : Dist(r, c) = Dist(q, c) => r = q
  /\ \A r, c, d \in Ranks : Dist(r, c) = Dist(r, d) => c = d
<1>1. ASSUME NEW r \in Ranks, NEW c \in Ranks
      PROVE  /\ Dist(r, c) \in 0 .. (N - 1)
             /\ Dist(r, c) = IF r < c THEN r - c + N ELSE r - c
             /\ Dist(r, c) = 0 <=> r = c
  BY RingAssumption DEF Ranks, Dist
<1>2. ASSUME NEW r \in Ranks, NEW q \in Ranks, NEW c \in Ranks,
             Dist(r, c) = Dist(q, c)
      PROVE  r = q
  <2>1. /\ Dist(r, c) = IF r < c THEN r - c + N ELSE r - c
        /\ Dist(q, c) = IF q < c THEN q - c + N ELSE q - c
    BY <1>1
  <2>2. QED
    BY <2>1, <1>2, RingAssumption DEF Ranks
<1>3. ASSUME NEW r \in Ranks, NEW c \in Ranks, NEW d \in Ranks,
             Dist(r, c) = Dist(r, d)
      PROVE  c = d
  <2>1. /\ Dist(r, c) = IF r < c THEN r - c + N ELSE r - c
        /\ Dist(r, d) = IF r < d THEN r - d + N ELSE r - d
    BY <1>1
  <2>2. QED
    BY <2>1, <1>3, RingAssumption DEF Ranks
<1>4. QED
  BY <1>1, <1>2, <1>3

(* The neighbours of a rank are ranks, and one hop away.                    *)
LEMMA NeighborFacts ==
  \A r \in Ranks :
    /\ PrevRank(r) \in Ranks /\ NextRank(r) \in Ranks
    /\ PrevRank(r) = IF r = 0 THEN N - 1 ELSE r - 1
    /\ NextRank(r) = IF r = N - 1 THEN 0 ELSE r + 1
    /\ NextRank(PrevRank(r)) = r /\ PrevRank(NextRank(r)) = r
    /\ PrevRank(r) # r /\ NextRank(r) # r
<1>1. ASSUME NEW r \in Ranks
      PROVE  /\ PrevRank(r) = IF r = 0 THEN N - 1 ELSE r - 1
             /\ NextRank(r) = IF r = N - 1 THEN 0 ELSE r + 1
  BY RingAssumption DEF Ranks, PrevRank, NextRank
<1>2. ASSUME NEW r \in Ranks
      PROVE  /\ PrevRank(r) \in Ranks /\ NextRank(r) \in Ranks
             /\ NextRank(PrevRank(r)) = r /\ PrevRank(NextRank(r)) = r
             /\ PrevRank(r) # r /\ NextRank(r) # r
  <2>1. PrevRank(r) \in Ranks /\ NextRank(r) \in Ranks
    BY <1>1, RingAssumption DEF Ranks
  <2>2. /\ NextRank(PrevRank(r)) = IF PrevRank(r) = N - 1 THEN 0 ELSE PrevRank(r) + 1
        /\ PrevRank(NextRank(r)) = IF NextRank(r) = 0 THEN N - 1 ELSE NextRank(r) - 1
    BY <1>1, <2>1
  <2>3. QED
    BY <1>1, <2>1, <2>2, RingAssumption DEF Ranks
<1>3. QED
  BY <1>1, <1>2

(* One hop less to the previous rank.                                       *)
LEMMA DistPrev ==
  \A r, c \in Ranks :
    Dist(PrevRank(r), c) = IF r = c THEN N - 1 ELSE Dist(r, c) - 1
<1> SUFFICES ASSUME NEW r \in Ranks, NEW c \in Ranks
             PROVE  Dist(PrevRank(r), c) = IF r = c THEN N - 1 ELSE Dist(r, c) - 1
  OBVIOUS
<1> DEFINE p == PrevRank(r)
<1>1. p \in Ranks /\ p = IF r = 0 THEN N - 1 ELSE r - 1
  BY NeighborFacts
<1>2. /\ Dist(r, c) = IF r < c THEN r - c + N ELSE r - c
      /\ Dist(p, c) = IF p < c THEN p - c + N ELSE p - c
  BY <1>1, DistFacts
<1> HIDE DEF p
<1>3. Dist(p, c) = IF r = c THEN N - 1 ELSE Dist(r, c) - 1
  BY <1>1, <1>2, RingAssumption DEF Ranks
<1>4. QED
  BY <1>3 DEF p

(* Where the chunk sent in step s comes from.                               *)
LEMMA SendChunkFacts ==
  \A r \in Ranks, s \in 0 .. (Steps - 1) :
    /\ SendChunk(r, s) \in Ranks
    /\ Dist(r, SendChunk(r, s)) = IF s < N - 1 THEN s
                                  ELSE IF s = N - 1 THEN N - 1 ELSE s - N
<1> SUFFICES ASSUME NEW r \in Ranks, NEW s \in 0 .. (Steps - 1)
             PROVE  /\ SendChunk(r, s) \in Ranks
                    /\ Dist(r, SendChunk(r, s)) = IF s < N - 1 THEN s
                                  ELSE IF s = N - 1 THEN N - 1 ELSE s - N
  OBVIOUS
<1> DEFINE c == SendChunk(r, s)
<1>1. CASE s < N - 1
  <2>1. c = IF s <= r THEN r - s ELSE r - s + N
    BY <1>1, RingAssumption DEF SendChunk, Ranks
  <2>2. c \in Ranks
    BY <2>1, <1>1, RingAssumption DEF Ranks
  <2>3. Dist(r, c) = IF r < c THEN r - c + N ELSE r - c
    BY <2>2, DistFacts
  <2>4. Dist(r, c) = s
    BY <2>1, <2>3, <1>1, RingAssumption DEF Ranks
  <2>5. QED
    BY <2>2, <2>4, <1>1
<1>2. CASE s = N - 1
  <2>1. c = IF r = N - 1 THEN 0 ELSE r + 1
    BY <1>2, RingAssumption DEF SendChunk, Ranks
  <2>2. c \in Ranks
    BY <2>1, RingAssumption DEF Ranks
  <2>3. Dist(r, c) = IF r < c THEN r - c + N ELSE r - c
    BY <2>2, DistFacts
  <2>4. Dist(r, c) = N - 1
    BY <2>1, <2>3, RingAssumption DEF Ranks
  <2>5. QED
    BY <2>2, <2>4, <1>2, RingAssumption
<1>3. CASE s > N - 1
  <2>1. c = IF s - N <= r THEN r - (s - N) ELSE r - (s - N) + N
    BY <1>3, RingAssumption DEF SendChunk, Ranks, Steps
  <2>2. c \in Ranks
    BY <2>1, <1>3, RingAssumption DEF Ranks, Steps
  <2>3. Dist(r, c) = IF r < c THEN r - c + N ELSE r - c
    BY <2>2, DistFacts
  <2>4. Dist(r, c) = s - N
    BY <2>1, <2>3, <1>3, RingAssumption DEF Ranks, Steps
  <2>5. QED
    BY <2>2, <2>4, <1>3, RingAssumption DEF Steps
<1>4. QED
  BY <1>1, <1>2, <1>3, RingAssumption DEF Steps

(* Where the chunk received in step s comes from.                           *)
LEMMA RecvChunkFacts ==
  \A r \in Ranks, s \in 0 .. (Steps - 1) :
    /\ RecvChunk(r, s) \in Ranks
    /\ Dist(r, RecvChunk(r, s)) = IF s < N - 1 THEN s + 1 ELSE s - (N - 1)
<1> SUFFICES ASSUME NEW r \in Ranks, NEW s \in 0 .. (Steps - 1)
             PROVE  /\ RecvChunk(r, s) \in Ranks
                    /\ Dist(r, RecvChunk(r, s)) = IF s < N - 1 THEN s + 1
                                                  ELSE s - (N - 1)
  OBVIOUS
<1> DEFINE c == RecvChunk(r, s)
<1>1. CASE s < N - 1
  <2>1. c = IF s + 1 <= r THEN r - s - 1 ELSE r - s - 1 + N
    BY <1>1, RingAssumption DEF RecvChunk, Ranks
  <2>2. c \in Ranks
    BY <2>1, <1>1, RingAssumption DEF Ranks
  <2>3. Dist(r, c) = IF r < c THEN r - c + N ELSE r - c
    BY <2>2, DistFacts
  <2>4. Dist(r, c) = s + 1
    BY <2>1, <2>3, <1>1, RingAssumption DEF Ranks
  <2>5. QED
    BY <2>2, <2>4, <1>1
<1>2. CASE s >= N - 1
  <2> DEFINE t == s - (N - 1)
  <2>1. c = IF t <= r THEN r - t ELSE r - t + N
    BY <1>2, RingAssumption DEF RecvChunk, Ranks, Steps
  <2>2. c \in Ranks
    BY <2>1, <1>2, RingAssumption DEF Ranks, Steps
  <2>3. Dist(r, c) = IF r < c THEN r - c + N ELSE r - c
    BY <2>2, DistFacts
  <2>4. Dist(r, c) = t
    BY <2>1, <2>3, <1>2, RingAssumption DEF Ranks, Steps
  <2>5. QED
    BY <2>2, <2>4, <1>2, RingAssumption
<1>3. QED
  BY <1>1, <1>2, RingAssumption DEF Steps

(* The two ends of a link agree on the chunk of each step.                  *)
LEMMA ChunkAgreement ==
  \A r \in Ranks, s \in 0 .. (Steps - 1) :
    /\ SendChunk(PrevRank(r), s) = RecvChunk(r, s)
    /\ SendChunk(r, s) # RecvChunk(r, s)
<1> SUFFICES ASSUME NEW r \in Ranks, NEW s \in 0 .. (Steps - 1)
             PROVE  /\ SendChunk(PrevRank(r), s) = RecvChunk(r, s)
                    /\ SendChunk(r, s) # RecvChunk(r, s)
  OBVIOUS
<1> DEFINE c == RecvChunk(r, s)
           p == PrevRank(r)
<1>1. /\ c \in Ranks
      /\ Dist(r, c) = IF s < N - 1 THEN s + 1 ELSE s - (N - 1)
  BY RecvChunkFacts
<1>2. /\ p \in Ranks
      /\ SendChunk(r, s) \in Ranks /\ SendChunk(p, s) \in Ranks
      /\ Dist(r, SendChunk(r, s)) = IF s < N - 1 THEN s
                                    ELSE IF s = N - 1 THEN N - 1 ELSE s - N
      /\ Dist(p, SendChunk(p, s)) = IF s < N - 1 THEN s
                                    ELSE IF s = N - 1 THEN N - 1 ELSE s - N
  BY SendChunkFacts, NeighborFacts
<1>3. Dist(p, c) = IF r = c THEN N - 1 ELSE Dist(r, c) - 1
  BY <1>1, DistPrev
<1>4. r = c <=> Dist(r, c) = 0
  BY <1>1, DistFacts
<1> HIDE DEF c, p
<1>5. Dist(p, c) = Dist(p, SendChunk(p, s))
  BY <1>1, <1>2, <1>3, <1>4, RingAssumption DEF Steps
<1>6. SendChunk(p, s) = c
  BY <1>1, <1>2, <1>5, DistFacts
<1>7. SendChunk(r, s) # c
  BY <1>1, <1>2, RingAssumption DEF Steps
<1>8. QED
  BY <1>6, <1>7 DEF c, p

-----------------------------------------------------------------------------
(* What the chunks hold.                                                    *)

LEMMA ContentType ==
  \A r, c \in Ranks, k \in Nat : Content(r, c, k) \in Counts
BY DEF Content, Counts

(* A step changes no chunk but the one it receives.                         *)
LEMMA ContentStable ==
  \A r, c \in Ranks, s \in 0 .. (Steps - 1) :
    c # RecvChunk(r, s) => Content(r, c, s + 1) = Content(r, c, s)
<1> SUFFICES ASSUME NEW r \in Ranks, NEW c \in Ranks, NEW s \in 0 .. (Steps - 1),
                    c # RecvChunk(r, s)
             PROVE  Content(r, c, s + 1) = Content(r, c, s)
  OBVIOUS
<1> DEFINE d == Dist(r, c)
<1>1. d \in 0 .. (N - 1)
  BY DistFacts
<1>2. d # IF s < N - 1 THEN s + 1 ELSE s - (N - 1)
  BY DistFacts, RecvChunkFacts
<1>3. ASSUME NEW q \in Ranks
      PROVE  Content(r, c, s + 1)[q] = Content(r, c, s)[q]
  <2>1. Dist(q, c) \in 0 .. (N - 1)
    BY DistFacts
  <2>2. QED
    BY <1>1, <1>2, <2>1, RingAssumption DEF Content, Steps
<1>4. QED
  BY <1>3 DEF Content

(* The first phase adds the chunk of the previous rank to one's own.        *)
LEMMA ContentReduce ==
  \A r \in Ranks, s \in 0 .. (N - 2) :
    LET c == RecvChunk(r, s)
    IN  Plus(Content(r, c, s), Content(PrevRank(r), c, s)) = Content(r, c, s + 1)
<1> SUFFICES ASSUME NEW r \in Ranks, NEW s \in 0 .. (N - 2), NEW c \in Ranks,
                    c = RecvChunk(r, s)
             PROVE  Plus(Content(r, c, s), Content(PrevRank(r), c, s))
                    = Content(r, c, s + 1)
  BY RecvChunkFacts, RingAssumption DEF Steps
<1>1. s \in 0 .. (Steps - 1) /\ s < N - 1
  BY RingAssumption DEF Steps
<1>2. Dist(r, c) = s + 1
  BY <1>1, RecvChunkFacts
<1>3. Dist(PrevRank(r), c) = s
  BY <1>1, <1>2, DistPrev, DistFacts
<1>4. ASSUME NEW q \in Ranks
      PROVE  Content(r, c, s)[q] + Content(PrevRank(r), c, s)[q]
             = Content(r, c, s + 1)[q]
  <2>1. /\ Dist(q, c) \in 0 .. (N - 1)
        /\ Dist(q, c) = s + 1 <=> q = r
    BY <1>2, DistFacts
  <2>2. Content(r, c, s)[q] = IF q = r THEN 1 ELSE 0
    BY <1>1, <1>2, RingAssumption DEF Content
  <2>3. Content(PrevRank(r), c, s)[q] = IF Dist(q, c) <= s THEN 1 ELSE 0
    BY <1>1, <1>3, RingAssumption DEF Content
  <2>4. Content(r, c, s + 1)[q] = IF Dist(q, c) <= s + 1 THEN 1 ELSE 0
    BY <1>1, <1>2, RingAssumption DEF Content
  <2>5. QED
    BY <2>1, <2>2, <2>3, <2>4
<1>5. QED
  BY <1>4 DEF Plus, Content

(* In the second phase the previous rank's chunk is complete.               *)
LEMMA ContentGather ==
  \A r \in Ranks, s \in (N - 1) .. (Steps - 1) :
    LET c == RecvChunk(r, s)
    IN  Content(PrevRank(r), c, s) = Content(r, c, s + 1)
<1> SUFFICES ASSUME NEW r \in Ranks, NEW s \in (N - 1) .. (Steps - 1),
                    NEW c \in Ranks, c = RecvChunk(r, s)
             PROVE  Content(PrevRank(r), c, s) = Content(r, c, s + 1)
  BY RecvChunkFacts, RingAssumption DEF Steps
<1>1. s \in 0 .. (Steps - 1) /\ s >= N - 1
  BY RingAssumption DEF Steps
<1>2. Dist(r, c) = s - (N - 1)
  BY <1>1, RecvChunkFacts, RingAssumption
<1>3. Dist(PrevRank(r), c) = IF r = c THEN N - 1 ELSE Dist(r, c) - 1
  BY DistPrev
<1>4. ASSUME NEW q \in Ranks
      PROVE  Content(r, c, s + 1)[q] = 1 /\ Content(PrevRank(r), c, s)[q] = 1
  <2>1. Dist(q, c) \in 0 .. (N - 1)
    BY DistFacts
  <2>2. Content(r, c, s + 1)[q] = 1
    BY <1>1, <1>2, RingAssumption DEF Content
  <2>3. Content(PrevRank(r), c, s)[q] = 1
    BY <1>1, <1>2, <1>3, <2>1, RingAssumption DEF Content
  <2>4. QED
    BY <2>2, <2>3
<1>5. QED
  BY <1>4 DEF Content

(* After the last step every chunk holds every operand.                     *)
LEMMA ContentAtEnd ==
  \A r, c, q \in Ranks, k \in Nat : k >= Steps => Content(r, c, k)[q] = 1
<1> SUFFICES ASSUME NEW r \in Ranks, NEW c \in Ranks, NEW q \in Ranks,
                    NEW k \in Nat, k >= Steps
             PROVE  Content(r, c, k)[q] = 1
  OBVIOUS
<1>1. Dist(r, c) \in 0 .. (N - 1) /\ Dist(q, c) \in 0 .. (N - 1)
  BY DistFacts
<1>2. QED
  BY <1>1, RingAssumption DEF Content, Steps

-----------------------------------------------------------------------------
(* The inductive invariant, action by action.                               *)

LEMMA InitIInv == Init => IInv
<1> SUFFICES ASSUME Init PROVE IInv
  OBVIOUS
<1> USE RingAssumption
<1>1. TypeOK
  BY DEF Init, TypeOK, Own, Nothing, Message, Messages, Counts, Steps, Ranks
<1>2. CountersInv
  BY DEF Init, CountersInv, Running, Steps
<1>3. StreamsInv
  BY DEF Init, StreamsInv
<1>4. DataInv
  <2> SUFFICES ASSUME NEW r \in Ranks, NEW c \in Ranks
               PROVE  data[r][c] = Content(r, c, DataStep(r))
    BY DEF DataInv
  <2>1. DataStep(r) = 0 /\ data[r][c] = Own(r)
    BY DEF Init, DataStep
  <2>2. ASSUME NEW q \in Ranks
        PROVE  Content(r, c, 0)[q] = Own(r)[q]
    <3>1. /\ Dist(r, c) \in 0 .. (N - 1) /\ Dist(q, c) \in 0 .. (N - 1)
          /\ Dist(r, c) = 0 <=> r = c
          /\ Dist(q, c) = 0 <=> q = c
      BY DistFacts
    <3>2. QED
      BY <3>1 DEF Content, Own
  <2>3. Content(r, c, 0) = Own(r)
    BY <2>2 DEF Content, Own
  <2>4. QED
    BY <2>1, <2>3
<1>5. TempInv
  BY DEF Init, TempInv
<1>6. QED
  BY <1>1, <1>2, <1>3, <1>4, <1>5 DEF IInv

(* A Send writes the chunk as it stands after the steps completed.          *)
LEMMA BeginSendIInv ==
  ASSUME IInv, NEW r \in Ranks, BeginSend(r) PROVE IInv'
<1> USE RingAssumption
<1> DEFINE c == SendChunk(r, step[r])
<1>1. /\ step[r] \in 0 .. (Steps - 1) /\ sent[r] = step[r]
      /\ c \in Ranks /\ data[r][c] \in Counts
  BY SendChunkFacts DEF IInv, TypeOK, CountersInv, BeginSend, Running, Steps
<1>2. data[r][c] = Content(r, c, step[r])
  <2>1. data[r][c] = Content(r, c, DataStep(r))
    BY <1>1 DEF IInv, DataInv
  <2>2. DataStep(r) \in {step[r], step[r] + 1}
    BY DEF DataStep, Received
  <2>3. Content(r, c, step[r] + 1) = Content(r, c, step[r])
    BY <1>1, ContentStable, ChunkAgreement
  <2>4. QED
    BY <2>1, <2>2, <2>3
<1>3. TypeOK'
  <2>1. stream' \in [Ranks -> [0 .. (Steps - 1) -> Messages]]
    BY <1>1 DEF IInv, TypeOK, BeginSend, Message, Messages
  <2>2. sent' \in [Ranks -> 0 .. Steps]
    BY <1>1 DEF IInv, TypeOK, BeginSend, Steps
  <2>3. QED
    BY <2>1, <2>2 DEF IInv, TypeOK, BeginSend
<1>4. CountersInv'
  BY <1>1 DEF IInv, TypeOK, CountersInv, BeginSend, Running
<1>5. StreamsInv'
  <2> SUFFICES ASSUME NEW x \in Ranks, NEW i \in 0 .. (Steps - 1), i < sent'[x]
               PROVE  stream'[x][i]
                      = Message(SendChunk(x, i), Content(x, SendChunk(x, i), i))
    BY DEF StreamsInv
  <2>1. CASE x # r \/ i # step[r]
    <3>1. stream'[x][i] = stream[x][i] /\ i < sent[x]
      BY <2>1, <1>1 DEF IInv, TypeOK, BeginSend
    <3>2. QED
      BY <3>1 DEF IInv, StreamsInv
  <2>2. CASE x = r /\ i = step[r]
    <3>1. stream'[r][i] = Message(c, data[r][c])
      BY <2>2, <1>1 DEF IInv, TypeOK, BeginSend
    <3>2. QED
      BY <3>1, <2>2, <1>2
  <2>3. QED
    BY <2>1, <2>2
<1>6. DataInv' /\ TempInv'
  BY DEF IInv, DataInv, TempInv, BeginSend, DataStep, Received
<1>7. QED
  BY <1>3, <1>4, <1>5, <1>6 DEF IInv

LEMMA EndSendIInv ==
  ASSUME IInv, NEW r \in Ranks, EndSend(r) PROVE IInv'
<1>1. TypeOK' /\ CountersInv'
  BY DEF IInv, TypeOK, CountersInv, EndSend, Running
<1>2. StreamsInv' /\ DataInv' /\ TempInv'
  BY DEF IInv, StreamsInv, DataInv, TempInv, EndSend, DataStep, Received
<1>3. QED
  BY <1>1, <1>2 DEF IInv

LEMMA RecvFailIInv ==
  ASSUME IInv, NEW r \in Ranks, RecvFail(r) PROVE IInv'
<1>1. TypeOK' /\ CountersInv'
  BY DEF IInv, TypeOK, CountersInv, RecvFail, Running
<1>2. \A x \in Ranks : DataStep(x)' = DataStep(x) /\ (recv'[x] = "ok" <=> recv[x] = "ok")
  BY DEF IInv, TypeOK, RecvFail, DataStep, Received
<1>3. StreamsInv' /\ DataInv' /\ TempInv'
  BY <1>2 DEF IInv, StreamsInv, DataInv, TempInv, RecvFail
<1>4. QED
  BY <1>1, <1>3 DEF IInv

(* The message read is the previous rank's chunk after as many steps.       *)
LEMMA RecvOkIInv ==
  ASSUME IInv, NEW r \in Ranks, RecvOk(r) PROVE IInv'
<1> USE RingAssumption
<1> DEFINE p == PrevRank(r)
           s == step[r]
           c == RecvChunk(r, s)
           v == stream[p][s].val
<1>1. /\ p \in Ranks /\ s \in 0 .. (Steps - 1) /\ c \in Ranks /\ s < sent[p]
      /\ recv[r] = "wait"
  <2>1. s \in 0 .. (Steps - 1) /\ s < sent[p] /\ recv[r] = "wait"
    BY DEF IInv, TypeOK, CountersInv, RecvOk, Running, Steps
  <2>2. QED
    BY <2>1, NeighborFacts, RecvChunkFacts
<1>2. v = Content(p, c, s) /\ v \in Counts
  <2>1. stream[p][s] = Message(SendChunk(p, s), Content(p, SendChunk(p, s), s))
    BY <1>1 DEF IInv, StreamsInv
  <2>2. SendChunk(p, s) = c
    BY <1>1, ChunkAgreement
  <2>3. Content(p, c, s) \in Counts
    BY <1>1, ContentType
  <2>4. QED
    BY <2>1, <2>2, <2>3 DEF Message
<1> HIDE DEF p, s, c, v
<1>3. TypeOK'
  <2>1. temp' \in [Ranks -> Counts] /\ data' \in [Ranks -> [Ranks -> Counts]]
    <3>1. CASE s < N - 1
      BY <3>1, <1>2 DEF IInv, TypeOK, RecvOk, p, s, v
    <3>2. CASE ~(s < N - 1)
      <4>1. temp' = temp /\ data' = [data EXCEPT ![r][c] = v]
        BY <3>2 DEF RecvOk, p, s, c, v
      <4>2. QED
        BY <4>1, <1>1, <1>2 DEF IInv, TypeOK
    <3>3. QED
      BY <3>1, <3>2
  <2>2. recv' \in [Ranks -> {"wait", "ok", "failed"}]
    BY DEF IInv, TypeOK, RecvOk
  <2>3. QED
    BY <2>1, <2>2 DEF IInv, TypeOK, RecvOk
<1>4. CountersInv' /\ StreamsInv'
  BY DEF IInv, CountersInv, StreamsInv, RecvOk, Running
<1>5. DataInv'
  <2> SUFFICES ASSUME NEW x \in Ranks, NEW d \in Ranks
               PROVE  data'[x][d] = Content(x, d, DataStep(x)')
    BY DEF DataInv
  <2>1. data[x][d] = Content(x, d, DataStep(x))
    BY DEF IInv, DataInv
  <2>2. CASE x # r \/ s < N - 1
    <3>1. DataStep(x)' = DataStep(x) /\ data'[x][d] = data[x][d]
      BY <2>2 DEF IInv, TypeOK, RecvOk, DataStep, Received, s
    <3>2. QED
      BY <3>1, <2>1
  <2>3. CASE x = r /\ s >= N - 1
    <3>1. DataStep(r)' = s + 1 /\ DataStep(r) = s
      BY <2>3, <1>1 DEF IInv, TypeOK, RecvOk, DataStep, Received, s
    <3>2. data'[r][d] = IF d = c THEN v ELSE data[r][d]
      BY <2>3, <1>1 DEF IInv, TypeOK, RecvOk, s, c, v, p
    <3>3. d = c => v = Content(r, c, s + 1)
      BY <1>1, <1>2, <2>3, ContentGather DEF c, p, Steps
    <3>4. d # c => Content(r, d, s + 1) = Content(r, d, s)
      BY <1>1, ContentStable DEF c
    <3>5. QED
      BY <2>1, <2>3, <3>1, <3>2, <3>3, <3>4
  <2>4. QED
    BY <2>2, <2>3, <1>1 DEF Steps
<1>6. TempInv'
  <2> SUFFICES ASSUME NEW x \in Ranks, step'[x] < N - 1, recv'[x] = "ok"
               PROVE  temp'[x] = Content(PrevRank(x), RecvChunk(x, step'[x]), step'[x])
    BY DEF TempInv
  <2>1. step' = step
    BY DEF RecvOk
  <2>2. CASE x # r
    BY <2>1, <2>2 DEF IInv, TypeOK, TempInv, RecvOk
  <2>3. CASE x = r
    <3>1. temp'[r] = v
      BY <2>1, <2>3 DEF IInv, TypeOK, RecvOk, v, p, s
    <3>2. QED
      BY <2>1, <2>3, <3>1, <1>2 DEF c, p, s
  <2>4. QED
    BY <2>2, <2>3
<1>7. QED
  BY <1>3, <1>4, <1>5, <1>6 DEF IInv

(* The reduction of the first phase completes the step; in the second there *)
(* is nothing left to do.                                                   *)
LEMMA JoinOkIInv ==
  ASSUME IInv, NEW r \in Ranks, JoinOk(r) PROVE IInv'
<1> USE RingAssumption
<1> DEFINE s == step[r]
           c == RecvChunk(r, s)
<1>1. /\ s \in 0 .. (Steps - 1) /\ c \in Ranks
      /\ sent[r] = s + 1 /\ recv[r] = "ok"
  <2>1. s \in 0 .. (Steps - 1) /\ sent[r] = s + 1 /\ recv[r] = "ok"
    BY DEF IInv, TypeOK, CountersInv, JoinOk, Running, Steps
  <2>2. QED
    BY <2>1, RecvChunkFacts
<1> HIDE DEF s, c
<1>2. TypeOK'
  <2>1. step' \in [Ranks -> 0 .. Steps]
    BY <1>1 DEF IInv, TypeOK, JoinOk, s, Steps
  <2>2. data' \in [Ranks -> [Ranks -> Counts]]
    <3>1. Plus(data[r][c], temp[r]) \in Counts
      <4>1. data[r][c] \in Counts /\ temp[r] \in Counts
        BY <1>1 DEF IInv, TypeOK
      <4>2. QED
        BY <4>1 DEF Plus, Counts
    <3>2. QED
      BY <1>1, <3>1 DEF IInv, TypeOK, JoinOk, s, c
  <2>3. QED
    BY <2>1, <2>2 DEF IInv, TypeOK, JoinOk
<1>3. CountersInv'
  <2> SUFFICES ASSUME NEW x \in Ranks
               PROVE  /\ sent'[x] <= step'[x] + 1
                      /\ status'[x] = "running" =>
                           /\ step'[x] < Steps
                           /\ sent'[x] = IF sender'[x] = "new" THEN step'[x]
                                         ELSE step'[x] + 1
                      /\ status'[x] = "true" => step'[x] = Steps
    BY DEF CountersInv, Running
  <2>1. CASE x # r
    BY <2>1 DEF IInv, TypeOK, CountersInv, JoinOk, Running
  <2>2. CASE x = r
    <3>1. step'[r] = s + 1 /\ sent'[r] = s + 1
      BY <1>1 DEF IInv, TypeOK, JoinOk, s
    <3>2. IF s + 1 = Steps THEN status'[r] = "true"
          ELSE sender'[r] = "new" /\ status'[r] = "running"
      BY DEF IInv, TypeOK, JoinOk, Running, s
    <3>3. QED
      BY <2>2, <3>1, <3>2, <1>1 DEF Steps
  <2>3. QED
    BY <2>1, <2>2
<1>4. StreamsInv'
  BY DEF IInv, StreamsInv, JoinOk
<1>5. DataInv'
  <2> SUFFICES ASSUME NEW x \in Ranks, NEW d \in Ranks
               PROVE  data'[x][d] = Content(x, d, DataStep(x)')
    BY DEF DataInv
  <2>1. data[x][d] = Content(x, d, DataStep(x))
    BY DEF IInv, DataInv
  <2>2. CASE x # r
    <3>1. DataStep(x)' = DataStep(x) /\ data'[x][d] = data[x][d]
      BY <2>2 DEF IInv, TypeOK, JoinOk, DataStep, Received
    <3>2. QED
      BY <3>1, <2>1
  <2>3. CASE x = r
    <3>1. DataStep(r)' = s + 1
      BY <1>1 DEF IInv, TypeOK, JoinOk, DataStep, Received, s
    <3>2. CASE s < N - 1
      <4>1. DataStep(r) = s
        BY <3>2 DEF DataStep, s
      <4>2. data'[r][d] = IF d = c THEN Plus(data[r][c], temp[r]) ELSE data[r][d]
        BY <3>2, <1>1 DEF IInv, TypeOK, JoinOk, s, c
      <4>3. temp[r] = Content(PrevRank(r), c, s)
        BY <3>2, <1>1 DEF IInv, TempInv, s, c
      <4>4. d = c => Plus(data[r][c], temp[r]) = Content(r, c, s + 1)
        <5>1. s \in 0 .. (N - 2)
          BY <3>2, <1>1
        <5>2. data[r][c] = Content(r, c, s)
          BY <4>1, <1>1 DEF IInv, DataInv
        <5>3. QED
          BY <5>1, <5>2, <4>3, ContentReduce DEF c
      <4>5. d # c => Content(r, d, s + 1) = Content(r, d, s)
        BY <1>1, ContentStable DEF c
      <4>6. QED
        BY <2>1, <2>3, <3>1, <4>1, <4>2, <4>4, <4>5
    <3>3. CASE s >= N - 1
      <4>1. DataStep(r) = s + 1 /\ data' = data
        BY <3>3, <1>1 DEF DataStep, Received, JoinOk, s
      <4>2. QED
        BY <2>1, <2>3, <3>1, <4>1
    <3>4. QED
      BY <3>2, <3>3, <1>1 DEF Steps
  <2>4. QED
    BY <2>2, <2>3
<1>6. TempInv'
  <2> SUFFICES ASSUME NEW x \in Ranks, step'[x] < N - 1, recv'[x] = "ok"
               PROVE  temp'[x] = Content(PrevRank(x), RecvChunk(x, step'[x]), step'[x])
    BY DEF TempInv
  <2>1. x # r
    BY DEF IInv, TypeOK, JoinOk
  <2>2. QED
    BY <2>1 DEF IInv, TypeOK, TempInv, JoinOk
<1>7. QED
  BY <1>2, <1>3, <1>4, <1>5, <1>6 DEF IInv

(* Closing only takes messages away.                                        *)
LEMMA CloseIInv ==
  ASSUME IInv, NEW r \in Ranks, NEW out \in {"false", "dead"},
         status' = [status EXCEPT ![r] = out], Close(r),
         UNCHANGED <<step, sender, recv, data, temp, stream>>
  PROVE  IInv'
<1> USE RingAssumption
<1>1. PICK kept \in 0 .. sent[r] : sent' = [sent EXCEPT ![r] = kept]
  BY DEF Close
<1>2. \A x \in Ranks : sent'[x] \in 0 .. Steps /\ sent'[x] <= sent[x]
  BY <1>1 DEF IInv, TypeOK, Steps
<1>3. TypeOK'
  BY <1>1, <1>2 DEF IInv, TypeOK
<1>4. CountersInv'
  BY <1>1, <1>2 DEF IInv, TypeOK, CountersInv, Running, Steps
<1>5. StreamsInv'
  BY <1>2 DEF IInv, TypeOK, StreamsInv, Steps
<1>6. DataInv' /\ TempInv'
  BY DEF IInv, DataInv, TempInv, DataStep, Received
<1>7. QED
  BY <1>3, <1>4, <1>5, <1>6 DEF IInv

LEMMA NextIInv == IInv /\ [Next]_vars => IInv'
<1> SUFFICES ASSUME IInv, [Next]_vars PROVE IInv'
  OBVIOUS
<1>1. ASSUME NEW r \in Ranks, BeginSend(r) PROVE IInv'
  BY <1>1, BeginSendIInv
<1>2. ASSUME NEW r \in Ranks, EndSend(r) PROVE IInv'
  BY <1>2, EndSendIInv
<1>3. ASSUME NEW r \in Ranks, RecvOk(r) PROVE IInv'
  BY <1>3, RecvOkIInv
<1>4. ASSUME NEW r \in Ranks, RecvFail(r) PROVE IInv'
  BY <1>4, RecvFailIInv
<1>5. ASSUME NEW r \in Ranks, JoinOk(r) PROVE IInv'
  BY <1>5, JoinOkIInv
<1>6. ASSUME NEW r \in Ranks, JoinFailed(r) PROVE IInv'
  BY <1>6, CloseIInv DEF JoinFailed
<1>7. ASSUME NEW r \in Ranks, Die(r) \/ BrokenPipe(r) PROVE IInv'
  BY <1>7, CloseIInv DEF Die, BrokenPipe
<1>8. ASSUME UNCHANGED vars PROVE IInv'
  BY <1>8 DEF vars, IInv, TypeOK, CountersInv, StreamsInv, DataInv, TempInv,
              Running, DataStep, Received
<1>9. QED
  BY <1>1, <1>2, <1>3, <1>4, <1>5, <1>6, <1>7, <1>8 DEF Next, RankStep

(* The inductive invariant of TopologyRing::AllReduce: what every vector,   *)
(* temp_buffer and stream holds, as a function of the steps completed.      *)
THEOREM Invariance == Spec => []IInv
<1>1. Init => IInv
  BY InitIInv
<1>2. IInv /\ [Next]_vars => IInv'
  BY NextIInv
<1>3. QED
  BY <1>1, <1>2, PTL DEF Spec

-----------------------------------------------------------------------------
(* What follows from it.                                                    *)

(* Every variable stays in its type, and no index runs off its array.       *)
THEOREM TypeCorrect == Spec => []TypeOK
<1>1. IInv => TypeOK
  BY DEF IInv
<1>2. QED
  BY <1>1, Invariance, PTL

(* TopologyRing::AllReduce returns true only with the whole reduction.      *)
THEOREM ReducedCorrect == Spec => []TrueMeansReduced
<1>1. IInv => TrueMeansReduced
  <2> SUFFICES ASSUME IInv, NEW r \in Ranks, NEW c \in Ranks, NEW q \in Ranks,
                      status[r] = "true"
               PROVE  data[r][c][q] = 1
    BY DEF TrueMeansReduced
  <2>1. step[r] = Steps
    BY DEF IInv, CountersInv
  <2>2. DataStep(r) \in Nat /\ DataStep(r) >= Steps
    BY <2>1, RingAssumption DEF DataStep, Received, Steps
  <2>3. data[r][c] = Content(r, c, DataStep(r))
    BY DEF IInv, DataInv
  <2>4. QED
    BY <2>2, <2>3, ContentAtEnd
<1>2. QED
  BY <1>1, Invariance, PTL

(* At no time does a chunk hold an operand twice.                           *)
THEOREM NoDoubleCountCorrect == Spec => []NoDoubleCount
<1>1. IInv => NoDoubleCount
  <2> SUFFICES ASSUME IInv, NEW r \in Ranks, NEW c \in Ranks, NEW q \in Ranks
               PROVE  data[r][c][q] <= 1
    BY DEF NoDoubleCount
  <2>1. data[r][c] = Content(r, c, DataStep(r))
    BY DEF IInv, DataInv
  <2>2. QED
    BY <2>1 DEF Content
<1>2. QED
  BY <1>1, Invariance, PTL

(* A Recv reads the chunk it is about to store it as.                       *)
THEOREM ChunksAgreeCorrect == Spec => []ChunksAgree
<1>1. IInv => ChunksAgree
  <2> SUFFICES ASSUME IInv, NEW r \in Ranks, Running(r),
                      step[r] < sent[PrevRank(r)]
               PROVE  stream[PrevRank(r)][step[r]].chunk = RecvChunk(r, step[r])
    BY DEF ChunksAgree
  <2>1. PrevRank(r) \in Ranks /\ step[r] \in 0 .. (Steps - 1)
    BY NeighborFacts, RingAssumption DEF IInv, TypeOK, CountersInv, Steps
  <2>2. stream[PrevRank(r)][step[r]].chunk = SendChunk(PrevRank(r), step[r])
    <3> DEFINE p == PrevRank(r)
    <3>1. stream[p][step[r]] = Message(SendChunk(p, step[r]),
                                 Content(p, SendChunk(p, step[r]), step[r]))
      BY <2>1 DEF IInv, StreamsInv
    <3>2. QED
      BY <3>1 DEF Message
  <2>3. QED
    BY <2>1, <2>2, ChunkAgreement
<1>2. QED
  BY <1>1, Invariance, PTL

(* The sender thread and the main thread of a rank do not race on a chunk.  *)
THEOREM SendBufferCorrect == Spec => SendBufferStable
<1> DEFINE Stable == \A r \in Ranks : sender[r] = "sending" =>
             LET c == SendChunk(r, step[r]) IN data'[r][c] = data[r][c]
<1>1. IInv /\ [Next]_vars => [Stable]_vars
  <2> SUFFICES ASSUME IInv, Next, NEW x \in Ranks, sender[x] = "sending"
               PROVE  data'[x][SendChunk(x, step[x])] = data[x][SendChunk(x, step[x])]
    BY DEF Stable
  <2>1. ASSUME NEW r \in Ranks, RecvOk(r)
        PROVE  data'[x][SendChunk(x, step[x])] = data[x][SendChunk(x, step[x])]
    <3>1. CASE x = r
      <4>1. step[r] \in 0 .. (Steps - 1)
        BY <2>1, RingAssumption
        DEF IInv, TypeOK, CountersInv, RecvOk, Running, Steps
      <4>2. SendChunk(r, step[r]) # RecvChunk(r, step[r])
        BY <4>1, ChunkAgreement
      <4>3. QED
        BY <2>1, <3>1, <4>1, <4>2, SendChunkFacts DEF IInv, TypeOK, RecvOk
    <3>2. CASE x # r
      BY <2>1, <3>2 DEF IInv, TypeOK, RecvOk
    <3>3. QED
      BY <3>1, <3>2
  <2>2. ASSUME NEW r \in Ranks, JoinOk(r)
        PROVE  data'[x][SendChunk(x, step[x])] = data[x][SendChunk(x, step[x])]
    <3>1. x # r
      BY <2>2 DEF JoinOk
    <3>2. QED
      BY <2>2, <3>1 DEF IInv, TypeOK, JoinOk
  <2>3. ASSUME NEW r \in Ranks,
               \/ BeginSend(r) \/ EndSend(r) \/ RecvFail(r)
               \/ JoinFailed(r) \/ Die(r) \/ BrokenPipe(r)
        PROVE  data' = data
    BY <2>3 DEF BeginSend, EndSend, RecvFail, JoinFailed, Die, BrokenPipe
  <2>4. QED
    BY <2>1, <2>2, <2>3 DEF Next, RankStep
<1>2. Spec => [][Stable]_vars
  BY <1>1, Invariance, PTL DEF Spec
<1>3. QED
  BY <1>2 DEF SendBufferStable

-----------------------------------------------------------------------------
(* How far the ranks drift apart.                                           *)

LEMMA NextLeadInv == IInv /\ LeadInv /\ [Next]_vars => LeadInv'
<1> SUFFICES ASSUME IInv, LeadInv, [Next]_vars,
                    NEW p \in Ranks, NEW q \in Ranks, p # q
             PROVE  Received(q)' <= step'[p] + Dist(q, p)
  BY DEF LeadInv
<1> USE RingAssumption
<1>1. /\ step[p] \in Nat /\ step[q] \in Nat /\ Dist(q, p) \in Nat
      /\ Received(q) \in Nat /\ Received(q) <= step[p] + Dist(q, p)
  BY DistFacts DEF IInv, TypeOK, LeadInv, Received, Steps
<1>2. ASSUME NEW r \in Ranks, RecvOk(r)
      PROVE  Received(q)' <= step'[p] + Dist(q, p)
  <2>1. CASE r # q
    BY <1>1, <1>2, <2>1 DEF IInv, TypeOK, RecvOk, Received
  <2>2. CASE r = q
    <3> DEFINE u == PrevRank(q)
    <3>1. u \in Ranks /\ Dist(u, p) = Dist(q, p) - 1
      BY NeighborFacts, DistPrev
    <3>2. step[q] < sent[u] /\ sent[u] <= step[u] + 1
          /\ step[u] \in Nat /\ sent[u] \in Nat
      BY <1>2, <2>2, <3>1 DEF IInv, TypeOK, CountersInv, RecvOk, Steps
    <3>3. step[u] <= step[p] + Dist(u, p)
      <4>1. CASE u = p
        BY <4>1, <1>1, <3>1, DistFacts
      <4>2. CASE u # p
        <5>1. Received(u) <= step[p] + Dist(u, p)
          BY <4>2, <3>1 DEF LeadInv
        <5>2. QED
          BY <5>1, <1>1, <3>1, <3>2, DistFacts DEF Received
      <4>3. QED
        BY <4>1, <4>2
    <3>4. Received(q)' = step[q] + 1 /\ step' = step
      BY <1>2, <2>2 DEF IInv, TypeOK, RecvOk, Received
    <3> HIDE DEF u
    <3>5. QED
      BY <3>1, <3>2, <3>3, <3>4, <1>1
  <2>3. QED
    BY <2>1, <2>2
<1>3. ASSUME NEW r \in Ranks, JoinOk(r)
      PROVE  Received(q)' <= step'[p] + Dist(q, p)
  <2>1. Received(q)' = Received(q)
    BY <1>3 DEF IInv, TypeOK, JoinOk, Received
  <2>2. step'[p] \in {step[p], step[p] + 1}
    BY <1>3 DEF IInv, TypeOK, JoinOk
  <2>3. QED
    BY <2>1, <2>2, <1>1
<1>4. ASSUME NEW r \in Ranks, RecvFail(r)
      PROVE  Received(q)' <= step'[p] + Dist(q, p)
  BY <1>4, <1>1 DEF IInv, TypeOK, RecvFail, Received
<1>5. ASSUME step' = step, recv' = recv
      PROVE  Received(q)' <= step'[p] + Dist(q, p)
  BY <1>5, <1>1 DEF Received
<1>6. QED
  BY <1>2, <1>3, <1>4, <1>5
  DEF Next, RankStep, vars, BeginSend, EndSend, JoinFailed, Die, BrokenPipe

(* No rank leads another by more than the hops between them, so no stream   *)
(* ever holds more than N messages, whatever Cap is.                        *)
THEOREM BacklogCorrect == Spec => []Backlog
<1>1. Init => LeadInv
  BY DistFacts, RingAssumption DEF Init, LeadInv, Received
<1>2. IInv /\ LeadInv /\ [Next]_vars => LeadInv'
  BY NextLeadInv
<1>3. Spec => []LeadInv
  BY <1>1, <1>2, Invariance, PTL DEF Spec
<1>4. IInv /\ LeadInv => Backlog
  <2> SUFFICES ASSUME IInv, LeadInv, NEW r \in Ranks
               PROVE  sent[r] - Received(NextRank(r)) <= N
    BY DEF Backlog
  <2> DEFINE n == NextRank(r)
  <2>1. n \in Ranks /\ n # r
    BY NeighborFacts
  <2>2. Received(r) <= step[n] + Dist(r, n) /\ Dist(r, n) \in 0 .. (N - 1)
    BY <2>1, DistFacts DEF LeadInv
  <2>3. /\ sent[r] <= step[r] + 1
        /\ sent[r] \in Nat /\ step[r] \in Nat /\ step[n] \in Nat
    BY <2>1, RingAssumption DEF IInv, TypeOK, CountersInv, Steps
  <2>4. /\ Received(r) \in Nat /\ step[r] <= Received(r)
        /\ Received(n) \in Nat /\ step[n] <= Received(n)
    BY <2>3 DEF Received
  <2> HIDE DEF n
  <2>5. sent[r] - Received(n) <= N
    BY <2>2, <2>3, <2>4, RingAssumption
  <2>6. QED
    BY <2>5 DEF n
<1>5. QED
  BY <1>3, <1>4, Invariance, PTL
=============================================================================
