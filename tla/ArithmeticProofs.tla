-------------------------- MODULE ArithmeticProofs --------------------------
(* The arithmetic of the collectives, for every number of ranks: the chunks *)
(* of the ring AllReduce (RingChunks) and the values of the reductions      *)
(* (Reduction).                                                             *)
EXTENDS MCArithmetic, FiniteSetTheorems, WellFoundedInduction, TLAPS

-----------------------------------------------------------------------------
(* Rounding up loses no element.                                            *)
LEMMA ChunkSizeFacts ==
  ASSUME NEW z \in Sizes
  PROVE  /\ z[1] \in Nat /\ z[1] >= 3 /\ z[2] \in Nat /\ z[2] < SizeMod
         /\ ChunkSize(z) \in Nat
         /\ z[2] <= z[1] * ChunkSize(z)
<1>1. z[1] \in Nat /\ z[1] >= 3 /\ z[2] \in Nat /\ z[2] < SizeMod
  BY SizesAssumption
<1> DEFINE n == z[1]
           k == z[2]
           C == (k + n - 1) \div n
<1>2. n \in Nat /\ n >= 3 /\ k \in Nat
  BY <1>1
<1> HIDE DEF n, k
<1>3. C \in Nat /\ k + n - 1 < n * (C + 1)
  BY <1>2, SMTT(30)
<1>4. k <= n * C
  <2> HIDE DEF C
  <2>1. n * (C + 1) = n * C + n
    BY <1>2, <1>3
  <2>2. n * C \in Nat
    BY <1>2, <1>3
  <2>3. QED
    BY <1>2, <1>3, <2>1, <2>2
<1>5. QED
  BY <1>1, <1>3, <1>4 DEF n, k, ChunkSize

(* size_t subtraction is subtraction where the result is not negative.      *)
LEMMA MinusFacts ==
  ASSUME NEW a \in Nat, NEW b \in Nat, b <= a, a < SizeMod
  PROVE  Minus(a, b) = a - b
BY SizesAssumption DEF Minus

(* A chunk other than the last ends where the next begins, the last at the  *)
(* end of the buffer.                                                       *)
THEOREM ChunksTile ==
  ASSUME NEW z \in Sizes, Fits(z), NEW c \in 0 .. (z[1] - 1)
  PROVE  /\ Offset(z, c) \in Nat /\ ActualCount(z, c) \in Nat
         /\ Offset(z, c) + ActualCount(z, c) =
              IF c = z[1] - 1 THEN z[2] ELSE Offset(z, c + 1)
         /\ Offset(z, c) + ActualCount(z, c) <= z[2]
<1> DEFINE n == z[1]
           k == z[2]
           C == ChunkSize(z)
<1>1. /\ n \in Nat /\ n >= 3 /\ k \in Nat /\ k < SizeMod
      /\ C \in Nat /\ k <= n * C
  BY ChunkSizeFacts
<1>2. (n - 1) * C <= k /\ c \in 0 .. (n - 1)
  BY DEF Fits
<1>3. Offset(z, c) = c * C /\ Offset(z, c + 1) = (c + 1) * C
  BY DEF Offset
<1>4. ActualCount(z, c) = IF Minus(k, c * C) < C THEN Minus(k, c * C) ELSE C
  BY DEF ActualCount
<1> HIDE DEF n, k, C
<1>5. c * C \in Nat /\ (c + 1) * C = c * C + C /\ n * C = (n - 1) * C + C
  BY <1>1, <1>2
<1>6. c * C <= (n - 1) * C
  <2>1. PICK d \in Nat : n - 1 = c + d
    <3>1. n - 1 - c \in Nat /\ n - 1 = c + (n - 1 - c)
      BY <1>1, <1>2
    <3>2. QED
      BY <3>1
  <2>2. (c + d) * C = c * C + d * C /\ d * C \in Nat
    BY <1>1, <1>2, <2>1
  <2>3. QED
    BY <1>5, <2>1, <2>2
<1>7. Minus(k, c * C) = k - c * C
  <2>1. (n - 1) * C \in Nat
    BY <1>1
  <2>2. QED
    BY <1>1, <1>2, <1>5, <1>6, <2>1, MinusFacts
<1>8. CASE c = n - 1
  <2>1. k - c * C <= C
    BY <1>1, <1>2, <1>5, <1>8
  <2>2. c * C + ActualCount(z, c) = k
    BY <1>1, <1>4, <1>5, <1>7, <2>1
  <2>3. ActualCount(z, c) \in Nat
    BY <1>1, <1>2, <1>4, <1>5, <1>6, <1>7
  <2>4. QED
    BY <1>1, <1>3, <1>5, <1>8, <2>2, <2>3 DEF n, k
<1>9. CASE c # n - 1
  <2>1. (c + 1) * C <= (n - 1) * C
    <3>1. PICK d \in Nat : n - 1 = (c + 1) + d
      <4>1. n - 1 - (c + 1) \in Nat /\ n - 1 = (c + 1) + (n - 1 - (c + 1))
        BY <1>1, <1>2, <1>9
      <4>2. QED
        BY <4>1
    <3>2. ((c + 1) + d) * C = (c + 1) * C + d * C /\ d * C \in Nat
      BY <1>1, <1>2, <3>1
    <3>3. (c + 1) * C \in Nat
      BY <1>1, <1>2
    <3>4. QED
      BY <3>1, <3>2, <3>3
  <2>2. (n - 1) * C \in Nat
    BY <1>1
  <2>3. (c + 1) * C <= k
    BY <1>1, <1>2, <1>5, <2>1, <2>2
  <2>4. ActualCount(z, c) = C
    BY <1>1, <1>4, <1>5, <1>7, <2>3
  <2>5. QED
    BY <1>1, <1>3, <1>5, <1>9, <2>3, <2>4 DEF n, k
<1>10. QED
  BY <1>8, <1>9

-----------------------------------------------------------------------------
(* Every chunk a step names is one of the world_size chunks.                *)
LEMMA ChunkNumbers ==
  ASSUME size \in Sizes, step \in Nat, NEW r \in Ranks
  PROVE  SendChunk(r) \in Ranks /\ RecvChunk(r) \in Ranks
<1> DEFINE n == world_size
<1>1. n \in Nat /\ n >= 3 /\ r \in 0 .. (n - 1) /\ Ranks = 0 .. (n - 1)
  BY SizesAssumption DEF world_size, Ranks
<1>2. SendChunk(r) = IF step < n - 1 THEN (r - step + n) % n
                     ELSE (r - (step - n + 1) + 1 + n) % n
  BY DEF SendChunk
<1>3. RecvChunk(r) = IF step < n - 1 THEN (r - step + n - 1) % n
                     ELSE (r - (step - n + 1) + n) % n
  BY DEF RecvChunk
<1> HIDE DEF n
<1>4. \A i \in Int : i % n \in 0 .. (n - 1)
  BY <1>1
<1>5. (IF step < n - 1 THEN r - step + n ELSE r - (step - n + 1) + 1 + n) \in Int
  BY <1>1
<1>6. (IF step < n - 1 THEN r - step + n - 1 ELSE r - (step - n + 1) + n) \in Int
  BY <1>1
<1>7. SendChunk(r) \in 0 .. (n - 1)
  BY <1>2, <1>4, <1>5
<1>8. RecvChunk(r) \in 0 .. (n - 1)
  BY <1>3, <1>4, <1>6
<1>9. QED
  BY <1>1, <1>7, <1>8

(* Where the sizes fit, no step leaves the buffer.                          *)
IInv == size \in Sizes /\ step \in Nat /\ InBuffer

(* Every access of the ring AllReduce to recv_buf stays within its count    *)
(* elements, for all world sizes and counts that fit; run                   *)
(* ring_chunks_ten shows one that does not.                                 *)
THEOREM InBufferCorrect == AllFit => (Spec => []InBuffer)
<1> SUFFICES ASSUME AllFit PROVE Spec => []InBuffer
  OBVIOUS
<1>1. Init => IInv
  BY DEF Init, IInv, InBuffer
<1>2. ASSUME IInv, NEW r \in Ranks
      PROVE  /\ Chunk(size, SendChunk(r)) \subseteq 0 .. (count - 1)
             /\ Chunk(size, RecvChunk(r)) \subseteq 0 .. (count - 1)
  <2>1. ASSUME NEW c \in Ranks
        PROVE  Chunk(size, c) \subseteq 0 .. (count - 1)
    <3>1. /\ Offset(size, c) \in Nat /\ ActualCount(size, c) \in Nat
          /\ Offset(size, c) + ActualCount(size, c) <= count
      BY <1>2, ChunksTile DEF AllFit, IInv, Ranks, world_size, count
    <3>2. count \in Nat
      BY <1>2, SizesAssumption DEF IInv, count
    <3>3. QED
      BY <3>1, <3>2 DEF Chunk
  <2>2. QED
    BY <1>2, <2>1, ChunkNumbers DEF IInv
<1>3. IInv /\ [Next]_vars => IInv'
  <2> SUFFICES ASSUME IInv, [Next]_vars PROVE IInv'
    OBVIOUS
  <2>1. CASE ReduceScatterStep
    <3>1. touched' \subseteq 0 .. (count - 1)
      BY <1>2, <2>1 DEF ReduceScatterStep, IInv, InBuffer
    <3>2. size' = size /\ step' = step + 1
      BY <2>1 DEF ReduceScatterStep
    <3>3. QED
      BY <3>1, <3>2 DEF IInv, InBuffer, count
  <2>2. CASE AllGatherStep
    <3>1. touched' \subseteq 0 .. (count - 1)
      BY <1>2, <2>2 DEF AllGatherStep, IInv, InBuffer
    <3>2. size' = size /\ step' = step + 1
      BY <2>2 DEF AllGatherStep
    <3>3. QED
      BY <3>1, <3>2 DEF IInv, InBuffer, count
  <2>3. CASE UNCHANGED vars
    BY <2>3 DEF vars, IInv, InBuffer, count
  <2>4. QED
    BY <2>1, <2>2, <2>3 DEF Next, Done
<1>4. IInv => InBuffer
  BY DEF IInv
<1>5. QED
  BY <1>1, <1>3, <1>4, PTL DEF Spec

-----------------------------------------------------------------------------
(* Inside the buffer every element belongs to exactly one chunk.            *)
LEMMA ChunksCover ==
  ASSUME NEW z \in Sizes, Fits(z), NEW e \in 0 .. (z[2] - 1)
  PROVE  \E c \in 0 .. (z[1] - 1) : e \in Chunk(z, c)
<1> DEFINE n == z[1]
           k == z[2]
           C == ChunkSize(z)
           c == e \div C
<1>1. n \in Nat /\ n >= 3 /\ k \in Nat /\ C \in Nat /\ k <= n * C
  BY ChunkSizeFacts
<1>2. e \in Nat /\ e < k
  BY <1>1
<1>3. \A d \in 0 .. (n - 1) :
        /\ Offset(z, d) = d * C /\ Offset(z, d + 1) = (d + 1) * C
        /\ ActualCount(z, d) \in Nat
        /\ Offset(z, d) + ActualCount(z, d) = IF d = n - 1 THEN k ELSE Offset(z, d + 1)
  BY ChunksTile DEF Offset
<1> HIDE DEF n, k, C
<1>4. C > 0
  <2>1. C = 0 => n * C = 0
    BY <1>1
  <2>2. QED
    BY <1>1, <1>2, <2>1
<1>5. c \in Nat /\ c * C <= e /\ e < (c + 1) * C
  <2>1. c \in Nat /\ e = C * c + (e % C) /\ e % C \in 0 .. (C - 1)
    BY ONLY <1>1, <1>2, <1>4, SMTT(30)
  <2> HIDE DEF c
  <2>2. (c + 1) * C = c * C + C /\ C * c = c * C /\ c * C \in Nat
    BY ONLY <1>1, <2>1
  <2>3. QED
    BY ONLY <1>1, <1>4, <2>1, <2>2
<1> HIDE DEF c
<1>6. c \in 0 .. (n - 1)
  <2>1. SUFFICES ASSUME c >= n PROVE FALSE
    BY <1>1, <1>5
  <2>2. PICK d \in Nat : c = n + d
    <3>1. c - n \in Nat /\ c = n + (c - n)
      BY <1>1, <1>5, <2>1
    <3>2. QED
      BY <3>1
  <2>3. (n + d) * C = n * C + d * C /\ d * C \in Nat /\ n * C \in Nat
    BY <1>1, <2>2
  <2>4. QED
    BY <1>1, <1>2, <1>5, <2>2, <2>3
<1>7. e \in Chunk(z, c)
  <2> DEFINE lo == c * C
             len == ActualCount(z, c)
  <2>1. lo \in Nat /\ len \in Nat /\ lo <= e /\ e < lo + len
    BY <1>1, <1>2, <1>3, <1>5, <1>6
  <2>2. Chunk(z, c) = lo .. (lo + len - 1)
    BY <1>3, <1>6 DEF Chunk
  <2> HIDE DEF lo, len
  <2>3. QED
    BY <1>2, <2>1, <2>2
<1>8. QED
  BY <1>6, <1>7 DEF n

LEMMA ChunksApart ==
  ASSUME NEW z \in Sizes, Fits(z), NEW c \in 0 .. (z[1] - 1),
         NEW d \in 0 .. (z[1] - 1), c < d, NEW e \in Chunk(z, c)
  PROVE  e \notin Chunk(z, d)
<1> DEFINE n == z[1]
           C == ChunkSize(z)
<1>1. n \in Nat /\ C \in Nat /\ c \in 0 .. (n - 1) /\ d \in 0 .. (n - 1)
  BY ChunkSizeFacts
<1>2. /\ Offset(z, d) = d * C /\ Offset(z, d) \in Nat /\ ActualCount(z, d) \in Nat
      /\ Offset(z, c) \in Nat /\ ActualCount(z, c) \in Nat
      /\ Offset(z, c) + ActualCount(z, c) = Offset(z, c + 1)
      /\ Offset(z, c + 1) = (c + 1) * C
  <2>1. c # n - 1
    BY <1>1
  <2>2. QED
    BY <2>1, ChunksTile DEF Offset
<1>3. e \in Int /\ e < Offset(z, c + 1)
  BY <1>2 DEF Chunk
<1> HIDE DEF n, C
<1>4. (c + 1) * C <= d * C
  <2>1. PICK b \in Nat : d = (c + 1) + b
    <3>1. d - (c + 1) \in Nat /\ d = (c + 1) + (d - (c + 1))
      BY <1>1
    <3>2. QED
      BY <3>1
  <2>2. ((c + 1) + b) * C = (c + 1) * C + b * C /\ b * C \in Nat /\ (c + 1) * C \in Nat
    BY <1>1, <2>1
  <2>3. QED
    BY <2>1, <2>2
<1>5. e < Offset(z, d)
  BY <1>1, <1>2, <1>3, <1>4
<1>6. QED
  BY <1>2, <1>3, <1>5 DEF Chunk

-----------------------------------------------------------------------------
(* How far rank r is from the rank that first sends chunk c.                *)
Hop(r, c) == (r - c + world_size) % world_size

(* The rank before is one hop nearer, and a step brings rank r the chunk    *)
(* whose partial result, or result, has come that far.                      *)
LEMMA Hops ==
  ASSUME size \in Sizes, step \in 0 .. (2 * (world_size - 1) - 1),
         NEW r \in Ranks, NEW c \in Ranks
  PROVE  /\ Hop(r, c) \in Ranks /\ PrevRank(r) \in Ranks
         /\ (Hop(r, c) = 0) <=> (r = c)
         /\ Hop(PrevRank(r), c) =
              IF Hop(r, c) = 0 THEN world_size - 1 ELSE Hop(r, c) - 1
         /\ (RecvChunk(r) = c) <=>
              Hop(r, c) = IF step < world_size - 1 THEN step + 1
                          ELSE step - (world_size - 1)
         /\ \A x \in Ranks : Hop(x, c) \in Ranks /\ (Hop(x, c) = Hop(r, c) => x = r)
<1> DEFINE n == world_size
           p == PrevRank(r)
<1>1. n \in Nat /\ n >= 3 /\ Ranks = 0 .. (n - 1) /\ step \in 0 .. (2 * (n - 1) - 1)
  BY SizesAssumption DEF world_size, Ranks
<1> DEFINE Round(i) == i % n
<1>2. \A i \in 0 .. (2 * n - 1) : Round(i) = IF i < n THEN i ELSE i - n
  <2> HIDE DEF n
  <2>1. QED
    BY ONLY <1>1, SMTT(30)
<1>3. \A x \in Ranks : Hop(x, c) = Round(x - c + n)
  BY DEF Hop
<1>4. p = Round(r - 1 + n)
  BY DEF PrevRank
<1>5. RecvChunk(r) = IF step < n - 1 THEN Round(r - step + n - 1)
                     ELSE Round(r - (step - n + 1) + n)
  BY DEF RecvChunk
<1> HIDE DEF n, p, Round
<1>6. \A x \in Ranks : Hop(x, c) = IF x >= c THEN x - c ELSE x - c + n
  BY <1>1, <1>2, <1>3
<1>7. p = IF r = 0 THEN n - 1 ELSE r - 1
  BY <1>1, <1>2, <1>4
<1>8. p \in Ranks
  BY <1>1, <1>7
<1>6a. /\ n \in Nat /\ n >= 3 /\ step \in 0 .. (2 * (n - 1) - 1)
      /\ r \in 0 .. (n - 1) /\ c \in 0 .. (n - 1)
      /\ Hop(r, c) = IF r >= c THEN r - c ELSE r - c + n
  BY <1>1, <1>6
<1>9. (RecvChunk(r) = c) <=>
        Hop(r, c) = IF step < n - 1 THEN step + 1 ELSE step - (n - 1)
  <2>1. CASE step < n - 1
    <3>1. r - step + n - 1 \in 0 .. (2 * n - 1)
      BY <1>1, <2>1
    <3>2. RecvChunk(r) = IF r - step - 1 < 0 THEN r - step + n - 1 ELSE r - step - 1
      BY <1>1, <1>2, <1>5, <2>1, <3>1
    <3>3. QED
      BY ONLY <1>6a, <2>1, <3>2
  <2>2. CASE step >= n - 1
    <3>1. r - (step - n + 1) + n \in 0 .. (2 * n - 1)
      BY <1>1, <2>2
    <3>2. RecvChunk(r) = IF r - (step - n + 1) < 0 THEN r - (step - n + 1) + n
                         ELSE r - (step - n + 1)
      BY <1>1, <1>2, <1>5, <2>2, <3>1
    <3>3. QED
      BY ONLY <1>6a, <2>2, <3>2
  <2>3. QED
    BY <1>1, <2>1, <2>2
<1>10. Hop(r, c) \in Ranks /\ ((Hop(r, c) = 0) <=> (r = c))
  BY <1>1, <1>6
<1>11. Hop(p, c) = IF Hop(r, c) = 0 THEN n - 1 ELSE Hop(r, c) - 1
  BY <1>1, <1>6, <1>7, <1>8
<1>12. \A x \in Ranks : Hop(x, c) \in Ranks /\ (Hop(x, c) = Hop(r, c) => x = r)
  <2> SUFFICES ASSUME NEW x \in Ranks
               PROVE  Hop(x, c) \in Ranks /\ (Hop(x, c) = Hop(r, c) => x = r)
    OBVIOUS
  <2>1. Hop(x, c) = (IF x >= c THEN x - c ELSE x - c + n) /\ x \in 0 .. (n - 1)
    BY <1>1, <1>6
  <2>2. Hop(x, c) \in 0 .. (n - 1)
    BY ONLY <1>6a, <2>1
  <2>3. Hop(x, c) = Hop(r, c) => x = r
    BY ONLY <1>6a, <2>1
  <2>4. QED
    BY <1>1, <2>2, <2>3
<1>13. QED
  BY <1>8, <1>9, <1>10, <1>11, <1>12 DEF n, p

-----------------------------------------------------------------------------
(* What has reached rank r of an element of chunk c.  In the reduce-scatter *)
(* rank r has either its own operand alone or, once the partial result has  *)
(* passed it, the operands of every rank from c on; in the all-gather the   *)
(* whole result travels on from the rank one before c.                      *)
Passed(r, c) == {x \in Ranks : Hop(x, c) <= Hop(r, c)}

Reached(r, c, e) ==
  /\ step <= world_size - 1 =>
       data[r][e] = IF Hop(r, c) <= step THEN Passed(r, c) ELSE {r}
  /\ /\ step >= world_size - 1
     /\ Hop(r, c) < step - (world_size - 1) \/ Hop(r, c) = world_size - 1
     => data[r][e] = Ranks

ReachedInv ==
  /\ size \in Sizes
  /\ step \in 0 .. (2 * (world_size - 1))
  /\ data \in [Ranks -> [0 .. (count - 1) -> SUBSET Ranks]]
  /\ \A r \in Ranks, c \in Ranks : \A e \in Chunk(size, c) : Reached(r, c, e)

(* An element of chunk c lies in the chunk rank r receives exactly when the *)
(* step brings c's data to rank r.                                          *)
LEMMA Receives ==
  ASSUME size \in Sizes, Fits(size), step \in 0 .. (2 * (world_size - 1) - 1),
         NEW r \in Ranks, NEW c \in Ranks, NEW e \in Chunk(size, c)
  PROVE  /\ e \in 0 .. (count - 1)
         /\ (e \in Chunk(size, RecvChunk(r))) <=>
              Hop(r, c) = IF step < world_size - 1 THEN step + 1
                          ELSE step - (world_size - 1)
<1> DEFINE d == RecvChunk(r)
<1>1. /\ world_size \in Nat /\ count \in Nat /\ Ranks = 0 .. (world_size - 1)
      /\ size[1] = world_size /\ size[2] = count
  BY SizesAssumption DEF world_size, count, Ranks
<1>2. step \in Nat
  BY <1>1
<1>3. d \in Ranks
  BY <1>2, ChunkNumbers
<1>4. /\ Offset(size, c) \in Nat /\ ActualCount(size, c) \in Nat
      /\ Offset(size, c) + ActualCount(size, c) <= count
  BY <1>1, ChunksTile
<1>5. e \in 0 .. (count - 1)
  BY <1>1, <1>4 DEF Chunk
<1>6. e \in Chunk(size, d) => d = c
  <2> HIDE DEF d
  <2>1. c \in 0 .. (size[1] - 1) /\ d \in 0 .. (size[1] - 1)
    BY <1>1, <1>3
  <2>2. c < d \/ d < c \/ d = c
    BY <2>1, <1>1
  <2>3. CASE c < d
    BY <2>1, <2>3, ChunksApart
  <2>4. CASE d < c
    BY <2>1, <2>4, ChunksApart
  <2>5. QED
    BY <2>2, <2>3, <2>4
<1>7. QED
  BY <1>5, <1>6, Hops

LEMMA ReachedStep ==
  ASSUME AllFit, ReachedInv, ReduceScatterStep \/ AllGatherStep
  PROVE  ReachedInv'
<1> DEFINE n == world_size
           h(r, c) == Hop(r, c)
           lands(r, c) == h(r, c) = IF step < n - 1 THEN step + 1 ELSE step - (n - 1)
<1>1. /\ size \in Sizes /\ Fits(size) /\ n \in Nat /\ n >= 3 /\ count \in Nat
      /\ Ranks = 0 .. (n - 1)
  BY SizesAssumption DEF ReachedInv, AllFit, world_size, count, Ranks
<1>2. size' = size /\ step' = step + 1 /\ step \in 0 .. (2 * (n - 1) - 1)
  <2> HIDE DEF n
  <2>1. step \in 0 .. (2 * (n - 1)) /\ step # 2 * (n - 1)
    BY <1>1 DEF ReachedInv, ReduceScatterStep, AllGatherStep, Finished, n
  <2>2. size' = size /\ step' = step + 1
    BY DEF ReduceScatterStep, AllGatherStep
  <2>3. QED
    BY <1>1, <2>1, <2>2
<1>3. /\ world_size' = n /\ count' = count /\ Ranks' = Ranks
      /\ \A r, c : Hop(r, c)' = h(r, c) /\ Passed(r, c)' = Passed(r, c)
      /\ \A c : Chunk(size, c)' = Chunk(size, c)
  BY <1>2 DEF world_size, count, Ranks, Hop, Passed, Chunk, Offset, ActualCount
<1>4. \A r, c \in Ranks :
        /\ h(r, c) \in Ranks /\ PrevRank(r) \in Ranks
        /\ (h(r, c) = 0) <=> (r = c)
        /\ h(PrevRank(r), c) = IF h(r, c) = 0 THEN n - 1 ELSE h(r, c) - 1
        /\ \A x \in Ranks : h(x, c) \in Ranks /\ (h(x, c) = h(r, c) => x = r)
  <2> SUFFICES ASSUME NEW r \in Ranks, NEW c \in Ranks
               PROVE  /\ h(r, c) \in Ranks /\ PrevRank(r) \in Ranks
                      /\ (h(r, c) = 0) <=> (r = c)
                      /\ h(PrevRank(r), c) = IF h(r, c) = 0 THEN n - 1 ELSE h(r, c) - 1
                      /\ \A x \in Ranks :
                           h(x, c) \in Ranks /\ (h(x, c) = h(r, c) => x = r)
    OBVIOUS
  <2>1. step \in 0 .. (2 * (world_size - 1) - 1)
    BY <1>2
  <2>2. /\ Hop(r, c) \in Ranks /\ PrevRank(r) \in Ranks
        /\ (Hop(r, c) = 0) <=> (r = c)
        /\ Hop(PrevRank(r), c) =
             IF Hop(r, c) = 0 THEN world_size - 1 ELSE Hop(r, c) - 1
    BY ONLY <1>1, <2>1, Hops
  <2>3. \A x \in Ranks : Hop(x, c) \in Ranks /\ (Hop(x, c) = Hop(r, c) => x = r)
    BY ONLY <1>1, <2>1, Hops
  <2>4. QED
    BY <2>2, <2>3
<1>5. \A r, c \in Ranks : \A e \in Chunk(size, c) :
        /\ e \in 0 .. (count - 1)
        /\ (e \in Chunk(size, RecvChunk(r))) <=> lands(r, c)
  BY <1>1, <1>2, Receives
<1>6. data \in [Ranks -> [0 .. (count - 1) -> SUBSET Ranks]]
  BY DEF ReachedInv
<1>7. data' \in [Ranks -> [0 .. (count - 1) -> SUBSET Ranks]]
  <2>1. \A r \in Ranks : PrevRank(r) \in Ranks
    BY <1>4
  <2>2. CASE ReduceScatterStep
    <3> DEFINE new(r, e) == IF e \in Chunk(size, RecvChunk(r))
                            THEN data[r][e] \cup data[PrevRank(r)][e] ELSE data[r][e]
    <3>1. data' = [r \in Ranks |-> [e \in 0 .. (count - 1) |-> new(r, e)]]
      BY <2>2 DEF ReduceScatterStep
    <3>2. \A r \in Ranks : \A e \in 0 .. (count - 1) : new(r, e) \in SUBSET Ranks
      BY <1>6, <2>1
    <3> HIDE DEF new
    <3>3. QED
      BY <3>1, <3>2
  <2>3. CASE AllGatherStep
    <3> DEFINE new(r, e) == IF e \in Chunk(size, RecvChunk(r))
                            THEN data[PrevRank(r)][e] ELSE data[r][e]
    <3>1. data' = [r \in Ranks |-> [e \in 0 .. (count - 1) |-> new(r, e)]]
      BY <2>3 DEF AllGatherStep
    <3>2. \A r \in Ranks : \A e \in 0 .. (count - 1) : new(r, e) \in SUBSET Ranks
      BY <1>6, <2>1
    <3> HIDE DEF new
    <3>3. QED
      BY <3>1, <3>2
  <2>4. QED
    BY <2>2, <2>3
<1>8. ASSUME NEW r \in Ranks, NEW c \in Ranks, NEW e \in Chunk(size, c)
      PROVE  Reached(r, c, e)'
  <2> DEFINE p == PrevRank(r)
             now(x) == data[x][e]
             then(x) == data'[x][e]
             H(x) == Hop(x, c)
             Behind(x) == Passed(x, c)
  <2>1. /\ p \in Ranks /\ r \in Ranks
        /\ (H(r) = 0) <=> (r = c)
        /\ H(p) = IF H(r) = 0 THEN n - 1 ELSE H(r) - 1
        /\ \A x \in Ranks : H(x) \in Ranks /\ (H(x) = H(r) => x = r)
    BY <1>4
  <2>2. \A x \in Ranks :
          /\ step <= n - 1 => now(x) = IF H(x) <= step THEN Behind(x) ELSE {x}
          /\ step >= n - 1 /\ (H(x) < step - (n - 1) \/ H(x) = n - 1) => now(x) = Ranks
    BY DEF ReachedInv, Reached
  <2>3. Behind(r) = {x \in Ranks : H(x) <= H(r)} /\ Behind(p) = {x \in Ranks : H(x) <= H(p)}
    BY DEF Passed
  <2>4. then(r) = IF step < n - 1
                  THEN IF H(r) = step + 1 THEN now(r) \cup now(p) ELSE now(r)
                  ELSE IF H(r) = step - (n - 1) THEN now(p) ELSE now(r)
    <3>1. e \in 0 .. (count - 1) /\ ((e \in Chunk(size, RecvChunk(r))) <=> lands(r, c))
      BY <1>5
    <3>2. CASE ReduceScatterStep
      <4>1. step < n - 1
        BY <3>2 DEF ReduceScatterStep
      <4>2. then(r) = IF e \in Chunk(size, RecvChunk(r)) THEN now(r) \cup now(p) ELSE now(r)
        BY <3>1, <3>2 DEF ReduceScatterStep
      <4>3. QED
        BY <3>1, <4>1, <4>2
    <3>3. CASE AllGatherStep
      <4>1. ~(step < n - 1)
        BY <1>1, <1>2, <3>3 DEF AllGatherStep
      <4>2. then(r) = IF e \in Chunk(size, RecvChunk(r)) THEN now(p) ELSE now(r)
        BY <3>1, <3>3 DEF AllGatherStep
      <4>3. QED
        BY <3>1, <4>1, <4>2
    <3>4. QED
      BY <3>2, <3>3
  <2>5. Reached(r, c, e)' <=>
          /\ step + 1 <= n - 1 =>
               then(r) = IF H(r) <= step + 1 THEN Behind(r) ELSE {r}
          /\ step + 1 >= n - 1 /\ (H(r) < step + 1 - (n - 1) \/ H(r) = n - 1)
             => then(r) = Ranks
    <3>1. world_size' = n /\ step' = step + 1
      BY <1>2, <1>3
    <3>2. Hop(r, c)' = H(r)
      BY <1>2 DEF Hop, world_size
    <3>3. Passed(r, c)' = Behind(r)
      BY <1>2 DEF Passed, Hop, Ranks, world_size
    <3>4. Ranks' = Ranks
      BY <1>3
    <3>5. n \in Nat /\ step \in Int /\ H(r) \in Int
      BY <1>1, <1>2, <2>1
    <3> HIDE DEF n, H, Behind, then
    <3>6. QED
      BY <3>1, <3>2, <3>3, <3>4, <3>5 DEF Reached, then
  <2> HIDE DEF n, p, now, then, H, Behind
  <2>6. CASE step < n - 1
    <3>1. CASE H(r) = step + 1
      <4>1. H(p) = step /\ ~(H(r) <= step) /\ H(p) <= step
        BY <1>1, <1>2, <2>1, <3>1
      <4>2. now(r) = {r} /\ now(p) = Behind(p)
        BY <1>1, <1>2, <2>1, <2>2, <2>6, <4>1
      <4>3. {r} \cup Behind(p) = Behind(r)
        <5>1. \A x \in Ranks : H(x) <= H(r) <=> (x = r \/ H(x) <= H(p))
          BY <1>1, <1>2, <2>1, <3>1, <4>1
        <5>2. QED
          BY <2>1, <2>3, <5>1
      <4>4. then(r) = Behind(r)
        BY <2>4, <2>6, <3>1, <4>2, <4>3
      <4>5. H(r) = n - 1 => Behind(r) = Ranks
        BY <1>1, <2>1, <2>3
      <4>6. QED
        BY <1>1, <1>2, <2>1, <2>5, <2>6, <3>1, <4>4, <4>5
    <3>2. CASE H(r) # step + 1
      <4>1. then(r) = now(r) /\ now(r) = IF H(r) <= step THEN Behind(r) ELSE {r}
        <5>1. step <= n - 1
          BY <1>1, <1>2, <2>6
        <5>2. QED
          BY <2>1, <2>2, <2>4, <2>6, <3>2, <5>1
      <4>2. H(r) \in 0 .. (n - 1)
        BY <1>1, <2>1
      <4>3. (H(r) <= step <=> H(r) <= step + 1)
        BY <1>1, <1>2, <3>2, <4>2
      <4>4. ~(step + 1 >= n - 1 /\ (H(r) < step + 1 - (n - 1) \/ H(r) = n - 1))
        BY <1>1, <1>2, <2>6, <3>2, <4>2
      <4>5. QED
        BY <2>5, <4>1, <4>3, <4>4
    <3>3. QED
      BY <3>1, <3>2
  <2>7. CASE ~(step < n - 1)
    <3>1. step >= n - 1 /\ ~(step + 1 <= n - 1) /\ H(r) \in 0 .. (n - 1)
      BY <1>1, <1>2, <2>1, <2>7
    <3>2. CASE H(r) = step - (n - 1)
      <4>1. H(p) < step - (n - 1) \/ H(p) = n - 1
        BY <1>1, <1>2, <2>1, <3>1, <3>2
      <4>2. now(p) = Ranks
        BY <2>1, <2>2, <3>1, <4>1
      <4>3. QED
        BY <2>4, <2>5, <2>7, <3>1, <3>2, <4>2
    <3>3. CASE H(r) # step - (n - 1)
      <4>1. H(r) < step + 1 - (n - 1) \/ H(r) = n - 1
            => H(r) < step - (n - 1) \/ H(r) = n - 1
        BY <1>1, <1>2, <3>1, <3>3
      <4>2. then(r) = now(r)
        BY <2>4, <2>7, <3>3
      <4>3. QED
        BY <2>1, <2>2, <2>5, <3>1, <4>1, <4>2
    <3>4. QED
      BY <3>2, <3>3
  <2>8. QED
    BY <2>6, <2>7
<1>9. QED
  <2>1. step' \in 0 .. (2 * (n - 1))
    BY <1>1, <1>2
  <2>2. (\A r \in Ranks, c \in Ranks : \A e \in Chunk(size, c) : Reached(r, c, e))'
    BY <1>3, <1>8
  <2>3. QED
    BY <1>1, <1>2, <1>3, <1>7, <2>1, <2>2 DEF ReachedInv

(* When the ring AllReduce is over, every element of every rank has met the *)
(* operand of every rank, for all world sizes and counts that fit: no chunk *)
(* is skipped, and none is passed on before its result is whole.            *)
THEOREM AllReducedCorrect == AllFit => (Spec => []AllReduced)
<1> SUFFICES ASSUME AllFit PROVE Spec => []AllReduced
  OBVIOUS
<1>1. Init => ReachedInv
  <2> SUFFICES ASSUME Init PROVE ReachedInv
    OBVIOUS
  <2>1. /\ size \in Sizes /\ Fits(size) /\ world_size \in Nat /\ world_size >= 3
        /\ count \in Nat /\ Ranks = 0 .. (world_size - 1) /\ step = 0
    BY SizesAssumption DEF Init, AllFit, world_size, count, Ranks
  <2>2. step \in 0 .. (2 * (world_size - 1) - 1) /\ step \in 0 .. (2 * (world_size - 1))
    BY <2>1
  <2>3. data = [r \in Ranks |-> [e \in 0 .. (count - 1) |-> {r}]]
    BY DEF Init
  <2>4. ASSUME NEW r \in Ranks, NEW c \in Ranks, NEW e \in Chunk(size, c)
        PROVE  Reached(r, c, e)
    <3>1. data[r][e] = {r}
      BY <2>1, <2>2, <2>3, Receives
    <3>2. /\ Hop(r, c) \in 0 .. (world_size - 1)
          /\ \A x \in Ranks : Hop(x, c) \in 0 .. (world_size - 1)
                              /\ (Hop(x, c) = Hop(r, c) => x = r)
      <4>1. /\ Hop(r, c) \in Ranks
            /\ \A x \in Ranks : Hop(x, c) \in Ranks /\ (Hop(x, c) = Hop(r, c) => x = r)
        BY <2>1, <2>2, Hops
      <4>2. QED
        BY <2>1, <4>1
    <3>3. Hop(r, c) <= 0 => Passed(r, c) = {r}
      BY <2>1, <3>2 DEF Passed
    <3>4. QED
      BY <2>1, <3>1, <3>2, <3>3 DEF Reached
  <2>5. QED
    BY <2>1, <2>2, <2>3, <2>4 DEF ReachedInv
<1>2. ReachedInv /\ [Next]_vars => ReachedInv'
  <2>1. ReachedInv /\ (ReduceScatterStep \/ AllGatherStep) => ReachedInv'
    BY ReachedStep
  <2>2. ReachedInv /\ UNCHANGED vars => ReachedInv'
    <3> SUFFICES ASSUME ReachedInv, UNCHANGED vars PROVE ReachedInv'
      OBVIOUS
    <3>1. size' = size /\ step' = step /\ data' = data
      BY DEF vars
    <3>2. world_size' = world_size /\ count' = count /\ Ranks' = Ranks
      BY <3>1 DEF world_size, count, Ranks
    <3>3. \A r, c, e : Reached(r, c, e)' <=> Reached(r, c, e)
      BY <3>1 DEF Reached, Passed, Hop, Ranks, world_size
    <3>4. \A c : Chunk(size, c)' = Chunk(size, c)
      BY <3>1
    <3>5. QED
      BY <3>1, <3>2, <3>3, <3>4 DEF ReachedInv
  <2>3. QED
    BY <2>1, <2>2 DEF Next, Done
<1>3. ReachedInv => AllReduced
  <2> SUFFICES ASSUME ReachedInv, Finished, NEW r \in Ranks, NEW e \in 0 .. (count - 1)
               PROVE  data[r][e] = Ranks
    BY DEF AllReduced
  <2>1. /\ size \in Sizes /\ Fits(size) /\ world_size \in Nat /\ world_size >= 3
        /\ Ranks = 0 .. (world_size - 1) /\ size[1] = world_size /\ size[2] = count
        /\ step = 2 * (world_size - 1)
    BY SizesAssumption DEF ReachedInv, AllFit, Finished, world_size, count, Ranks
  <2>2. PICK c \in Ranks : e \in Chunk(size, c)
    BY <2>1, ChunksCover
  <2>3. Hop(r, c) \in 0 .. (world_size - 1)
    <3>1. r - c + world_size \in Int
      BY <2>1
    <3>2. \A i \in Int : i % world_size \in 0 .. (world_size - 1)
      BY <2>1
    <3>3. QED
      BY <3>1, <3>2 DEF Hop
  <2>4. Reached(r, c, e)
    BY <2>2 DEF ReachedInv
  <2>5. QED
    BY <2>1, <2>3, <2>4 DEF Reached
<1>4. QED
  BY <1>1, <1>2, <1>3, PTL DEF Spec

-----------------------------------------------------------------------------
(* Induction over the natural numbers, for a set.                           *)
LEMMA NatSteps ==
  ASSUME NEW S, 0 \in S, \A n \in Nat : n \in S => n + 1 \in S
  PROVE  Nat \subseteq S
<1> DEFINE R == {ss \in Nat \X Nat : ss[1] < ss[2]}
           Missing == Nat \ S
<1>1. R = OpToRel(<, Nat)
  BY DEF OpToRel
<1>2. IsWellFoundedOn(R, Nat)
  BY <1>1, NatLessThanWellFounded
<1>3. SUFFICES ASSUME Missing # {} PROVE FALSE
  OBVIOUS
<1>4. Missing \subseteq Nat
  OBVIOUS
<1>5. PICK x \in Missing : \A y \in Missing : ~ (<<y, x>> \in R)
  <2> HIDE DEF R, Missing
  <2>1. QED
    BY <1>2, <1>3, <1>4, WFMin
<1>6. x # 0 /\ x - 1 \in Nat /\ <<x - 1, x>> \in R
  OBVIOUS
<1>7. x - 1 \in S
  BY <1>5, <1>6
<1>8. x - 1 + 1 \in S /\ x - 1 + 1 = x
  BY <1>6, <1>7
<1>9. QED
  BY <1>8

-----------------------------------------------------------------------------
(* Division.                                                                *)
LEMMA Division ==
  ASSUME NEW a \in Int, NEW m \in Nat \ {0}
  PROVE  /\ a \div m \in Int /\ a % m \in 0 .. (m - 1)
         /\ a = m * (a \div m) + (a % m)
OBVIOUS

(* m goes q times into a.                                                   *)
GoesInto(m, a, q) == m * q <= a /\ a < m * q + m
LEMMA Quotient ==
  ASSUME NEW m \in Nat \ {0}, NEW a \in Int, NEW q \in Int, GoesInto(m, a, q)
  PROVE  a \div m = q /\ a % m = a - m * q
<1> DEFINE c == a \div m
           d == a % m
<1>1. c \in Int /\ d \in 0 .. (m - 1) /\ a = m * c + d
  BY Division
<1> HIDE DEF c, d
<1>2. m * q <= a /\ a < m * q + m
  BY DEF GoesInto
<1>3. c = q
  BY <1>1, <1>2, SMTT(60)
<1>4. QED
  BY <1>1, <1>3 DEF c, d

LEMMA ModOnce ==
  ASSUME NEW m \in Nat \ {0}, NEW a \in 0 .. (2 * m - 1)
  PROVE  a % m = (IF a < m THEN a ELSE a - m) /\ a \div m = (IF a < m THEN 0 ELSE 1)
<1>1. CASE a < m
  <2>1. PICK z \in Int : z = 0
    OBVIOUS
  <2>2. GoesInto(m, a, z)
    BY <2>1, <1>1 DEF GoesInto
  <2>3. QED
    BY <2>1, <2>2, <1>1, Quotient
<1>2. CASE a >= m
  <2>1. PICK z \in Int : z = 1
    OBVIOUS
  <2>2. GoesInto(m, a, z)
    BY <2>1, <1>2 DEF GoesInto
  <2>3. QED
    BY <2>1, <2>2, <1>2, Quotient
<1>3. QED
  BY <1>1, <1>2

AwayBy(m, a, b, q) == a = b + m * q
LEMMA ModSame ==
  ASSUME NEW m \in Nat \ {0}, NEW a \in Int, NEW b \in Int, NEW q \in Int, AwayBy(m, a, b, q)
  PROVE  a % m = b % m
<1>1. a = b + m * q
  BY DEF AwayBy
<1> DEFINE c == b \div m
           d == b % m
<1>2. c \in Int /\ d \in 0 .. (m - 1) /\ b = m * c + d
  BY Division
<1> HIDE DEF c, d
<1>3. m * (c + q) = m * c + m * q /\ m * c \in Int /\ m * q \in Int /\ c + q \in Int
  BY <1>2
<1> DEFINE e == c + q
<1>4. e \in Int /\ GoesInto(m, a, e)
  BY <1>1, <1>2, <1>3 DEF GoesInto
<1> HIDE DEF e
<1>5. a % m = a - m * e
  BY <1>4, Quotient
<1>6. QED
  BY <1>1, <1>2, <1>3, <1>5 DEF d, e

-----------------------------------------------------------------------------
(* Sums over sets of ranks.                                                 *)
Additive(T, f, k) ==
  /\ T \in [SUBSET (0 .. (k - 1)) -> Int]
  /\ \A x \in 0 .. (k - 1) : T[{x}] = f[x]
  /\ \A A, B \in SUBSET (0 .. (k - 1)) : A \cap B = {} => T[A \cup B] = T[A] + T[B]

LEMMA AdditiveExists ==
  ASSUME NEW n \in Nat, NEW f, \A x \in 0 .. (n - 1) : f[x] \in Int
  PROVE  \E T : Additive(T, f, n)
<1> DEFINE S == {k \in Nat : k <= n => \E T : Additive(T, f, k)}
<1>1. 0 \in S
  <2> DEFINE T == [A \in SUBSET (0 .. (0 - 1)) |-> 0]
  <2>1. 0 .. (0 - 1) = {}
    OBVIOUS
  <2>2. Additive(T, f, 0)
    BY <2>1 DEF Additive
  <2>3. QED
    BY <2>2
<1>2. ASSUME NEW k \in Nat, k \in S PROVE k + 1 \in S
  <2>1. SUFFICES ASSUME k + 1 <= n PROVE \E T : Additive(T, f, k + 1)
    OBVIOUS
  <2>2. PICK T : Additive(T, f, k)
    BY <1>2, <2>1
  <2>3. /\ T \in [SUBSET (0 .. (k - 1)) -> Int]
        /\ \A x \in 0 .. (k - 1) : T[{x}] = f[x]
        /\ \A A, B \in SUBSET (0 .. (k - 1)) : A \cap B = {} => T[A \cup B] = T[A] + T[B]
    BY <2>2 DEF Additive
  <2>4. 0 .. (k + 1 - 1) = (0 .. (k - 1)) \cup {k} /\ ~ (k \in 0 .. (k - 1)) /\ f[k] \in Int
    BY <2>1
  <2> DEFINE L == 0 .. (k - 1)
             M == 0 .. (k + 1 - 1)
             U == [A \in SUBSET M |-> T[A \ {k}] + (IF k \in A THEN f[k] ELSE 0)]
  <2>5. M = L \cup {k} /\ ~ (k \in L)
    BY <2>4
  <2>6. \A A \in SUBSET M : A \ {k} \in SUBSET L
    BY <2>5
  <2>7. \A A \in SUBSET L : T[A] \in Int
    BY <2>3
  <2>8. \A x \in L : T[{x}] = f[x]
    BY <2>3
  <2>9. \A A, B \in SUBSET L : A \cap B = {} => T[A \cup B] = T[A] + T[B]
    BY <2>3
  <2> HIDE DEF L, M
  <2>10. U \in [SUBSET M -> Int]
    BY <2>4, <2>6, <2>7
  <2>11. T[{}] = 0
    <3>1. {} \in SUBSET L /\ {} \cap {} = {} /\ {} \cup {} = {}
      OBVIOUS
    <3>2. T[{} \cup {}] = T[{}] + T[{}]
      BY <3>1, <2>9
    <3>3. QED
      BY <3>1, <3>2, <2>7
  <2>12. ASSUME NEW x \in M PROVE U[{x}] = f[x]
    <3>1. CASE x = k
      <4>1. {x} \ {k} = {} /\ {x} \in SUBSET M /\ k \in {x}
        BY <3>1
      <4>2. U[{x}] = T[{x} \ {k}] + f[k]
        BY <4>1
      <4>3. T[{x} \ {k}] = 0
        BY <4>1, <2>11
      <4> HIDE DEF U
      <4>4. U[{x}] = f[k]
        BY <4>2, <4>3, <2>4
      <4>5. QED
        BY <4>4, <3>1
    <3>2. CASE x # k
      <4>1. x \in L /\ {x} \ {k} = {x} /\ {x} \in SUBSET M /\ ~ (k \in {x})
        BY <3>2, <2>5
      <4>2. T[{x}] = f[x] /\ T[{x}] \in Int
        BY <4>1, <2>7, <2>8
      <4>3. QED
        BY <4>1, <4>2
    <3>3. QED
      BY <3>1, <3>2
  <2>13. ASSUME NEW A \in SUBSET M, NEW B \in SUBSET M, A \cap B = {}
         PROVE  U[A \cup B] = U[A] + U[B]
    <3> DEFINE a == A \ {k}
               b == B \ {k}
    <3>1. a \in SUBSET L /\ b \in SUBSET L /\ a \cap b = {} /\ (A \cup B) \ {k} = a \cup b
      BY <2>6, <2>13
    <3>2. T[a \cup b] = T[a] + T[b] /\ T[a] \in Int /\ T[b] \in Int
      BY <3>1, <2>7, <2>9
    <3>3. A \cup B \in SUBSET M /\ ~ (k \in A /\ k \in B)
      BY <2>13
    <3>4. /\ U[A \cup B] = T[a \cup b] + (IF k \in A \cup B THEN f[k] ELSE 0)
          /\ U[A] = T[a] + (IF k \in A THEN f[k] ELSE 0)
          /\ U[B] = T[b] + (IF k \in B THEN f[k] ELSE 0)
      BY <3>1, <3>3
    <3> HIDE DEF a, b, U
    <3>5. QED
      BY <3>2, <3>3, <3>4, <2>4
  <2>14. Additive(U, f, k + 1)
    <3> HIDE DEF U
    <3>1. QED
      BY <2>10, <2>12, <2>13 DEF Additive, M
  <2>15. QED
    BY <2>14
<1>3. Nat \subseteq S
  <2> HIDE DEF S
  <2>1. QED
    BY <1>1, <1>2, NatSteps
<1>4. QED
  BY <1>3

(* A fold of + over a set of numbers is their sum.                          *)
LEMMA FoldIsSum ==
  ASSUME NEW n \in Nat, NEW f, NEW T, Additive(T, f, n), NEW C \in SUBSET (0 .. (n - 1))
  PROVE  D!FoldFunctionOnSet(+, 0, f, C) = T[C]
<1> DEFINE pick(s) == CHOOSE x \in s : TRUE
           Steps(g) == g = [s \in SUBSET C |->
                              IF s = {} THEN 0
                              ELSE LET x == CHOOSE x \in s : TRUE IN f[x] + g[s \ {x}]]
<1>1. D!FoldFunctionOnSet(+, 0, f, C) = (CHOOSE g : Steps(g))[C]
  BY DEF D!FoldFunctionOnSet, D!MapThenFoldSet
<1>2. /\ \A s \in SUBSET C : T[s] \in Int
      /\ \A x \in C : T[{x}] = f[x]
      /\ \A A, B \in SUBSET C : A \cap B = {} => T[A \cup B] = T[A] + T[B]
  BY DEF Additive
<1>3. T[{}] = 0
  <2>1. {} \in SUBSET C /\ {} \cap {} = {} /\ {} \cup {} = {}
    OBVIOUS
  <2>2. T[{} \cup {}] = T[{}] + T[{}]
    BY <2>1, <1>2
  <2>3. QED
    BY <2>1, <2>2, <1>2
<1>4. ASSUME NEW s \in SUBSET C, s # {}
      PROVE  /\ pick(s) \in s /\ s \ {pick(s)} \in SUBSET C
             /\ f[pick(s)] \in Int /\ T[s] = f[pick(s)] + T[s \ {pick(s)}]
  <2> DEFINE x == pick(s)
             t == s \ {x}
  <2>1. x \in s
    BY <1>4
  <2> HIDE DEF x
  <2>2. {x} \in SUBSET C /\ t \in SUBSET C /\ {x} \cap t = {} /\ {x} \cup t = s
    BY <2>1
  <2>3. T[s] = T[{x}] + T[t] /\ T[{x}] = f[x] /\ T[{x}] \in Int
    BY <2>1, <2>2, <1>2
  <2>4. QED
    BY <2>1, <2>2, <2>3 DEF x
<1> DEFINE h == [s \in SUBSET C |-> T[s]]
<1>5. Steps(h)
  <2>1. ASSUME NEW s \in SUBSET C
        PROVE  h[s] = IF s = {} THEN 0
                      ELSE LET x == CHOOSE x \in s : TRUE IN f[x] + h[s \ {x}]
    <3>1. CASE s = {}
      BY <3>1, <1>3
    <3>2. CASE s # {}
      BY <3>2, <1>4
    <3>3. QED
      BY <3>1, <3>2
  <2>2. QED
    BY <2>1
<1> DEFINE g == CHOOSE u : Steps(u)
<1>6. Steps(g)
  <2> HIDE DEF Steps, h
  <2>1. QED
    BY <1>5
<1>7. \A s \in SUBSET C : g[s] = IF s = {} THEN 0 ELSE f[pick(s)] + g[s \ {pick(s)}]
  <2> HIDE DEF g
  <2>1. QED
    BY <1>6
<1> HIDE DEF g, pick
<1>8. IsFiniteSet(C)
  <2>1. IsFiniteSet(0 .. (n - 1))
    BY FS_Interval
  <2>2. QED
    BY <2>1, FS_Subset
<1> DEFINE S == {k \in Nat : \A s \in SUBSET C : Cardinality(s) = k => g[s] = T[s]}
<1>9. \A s \in SUBSET C : IsFiniteSet(s) /\ Cardinality(s) \in Nat /\ (Cardinality(s) = 0 <=> s = {})
  BY <1>8, FS_Subset, FS_CardinalityType, FS_EmptySet
<1>10. 0 \in S
  BY <1>7, <1>9, <1>3
<1>11. ASSUME NEW k \in Nat, k \in S PROVE k + 1 \in S
  <2>1. SUFFICES ASSUME NEW s \in SUBSET C, Cardinality(s) = k + 1 PROVE g[s] = T[s]
    OBVIOUS
  <2>2. s # {}
    BY <2>1, <1>9
  <2>3. pick(s) \in s /\ s \ {pick(s)} \in SUBSET C
    BY <2>2, <1>4
  <2>4. Cardinality(s \ {pick(s)}) = k
    BY <2>1, <2>3, <1>9, FS_RemoveElement
  <2>5. g[s \ {pick(s)}] = T[s \ {pick(s)}]
    BY <2>3, <2>4, <1>11
  <2>6. QED
    BY <2>2, <2>5, <1>4, <1>7
<1>12. Nat \subseteq S
  <2> HIDE DEF S
  <2>1. QED
    BY <1>10, <1>11, NatSteps
<1>13. g[C] = T[C]
  BY <1>12, <1>9
<1>14. QED
  BY <1>1, <1>13 DEF g
-----------------------------------------------------------------------------
(* Two's complement.                                                        *)
LEMMA IntModFacts ==
  /\ IntMod \in Nat \ {0} /\ D!Half \in Nat /\ IntMod = 2 * D!Half
  /\ Operands \subseteq D!Values /\ D!Values \subseteq Int
<1>1. IntMod \in Nat \ {0} /\ IntMod % 2 = 0 /\ Operands \subseteq D!Values
  BY ReductionAssumption DEF D!OperandsFit
<1>2. D!Half \in Nat /\ IntMod = 2 * D!Half
  BY <1>1 DEF D!Half
<1>3. D!Values \subseteq Int
  BY <1>2 DEF D!Values
<1>4. QED
  BY <1>1, <1>2, <1>3

LEMMA WrapFacts ==
  ASSUME NEW v \in Int
  PROVE  /\ D!Wrap(v) \in D!Values
         /\ v \in D!Values => D!Wrap(v) = v
         /\ \E q \in Int : D!Wrap(v) = v + IntMod * q
<1> DEFINE M == IntMod
           H == D!Half
           x == v + H
<1>1. M \in Nat \ {0} /\ H \in Nat /\ M = 2 * H
  BY IntModFacts
<1>2. D!Values = (-H) .. (H - 1) /\ D!Wrap(v) = ((v + H) % M) - H
  BY DEF D!Values, D!Wrap
<1> HIDE DEF M, H
<1>3. x \in Int /\ x = v + H
  BY <1>1
<1> HIDE DEF x
<1>4. M \in Nat \ {0}
  BY <1>1
<1>5. x \div M \in Int /\ x % M \in 0 .. (M - 1) /\ x = M * (x \div M) + (x % M)
  BY <1>4, <1>3
<1>6. D!Wrap(v) \in D!Values
  BY <1>1, <1>3, <1>2, <1>5
<1>7. ASSUME v \in D!Values PROVE D!Wrap(v) = v
  <2>1. x \in 0 .. (2 * M - 1) /\ x < M
    BY <1>1, <1>3, <1>2, <1>7
  <2>2. x % M = x
    BY <1>1, <2>1, ModOnce
  <2>3. QED
    BY <1>1, <1>3, <1>2, <2>2
<1>8. \E q \in Int : D!Wrap(v) = v + IntMod * q
  <2> DEFINE q == x \div M
  <2>1. q \in Int /\ x = M * q + (x % M)
    BY <1>5
  <2> HIDE DEF q
  <2>2. -q \in Int /\ M * (-q) = -(M * q) /\ M * q \in Int
    BY <1>1, <2>1
  <2> DEFINE y == M * q
  <2>3. y \in Int /\ x = y + (x % M) /\ M * (-q) = -y
    BY <2>1, <2>2
  <2> HIDE DEF y
  <2>4. D!Wrap(v) = v + M * (-q)
    BY <1>1, <1>3, <1>2, <1>5, <2>3
  <2>5. QED
    BY <2>2, <2>4 DEF M
<1>9. QED
  BY <1>6, <1>7, <1>8

(* A sum may wrap around on the way.                                        *)
LEMMA WrapSum ==
  ASSUME NEW a \in Int, NEW b \in Int
  PROVE  D!Wrap(D!Wrap(a) + D!Wrap(b)) = D!Wrap(a + b)
<1>1. PICK q1 \in Int : D!Wrap(a) = a + IntMod * q1
  BY WrapFacts
<1>2. PICK q2 \in Int : D!Wrap(b) = b + IntMod * q2
  BY WrapFacts
<1> DEFINE M == IntMod
           H == D!Half
<1>3. M \in Nat \ {0} /\ H \in Nat
  BY IntModFacts
<1>4. M * (q1 + q2) = M * q1 + M * q2 /\ M * q1 \in Int /\ M * q2 \in Int /\ q1 + q2 \in Int
  BY <1>3
<1> DEFINE x == D!Wrap(a) + D!Wrap(b) + H
           y == a + b + H
<1>5. x \in Int /\ y \in Int /\ x = y + M * (q1 + q2)
  BY <1>1, <1>2, <1>3, <1>4
<1>6. D!Wrap(D!Wrap(a) + D!Wrap(b)) = (x % M) - H /\ D!Wrap(a + b) = (y % M) - H
  BY DEF D!Wrap
<1> HIDE DEF x, y, M, H
<1>7. AwayBy(M, x, y, q1 + q2)
  BY <1>5 DEF AwayBy
<1>8. x % M = y % M
  BY <1>3, <1>4, <1>5, <1>7, ModSame
<1>9. QED
  BY <1>6, <1>8

-----------------------------------------------------------------------------
(* Operands reduced.                                                        *)
LEMMA RanksFacts == N \in Nat \ {0} /\ N >= 2 /\ D!Ranks = 0 .. (N - 1)
BY ReductionAssumption DEF D!Ranks

LEMMA TotalFacts ==
  ASSUME input \in [D!Ranks -> Operands]
  PROVE  /\ \A A \in SUBSET D!Ranks : D!SumOf(A) \in Int
         /\ \A r \in D!Ranks : input[r] \in Int /\ D!SumOf({r}) = input[r]
         /\ \A A, B \in SUBSET D!Ranks :
              A \cap B = {} => D!SumOf(A \cup B) = D!SumOf(A) + D!SumOf(B)
<1>1. \A x \in 0 .. (N - 1) : input[x] \in Int
  BY RanksFacts, IntModFacts
<1>2. PICK T : Additive(T, input, N)
  BY <1>1, RanksFacts, AdditiveExists
<1>3. \A A \in SUBSET D!Ranks : D!SumOf(A) = T[A]
  BY <1>2, RanksFacts, FoldIsSum DEF D!SumOf
<1>4. \A r \in D!Ranks : {r} \in SUBSET D!Ranks
  OBVIOUS
<1>5. \A A, B \in SUBSET D!Ranks : A \cup B \in SUBSET D!Ranks
  OBVIOUS
<1>6. /\ \A A \in SUBSET D!Ranks : T[A] \in Int
      /\ \A r \in D!Ranks : T[{r}] = input[r]
      /\ \A A, B \in SUBSET D!Ranks : A \cap B = {} => T[A \cup B] = T[A] + T[B]
  BY <1>2, RanksFacts DEF Additive
<1>7. \A r \in D!Ranks : input[r] \in Int /\ D!SumOf({r}) = input[r]
  BY <1>1, <1>3, <1>4, <1>6, RanksFacts
<1>8. ASSUME NEW A \in SUBSET D!Ranks, NEW B \in SUBSET D!Ranks, A \cap B = {}
      PROVE  D!SumOf(A \cup B) = D!SumOf(A) + D!SumOf(B)
  BY <1>3, <1>5, <1>6, <1>8
<1>9. QED
  BY <1>3, <1>6, <1>7, <1>8

LEMMA ReducesOne ==
  ASSUME input \in [D!Ranks -> Operands], op \in {"SUM", "MAX", "MIN", "AVG"}, NEW r \in D!Ranks
  PROVE  D!ReducedTo(input[r], {r})
<1>1. input[r] \in Int /\ D!SumOf({r}) = input[r] /\ input[r] \in D!Values
  BY TotalFacts, IntModFacts
<1>2. D!Wrap(input[r]) = input[r]
  BY <1>1, WrapFacts
<1>3. CASE op = "SUM"
  BY <1>1, <1>2, <1>3 DEF D!ReducedTo
<1>4. CASE op = "MAX"
  BY <1>1, <1>4 DEF D!ReducedTo
<1>5. CASE op = "MIN"
  BY <1>1, <1>5 DEF D!ReducedTo
<1>6. CASE op = "AVG"
  BY <1>6 DEF D!ReducedTo
<1>7. QED
  BY <1>3, <1>4, <1>5, <1>6

(* Two partial results of different ranks reduce to that of all of them.    *)
LEMMA ReducesJoin ==
  ASSUME input \in [D!Ranks -> Operands], op \in {"SUM", "MAX", "MIN", "AVG"},
         NEW v \in Int, NEW w \in Int,
         NEW A \in SUBSET D!Ranks, NEW B \in SUBSET D!Ranks, A \cap B = {},
         D!ReducedTo(v, A), D!ReducedTo(w, B)
  PROVE  D!ReducedTo(D!PerformReduce(op, v, w), A \cup B)
<1>1. D!SumOf(A) \in Int /\ D!SumOf(B) \in Int /\ D!SumOf(A \cup B) = D!SumOf(A) + D!SumOf(B)
  BY TotalFacts
<1>2. \A q \in D!Ranks : input[q] \in Int
  BY TotalFacts
<1>3. CASE op = "SUM"
  <2>1. v = D!Wrap(D!SumOf(A)) /\ w = D!Wrap(D!SumOf(B))
    BY <1>3 DEF D!ReducedTo
  <2>2. D!PerformReduce(op, v, w) = D!Wrap(v + w)
    BY <1>3 DEF D!PerformReduce, D!ReduceData
  <2>3. D!Wrap(v + w) = D!Wrap(D!SumOf(A \cup B))
    BY <2>1, <1>1, WrapSum
  <2>4. QED
    BY <1>3, <2>2, <2>3 DEF D!ReducedTo
<1>4. CASE op = "MAX"
  <2>1. /\ v \in {input[q] : q \in A} /\ \A q \in A : v >= input[q]
        /\ w \in {input[q] : q \in B} /\ \A q \in B : w >= input[q]
    BY <1>4 DEF D!ReducedTo
  <2>2. D!PerformReduce(op, v, w) = IF w > v THEN w ELSE v
    BY <1>4 DEF D!PerformReduce, D!ReduceData, D!Larger
  <2>3. QED
    BY <1>4, <2>1, <2>2, <1>2 DEF D!ReducedTo
<1>5. CASE op = "MIN"
  <2>1. /\ v \in {input[q] : q \in A} /\ \A q \in A : v <= input[q]
        /\ w \in {input[q] : q \in B} /\ \A q \in B : w <= input[q]
    BY <1>5 DEF D!ReducedTo
  <2>2. D!PerformReduce(op, v, w) = IF w < v THEN w ELSE v
    BY <1>5 DEF D!PerformReduce, D!ReduceData, D!Smaller
  <2>3. QED
    BY <1>5, <2>1, <2>2, <1>2 DEF D!ReducedTo
<1>6. CASE op = "AVG"
  BY <1>6 DEF D!ReducedTo
<1>7. QED
  BY <1>3, <1>4, <1>5, <1>6

(* All operands reduced are what the operation is to compute.               *)
LEMMA ReducesAll ==
  ASSUME input \in [D!Ranks -> Operands], op \in {"SUM", "MAX", "MIN"},
         NEW v \in Int, D!ReducedTo(v, D!Ranks)
  PROVE  v = D!Reference
<1>1. \A q \in D!Ranks : input[q] \in Int
  BY TotalFacts
<1>2. CASE op = "SUM"
  BY <1>2 DEF D!ReducedTo, D!Reference, D!SumOfInput
<1> DEFINE S == {input[r] : r \in D!Ranks}
<1>3. S \subseteq Int
  BY <1>1
<1>4. CASE op = "MAX"
  <2>1. v \in S /\ \A y \in S : v >= y
    BY <1>4 DEF D!ReducedTo
  <2>2. D!Reference = D!Max(S)
    BY <1>4 DEF D!Reference
  <2> HIDE DEF S
  <2>3. D!Max(S) = CHOOSE x \in S : \A y \in S : x >= y
    BY DEF D!Max
  <2>4. PICK m : m = D!Max(S)
    OBVIOUS
  <2>5. m \in S /\ \A y \in S : m >= y
    BY <2>1, <2>3, <2>4
  <2>6. v \in Int /\ m \in Int /\ v >= m /\ m >= v
    BY <2>1, <2>5, <1>3
  <2>7. v = m
    BY <2>6
  <2>8. QED
    BY <2>2, <2>4, <2>7
<1>5. CASE op = "MIN"
  <2>1. v \in S /\ \A y \in S : v <= y
    BY <1>5 DEF D!ReducedTo
  <2>2. D!Reference = D!Min(S)
    BY <1>5 DEF D!Reference
  <2> HIDE DEF S
  <2>3. D!Min(S) = CHOOSE x \in S : \A y \in S : x <= y
    BY DEF D!Min
  <2>4. PICK m : m = D!Min(S)
    OBVIOUS
  <2>5. m \in S /\ \A y \in S : m <= y
    BY <2>1, <2>3, <2>4
  <2>6. v \in Int /\ m \in Int /\ v <= m /\ m <= v
    BY <2>1, <2>5, <1>3
  <2>7. v = m
    BY <2>6
  <2>8. QED
    BY <2>2, <2>4, <2>7
<1>6. QED
  BY <1>2, <1>4, <1>5

-----------------------------------------------------------------------------
(* The masks of the recursive doubling.                                     *)
Doubles(g, n) == g \in [0 .. n -> Nat] /\ g[0] = 1 /\ \A i \in 1 .. n : g[i] = 2 * g[i - 1]
LEMMA DoublesExists == ASSUME NEW n \in Nat PROVE \E g : Doubles(g, n)
<1> DEFINE S == {k \in Nat : \E g : Doubles(g, k)}
<1>1. 0 \in S
  <2>1. Doubles([i \in 0 .. 0 |-> 1], 0)
    BY DEF Doubles
  <2>2. QED
    BY <2>1
<1>2. ASSUME NEW k \in Nat, k \in S PROVE k + 1 \in S
  <2>1. PICK g : Doubles(g, k)
    BY <1>2
  <2> DEFINE h == [i \in 0 .. (k + 1) |-> IF i = k + 1 THEN 2 * g[k] ELSE g[i]]
  <2>2. h \in [0 .. (k + 1) -> Nat] /\ h[0] = 1
    BY <2>1 DEF Doubles
  <2>3. ASSUME NEW i \in 1 .. (k + 1) PROVE h[i] = 2 * h[i - 1]
    <3>1. CASE i = k + 1
      BY <3>1
    <3>2. CASE i # k + 1
      <4>1. i \in 1 .. k /\ i - 1 \in 0 .. (k + 1) /\ i - 1 # k + 1 /\ i \in 0 .. (k + 1)
        BY <3>2
      <4>2. h[i] = g[i] /\ h[i - 1] = g[i - 1]
        BY <3>2, <4>1
      <4>3. QED
        BY <2>1, <4>1, <4>2 DEF Doubles
    <3>3. QED
      BY <3>1, <3>2
  <2> HIDE DEF h
  <2>4. Doubles(h, k + 1)
    BY <2>2, <2>3 DEF Doubles
  <2>5. QED
    BY <2>4
<1>3. Nat \subseteq S
  <2> HIDE DEF S
  <2>1. QED
    BY <1>1, <1>2, NatSteps
<1>4. QED
  BY <1>3

LEMMA MaskFacts ==
  /\ D!Mask[0] = 1
  /\ \A k \in 1 .. N : D!Mask[k] = 2 * D!Mask[k - 1]
  /\ \A k \in 0 .. N : D!Mask[k] \in Nat /\ D!Mask[k] > k
<1> DEFINE F(f) == [i \in 0 .. N |-> IF i = 0 THEN 1 ELSE 2 * f[i - 1]]
<1>1. N \in Nat
  BY RanksFacts
<1>2. PICK g : Doubles(g, N)
  BY <1>1, DoublesExists
<1>3. g \in [0 .. N -> Nat] /\ g[0] = 1 /\ \A i \in 1 .. N : g[i] = 2 * g[i - 1]
  BY <1>2 DEF Doubles
<1>4. g = F(g)
  <2>1. \A i \in 0 .. N : g[i] = F(g)[i]
    BY <1>1, <1>3
  <2>2. QED
    BY <1>3, <2>1
<1>5. D!Mask = CHOOSE f : f = F(f)
  BY DEF D!Mask
<1> HIDE DEF F
<1>6. D!Mask = F(D!Mask)
  BY <1>4, <1>5
<1> DEFINE m == D!Mask
<1>7. m = [i \in 0 .. N |-> IF i = 0 THEN 1 ELSE 2 * m[i - 1]]
  BY <1>6 DEF F
<1> HIDE DEF m
<1>8. m[0] = 1 /\ \A k \in 1 .. N : m[k] = 2 * m[k - 1]
  <2> DEFINE h == [i \in 0 .. N |-> IF i = 0 THEN 1 ELSE 2 * m[i - 1]]
  <2>1. m = h
    BY <1>7
  <2>2. h[0] = 1
    BY <1>1
  <2>3. \A k \in 1 .. N : h[k] = 2 * m[k - 1]
    BY <1>1
  <2> HIDE DEF h
  <2>4. QED
    BY <2>1, <2>2, <2>3
<1> DEFINE S == {k \in Nat : k <= N => m[k] \in Nat /\ m[k] > k}
<1>9. 0 \in S
  BY <1>8
<1>10. ASSUME NEW k \in Nat, k \in S PROVE k + 1 \in S
  <2>1. SUFFICES ASSUME k + 1 <= N PROVE m[k + 1] \in Nat /\ m[k + 1] > k + 1
    OBVIOUS
  <2> DEFINE j == k + 1
  <2>2. j \in 1 .. N /\ j - 1 = k /\ k <= N
    BY <1>1, <2>1
  <2>3. m[k] \in Nat /\ m[k] > k
    BY <1>10, <2>2
  <2> HIDE DEF j
  <2>4. m[j] = 2 * m[k]
    BY <1>8, <2>2
  <2>5. m[j] \in Nat /\ m[j] > j
    BY <2>2, <2>3, <2>4
  <2>6. QED
    BY <2>5 DEF j
<1>11. Nat \subseteq S
  <2> HIDE DEF S
  <2>1. QED
    BY <1>9, <1>10, NatSteps
<1>12. \A k \in 0 .. N : m[k] \in Nat /\ m[k] > k
  BY <1>1, <1>11
<1>13. QED
  BY <1>8, <1>12 DEF m

(* A mask divides those that follow it.                                     *)
LEMMA MaskDivides ==
  ASSUME NEW a \in 0 .. N, NEW b \in a .. N
  PROVE  \E c \in Nat \ {0} : D!Mask[b] = D!Mask[a] * c
<1> DEFINE m == D!Mask
           S == {k \in Nat : a + k <= N => \E c \in Nat \ {0} : m[a + k] = m[a] * c}
<1>1. N \in Nat /\ a \in Nat /\ \A k \in 0 .. N : m[k] \in Nat
  BY RanksFacts, MaskFacts
<1>2. \A k \in 1 .. N : m[k] = 2 * m[k - 1]
  BY MaskFacts
<1> HIDE DEF m
<1>3. 0 \in S
  <2>1. m[a + 0] = m[a] * 1
    BY <1>1
  <2>2. QED
    BY <2>1
<1>4. ASSUME NEW k \in Nat, k \in S PROVE k + 1 \in S
  <2>1. SUFFICES ASSUME a + (k + 1) <= N
                 PROVE  \E c \in Nat \ {0} : m[a + (k + 1)] = m[a] * c
    OBVIOUS
  <2>2. PICK c \in Nat \ {0} : m[a + k] = m[a] * c
    BY <1>1, <1>4, <2>1
  <2> DEFINE j == a + (k + 1)
  <2>3. j \in 1 .. N /\ j - 1 = a + k
    BY <1>1, <2>1
  <2> HIDE DEF j
  <2>4. m[j] = 2 * (m[a] * c)
    BY <1>2, <2>2, <2>3
  <2>5. 2 * (m[a] * c) = m[a] * (2 * c) /\ 2 * c \in Nat \ {0}
    BY <1>1
  <2>6. QED
    BY <2>4, <2>5 DEF j
<1>5. Nat \subseteq S
  <2> HIDE DEF S
  <2>1. QED
    BY <1>3, <1>4, NatSteps
<1>6. b - a \in Nat /\ a + (b - a) = b /\ b <= N
  BY <1>1
<1>7. b - a \in S
  BY <1>5, <1>6
<1>8. QED
  BY <1>6, <1>7 DEF m

-----------------------------------------------------------------------------
(* Where the ranks are on the ring, seen from the root.                     *)
LEMMA Positions ==
  ASSUME root \in D!Ranks
  PROVE  /\ \A r \in D!Ranks : D!Position(r, root) \in 0 .. (N - 1)
         /\ \A r, q \in D!Ranks : D!Position(r, root) = D!Position(q, root) => r = q
         /\ \A x \in 0 .. (N - 1) : /\ D!RankAt(x) \in D!Ranks
                                    /\ D!Position(D!RankAt(x), root) = x
         /\ D!Position(root, root) = 0
<1> DEFINE Round(i) == i % N
           P(x) == D!Position(x, root)
           A(x) == D!RankAt(x)
<1>1. N \in Nat /\ N >= 2 /\ D!Ranks = 0 .. (N - 1) /\ root \in 0 .. (N - 1)
  BY RanksFacts
<1>2. \A i \in 0 .. (2 * N - 1) : Round(i) = IF i < N THEN i ELSE i - N
  <2>1. N \in Nat \ {0}
    BY <1>1
  <2>2. QED
    BY <2>1, ModOnce
<1>3. \A x : P(x) = Round(x - root + N) /\ A(x) = Round(root + x)
  BY DEF D!Position, D!RankAt
<1> HIDE DEF Round, P, A
<1>4. \A x \in 0 .. (N - 1) : P(x) = IF x >= root THEN x - root ELSE x - root + N
  BY <1>1, <1>2, <1>3
<1>5. \A x \in 0 .. (N - 1) : A(x) = IF root + x < N THEN root + x ELSE root + x - N
  BY <1>1, <1>2, <1>3
<1>6. /\ \A r \in 0 .. (N - 1) : P(r) \in 0 .. (N - 1)
      /\ \A r, q \in 0 .. (N - 1) : P(r) = P(q) => r = q
  BY <1>1, <1>4
<1>7. \A x \in 0 .. (N - 1) : A(x) \in 0 .. (N - 1)
  BY <1>1, <1>5
<1>8. \A x \in 0 .. (N - 1) : P(A(x)) = x
  BY <1>1, <1>4, <1>5, <1>7
<1>9. P(root) = 0
  BY <1>1, <1>4
<1>10. QED
  BY <1>1, <1>6, <1>7, <1>8, <1>9 DEF P, A

-----------------------------------------------------------------------------
(* A round brings a rank the operands of another, none of which it has met. *)
Heard(r) == {p \in D!Ranks : <<p, r>> \in D!Transfers}
Meets(r) ==
  \/ Heard(r) = {} /\ D!Met(r)' = D!Met(r)
  \/ \E p \in D!Ranks : /\ Heard(r) = {p} /\ D!Met(p) \cap D!Met(r) = {}
                        /\ D!Met(r)' = D!Met(r) \cup D!Met(p)

LEMMA RingReduceMeets ==
  ASSUME root \in D!Ranks, round \in 1 .. (N - 1), round' = round + 1,
         UNCHANGED <<shape, root>>, shape = "RingReduce", NEW r \in D!Ranks
  PROVE  Meets(r)
<1> DEFINE P(x) == D!Position(x, root)
<1>1. PICK k \in 1 .. (N - 1) : k = round
  OBVIOUS
<1>2. /\ \A x \in D!Ranks : P(x) \in 0 .. (N - 1)
      /\ \A x, q \in D!Ranks : P(x) = P(q) => x = q
      /\ \A x \in 0 .. (N - 1) : D!RankAt(x) \in D!Ranks /\ P(D!RankAt(x)) = x
  BY Positions
<1>3. N \in Nat /\ N >= 2
  BY RanksFacts
<1>4. \A x : D!Met(x) = IF P(x) >= N - k THEN {q \in D!Ranks : P(q) >= P(x)} ELSE {x}
  BY <1>1 DEF D!Met
<1>5. \A x : D!Met(x)' = IF P(x) >= N - (k + 1) THEN {q \in D!Ranks : P(q) >= P(x)} ELSE {x}
  BY <1>1 DEF D!Met, D!Position
<1> DEFINE f == D!RankAt(N - k)
           t == D!RankAt(N - k - 1)
<1>6. D!Transfers = {<<f, t>>}
  BY <1>1 DEF D!Transfers, D!RingReduceRound
<1>7. N - k \in 0 .. (N - 1) /\ N - k - 1 \in 0 .. (N - 1)
  BY <1>3
<1>8. f \in D!Ranks /\ t \in D!Ranks /\ P(f) = N - k /\ P(t) = N - k - 1
  BY <1>2, <1>7
<1> HIDE DEF f, t, P
<1>9. P(r) \in 0 .. (N - 1)
  BY <1>2
<1>10. CASE r = t
  <2>1. Heard(r) = {f}
    BY <1>6, <1>8, <1>10 DEF Heard
  <2>2. D!Met(r) = {r} /\ D!Met(f) = {q \in D!Ranks : P(q) >= N - k}
    BY <1>3, <1>4, <1>8, <1>10
  <2>3. D!Met(r)' = {q \in D!Ranks : P(q) >= N - k - 1}
    BY <1>3, <1>5, <1>8, <1>10
  <2>4. ~ (r \in D!Met(f))
    BY <1>3, <1>8, <1>10, <2>2
  <2>5. \A q \in D!Ranks : P(q) >= N - k - 1 <=> (q = r \/ P(q) >= N - k)
    BY <1>2, <1>3, <1>8, <1>10
  <2>6. D!Met(r)' = D!Met(r) \cup D!Met(f)
    BY <2>2, <2>3, <2>5
  <2>7. QED
    BY <1>8, <2>1, <2>2, <2>4, <2>6 DEF Meets
<1>11. CASE r # t
  <2>1. Heard(r) = {}
    BY <1>6, <1>11 DEF Heard
  <2>2. P(r) # N - k - 1
    BY <1>2, <1>8, <1>11
  <2>3. P(r) >= N - (k + 1) <=> P(r) >= N - k
    BY <1>3, <1>9, <2>2
  <2>4. D!Met(r)' = D!Met(r)
    BY <1>4, <1>5, <2>3
  <2>5. QED
    BY <2>1, <2>4 DEF Meets
<1>12. QED
  BY <1>10, <1>11

LEMMA RingAllReduceMeets ==
  ASSUME root \in D!Ranks, round \in 1 .. (N - 1), round' = round + 1,
         UNCHANGED <<shape, root>>, shape = "RingAllReduce", NEW r \in D!Ranks
  PROVE  Meets(r)
<1> DEFINE P(x) == D!Position(x, root)
<1>1. PICK k \in 1 .. (N - 1) : k = round
  OBVIOUS
<1>2. N \in Nat /\ N >= 2 /\ D!Ranks = 0 .. (N - 1)
  BY RanksFacts
<1>3. CASE N = 2
  <2>1. k = 1 /\ D!Ranks = {0, 1}
    BY <1>2, <1>3
  <2>2. D!Transfers = {<<0, 1>>, <<1, 0>>}
    BY <1>3 DEF D!Transfers, D!RingAllReduceRound
  <2>3. \A x : D!Met(x) = {x}
    BY <1>1, <1>3, <2>1 DEF D!Met
  <2>4. \A x : D!Met(x)' = D!Ranks
    BY <1>1, <1>3, <2>1 DEF D!Met, D!Ranks
  <2>5. CASE r = 0
    <3>1. Heard(r) = {1}
      BY <2>1, <2>2, <2>5 DEF Heard
    <3>2. QED
      BY <2>1, <2>3, <2>4, <2>5, <3>1 DEF Meets
  <2>6. CASE r = 1
    <3>1. Heard(r) = {0}
      BY <2>1, <2>2, <2>6 DEF Heard
    <3>2. QED
      BY <2>1, <2>3, <2>4, <2>6, <3>1 DEF Meets
  <2>7. QED
    BY <2>1, <2>5, <2>6
<1>4. CASE N # 2
  <2>1. /\ \A x \in D!Ranks : P(x) \in 0 .. (N - 1)
        /\ \A x, q \in D!Ranks : P(x) = P(q) => x = q
        /\ \A x \in 0 .. (N - 1) : D!RankAt(x) \in D!Ranks /\ P(D!RankAt(x)) = x
    BY Positions
  <2>2. \A x : D!Met(x) = IF P(x) < k THEN {q \in D!Ranks : P(q) <= P(x)} ELSE {x}
    BY <1>1, <1>4 DEF D!Met
  <2>3. \A x : D!Met(x)' = IF P(x) < k + 1 THEN {q \in D!Ranks : P(q) <= P(x)} ELSE {x}
    BY <1>1, <1>4 DEF D!Met, D!Position
  <2> DEFINE f == D!RankAt(k - 1)
             t == D!RankAt(k)
  <2>4. D!Transfers = {<<f, t>>}
    BY <1>1, <1>4 DEF D!Transfers, D!RingAllReduceRound
  <2>5. k - 1 \in 0 .. (N - 1) /\ k \in 0 .. (N - 1)
    BY <1>2
  <2>6. f \in D!Ranks /\ t \in D!Ranks /\ P(f) = k - 1 /\ P(t) = k
    BY <2>1, <2>5
  <2> HIDE DEF f, t, P
  <2>7. P(r) \in 0 .. (N - 1)
    BY <2>1
  <2>8. CASE r = t
    <3>1. Heard(r) = {f}
      BY <2>4, <2>6, <2>8 DEF Heard
    <3>2. D!Met(r) = {r} /\ D!Met(f) = {q \in D!Ranks : P(q) <= k - 1}
      BY <1>2, <2>2, <2>6, <2>8
    <3>3. D!Met(r)' = {q \in D!Ranks : P(q) <= k}
      BY <1>2, <2>3, <2>6, <2>8
    <3>4. ~ (r \in D!Met(f))
      BY <1>2, <2>6, <2>8, <3>2
    <3>5. ASSUME NEW q \in D!Ranks PROVE P(q) <= k <=> (q = r \/ P(q) <= k - 1)
      <4>1. P(q) \in 0 .. (N - 1) /\ P(r) = k /\ (P(q) = P(r) => q = r)
        BY <2>1, <2>6, <2>8
      <4>2. QED
        BY <4>1
    <3>6. D!Met(r)' = D!Met(r) \cup D!Met(f)
      BY <3>2, <3>3, <3>5
    <3>7. QED
      BY <2>6, <3>1, <3>2, <3>4, <3>6 DEF Meets
  <2>9. CASE r # t
    <3>1. Heard(r) = {}
      BY <2>4, <2>9 DEF Heard
    <3>2. P(r) # k
      BY <2>1, <2>6, <2>9
    <3>3. P(r) < k + 1 <=> P(r) < k
      BY <1>2, <2>7, <3>2
    <3>4. D!Met(r)' = D!Met(r)
      BY <2>2, <2>3, <3>3
    <3>5. QED
      BY <3>1, <3>4 DEF Meets
  <2>10. QED
    BY <2>8, <2>9
<1>5. QED
  BY <1>3, <1>4

LEMMA MeshReduceMeets ==
  ASSUME root \in D!Ranks, round \in 1 .. (N - 1), round' = round + 1,
         UNCHANGED <<shape, root>>, shape = "MeshReduce", NEW r \in D!Ranks
  PROVE  Meets(r)
<1> DEFINE p(i) == D!Peers(root)[i]
<1>1. PICK k \in 1 .. (N - 1) : k = round
  OBVIOUS
<1>2. N \in Nat /\ N >= 2 /\ D!Ranks = 0 .. (N - 1) /\ root \in 0 .. (N - 1)
  BY RanksFacts
<1>3. \A i \in 1 .. (N - 1) : p(i) = IF i <= root THEN i - 1 ELSE i
  BY DEF D!Peers
<1>4. D!Transfers = {<<p(k), root>>}
  BY <1>1 DEF D!Transfers, D!MeshReduceRound
<1>5. \A x : D!Met(x) = IF x = root THEN {root} \cup {p(i) : i \in 1 .. (k - 1)} ELSE {x}
  BY <1>1 DEF D!Met
<1>6. \A x : D!Met(x)' = IF x = root THEN {root} \cup {p(i) : i \in 1 .. (k + 1 - 1)} ELSE {x}
  <2>1. shape' = "MeshReduce" /\ root' = root /\ round' = k + 1
    BY <1>1
  <2>2. D!Peers(root)' = D!Peers(root)
    BY <2>1 DEF D!Peers
  <2>3. \A x : D!Met(x)' = IF x = root' THEN {root'} \cup {D!Peers(root)'[i] : i \in 1 .. (round' - 1)} ELSE {x}
    BY <2>1 DEF D!Met
  <2>4. QED
    BY <2>1, <2>2, <2>3
<1> HIDE DEF p
<1>7. p(k) \in D!Ranks /\ p(k) # root
  BY <1>2, <1>3
<1>8. \A i \in 1 .. (k - 1) : p(i) # p(k)
  BY <1>2, <1>3
<1>9. CASE r = root
  <2>1. Heard(r) = {p(k)}
    BY <1>4, <1>7, <1>9 DEF Heard
  <2>2. D!Met(p(k)) = {p(k)} /\ D!Met(r) = {root} \cup {p(i) : i \in 1 .. (k - 1)}
    BY <1>5, <1>7, <1>9
  <2>3. D!Met(p(k)) \cap D!Met(r) = {}
    BY <1>7, <1>8, <2>2
  <2>4. 1 .. (k + 1 - 1) = 1 .. (k - 1) \cup {k}
    OBVIOUS
  <2>5. D!Met(r)' = D!Met(r) \cup D!Met(p(k))
    BY <1>6, <1>9, <2>2, <2>4
  <2>6. QED
    BY <1>7, <2>1, <2>3, <2>5 DEF Meets
<1>10. CASE r # root
  <2>1. Heard(r) = {}
    BY <1>4, <1>10 DEF Heard
  <2>2. D!Met(r)' = {r}
    BY <1>6, <1>10
  <2>3. D!Met(r) = {r}
    BY <1>5, <1>10
  <2>4. QED
    BY <2>1, <2>2, <2>3 DEF Meets
<1>11. QED
  BY <1>9, <1>10

(* Two blocks of m ranks make one of 2 * m.                                 *)
Beside(d) == IF d % 2 = 0 THEN d + 1 ELSE d - 1
JoinsBlocks(q, r, x, m) ==
  q \div (2 * m) = r \div (2 * m) <=> (q \div m = r \div m \/ q \div m = x \div m)
LEMMA Blocks ==
  ASSUME NEW r \in Nat, NEW q \in Nat, NEW m \in Nat \ {0}
  PROVE  /\ D!XorMask(r, m) \in Nat
         /\ D!XorMask(D!XorMask(r, m), m) = r
         /\ D!XorMask(r, m) \div m = Beside(r \div m) /\ D!XorMask(r, m) \div m # r \div m
         /\ JoinsBlocks(q, r, D!XorMask(r, m), m)
<1> DEFINE d == r \div m
           e == q \div m
           x == D!XorMask(r, m)
<1>1. d \in Nat /\ e \in Nat
  OBVIOUS
<1>2. (r + m) \div m = d + 1
  OBVIOUS
<1>3. r >= m => (r - m) \div m = d - 1
  OBVIOUS
<1>4. r < m => d = 0
  OBVIOUS
<1>5. q \div (2 * m) = e \div 2
  OBVIOUS
<1>6. r \div (2 * m) = d \div 2
  OBVIOUS
<1>7. x = IF d % 2 = 0 THEN r + m ELSE r - m
  BY DEF D!XorMask
<1>8. D!XorMask(r + m, m) = IF (d + 1) % 2 = 0 THEN r + m + m ELSE r + m - m
  BY <1>2 DEF D!XorMask
<1>9. r >= m => D!XorMask(r - m, m) = IF (d - 1) % 2 = 0 THEN r - m + m ELSE r - m - m
  BY <1>3 DEF D!XorMask
<1> HIDE DEF d, e, x
<1>10. CASE d % 2 = 0
  <2>1. x = r + m /\ x \in Nat /\ x \div m = d + 1
    BY <1>2, <1>7, <1>10
  <2>2. (d + 1) % 2 # 0
    BY <1>1, <1>10
  <2>3. D!XorMask(x, m) = r
    BY <1>8, <2>1, <2>2
  <2>4. e \div 2 = d \div 2 <=> (e = d \/ e = d + 1)
    BY <1>1, <1>10
  <2>5. x \div m = Beside(d) /\ x \div m # d
    BY <1>1, <1>10, <2>1 DEF Beside
  <2>6. JoinsBlocks(q, r, x, m)
    BY <1>5, <1>6, <2>1, <2>4 DEF d, e, JoinsBlocks
  <2>7. QED
    BY <2>1, <2>3, <2>5, <2>6 DEF d, x
<1>11. CASE d % 2 # 0
  <2>1. r >= m /\ (d - 1) % 2 = 0
    BY <1>1, <1>4, <1>11
  <2>2. x = r - m /\ x \in Nat /\ x \div m = d - 1
    BY <1>3, <1>7, <1>11, <2>1
  <2>3. D!XorMask(x, m) = r
    BY <1>9, <2>1, <2>2
  <2>4. e \div 2 = d \div 2 <=> (e = d \/ e = d - 1)
    BY <1>1, <1>11
  <2>5. x \div m = Beside(d) /\ x \div m # d
    BY <1>1, <1>11, <2>2 DEF Beside
  <2>6. JoinsBlocks(q, r, x, m)
    BY <1>5, <1>6, <2>2, <2>4 DEF d, e, JoinsBlocks
  <2>7. QED
    BY <2>2, <2>3, <2>5, <2>6 DEF d, x
<1>12. QED
  BY <1>10, <1>11

(* Among 2 * m * c ranks every rank has its partner.                        *)
LEMMA PartnerThere ==
  ASSUME NEW m \in Nat \ {0}, NEW c \in Nat \ {0}, NEW n \in Nat, n = (2 * m) * c,
         NEW r \in 0 .. (n - 1)
  PROVE  D!XorMask(r, m) < n
<1> DEFINE d == r \div m
           f == r % m
<1>1. r \in Int /\ d \in Int /\ f \in 0 .. (m - 1) /\ r = m * d + f
  OBVIOUS
<1>2. D!XorMask(r, m) = IF d % 2 = 0 THEN r + m ELSE r - m
  BY DEF D!XorMask
<1> HIDE DEF d, f
<1>3. CASE d % 2 # 0
  BY <1>2, <1>3
<1>4. CASE d % 2 = 0
  <2>1. n = m * (2 * c)
    OBVIOUS
  <2> DEFINE g == 2 * c
  <2>2. g \in Nat /\ n = m * g /\ g % 2 = 0
    BY <2>1
  <2> HIDE DEF g
  <2>3. d < g
    <3>1. SUFFICES ASSUME d >= g PROVE FALSE
      BY <1>1, <2>2
    <3>2. PICK h \in Nat : d = g + h
      <4>1. d - g \in Nat /\ d = g + (d - g)
        BY <1>1, <2>2, <3>1
      <4>2. QED
        BY <4>1
    <3>3. m * d = m * g + m * h /\ m * h >= 0 /\ m * g \in Int /\ m * h \in Int
      BY <2>2, <3>2
    <3>4. QED
      BY <1>1, <2>2, <3>3
  <2>4. PICK h \in Nat : g = d + 2 + h
    <3>1. g - d - 2 \in Nat /\ g = d + 2 + (g - d - 2)
      BY <1>1, <1>4, <2>2, <2>3
    <3>2. QED
      BY <3>1
  <2>5. m * g = m * d + 2 * m + m * h /\ m * h >= 0 /\ m * d \in Int /\ m * h \in Int
    BY <1>1, <2>2, <2>4
  <2>6. r + m < n
    BY <1>1, <2>2, <2>5
  <2>7. QED
    BY <1>2, <1>4, <2>6
<1>5. QED
  BY <1>3, <1>4

Doubled(m) ==
  /\ m \in Nat \ {0}
  /\ \A x \in D!Ranks : /\ D!Met(x) = {q \in D!Ranks : q \div m = x \div m}
                        /\ D!Met(x)' = {q \in D!Ranks : q \div (2 * m) = x \div (2 * m)}
                        /\ D!XorMask(x, m) \in D!Ranks /\ Heard(x) = {D!XorMask(x, m)}
AllMet == \A x \in D!Ranks : Heard(x) = {} /\ D!Met(x) = D!Ranks /\ D!Met(x)' = D!Ranks

LEMMA DoublingRound ==
  ASSUME D!DoublingFits, shape \in Shapes,
         round \in 1 .. (N - 1), round' = round + 1,
         UNCHANGED <<shape, root>>, shape = "MeshDoubling"
  PROVE  AllMet \/ \E m : Doubled(m)
<1>1. PICK k \in 1 .. (N - 1) : k = round
  OBVIOUS
<1>2. N \in Nat /\ N >= 2 /\ D!Ranks = 0 .. (N - 1)
  BY RanksFacts
<1>3. PICK m \in Nat \ {0} : m = D!Mask[k - 1]
  <2>1. k - 1 \in 0 .. N
    BY <1>2
  <2>2. D!Mask[k - 1] \in Nat /\ D!Mask[k - 1] > k - 1
    BY <2>1, MaskFacts
  <2>3. QED
    BY <2>2
<1>4. D!Mask[k] = 2 * m
  <2>1. k \in 1 .. N
    BY <1>2
  <2>2. QED
    BY <1>3, <2>1, MaskFacts
<1> DEFINE X(q) == D!XorMask(q, m)
<1>5. \A x : D!Met(x) = {q \in D!Ranks : q \div m = x \div m}
  BY <1>1, <1>3 DEF D!Met
<1>6. \A x : D!Met(x)' = {q \in D!Ranks : q \div (2 * m) = x \div (2 * m)}
  <2>1. shape' = "MeshDoubling" /\ round' = k + 1 /\ k + 1 - 1 = k
    BY <1>1
  <2>2. \A x : D!Met(x)' = {q \in D!Ranks : q \div D!Mask[k] = x \div D!Mask[k]}
    BY <2>1 DEF D!Met
  <2>3. QED
    BY <1>4, <2>2
<1>7. D!Transfers = IF m >= N THEN {} ELSE {<<X(q), q>> : q \in {y \in D!Ranks : X(y) < N}}
  BY <1>1, <1>3 DEF D!Transfers, D!MeshDoublingRound
<1> HIDE DEF X
<1>8. CASE m >= N
  <2>1. ASSUME NEW q \in D!Ranks PROVE q \div m = 0 /\ q \div (2 * m) = 0
    <3>1. q \in 0 .. (2 * m - 1) /\ q < m /\ 2 * m \in Nat \ {0} /\ q \in 0 .. (2 * (2 * m) - 1) /\ q < 2 * m
      BY <1>2, <1>8
    <3>2. QED
      BY <3>1, ModOnce
  <2>2. ASSUME NEW r \in D!Ranks PROVE D!Met(r) = D!Ranks /\ D!Met(r)' = D!Ranks
    BY <1>5, <1>6, <2>1
  <2>3. \A r \in D!Ranks : Heard(r) = {}
    BY <1>7, <1>8 DEF Heard
  <2>4. QED
    BY <2>2, <2>3 DEF AllMet
<1>9. CASE m < N
  <2>1. PICK j \in 0 .. N : N = D!Mask[j]
    BY DEF D!DoublingFits
  <2>2. j >= k
    <3>1. SUFFICES ASSUME j <= k - 1 PROVE FALSE
      BY <1>2
    <3>2. j \in 0 .. N /\ k - 1 \in j .. N
      BY <1>2, <3>1
    <3>3. PICK c \in Nat \ {0} : D!Mask[k - 1] = D!Mask[j] * c
      BY <3>2, MaskDivides
    <3>4. m = N * c
      BY <1>3, <2>1, <3>3
    <3>5. N * c >= N
      BY <1>2
    <3>6. QED
      BY <1>2, <1>9, <3>4, <3>5
  <2>3. PICK c \in Nat \ {0} : N = (2 * m) * c
    <3>1. k \in 0 .. N /\ j \in k .. N
      BY <1>2, <2>2
    <3>2. PICK c \in Nat \ {0} : D!Mask[j] = D!Mask[k] * c
      BY <3>1, MaskDivides
    <3>3. QED
      BY <1>4, <2>1, <3>2
  <2>4. \A q \in D!Ranks : X(q) < N
    BY <1>2, <2>3, PartnerThere DEF X
  <2>5. \A q \in D!Ranks : X(q) \in Nat
    BY <1>2, Blocks DEF X
  <2>6. \A q \in D!Ranks : X(q) \in D!Ranks
    BY <1>2, <2>4, <2>5
  <2>7. ASSUME NEW r \in D!Ranks PROVE Heard(r) = {X(r)}
    <3>1. D!Transfers = {<<X(q), q>> : q \in D!Ranks}
      BY <1>2, <1>7, <1>9, <2>4
    <3>2. QED
      BY <2>6, <3>1 DEF Heard
  <2>8. Doubled(m)
    BY <1>5, <1>6, <2>6, <2>7 DEF Doubled, X
  <2>9. QED
    BY <2>8
<1>10. QED
  BY <1>2, <1>8, <1>9

LEMMA DoubledBlocks ==
  ASSUME NEW m, Doubled(m), NEW r \in D!Ranks, NEW q \in D!Ranks
  PROVE  /\ D!XorMask(r, m) \in D!Ranks
         /\ D!XorMask(D!XorMask(r, m), m) = r
         /\ D!XorMask(r, m) \div m = Beside(r \div m) /\ D!XorMask(r, m) \div m # r \div m
         /\ JoinsBlocks(q, r, D!XorMask(r, m), m)
<1>1. m \in Nat \ {0} /\ r \in Nat /\ q \in Nat
  BY RanksFacts DEF Doubled
<1>2. QED
  BY <1>1, Blocks DEF Doubled

LEMMA MeshDoublingMeets ==
  ASSUME D!DoublingFits, shape \in Shapes,
         round \in 1 .. (N - 1), round' = round + 1,
         UNCHANGED <<shape, root>>, shape = "MeshDoubling", NEW r \in D!Ranks
  PROVE  Meets(r)
<1>1. CASE AllMet
  BY <1>1 DEF AllMet, Meets
<1>2. CASE \E m : Doubled(m)
  <2>1. PICK m : Doubled(m)
    BY <1>2
  <2>2. PICK x \in D!Ranks : x = D!XorMask(r, m)
    BY <2>1 DEF Doubled
  <2>3. /\ Heard(r) = {x} /\ D!Met(r) = {q \in D!Ranks : q \div m = r \div m}
        /\ D!Met(x) = {q \in D!Ranks : q \div m = x \div m}
        /\ D!Met(r)' = {q \in D!Ranks : q \div (2 * m) = r \div (2 * m)}
    BY <2>1, <2>2 DEF Doubled
  <2>4. x \div m # r \div m /\ \A q \in D!Ranks : JoinsBlocks(q, r, x, m)
    BY <2>1, <2>2, DoubledBlocks
  <2>5. D!Met(x) \cap D!Met(r) = {}
    BY <2>3, <2>4
  <2>6. D!Met(r)' = D!Met(r) \cup D!Met(x)
    BY <2>3, <2>4 DEF JoinsBlocks
  <2>7. QED
    BY <2>3, <2>5, <2>6 DEF Meets
<1>3. QED
  BY <1>1, <1>2, DoublingRound

LEMMA RoundMeets ==
  ASSUME D!DoublingFits, shape \in Shapes, root \in D!Ranks,
         round \in 1 .. (N - 1), round' = round + 1,
         UNCHANGED <<shape, root>>, NEW r \in D!Ranks
  PROVE  Meets(r)
<1>1. shape \in {"RingReduce", "RingAllReduce", "MeshReduce", "MeshDoubling"}
  BY ReductionAssumption DEF D!OperandsFit, D!AllShapes
<1>2. QED
  BY <1>1, RingReduceMeets, RingAllReduceMeets, MeshReduceMeets, MeshDoublingMeets

(* Where all ranks compute the result, two ranks that come to have met the  *)
(* same operands reduce the same two values, in either order.               *)
TwoSidedRound == shape = "MeshDoubling" \/ (shape = "RingAllReduce" /\ N = 2)
SameMeeting(q, r) ==
  \/ Heard(q) = {} /\ Heard(r) = {} /\ D!Met(q) = D!Met(r)
  \/ \E p, s \in D!Ranks : /\ Heard(q) = {p} /\ Heard(r) = {s}
                           /\ \/ D!Met(q) = D!Met(r) /\ D!Met(p) = D!Met(s)
                              \/ D!Met(q) = D!Met(s) /\ D!Met(p) = D!Met(r)

LEMMA RoundAlike ==
  ASSUME D!DoublingFits, shape \in Shapes, TwoSidedRound,
         round \in 1 .. (N - 1), round' = round + 1,
         UNCHANGED <<shape, root>>,
         NEW q \in D!Ranks, NEW r \in D!Ranks, D!Met(q)' = D!Met(r)'
  PROVE  SameMeeting(q, r)
<1>1. CASE shape = "MeshDoubling"
  <2>1. CASE AllMet
    BY <2>1 DEF AllMet, SameMeeting
  <2>2. CASE \E m : Doubled(m)
    <3>1. PICK m : Doubled(m)
      BY <2>2
    <3> DEFINE X(y) == D!XorMask(y, m)
    <3>2. /\ X(q) \in D!Ranks /\ X(r) \in D!Ranks /\ X(X(r)) = r
          /\ X(q) \div m = Beside(q \div m) /\ X(r) \div m = Beside(r \div m)
          /\ JoinsBlocks(q, r, X(r), m)
      BY <3>1, DoubledBlocks
    <3>3. X(X(r)) \div m = Beside(X(r) \div m)
      BY <3>1, <3>2, DoubledBlocks
    <3>4. Heard(q) = {X(q)} /\ Heard(r) = {X(r)}
      BY <3>1 DEF Doubled
    <3>5. /\ q \div (2 * m) = r \div (2 * m)
          /\ \A x \in D!Ranks : D!Met(x) = {y \in D!Ranks : y \div m = x \div m}
      BY <3>1 DEF Doubled
    <3> HIDE DEF X
    <3>6. \A x, y \in D!Ranks : x \div m = y \div m => D!Met(x) = D!Met(y)
      BY <3>5
    <3>7. CASE q \div m = r \div m
      BY <3>2, <3>4, <3>6, <3>7 DEF SameMeeting
    <3>8. CASE q \div m = X(r) \div m
      BY <3>2, <3>3, <3>4, <3>6, <3>8 DEF SameMeeting
    <3>9. QED
      BY <3>2, <3>5, <3>7, <3>8 DEF JoinsBlocks
  <2>3. QED
    BY <1>1, <2>1, <2>2, DoublingRound
<1>2. CASE shape = "RingAllReduce" /\ N = 2
  <2>1. round = 1 /\ D!Ranks = {0, 1}
    BY <1>2, RanksFacts
  <2>2. D!Transfers = {<<0, 1>>, <<1, 0>>}
    BY <1>2 DEF D!Transfers, D!RingAllReduceRound
  <2>3. Heard(0) = {1} /\ Heard(1) = {0}
    BY <2>1, <2>2 DEF Heard
  <2>4. QED
    BY <2>1, <2>3 DEF SameMeeting
<1>3. QED
  BY <1>1, <1>2 DEF TwoSidedRound

-----------------------------------------------------------------------------
(* The invariant.                                                           *)
LEMMA PerformReduceFacts ==
  ASSUME op \in {"SUM", "MAX", "MIN", "AVG"}, NEW v \in Int, NEW w \in Int
  PROVE  /\ D!PerformReduce(op, v, w) \in Int
         /\ D!PerformReduce(op, v, w) = D!PerformReduce(op, w, v)
<1>1. D!Wrap(v + w) \in Int /\ D!Wrap(v + w) = D!Wrap(w + v)
  <2>1. v + w \in Int /\ v + w = w + v
    OBVIOUS
  <2>2. QED
    BY <2>1, WrapFacts, IntModFacts
<1>2. N \in Nat \ {0}
  BY RanksFacts
<1>3. CASE op = "SUM"
  BY <1>1, <1>3 DEF D!PerformReduce, D!ReduceData
<1>4. CASE op = "MAX"
  BY <1>4 DEF D!PerformReduce, D!ReduceData, D!Larger
<1>5. CASE op = "MIN"
  BY <1>5 DEF D!PerformReduce, D!ReduceData, D!Smaller
<1>6. CASE op = "AVG"
  <2>1. /\ D!PerformReduce(op, v, w) = D!TruncDiv(D!Wrap(v + w), N)
        /\ D!PerformReduce(op, w, v) = D!TruncDiv(D!Wrap(w + v), N)
    BY <1>6 DEF D!PerformReduce, D!ReduceData
  <2>2. \A x \in Int : D!TruncDiv(x, N) \in Int
    BY <1>2 DEF D!TruncDiv
  <2>3. QED
    BY <1>1, <2>1, <2>2
<1>7. QED
  BY <1>3, <1>4, <1>5, <1>6

LEMMA TypeFacts ==
  ASSUME D!TypeOK
  PROVE  /\ op \in {"SUM", "MAX", "MIN", "AVG"}
         /\ shape \in {"RingReduce", "RingAllReduce", "MeshReduce", "MeshDoubling"}
         /\ \A r \in D!Ranks : val[r] \in Int
BY ReductionAssumption DEF D!TypeOK, D!OperandsFit, D!AllShapes

LEMMA FirstMet ==
  ASSUME shape \in Shapes, root \in D!Ranks, round = 1, NEW r \in D!Ranks
  PROVE  D!Met(r) = {r}
<1>1. shape \in {"RingReduce", "RingAllReduce", "MeshReduce", "MeshDoubling"}
  BY ReductionAssumption DEF D!OperandsFit, D!AllShapes
<1> DEFINE P(x) == D!Position(x, root)
<1>2. N \in Nat /\ N >= 2 /\ D!Ranks = 0 .. (N - 1)
  BY RanksFacts
<1>3. /\ \A x \in D!Ranks : P(x) \in 0 .. (N - 1)
      /\ \A x, q \in D!Ranks : P(x) = P(q) => x = q
  BY Positions
<1>4. CASE shape = "RingReduce"
  <2>1. D!Met(r) = IF P(r) >= N - 1 THEN {q \in D!Ranks : P(q) >= P(r)} ELSE {r}
    BY <1>4 DEF D!Met
  <2> HIDE DEF P
  <2>2. ASSUME P(r) >= N - 1, NEW q \in D!Ranks PROVE P(q) >= P(r) <=> q = r
    <3>1. P(q) \in 0 .. (N - 1) /\ P(r) \in 0 .. (N - 1) /\ (P(q) = P(r) => q = r)
      BY <1>3
    <3>2. QED
      BY <1>2, <2>2, <3>1
  <2>3. QED
    BY <2>1, <2>2
<1>5. CASE shape = "RingAllReduce"
  <2>1. D!Met(r) = IF N = 2 THEN {r}
                   ELSE IF P(r) < 1 THEN {q \in D!Ranks : P(q) <= P(r)} ELSE {r}
    BY <1>5 DEF D!Met
  <2> HIDE DEF P
  <2>2. ASSUME P(r) < 1, NEW q \in D!Ranks PROVE P(q) <= P(r) <=> q = r
    <3>1. P(q) \in 0 .. (N - 1) /\ P(r) \in 0 .. (N - 1) /\ (P(q) = P(r) => q = r)
      BY <1>3
    <3>2. QED
      BY <1>2, <2>2, <3>1
  <2>3. QED
    BY <2>1, <2>2
<1>6. CASE shape = "MeshReduce"
  <2>1. 1 .. (1 - 1) = {}
    OBVIOUS
  <2>2. QED
    BY <1>6, <2>1 DEF D!Met
<1>7. CASE shape = "MeshDoubling"
  <2>1. D!Mask[0] = 1
    BY MaskFacts
  <2>2. D!Met(r) = {q \in D!Ranks : q \div 1 = r \div 1}
    BY <1>7, <2>1 DEF D!Met
  <2>3. \A q \in D!Ranks : q \div 1 = q
    BY <1>2
  <2>4. QED
    BY <2>2, <2>3
<1>8. QED
  BY <1>1, <1>4, <1>5, <1>6, <1>7

LEMMA InitInvariant == D!Init => D!IInv
<1> SUFFICES ASSUME D!Init PROVE D!IInv
  OBVIOUS
<1>1. /\ shape \in Shapes /\ root \in D!Ranks /\ op \in ReduceOps
      /\ input \in [D!Ranks -> Operands] /\ val = input /\ round = 1
  BY DEF D!Init
<1>2. D!TypeOK
  <2>1. val \in [D!Ranks -> Int]
    BY <1>1, IntModFacts
  <2>2. round \in 1 .. N
    BY <1>1, RanksFacts
  <2>3. QED
    BY <1>1, <2>1, <2>2 DEF D!TypeOK
<1>3. \A r \in D!Ranks : D!Met(r) = {r}
  BY <1>1, FirstMet
<1>4. \A r \in D!Ranks : D!ReducedTo(input[r], {r})
  BY <1>1, <1>2, TypeFacts, ReducesOne
<1>5. D!Alike
  BY <1>3 DEF D!Alike
<1>6. QED
  BY <1>1, <1>2, <1>3, <1>4, <1>5 DEF D!IInv

LEMMA MetRanks ==
  ASSUME shape \in Shapes, root \in D!Ranks, round \in 1 .. N, NEW r \in D!Ranks
  PROVE  D!Met(r) \in SUBSET D!Ranks
<1>1. shape \in {"RingReduce", "RingAllReduce", "MeshReduce", "MeshDoubling"}
  BY ReductionAssumption DEF D!OperandsFit, D!AllShapes
<1>2. ASSUME shape = "MeshReduce", NEW i \in 1 .. (round - 1)
      PROVE  D!Peers(root)[i] \in D!Ranks
  BY <1>2, RanksFacts DEF D!Peers
<1>3. CASE shape = "RingReduce"
  BY <1>3 DEF D!Met
<1>4. CASE shape = "RingAllReduce"
  BY <1>4 DEF D!Met
<1>5. CASE shape = "MeshReduce"
  <2>1. D!Met(r) = IF r = root THEN {root} \cup {D!Peers(root)[i] : i \in 1 .. (round - 1)} ELSE {r}
    BY <1>5 DEF D!Met
  <2>2. QED
    BY <1>2, <1>5, <2>1
<1>6. CASE shape = "MeshDoubling"
  BY <1>6 DEF D!Met
<1>7. QED
  BY <1>1, <1>3, <1>4, <1>5, <1>6

(* What a round leaves at a rank.                                           *)
LEMMA RoundValues ==
  ASSUME D!Round, NEW r \in D!Ranks
  PROVE  /\ Heard(r) = {} => val'[r] = val[r]
         /\ \A p : Heard(r) = {p} => val'[r] = D!PerformReduce(op, val[r], val[p])
<1>1. val'[r] = LET from == Heard(r)
                IN  IF from = {} THEN val[r]
                    ELSE D!PerformReduce(op, val[r], val[CHOOSE p \in from : TRUE])
  BY DEF D!Round, Heard
<1>2. ASSUME NEW p, Heard(r) = {p} PROVE val'[r] = D!PerformReduce(op, val[r], val[p])
  <2>1. (CHOOSE x \in Heard(r) : TRUE) = p
    BY <1>2
  <2>2. QED
    BY <1>1, <1>2, <2>1
<1>3. QED
  BY <1>1, <1>2

LEMMA RoundInvariant ==
  ASSUME D!DoublingFits, D!IInv, D!Round
  PROVE  D!IInv'
<1>1. /\ shape \in Shapes /\ root \in D!Ranks /\ op \in ReduceOps
      /\ input \in [D!Ranks -> Operands] /\ val \in [D!Ranks -> Int]
  BY DEF D!IInv, D!TypeOK
<1>2. /\ shape' = shape /\ root' = root /\ op' = op /\ input' = input
      /\ round \in 1 .. (N - 1) /\ round' = round + 1 /\ round' \in 1 .. N
  BY RanksFacts DEF D!IInv, D!TypeOK, D!Round, D!Finished
<1>3. /\ op \in {"SUM", "MAX", "MIN", "AVG"} /\ \A r \in D!Ranks : val[r] \in Int
  BY TypeFacts DEF D!IInv
<1>4. \A r \in D!Ranks : Meets(r)
  BY <1>1, <1>2, RoundMeets
<1>5. \A r \in D!Ranks : D!ReducedTo(val[r], D!Met(r)) /\ D!Met(r) \in SUBSET D!Ranks
  <2>1. \A r \in D!Ranks : D!Met(r) \in SUBSET D!Ranks
    <3>1. round \in 1 .. N
      BY DEF D!IInv, D!TypeOK
    <3>2. QED
      BY <1>1, <3>1, MetRanks
  <2>2. QED
    BY <2>1 DEF D!IInv
<1>6. \A C : D!SumOf(C)' = D!SumOf(C)
  BY <1>2 DEF D!SumOf, D!FoldFunctionOnSet, D!MapThenFoldSet
<1>7. ASSUME NEW r \in D!Ranks
      PROVE  val'[r] \in Int /\ D!ReducedTo(val'[r], D!Met(r)')
  <2>1. CASE Heard(r) = {}
    BY <1>3, <1>4, <1>5, <2>1, RoundValues DEF Meets
  <2>2. CASE Heard(r) # {}
    <3>1. PICK p \in D!Ranks : /\ Heard(r) = {p} /\ D!Met(p) \cap D!Met(r) = {}
                               /\ D!Met(r)' = D!Met(r) \cup D!Met(p)
      BY <1>4, <2>2 DEF Meets
    <3>2. val'[r] = D!PerformReduce(op, val[r], val[p])
      BY <3>1, RoundValues
    <3>3. D!Met(r) \cap D!Met(p) = {}
      BY <3>1
    <3>4. D!ReducedTo(D!PerformReduce(op, val[r], val[p]), D!Met(r) \cup D!Met(p))
      BY <1>1, <1>3, <1>5, <3>3, ReducesJoin
    <3>5. D!PerformReduce(op, val[r], val[p]) \in Int
      BY <1>3, PerformReduceFacts
    <3>6. QED
      BY <3>1, <3>2, <3>4, <3>5
  <2>3. QED
    BY <2>1, <2>2
<1>8. D!TypeOK'
  <2>1. val' \in [D!Ranks -> Int]
    <3>1. \E f : val' = [r \in D!Ranks |-> f[r]]
      <4> DEFINE f == [r \in D!Ranks |->
                         LET from == {p \in D!Ranks : <<p, r>> \in D!Transfers}
                         IN  IF from = {} THEN val[r]
                             ELSE D!PerformReduce(op, val[r], val[CHOOSE p \in from : TRUE])]
      <4>1. val' = f
        BY DEF D!Round
      <4>2. f = [r \in D!Ranks |-> f[r]]
        OBVIOUS
      <4>3. QED
        BY <4>1, <4>2
    <3>2. QED
      BY <1>7, <3>1
  <2>2. D!Ranks' = D!Ranks
    BY DEF D!Ranks
  <2>3. QED
    BY <1>1, <1>2, <2>1, <2>2 DEF D!TypeOK
<1>9. ASSUME NEW r \in D!Ranks PROVE D!ReducedTo(val[r], D!Met(r))'
  <2>1. D!ReducedTo(val'[r], D!Met(r)')
    BY <1>7
  <2>2. QED
    BY <1>2, <1>6, <2>1 DEF D!ReducedTo
<1>10. D!Alike'
  <2>1. ASSUME TwoSidedRound, NEW q \in D!Ranks, NEW r \in D!Ranks, D!Met(q)' = D!Met(r)'
        PROVE  val'[q] = val'[r]
    <3>1. SameMeeting(q, r)
      BY <1>1, <1>2, <2>1, RoundAlike
    <3>2. \A x, y \in D!Ranks : D!Met(x) = D!Met(y) => val[x] = val[y]
      BY <2>1 DEF D!IInv, D!Alike, TwoSidedRound
    <3>3. CASE Heard(q) = {} /\ Heard(r) = {} /\ D!Met(q) = D!Met(r)
      BY <3>2, <3>3, RoundValues
    <3>4. ASSUME NEW p \in D!Ranks, NEW s \in D!Ranks, Heard(q) = {p}, Heard(r) = {s},
                 \/ D!Met(q) = D!Met(r) /\ D!Met(p) = D!Met(s)
                 \/ D!Met(q) = D!Met(s) /\ D!Met(p) = D!Met(r)
          PROVE  val'[q] = val'[r]
      <4>1. /\ val'[q] = D!PerformReduce(op, val[q], val[p])
            /\ val'[r] = D!PerformReduce(op, val[r], val[s])
        BY <3>4, RoundValues
      <4>2. (val[q] = val[r] /\ val[p] = val[s]) \/ (val[q] = val[s] /\ val[p] = val[r])
        <5>1. CASE D!Met(q) = D!Met(r) /\ D!Met(p) = D!Met(s)
          BY <3>2, <5>1
        <5>2. CASE D!Met(q) = D!Met(s) /\ D!Met(p) = D!Met(r)
          BY <3>2, <5>2
        <5>3. QED
          BY <3>4, <5>1, <5>2
      <4>3. D!PerformReduce(op, val[s], val[r]) = D!PerformReduce(op, val[r], val[s])
        BY <1>3, PerformReduceFacts
      <4>4. QED
        BY <4>1, <4>2, <4>3
    <3>5. QED
      BY <3>1, <3>3, <3>4 DEF SameMeeting
  <2>2. QED
    BY <1>2, <2>1 DEF D!Alike, TwoSidedRound, D!Ranks
<1>11. QED
  BY <1>8, <1>9, <1>10 DEF D!IInv, D!Ranks

LEMMA HoldersMet ==
  ASSUME D!IInv, D!Finished, NEW h \in D!Holders
  PROVE  h \in D!Ranks /\ D!Met(h) = D!Ranks
<1>1. round = N /\ shape \in Shapes /\ root \in D!Ranks
  BY DEF D!IInv, D!TypeOK, D!Finished
<1>2. shape \in {"RingReduce", "RingAllReduce", "MeshReduce", "MeshDoubling"}
  BY TypeFacts DEF D!IInv
<1>3. N \in Nat /\ N >= 2 /\ D!Ranks = 0 .. (N - 1)
  BY RanksFacts
<1> DEFINE P(x) == D!Position(x, root)
<1>4. /\ \A x \in D!Ranks : P(x) \in 0 .. (N - 1)
      /\ \A x \in 0 .. (N - 1) : D!RankAt(x) \in D!Ranks /\ P(D!RankAt(x)) = x
      /\ P(root) = 0
  BY <1>1, Positions
<1>5. CASE shape = "RingReduce"
  <2>1. h = root
    BY <1>5 DEF D!Holders
  <2>2. \A x : D!Met(x) = IF P(x) >= N - N THEN {q \in D!Ranks : P(q) >= P(x)} ELSE {x}
    BY <1>1, <1>5 DEF D!Met
  <2> HIDE DEF P
  <2>3. D!Met(h) = {q \in D!Ranks : P(q) >= 0}
    BY <1>3, <1>4, <2>1, <2>2
  <2>4. QED
    BY <1>1, <1>4, <2>1, <2>3
<1>6. CASE shape = "RingAllReduce"
  <2>1. CASE N = 2
    BY <1>1, <1>6, <2>1 DEF D!Holders, D!Met
  <2>2. CASE N # 2
    <3>1. h = D!RankAt(N - 1)
      BY <1>6, <2>2 DEF D!Holders
    <3>2. \A x : D!Met(x) = IF P(x) < N THEN {q \in D!Ranks : P(q) <= P(x)} ELSE {x}
      BY <1>1, <1>6, <2>2 DEF D!Met
    <3> HIDE DEF P
    <3>3. N - 1 \in 0 .. (N - 1)
      BY <1>3
    <3>4. h \in D!Ranks /\ P(h) = N - 1
      BY <1>4, <3>1, <3>3
    <3>5. D!Met(h) = {q \in D!Ranks : P(q) <= N - 1}
      BY <1>3, <3>2, <3>4
    <3>6. QED
      BY <1>3, <1>4, <3>4, <3>5
  <2>3. QED
    BY <2>1, <2>2
<1>7. CASE shape = "MeshReduce"
  <2>1. h = root
    BY <1>7 DEF D!Holders
  <2>2. D!Met(h) = {root} \cup {D!Peers(root)[i] : i \in 1 .. (N - 1)}
    BY <1>1, <1>7, <2>1 DEF D!Met
  <2>3. \A i \in 1 .. (N - 1) : D!Peers(root)[i] = IF i <= root THEN i - 1 ELSE i
    BY DEF D!Peers
  <2>4. \A q \in D!Ranks : q < root => q + 1 \in 1 .. (N - 1) /\ D!Peers(root)[q + 1] = q
    BY <1>1, <1>3, <2>3
  <2>5. \A q \in D!Ranks : q > root => q \in 1 .. (N - 1) /\ D!Peers(root)[q] = q
    BY <1>1, <1>3, <2>3
  <2>6. ASSUME NEW q \in D!Ranks PROVE q \in D!Met(h)
    <3>1. CASE q = root
      BY <2>2, <3>1
    <3>2. CASE q < root
      BY <2>2, <2>4, <3>2
    <3>3. CASE q > root
      BY <2>2, <2>5, <3>3
    <3>4. QED
      BY <1>1, <1>3, <3>1, <3>2, <3>3
  <2>7. D!Met(h) \in SUBSET D!Ranks
    BY <1>1, <1>3, <2>1, MetRanks
  <2>8. QED
    BY <1>1, <2>1, <2>6, <2>7
<1>8. CASE shape = "MeshDoubling"
  <2>1. h \in D!Ranks
    BY <1>8 DEF D!Holders
  <2>2. PICK m \in Nat \ {0} : m = D!Mask[N - 1] /\ m > N - 1
    <3>1. N - 1 \in 0 .. N
      BY <1>3
    <3>2. D!Mask[N - 1] \in Nat /\ D!Mask[N - 1] > N - 1
      BY <3>1, MaskFacts
    <3>3. QED
      BY <1>3, <3>2
  <2>3. D!Met(h) = {q \in D!Ranks : q \div m = h \div m}
    BY <1>1, <1>8, <2>2 DEF D!Met
  <2>4. ASSUME NEW q \in D!Ranks PROVE q \div m = 0
    <3>1. q \in 0 .. (2 * m - 1) /\ q < m
      BY <1>3, <2>2
    <3>2. QED
      BY <3>1, ModOnce
  <2>5. QED
    BY <2>1, <2>3, <2>4
<1>9. QED
  BY <1>2, <1>5, <1>6, <1>7, <1>8

-----------------------------------------------------------------------------
(* What a rank holds after each round is what the operation makes of the    *)
(* operands of the ranks it has met, each of them once                      *)
(* (Utils::PerformReduce, utils.cpp:391-459).                               *)
HalfInv == half = "values" => D!IInv
THEOREM ReductionInvariance == D!DoublingFits => (SpecHalf => []HalfInv)
<1> SUFFICES ASSUME D!DoublingFits PROVE SpecHalf => []HalfInv
  OBVIOUS
<1>1. InitHalf => HalfInv
  BY InitInvariant DEF InitHalf, HalfInv
<1>2. HalfInv /\ [NextHalf]_<<half, vars, reduction>> => HalfInv'
  <2>1. SUFFICES ASSUME HalfInv, [NextHalf]_<<half, vars, reduction>>, half' = "values"
                 PROVE  D!IInv'
    BY DEF HalfInv
  <2>2. CASE half = "values" /\ D!Round
    BY <2>1, <2>2, RoundInvariant DEF HalfInv
  <2>3. CASE half = "values" /\ UNCHANGED reduction
    <3>1. D!IInv
      BY <2>1, <2>3 DEF HalfInv
    <3>2. /\ shape' = shape /\ root' = root /\ op' = op /\ input' = input
          /\ val' = val /\ round' = round
      BY <2>3 DEF reduction
    <3>3. D!TypeOK'
      BY <3>1, <3>2 DEF D!IInv, D!TypeOK, D!Ranks
    <3>4. \A r : D!Met(r)' = D!Met(r)
      BY <3>2 DEF D!Met, D!Ranks, D!Position, D!Peers
    <3>5. \A C : D!SumOf(C)' = D!SumOf(C)
      BY <3>2 DEF D!SumOf, D!FoldFunctionOnSet, D!MapThenFoldSet
    <3>6. ASSUME NEW r \in D!Ranks PROVE D!ReducedTo(val[r], D!Met(r))'
      <4>1. D!ReducedTo(val[r], D!Met(r))
        BY <3>1 DEF D!IInv
      <4>2. QED
        BY <3>2, <3>4, <3>5, <4>1 DEF D!ReducedTo
    <3>7. D!Alike'
      BY <3>1, <3>2, <3>4 DEF D!IInv, D!Alike, D!Ranks
    <3>8. QED
      BY <3>3, <3>6, <3>7 DEF D!IInv, D!Ranks
  <2>4. half = "values" /\ (D!Next \/ UNCHANGED reduction)
    BY <2>1 DEF NextHalf
  <2>5. D!Next => D!Round \/ UNCHANGED reduction
    BY DEF D!Next, D!Done, D!vars, reduction
  <2>6. QED
    BY <2>2, <2>3, <2>4, <2>5
<1>3. QED
  BY <1>1, <1>2, PTL DEF SpecHalf

(* SUM, MAX and MIN come out right in the order in which each topology      *)
(* brings the operands together, for any number of ranks and any width      *)
(* (ReduceData, utils.cpp:344-384).                                         *)
THEOREM ResultRightCorrect == D!DoublingFits => (SpecHalf => []ResultRight)
<1> SUFFICES ASSUME D!DoublingFits PROVE SpecHalf => []ResultRight
  OBVIOUS
<1>1. HalfInv => ResultRight
  <2>1. SUFFICES ASSUME D!IInv, D!Finished, op # "AVG", NEW h \in D!Holders
                 PROVE  val[h] = D!Reference
    BY DEF HalfInv, ResultRight, D!ResultRight
  <2>2. h \in D!Ranks /\ D!Met(h) = D!Ranks
    BY <2>1, HoldersMet
  <2>3. D!ReducedTo(val[h], D!Ranks)
    BY <2>1, <2>2 DEF D!IInv
  <2>4. /\ input \in [D!Ranks -> Operands] /\ op \in {"SUM", "MAX", "MIN"}
        /\ val[h] \in Int
    BY <2>1, <2>2, TypeFacts DEF D!IInv, D!TypeOK
  <2>5. QED
    BY <2>3, <2>4, ReducesAll
<1>2. QED
  BY <1>1, ReductionInvariance, PTL

(* All the ranks that compute a result compute the same, AVG included       *)
(* (FullMeshTopology::AllReduce, topology_fullmesh.cpp:426-477).            *)
THEOREM RanksAgreeCorrect == D!DoublingFits => (SpecHalf => []RanksAgree)
<1> SUFFICES ASSUME D!DoublingFits PROVE SpecHalf => []RanksAgree
  OBVIOUS
<1>1. HalfInv => RanksAgree
  <2>1. SUFFICES ASSUME D!IInv, D!Finished, NEW g \in D!Holders, NEW h \in D!Holders
                 PROVE  val[g] = val[h]
    BY DEF HalfInv, RanksAgree, D!RanksAgree
  <2>2. g \in D!Ranks /\ h \in D!Ranks /\ D!Met(g) = D!Met(h)
    BY <2>1, HoldersMet
  <2>3. CASE TwoSidedRound
    BY <2>1, <2>2, <2>3 DEF D!IInv, D!Alike, TwoSidedRound
  <2>4. CASE ~ TwoSidedRound
    <3>1. shape \in {"RingReduce", "MeshReduce"} \/ (shape = "RingAllReduce" /\ N # 2)
      BY <2>1, <2>4, TypeFacts DEF D!IInv, TwoSidedRound
    <3>2. g = h
      BY <2>1, <3>1 DEF D!Holders
    <3>3. QED
      BY <3>2
  <2>5. QED
    BY <2>3, <2>4
<1>2. QED
  BY <1>1, ReductionInvariance, PTL
=============================================================================
