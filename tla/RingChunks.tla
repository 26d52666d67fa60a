----------------------------- MODULE RingChunks -----------------------------
(* How TopologyRing::AllReduce cuts `count` elements into one chunk per     *)
(* rank: the offsets and lengths of AllReduceReduceScatter and              *)
(* AllReduceAllGather, computed in size_t.  The ranks go through the steps  *)
(* together here: RingAllReduceProofs shows that what a step receives is    *)
(* the same step's chunk of the previous rank, however they interleave.     *)
EXTENDS Integers

CONSTANTS Sizes,      \* pairs <<world_size, count>>
          SizeMod     \* number of values of size_t (2^64)

ASSUME SizesAssumption ==
  /\ SizeMod \in Nat
  /\ \A z \in Sizes : /\ z = <<z[1], z[2]>>
                      /\ z[1] \in Nat /\ z[1] >= 3
                      /\ z[2] \in Nat /\ z[2] + z[1] < SizeMod

VARIABLES size,       \* the <<world_size, count>> of this call
          step,       \* steps done, of both phases
          data,       \* data[r][e]: the operands in element e of r's recv_buf
          touched     \* the positions of recv_buf read or written so far

vars == <<size, step, data, touched>>

world_size == size[1]
count      == size[2]
Ranks      == 0 .. (world_size - 1)
-----------------------------------------------------------------------------
ChunkSizeDown(z) == z[2] \div z[1]                      \* mutant: rounds down
ChunkSize(z) == (z[2] + z[1] - 1) \div z[1]

(* std::min(chunk_size, count - chunk * chunk_size), which wraps around     *)
(* below 0.                                                                 *)
Minus(a, b) == (a - b) % SizeMod
ActualCountWhole(z, c) == ChunkSize(z)                  \* mutant: no std::min
ActualCount(z, c) ==
  LET rest == Minus(z[2], c * ChunkSize(z))
  IN  IF rest < ChunkSize(z) THEN rest ELSE ChunkSize(z)

Offset(z, c) == c * ChunkSize(z)
Chunk(z, c)  == Offset(z, c) .. (Offset(z, c) + ActualCount(z, c) - 1)

SendChunk(r) ==
  IF step < world_size - 1
  THEN (r - step + world_size) % world_size
  ELSE (r - (step - world_size + 1) + 1 + world_size) % world_size
RecvChunk(r) ==
  IF step < world_size - 1
  THEN (r - step + world_size - 1) % world_size
  ELSE (r - (step - world_size + 1) + world_size) % world_size

PrevRank(r) == (r - 1 + world_size) % world_size

Init ==
  /\ size \in Sizes
  /\ step = 0
  /\ data = [r \in Ranks |-> [e \in 0 .. (count - 1) |-> {r}]]
  /\ touched = {}

Finished == step = 2 * (world_size - 1)

(* What lies outside the buffer is touched but not modelled further.        *)
ReduceScatterStep ==
  /\ step < world_size - 1
  /\ data' = [r \in Ranks |-> [e \in 0 .. (count - 1) |->
                IF e \in Chunk(size, RecvChunk(r))
                THEN data[r][e] \cup data[PrevRank(r)][e] ELSE data[r][e]]]
  /\ touched' = touched \cup
       UNION {Chunk(size, SendChunk(r)) \cup Chunk(size, RecvChunk(r)) : r \in Ranks}
  /\ step' = step + 1
  /\ UNCHANGED size

AllGatherStep ==
  /\ step >= world_size - 1 /\ ~Finished
  /\ data' = [r \in Ranks |-> [e \in 0 .. (count - 1) |->
                IF e \in Chunk(size, RecvChunk(r))
                THEN data[PrevRank(r)][e] ELSE data[r][e]]]
  /\ touched' = touched \cup
       UNION {Chunk(size, SendChunk(r)) \cup Chunk(size, RecvChunk(r)) : r \in Ranks}
  /\ step' = step + 1
  /\ UNCHANGED size

Done == Finished /\ UNCHANGED vars

Next == ReduceScatterStep \/ AllGatherStep \/ Done
Spec == Init /\ [][Next]_vars
-----------------------------------------------------------------------------
(* A size fits when every chunk begins inside the buffer, or at its end.    *)
Fits(z) == (z[1] - 1) * ChunkSize(z) <= z[2]
AllFit == \A z \in Sizes : Fits(z)

(* Every Send, Recv and PerformReduce stays within the caller's recv_buf of *)
(* count elements.                                                          *)
InBuffer == touched \subseteq 0 .. (count - 1)

(* In the end every element of every rank has met every operand: the chunks *)
(* leave no gap.                                                            *)
AllReduced ==
  Finished => \A r \in Ranks, e \in 0 .. (count - 1) : data[r][e] = Ranks
=============================================================================
