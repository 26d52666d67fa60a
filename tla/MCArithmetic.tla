---------------------------- MODULE MCArithmetic ----------------------------
(* The arithmetic of the collectives in one instance for TLC: `half` says   *)
(* whether a behaviour follows the chunks of the ring AllReduce, for one of *)
(* Sizes, or the values of a reduction among N ranks.                       *)
EXTENDS RingChunks

CONSTANTS N, IntMod, Operands, Shapes, ReduceOps

VARIABLES half, shape, root, op, input, val, round

D == INSTANCE Reduction

reduction == <<shape, root, op, input, val, round>>

ASSUME ReductionAssumption == N \in Nat /\ N >= 2 /\ D!OperandsFit

InitHalf ==
  \/ /\ half = "chunks" /\ Init
     /\ shape = "none" /\ root = 0 /\ op = "none"
     /\ input = <<>> /\ val = <<>> /\ round = 0
  \/ /\ half = "values" /\ D!Init
     /\ size = <<3, 0>> /\ step = 0 /\ data = <<>> /\ touched = {}

NextHalf ==
  \/ half = "chunks" /\ Next /\ UNCHANGED <<half, reduction>>
  \/ half = "values" /\ D!Next /\ UNCHANGED <<half, vars>>

SpecHalf == InitHalf /\ [][NextHalf]_<<half, vars, reduction>>

(* From counts below the number of ranks to several elements a chunk, with  *)
(* every remainder.                                                         *)
AllSizes == {<<n, c>> : n \in 3 .. 7, c \in 0 .. 20}
FittingSizes == {z \in AllSizes : Fits(z)}

(* Both ends of the 4-bit range, so that partial sums wrap around, and a    *)
(* value of either sign.                                                    *)
FourBitOperands == {-8, -3, 1, 7}

(* SUM, MAX and MIN come out right in whatever order the topology brings    *)
(* the operands together (utils.cpp:391, see Reduction).                    *)
ResultRight == half = "values" => D!ResultRight

(* All ranks that compute a result compute the same (see Reduction).        *)
RanksAgree == half = "values" => D!RanksAgree
=============================================================================
