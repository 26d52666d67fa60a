------------------------------- MODULE Group -------------------------------
(* The ranks of one communicator, numbered as CommConfig has them.          *)
EXTENDS Integers

CONSTANT N               \* world_size

ASSUME GroupAssumption == N \in Nat /\ N >= 2

Ranks == 0 .. (N - 1)
=============================================================================
