---------------------------- MODULE BarrierCalls ----------------------------
(* The ranks of a communicator call Barrier again and again.  What the      *)
(* caller sees is the same for both topologies: how many calls each rank    *)
(* has begun and how many have returned true.                               *)
EXTENDS Integers

CONSTANTS N,          \* world_size
          Rounds      \* bound on the calls of each rank

ASSUME BarrierAssumption == N \in Nat /\ N >= 2 /\ Rounds \in Nat

Ranks == 0 .. (N - 1)

VARIABLES calls,      \* calls[r]: Barrier calls r has begun
          returned    \* returned[r]: those that have returned

Inside(r) == returned[r] < calls[r]
Finished == \A r \in Ranks : returned[r] = Rounds

(* A Barrier that returns true at one rank has been entered by every rank   *)
(* ("make sure all ranks go to barrier", topology_ring.cpp:635).            *)
Abstract == INSTANCE Barrier WITH entered <- calls, left <- returned
RefinesBarrier == Abstract!Spec

(* Every rank gets through all its barriers: no rank is left waiting in one *)
(* that the others have passed.                                             *)
Termination == <>Finished
=============================================================================
