------------------------------ MODULE Barrier ------------------------------
(* What Communicator::Barrier promises, whatever the topology: a call that  *)
(* returns true at one rank has been entered by every rank.                 *)
EXTENDS Integers

CONSTANT N                     \* world_size

Ranks == 0 .. (N - 1)

VARIABLES entered,             \* entered[r]: Barrier calls r has begun
          left                 \* left[r]: those that returned true

Init == entered = [r \in Ranks |-> 0] /\ left = [r \in Ranks |-> 0]

Enter(r) ==
  /\ left[r] = entered[r]
  /\ entered' = [entered EXCEPT ![r] = @ + 1]
  /\ UNCHANGED left

Leave(r) ==
  /\ left[r] < entered[r]
  /\ \A q \in Ranks : entered[q] >= entered[r]
  /\ left' = [left EXCEPT ![r] = entered[r]]
  /\ UNCHANGED entered

Next == \E r \in Ranks : Enter(r) \/ Leave(r)

Spec == Init /\ [][Next]_<<entered, left>>
=============================================================================
