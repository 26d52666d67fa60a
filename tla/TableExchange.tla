--------------------------- MODULE TableExchange ---------------------------
(* What Bootstrap promises: a rank learns the addresses of the group only   *)
(* when every rank has announced its own, or it fails.                      *)
EXTENDS Group

VARIABLES present,  \* the ranks that have announced their address
          outcome   \* outcome[r]: "none", "table" or "failed"

Init == present = {} /\ outcome = [r \in Ranks |-> "none"]

Announce(r) == present' = present \cup {r} /\ UNCHANGED outcome

Learn(r) ==
  /\ outcome[r] = "none" /\ present = Ranks
  /\ outcome' = [outcome EXCEPT ![r] = "table"]
  /\ UNCHANGED present

Fail(r) ==
  /\ outcome[r] = "none"
  /\ outcome' = [outcome EXCEPT ![r] = "failed"]
  /\ UNCHANGED present

Next == \E r \in Ranks : Announce(r) \/ Learn(r) \/ Fail(r)
vars == <<present, outcome>>
Spec == Init /\ [][Next]_vars
=============================================================================
