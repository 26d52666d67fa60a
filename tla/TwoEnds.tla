------------------------------- MODULE TwoEnds -------------------------------
(* The two ends of one connection, and what they call on it: a sequence of  *)
(* steps for each end, every step the bytes it sends and those it receives  *)
(* (both, when a thread sends beside the Recv).                             *)
EXTENDS Integers, Sequences

Ends == {"A", "B"}
Ops  == {"send", "recv"}
Other(e) == CHOOSE f \in Ends : f # e

Steps == [Ops -> Nat]
Lone(op, size) == [o \in Ops |-> IF o = op THEN size ELSE 0]

(* What both ends do, neither of them ever nothing.                         *)
IsProgram(p) ==
  /\ p \in [Ends -> Seq(Steps)]
  /\ \A e \in Ends : \A i \in DOMAIN p[e] : p[e][i].send + p[e][i].recv > 0

(* In every step one end sends what the other receives.                     *)
InTurns(p) ==
  /\ Len(p["A"]) = Len(p["B"])
  /\ \A e \in Ends : \A i \in 1 .. Len(p[e]) :
       /\ p[e][i].send = p[Other(e)][i].recv
       /\ p[e][i].send = 0 \/ p[e][i].recv = 0
=============================================================================
