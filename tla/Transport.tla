----------------------------- MODULE Transport -----------------------------
(* What Send and Recv of a Transport promise to the two ends of a           *)
(* connection: one stream of bytes each way, in order and complete.  The    *)
(* bytes an end sends are numbered from 1.                                  *)
EXTENDS Integers, Sequences

VARIABLES program,  \* program[e][i]: how many bytes e's i-th step sends and,
                    \*   at the same time, receives
          pc,       \* pc[e]: how many steps are done
          returned, \* returned[e]: the calls of the current step that are
          handed,   \* handed[e]: bytes that the Send of e's step has taken
          sent,     \* sent[e]: bytes that e's Sends have taken in all
          got       \* got[e]: bytes that e's Recvs have returned

Ends == {"A", "B"}
Other(e) == CHOOSE f \in Ends : f # e

Init ==
  /\ pc = [e \in Ends |-> 0]
  /\ returned = [e \in Ends |-> {}]
  /\ handed = [e \in Ends |-> 0]
  /\ sent = [e \in Ends |-> 0]
  /\ got = [e \in Ends |-> <<>>]

Size(e, op) == IF pc[e] < Len(program[e]) THEN program[e][pc[e] + 1][op] ELSE 0
In(e, op) == op \notin returned[e] /\ Size(e, op) > 0

Returns(e, op) ==
  LET done == {o \in {"send", "recv"} : Size(e, o) > 0} = returned[e] \cup {op}
  IN  /\ pc' = [pc EXCEPT ![e] = IF done THEN @ + 1 ELSE @]
      /\ returned' = [returned EXCEPT ![e] = IF done THEN {} ELSE @ \cup {op}]

(* A Send takes its bytes, some at a time, and returns when it has all.     *)
Take(e) ==
  /\ In(e, "send")
  /\ \E n \in 0 .. (Size(e, "send") - handed[e]) :
       /\ sent' = [sent EXCEPT ![e] = @ + n]
       /\ \/ /\ handed' = [handed EXCEPT ![e] = @ + n]
             /\ UNCHANGED <<pc, returned>>
          \/ /\ handed[e] + n = Size(e, "send")
             /\ handed' = [handed EXCEPT ![e] = 0]
             /\ Returns(e, "send")
  /\ UNCHANGED <<program, got>>

(* A Recv returns the next bytes of the other end, all it was asked for.    *)
RecvReturns(e) ==
  LET n == Size(e, "recv")
  IN  /\ In(e, "recv")
      /\ Len(got[e]) + n <= sent[Other(e)]
      /\ got' = [got EXCEPT ![e] = @ \o [i \in 1 .. n |-> Len(got[e]) + i]]
      /\ Returns(e, "recv")
      /\ UNCHANGED <<program, handed, sent>>

Next == \E e \in Ends : Take(e) \/ RecvReturns(e)
Spec == Init /\ [][Next]_<<program, pc, returned, handed, sent, got>>
=============================================================================
