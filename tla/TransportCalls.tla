--------------------------- MODULE TransportCalls ---------------------------
(* The two ends of one connection, which both transports share: an end goes *)
(* through the steps of a collective, each a Send, a Recv, or a Send in a   *)
(* thread of its own beside a Recv; it closes after the last step or the    *)
(* first call that returns false, or dies.                                  *)
EXTENDS TwoEnds, SequencesExt, FiniteSetsExt

CONSTANTS Programs,      \* what the ends may do (IsProgram)
          MaxDeaths      \* how many processes may die

ASSUME CallsAssumption == (\A p \in Programs : IsProgram(p)) /\ MaxDeaths \in Nat

VARIABLES program,  \* the one of Programs that runs
          pc,       \* pc[e]: how many steps of e are done
          returned, \* returned[e]: calls of its current step that are
          handed,   \* handed[e]: how many bytes the Send of e's step has taken
          sent,     \* sent[e]: bytes e's Sends have taken; byte i is number i
          taking,   \* taking[e]: bytes the Recv of e's step has so far
          got,      \* got[e]: bytes that e's Recvs returned with true
          state,    \* state[e]: "open", "closed", "failed" or "dead"
          deaths

calls == <<program, pc, returned, handed, sent, taking, got, state, deaths>>

Init ==
  /\ program \in Programs
  /\ pc = [e \in Ends |-> 0]
  /\ returned = [e \in Ends |-> {}]
  /\ handed = [e \in Ends |-> 0]
  /\ sent = [e \in Ends |-> 0]
  /\ taking = [e \in Ends |-> <<>>]
  /\ got = [e \in Ends |-> <<>>]
  /\ state = [e \in Ends |-> "open"]
  /\ deaths = 0

Open(e) == state[e] = "open"
Over(e) == pc[e] = Len(program[e])
Size(e, op) == IF Over(e) THEN 0 ELSE program[e][pc[e] + 1][op]
In(e, op) == Open(e) /\ op \notin returned[e] /\ Size(e, op) > 0

(* Bytes of e's call still to go.                                           *)
Left(e, op) == Size(e, op) - (IF op = "send" THEN handed[e] ELSE Len(taking[e]))

(* The next n bytes of e's stream, which its Send takes.                    *)
Bytes(e, n) == [i \in 1 .. n |-> sent[e] + i]

(* The call returns true; the step is done when the other one has, too.     *)
Returns(e, op) ==
  LET done == {o \in Ops : Size(e, o) > 0} = returned[e] \cup {op}
  IN  /\ pc' = [pc EXCEPT ![e] = IF done THEN @ + 1 ELSE @]
      /\ returned' = [returned EXCEPT ![e] = IF done THEN {} ELSE @ \cup {op}]

(* e's Send has handed over n bytes: it returns true when it has all.       *)
Writes(e, n) ==
  /\ sent' = [sent EXCEPT ![e] = @ + n]
  /\ \/ /\ n < Left(e, "send")
        /\ handed' = [handed EXCEPT ![e] = @ + n]
        /\ UNCHANGED <<pc, returned>>
     \/ /\ n = Left(e, "send")
        /\ handed' = [handed EXCEPT ![e] = 0]
        /\ Returns(e, "send")

(* e's Recv has read these bytes: it returns true when it has all.          *)
Reads(e, bytes) ==
  LET all == taking[e] \o bytes
  IN  \/ /\ Len(all) < Size(e, "recv")
         /\ taking' = [taking EXCEPT ![e] = all]
         /\ UNCHANGED <<pc, returned, got>>
      \/ /\ Len(all) = Size(e, "recv")
         /\ taking' = [taking EXCEPT ![e] = <<>>]
         /\ got' = [got EXCEPT ![e] = @ \o all]
         /\ Returns(e, "recv")

Leave(e, how) ==
  /\ state' = [state EXCEPT ![e] = how]
  /\ UNCHANGED <<program, pc, returned, handed, sent, taking, got>>

(* The call returns false; the caller gives the connection up, whatever the *)
(* call beside it does.                                                     *)
Fail(e) == Leave(e, "failed") /\ UNCHANGED deaths
Finish(e) == Open(e) /\ Over(e) /\ Leave(e, "closed") /\ UNCHANGED deaths
Die(e) == Open(e) /\ deaths < MaxDeaths /\ Leave(e, "dead") /\ deaths' = deaths + 1

(* How many bytes e's calls move in its first i steps.                      *)
Upto(e, op) ==
  LET upto[i \in 0 .. Len(program[e])] ==
        IF i = 0 THEN 0 ELSE upto[i - 1] + program[e][i][op]
  IN  upto

(* Every Send has a Recv of its size at the other end, in the same order:   *)
(* the calls of either direction end at the same bytes.                     *)
Matched == \A e \in Ends : Range(Upto(e, "send")) = Range(Upto(Other(e), "recv"))

CallsOK ==
  /\ program \in Programs
  /\ \A e \in Ends :
       /\ pc[e] \in 0 .. Len(program[e])
       /\ returned[e] \subseteq Ops
       /\ state[e] \in {"open", "closed", "failed", "dead"}
       /\ Len(got[e]) + Len(taking[e]) <= sent[Other(e)]
       /\ handed[e] \in 0 .. Size(e, "send") /\ handed[e] <= sent[e]
  /\ deaths \in 0 .. MaxDeaths
-----------------------------------------------------------------------------
(* A call returns false only when a process has died or the two ends do not *)
(* agree on the sizes: an end that is through does not break the other.     *)
FailsForCause == (\E e \in Ends : state[e] = "failed") => deaths > 0 \/ ~Matched

(* To its callers this is a Transport.                                      *)
T == INSTANCE Transport
RefinesTransport == T!Spec
=============================================================================
