----------------------------- MODULE Reduction -----------------------------
(* The arithmetic of the reducing collectives: in which order the operands  *)
(* of the ranks meet, and what Utils::PerformReduce makes of each meeting.  *)
(* One element of the vectors is followed, from every rank's operand to the *)
(* result.  How the messages travel is the matter of Collectives and        *)
(* RingAllReduce: here all transfers of a round happen at once.             *)
EXTENDS RingPrograms, FullMeshPrograms, FiniteSetsExt

CONSTANTS IntMod,     \* number of values of an integer (2^32 and 2^64)
          Operands,   \* what a rank's element may hold
          Shapes,     \* subset of AllShapes
          ReduceOps   \* subset of {"SUM", "MAX", "MIN", "AVG"}

AllShapes == {"RingReduce", "RingAllReduce", "MeshReduce", "MeshDoubling"}

Half   == IntMod \div 2
Values == (-Half) .. (Half - 1)
OperandsFit ==
  /\ IntMod \in Nat \ {0} /\ IntMod % 2 = 0
  /\ Operands \subseteq Values
  /\ Shapes \subseteq AllShapes
  /\ ReduceOps \subseteq {"SUM", "MAX", "MIN", "AVG"}

VARIABLES shape, root, op,
          input,      \* input[r]: the operand of rank r, in its send_buf
          val,        \* val[r]: what r has accumulated
          round

vars == <<shape, root, op, input, val, round>>
-----------------------------------------------------------------------------
(* Two's complement addition, and C++ division, which truncates.            *)
Wrap(v) == ((v + Half) % IntMod) - Half
TruncDiv(a, b) == IF a >= 0 THEN a \div b ELSE -((-a) \div b)

Larger(a, b)  == IF b > a THEN b ELSE a
Smaller(a, b) == IF b < a THEN b ELSE a

ReduceDataMinAsMax(o, recv, send) ==             \* mutant: MIN compares with >
  CASE o \in {"SUM", "AVG"} -> Wrap(recv + send)
    [] o \in {"MAX", "MIN"} -> Larger(recv, send)

ReduceData(o, recv, send) ==
  CASE o \in {"SUM", "AVG"} -> Wrap(recv + send)
    [] o = "MAX" -> Larger(recv, send)
    [] o = "MIN" -> Smaller(recv, send)

PerformReduce(o, recv, send) ==
  IF o = "AVG" THEN TruncDiv(ReduceData(o, recv, send), N)
               ELSE ReduceData(o, recv, send)
-----------------------------------------------------------------------------
(* Round k of a shape: the pairs <<from, to>> such that `to` reduces what   *)
(* it receives from `from` into what it holds.                              *)
RankAt(position) == (root + position) % N

(* From the farthest rank towards the root, against the ring.               *)
RingReduceRound(k) == {<<RankAt(N - k), RankAt(N - k - 1)>>}

(* Chunk `root` of AllReduceReduceScatter, along the ring from its own rank;*)
(* two ranks swap instead (AllReduceTwoRanks).                              *)
RingAllReduceRound(k) ==
  IF N = 2 THEN {<<0, 1>>, <<1, 0>>}
           ELSE {<<RankAt(k - 1), RankAt(k)>>}

MeshReduceRound(k) == {<<Peers(root)[k], root>>}

MeshDoublingUpRound(k) ==                        \* mutant: only one end reduces
  {<<XorMask(r, Mask[k - 1]), r>> :
     r \in {q \in Ranks : q < XorMask(q, Mask[k - 1]) /\ XorMask(q, Mask[k - 1]) < N}}

MeshDoublingRound(k) ==
  IF Mask[k - 1] >= N THEN {}
  ELSE {<<XorMask(r, Mask[k - 1]), r>> : r \in {q \in Ranks : XorMask(q, Mask[k - 1]) < N}}

Transfers ==
  CASE shape = "RingReduce"    -> RingReduceRound(round)
    [] shape = "RingAllReduce" -> RingAllReduceRound(round)
    [] shape = "MeshReduce"    -> MeshReduceRound(round)
    [] shape = "MeshDoubling"  -> MeshDoublingRound(round)

(* Whose val is the result: the root, the rank a chunk ends at (the other   *)
(* ranks copy it from there), or every rank.                                *)
Holders ==
  CASE shape \in {"RingReduce", "MeshReduce"} -> {root}
    [] shape = "RingAllReduce" -> IF N = 2 THEN Ranks ELSE {RankAt(N - 1)}
    [] shape = "MeshDoubling" -> Ranks

Init ==
  /\ shape \in Shapes /\ root \in Ranks /\ op \in ReduceOps
  /\ input \in [Ranks -> Operands]
  /\ val = input
  /\ round = 1

Finished == round = N

Round ==
  /\ ~Finished
  /\ val' = [r \in Ranks |->
               LET from == {p \in Ranks : <<p, r>> \in Transfers}
               IN  IF from = {} THEN val[r]
                   ELSE PerformReduce(op, val[r], val[CHOOSE p \in from : TRUE])]
  /\ round' = round + 1
  /\ UNCHANGED <<shape, root, op, input>>

Done == Finished /\ UNCHANGED vars

Next == Round \/ Done
Spec == Init /\ [][Next]_vars
-----------------------------------------------------------------------------
SumOf(C) == FoldFunctionOnSet(+, 0, input, C)
SumOfInput == SumOf(DOMAIN input)

Reference ==
  CASE op = "SUM" -> Wrap(SumOfInput)
    [] op = "MAX" -> Max({input[r] : r \in Ranks})
    [] op = "MIN" -> Min({input[r] : r \in Ranks})
    [] op = "AVG" -> TruncDiv(Wrap(SumOfInput), N)

(* SUM, MAX and MIN come out right whatever the order in which the topology *)
(* brings the operands together, and although a partial sum may wrap around *)
(* where the whole sum does not.                                            *)
ResultRight ==
  Finished /\ op # "AVG" => \A h \in Holders : val[h] = Reference

(* All the ranks that compute a result compute the same one, each having    *)
(* met the operands in an order of its own: even AVG, which divides on the  *)
(* way.                                                                     *)
RanksAgree == Finished => \A g, h \in Holders : val[g] = val[h]

(* README.md: "Reduce data to root (SUM/MAX/MIN/AVG)": AVG is the sum of    *)
(* the operands divided by their number.                                    *)
AvgRight ==
  Finished /\ op = "AVG" => \A h \in Holders : val[h] = Reference
-----------------------------------------------------------------------------
(* Why SUM, MAX and MIN come out right: what a rank holds is the operands   *)
(* of the ranks it has met, reduced, and no operand is met twice.           *)

(* Recursive doubling brings all operands to all ranks among 2, 4, 8, ...   *)
(* ranks only.                                                              *)
DoublingFits == "MeshDoubling" \in Shapes => \E k \in 0 .. N : N = Mask[k]

Met(r) ==
  CASE shape = "RingReduce" ->
         IF Position(r, root) >= N - round
         THEN {q \in Ranks : Position(q, root) >= Position(r, root)} ELSE {r}
    [] shape = "RingAllReduce" ->
         IF N = 2 THEN (IF round = 1 THEN {r} ELSE Ranks)
         ELSE IF Position(r, root) < round
         THEN {q \in Ranks : Position(q, root) <= Position(r, root)} ELSE {r}
    [] shape = "MeshReduce" ->
         IF r = root THEN {root} \cup {Peers(root)[i] : i \in 1 .. (round - 1)} ELSE {r}
    [] shape = "MeshDoubling" ->
         {q \in Ranks : q \div Mask[round - 1] = r \div Mask[round - 1]}

ReducedTo(v, C) ==
  CASE op = "SUM" -> v = Wrap(SumOf(C))
    [] op = "MAX" -> v \in {input[q] : q \in C} /\ \A q \in C : v >= input[q]
    [] op = "MIN" -> v \in {input[q] : q \in C} /\ \A q \in C : v <= input[q]
    [] op = "AVG" -> TRUE

(* Where several ranks compute the result, those that have met the same     *)
(* operands hold the same, whatever the operation.                          *)
Alike ==
  shape = "MeshDoubling" \/ (shape = "RingAllReduce" /\ N = 2) =>
    \A q, r \in Ranks : Met(q) = Met(r) => val[q] = val[r]

TypeOK ==
  /\ shape \in Shapes /\ root \in Ranks /\ op \in ReduceOps
  /\ input \in [Ranks -> Operands] /\ val \in [Ranks -> Int]
  /\ round \in 1 .. N

IInv == TypeOK /\ (\A r \in Ranks : ReducedTo(val[r], Met(r))) /\ Alike
=============================================================================
