------------------------ MODULE TransportCallsProofs ------------------------
(* What the proofs about both transports rest on: runs of bytes, sums of    *)
(* sizes, and how a call that returns moves an end through its steps.       *)
EXTENDS TransportCalls, SequenceTheorems, WellFoundedInduction, TLAPS

-----------------------------------------------------------------------------
(* The n bytes that follow number k.                                        *)
Run(k, n) == [i \in 1 .. n |-> k + i]

LEMMA RunFacts ==
  ASSUME NEW k \in Nat, NEW n \in Nat
  PROVE  /\ Run(k, n) \in Seq(Nat)
         /\ Len(Run(k, n)) = n
         /\ \A i \in 1 .. n : Run(k, n)[i] = k + i
BY DEF Run

LEMMA RunEmpty ==
  ASSUME NEW k \in Nat
  PROVE  Run(k, 0) = <<>>
<1>1. Run(k, 0) \in Seq(Nat) /\ Len(Run(k, 0)) = 0
  BY RunFacts
<1>2. QED
  BY <1>1, EmptySeq

LEMMA RunConcat ==
  ASSUME NEW k \in Nat, NEW n \in Nat, NEW m \in Nat
  PROVE  Run(k, n) \o Run(k + n, m) = Run(k, n + m)
<1> DEFINE s == Run(k, n)
           t == Run(k + n, m)
           u == Run(k, n + m)
<1>1. /\ s \in Seq(Nat) /\ Len(s) = n /\ \A i \in 1 .. n : s[i] = k + i
      /\ t \in Seq(Nat) /\ Len(t) = m /\ \A i \in 1 .. m : t[i] = k + n + i
      /\ u \in Seq(Nat) /\ Len(u) = n + m /\ \A i \in 1 .. (n + m) : u[i] = k + i
  <2>1. k + n \in Nat /\ n + m \in Nat
    OBVIOUS
  <2>2. QED
    BY <2>1, RunFacts
<1> HIDE DEF s, t, u
<1>2. /\ s \o t \in Seq(Nat) /\ Len(s \o t) = n + m
      /\ \A i \in 1 .. (n + m) : (s \o t)[i] = IF i <= n THEN s[i] ELSE t[i - n]
  BY <1>1, ConcatProperties
<1>3. \A i \in 1 .. (n + m) : (s \o t)[i] = k + i
  <2> TAKE i \in 1 .. (n + m)
  <2>1. CASE i <= n
    BY <1>1, <1>2, <2>1
  <2>2. CASE ~(i <= n)
    <3>1. i - n \in 1 .. m
      BY <2>2
    <3>2. QED
      BY <1>1, <1>2, <2>2, <3>1
  <2>3. QED
    BY <2>1, <2>2
<1>4. s \o t = u
  <2> DEFINE w == s \o t
  <2>1. w \in Seq(Nat) /\ Len(w) = n + m /\ \A i \in 1 .. (n + m) : w[i] = k + i
    BY <1>2, <1>3
  <2> HIDE DEF w
  <2>2. w = u
    BY <1>1, <2>1, SeqEqual
  <2>3. QED
    BY <2>2 DEF w
<1>5. QED
  BY <1>4 DEF s, t, u

LEMMA RunFromStart ==
  ASSUME NEW n \in Nat, NEW m \in Nat
  PROVE  Run(0, n) \o Run(n, m) = Run(0, n + m)
<1> DEFINE z == 0
<1>1. z \in Nat /\ z + n = n
  OBVIOUS
<1> HIDE DEF z
<1>2. Run(z, n) \o Run(z + n, m) = Run(z, n + m)
  BY <1>1, RunConcat
<1>3. QED
  BY <1>1, <1>2 DEF z

(* The first m bytes of a run, and what is left of it.                      *)
LEMMA RunSplit ==
  ASSUME NEW k \in Nat, NEW n \in Nat, NEW m \in 0 .. n
  PROVE  /\ SubSeq(Run(k, n), 1, m) = Run(k, m)
         /\ SubSeq(Run(k, n), m + 1, n) = Run(k + m, n - m)
<1> DEFINE s == Run(k, n)
           a == SubSeq(s, 1, m)
           b == SubSeq(s, m + 1, n)
<1>1. s \in Seq(Nat) /\ Len(s) = n /\ \A i \in 1 .. n : s[i] = k + i
  BY RunFacts
<1> HIDE DEF s
<1>2. /\ a \in Seq(Nat) /\ Len(a) = m /\ \A i \in 1 .. m : a[i] = k + i
  <2>1. \A i \in 1 .. m : s[i] \in Nat
    BY <1>1
  <2>2. /\ a \in Seq(Nat) /\ Len(a) = (IF 1 <= m THEN m - 1 + 1 ELSE 0)
        /\ \A i \in 1 .. (m - 1 + 1) : a[i] = s[1 + i - 1]
    BY <2>1, SubSeqProperties
  <2>3. \A i \in 1 .. m : a[i] = s[i]
    BY <2>2
  <2>4. QED
    BY <1>1, <2>2, <2>3
<1>3. /\ b \in Seq(Nat) /\ Len(b) = n - m /\ \A i \in 1 .. (n - m) : b[i] = k + m + i
  <2>1. \A i \in (m + 1) .. n : s[i] \in Nat
    BY <1>1
  <2>2. /\ b \in Seq(Nat) /\ Len(b) = (IF m + 1 <= n THEN n - (m + 1) + 1 ELSE 0)
        /\ \A i \in 1 .. (n - (m + 1) + 1) : b[i] = s[m + 1 + i - 1]
    BY <2>1, SubSeqProperties
  <2>3. \A i \in 1 .. (n - m) : b[i] = s[m + i]
    BY <2>2
  <2>4. QED
    BY <1>1, <2>2, <2>3
<1>4. /\ Run(k, m) \in Seq(Nat) /\ Len(Run(k, m)) = m
      /\ \A i \in 1 .. m : Run(k, m)[i] = k + i
      /\ Run(k + m, n - m) \in Seq(Nat) /\ Len(Run(k + m, n - m)) = n - m
      /\ \A i \in 1 .. (n - m) : Run(k + m, n - m)[i] = k + m + i
  <2>1. m \in Nat /\ k + m \in Nat /\ n - m \in Nat
    OBVIOUS
  <2>2. QED
    BY <2>1, RunFacts
<1> HIDE DEF a, b
<1>5. a = Run(k, m)
  BY <1>2, <1>4, SeqEqual
<1>6. b = Run(k + m, n - m)
  BY <1>3, <1>4, SeqEqual
<1>7. QED
  BY <1>5, <1>6 DEF a, b, s

(* Each end has one other end.                                              *)
LEMMA OtherFacts ==
  /\ \A e \in Ends : Other(e) \in Ends /\ Other(e) # e /\ Other(Other(e)) = e
  /\ \A e, f \in Ends : f # e => f = Other(e)
<1>1. Other("A") = "B" /\ Other("B") = "A"
  BY DEF Other, Ends
<1>2. QED
  BY <1>1 DEF Ends

(* The programs are what their assumption says.                             *)
LEMMA ProgramTypes ==
  /\ MaxDeaths \in Nat
  /\ \A p \in Programs :
       /\ p \in [Ends -> Seq([Ops -> Nat])]
       /\ \A e \in Ends : \A i \in DOMAIN p[e] : p[e][i].send + p[e][i].recv > 0
BY CallsAssumption DEF IsProgram, Steps

-----------------------------------------------------------------------------
(* The types of the variables.                                              *)
CallsTypeOK ==
  /\ program \in Programs
  /\ pc \in [Ends -> Nat] /\ \A e \in Ends : pc[e] <= Len(program[e])
  /\ returned \in [Ends -> SUBSET Ops]
  /\ handed \in [Ends -> Nat] /\ sent \in [Ends -> Nat]
  /\ taking \in [Ends -> Seq(Nat)] /\ got \in [Ends -> Seq(Nat)]
  /\ state \in [Ends -> {"open", "closed", "failed", "dead"}]
  /\ deaths \in 0 .. MaxDeaths

(* The sizes of a step's calls.                                             *)
LEMMA SizeFacts ==
  ASSUME CallsTypeOK, NEW e \in Ends, NEW op \in Ops
  PROVE  /\ Size(e, op) \in Nat
         /\ ~Over(e) => pc[e] + 1 \in 1 .. Len(program[e])
         /\ Size(e, op) > 0 => ~Over(e)
<1>1. program[e] \in Seq([Ops -> Nat])
  BY ProgramTypes DEF CallsTypeOK
<1>2. pc[e] \in Nat /\ pc[e] <= Len(program[e]) /\ Len(program[e]) \in Nat
  BY <1>1 DEF CallsTypeOK
<1>3. ~Over(e) => pc[e] + 1 \in 1 .. Len(program[e])
  BY <1>2 DEF Over
<1>4. ~Over(e) => program[e][pc[e] + 1] \in [Ops -> Nat]
  BY <1>1, <1>3, ElementOfSeq
<1>5. QED
  BY <1>3, <1>4 DEF Size

(* Returning takes an end to its next step, or leaves it in this one for    *)
(* the sake of the other call.                                              *)
LEMMA ReturnsFacts ==
  ASSUME CallsTypeOK, NEW e \in Ends, NEW op \in Ops, In(e, op), Returns(e, op)
  PROVE  /\ pc' \in [Ends -> Nat] /\ returned' \in [Ends -> SUBSET Ops]
         /\ \A x \in Ends : pc'[x] <= Len(program[x])
         /\ \A x \in Ends : x # e => pc'[x] = pc[x] /\ returned'[x] = returned[x]
         /\ \/ pc'[e] = pc[e] /\ returned'[e] = returned[e] \cup {op}
            \/ /\ pc'[e] = pc[e] + 1 /\ returned'[e] = {}
               /\ \A o \in Ops : Size(e, o) > 0 => o \in returned[e] \cup {op}
<1>1. pc[e] + 1 \in 1 .. Len(program[e])
  BY SizeFacts DEF In
<1>2. pc \in [Ends -> Nat] /\ returned \in [Ends -> SUBSET Ops]
  BY DEF CallsTypeOK
<1>3. \A x \in Ends : pc[x] <= Len(program[x])
  BY DEF CallsTypeOK
<1> DEFINE done == {o \in Ops : Size(e, o) > 0} = returned[e] \cup {op}
<1>4. /\ pc' = [pc EXCEPT ![e] = IF done THEN pc[e] + 1 ELSE pc[e]]
      /\ returned' = [returned EXCEPT ![e] = IF done THEN {} ELSE returned[e] \cup {op}]
  BY DEF Returns
<1>5. done => \A o \in Ops : Size(e, o) > 0 => o \in returned[e] \cup {op}
  OBVIOUS
<1> HIDE DEF done
<1>6. QED
  <2>1. CASE done
    BY <1>1, <1>2, <1>3, <1>4, <1>5, <2>1
  <2>2. CASE ~done
    BY <1>1, <1>2, <1>3, <1>4, <2>2
  <2>3. QED
    BY <2>1, <2>2

LEMMA SameSize ==
  ASSUME program' = program, NEW e \in Ends, pc'[e] = pc[e], NEW op \in Ops
  PROVE  Size(e, op)' = Size(e, op)
BY DEF Size, Over

LEMMA MinFacts ==
  ASSUME NEW a \in Int, NEW b \in Int
  PROVE  Min({a, b}) \in {a, b} /\ Min({a, b}) <= a /\ Min({a, b}) <= b
<1>1. \E x \in {a, b} : \A y \in {a, b} : x <= y
  BY a <= b \/ b <= a
<1>2. QED
  BY <1>1 DEF Min

-----------------------------------------------------------------------------
(* What a Transport is told of a step.                                      *)
tvars == <<program, pc, returned, handed, sent, got>>

LEMMA TSame ==
  ASSUME CallsTypeOK
  PROVE  /\ T!Ends = Ends
         /\ \A e \in Ends : T!Other(e) = Other(e)
         /\ \A e \in Ends : \A op \in Ops : T!Size(e, op) = Size(e, op)
         /\ \A e \in Ends : \A op \in Ops : In(e, op) => T!In(e, op)
         /\ \A e \in Ends : \A op \in Ops :
              In(e, op) /\ Returns(e, op) => T!Returns(e, op)
<1>1. T!Ends = Ends /\ \A e \in Ends : T!Other(e) = Other(e)
  BY DEF T!Ends, Ends, T!Other, Other
<1>2. ASSUME NEW e \in Ends, NEW op \in Ops PROVE T!Size(e, op) = Size(e, op)
  <2>1. program[e] \in Seq([Ops -> Nat])
    BY ProgramTypes DEF CallsTypeOK
  <2>2. pc[e] < Len(program[e]) <=> ~Over(e)
    BY <2>1 DEF CallsTypeOK, Over
  <2>3. QED
    BY <2>2 DEF T!Size, Size
<1>3. \A e \in Ends : \A op \in Ops : In(e, op) => T!In(e, op)
  BY <1>2 DEF In, T!In
<1>4. ASSUME NEW e \in Ends, NEW op \in Ops, Returns(e, op) PROVE T!Returns(e, op)
  <2>1. {o \in {"send", "recv"} : T!Size(e, o) > 0} = {o \in Ops : Size(e, o) > 0}
    BY <1>2 DEF Ops
  <2>2. QED
    BY <1>4, <2>1 DEF Returns, T!Returns
<1>5. QED
  BY <1>1, <1>2, <1>3, <1>4

-----------------------------------------------------------------------------
(* Sums of sizes.                                                           *)
LEMMA LeastNat ==
  ASSUME NEW S, S \subseteq Nat, S # {}
  PROVE  \E x \in S : \A y \in S : x <= y
<1> DEFINE R == {ss \in Nat \X Nat : ss[1] < ss[2]}
<1>1. R = OpToRel(<, Nat)
  BY DEF OpToRel
<1>2. IsWellFoundedOn(R, Nat)
  BY <1>1, NatLessThanWellFounded
<1>3. PICK x \in S : \A y \in S : ~ (<<y, x>> \in R)
  <2> HIDE DEF R
  <2>1. QED
    BY <1>2, WFMin
<1>4. \A y \in S : ~ (y < x)
  <2> TAKE y \in S
  <2>1. y < x => <<y, x>> \in R
    OBVIOUS
  <2>2. QED
    BY <2>1, <1>3
<1>5. QED
  BY <1>4

(* Induction over a set.                                                    *)
LEMMA NatSteps ==
  ASSUME NEW S, 0 \in S, \A n \in Nat : n \in S => n + 1 \in S
  PROVE  Nat \subseteq S
<1> DEFINE Missing == Nat \ S
<1>1. SUFFICES ASSUME Missing # {} PROVE FALSE
  OBVIOUS
<1>2. Missing \subseteq Nat
  OBVIOUS
<1>3. PICK x \in Missing : \A y \in Missing : x <= y
  <2> HIDE DEF Missing
  <2>1. QED
    BY <1>1, <1>2, LeastNat
<1>4. x # 0 /\ x - 1 \in Nat
  OBVIOUS
<1>5. x - 1 \in S
  BY <1>3, <1>4
<1>6. x - 1 + 1 \in S /\ x - 1 + 1 = x
  BY <1>4, <1>5
<1>7. QED
  BY <1>6

(* There is a function of the sums of a sequence of numbers.                *)
Sums(g, n, a) == /\ g \in [0 .. n -> Nat] /\ g[0] = 0
                 /\ \A i \in 1 .. n : g[i] = g[i - 1] + a[i]

LEMMA SumsExist ==
  ASSUME NEW L \in Nat, NEW a \in [1 .. L -> Nat]
  PROVE  \E g : Sums(g, L, a)
<1> DEFINE S == {n \in Nat : n <= L => \E g : Sums(g, n, a)}
<1>1. 0 \in S
  <2>1. Sums([i \in 0 .. 0 |-> 0], 0, a)
    BY DEF Sums
  <2>2. QED
    BY <2>1
<1>2. ASSUME NEW n \in Nat, n \in S PROVE n + 1 \in S
  <2>1. SUFFICES ASSUME n + 1 <= L PROVE \E g : Sums(g, n + 1, a)
    OBVIOUS
  <2>2. PICK g : Sums(g, n, a)
    BY <1>2, <2>1
  <2>3. n + 1 \in 1 .. L /\ a[n + 1] \in Nat /\ g[n] \in Nat
    BY <2>1, <2>2 DEF Sums
  <2> DEFINE h == [i \in 0 .. (n + 1) |-> IF i = n + 1 THEN g[n] + a[n + 1] ELSE g[i]]
  <2>4. h \in [0 .. (n + 1) -> Nat] /\ h[0] = 0
    BY <2>2, <2>3 DEF Sums
  <2>5. ASSUME NEW i \in 1 .. (n + 1) PROVE h[i] = h[i - 1] + a[i]
    <3>1. CASE i = n + 1
      BY <2>3, <3>1
    <3>2. CASE i # n + 1
      <4>1. i \in 1 .. n /\ i - 1 \in 0 .. (n + 1) /\ i - 1 # n + 1
        BY <3>2
      <4>2. QED
        BY <2>2, <3>2, <4>1 DEF Sums
    <3>3. QED
      BY <3>1, <3>2
  <2>6. Sums(h, n + 1, a)
    BY <2>4, <2>5 DEF Sums
  <2>7. QED
    BY <2>6
<1>3. Nat \subseteq S
  <2> HIDE DEF S
  <2>1. QED
    BY <1>1, <1>2, NatSteps
<1>4. QED
  BY <1>3

(* What Upto computes.                                                      *)
LEMMA UptoFacts ==
  ASSUME program \in Programs, NEW e \in Ends, NEW op \in Ops
  PROVE  /\ Upto(e, op) \in [0 .. Len(program[e]) -> Nat]
         /\ Upto(e, op)[0] = 0
         /\ \A i \in 1 .. Len(program[e]) :
              Upto(e, op)[i] = Upto(e, op)[i - 1] + program[e][i][op]
<1> DEFINE L == Len(program[e])
           a == [i \in 1 .. L |-> program[e][i][op]]
           F(f) == [i \in 0 .. L |-> IF i = 0 THEN 0 ELSE f[i - 1] + program[e][i][op]]
           u == Upto(e, op)
<1>1. program[e] \in Seq([Ops -> Nat])
  BY ProgramTypes
<1>2. L \in Nat /\ a \in [1 .. L -> Nat]
  BY <1>1, ElementOfSeq
<1>3. PICK g : Sums(g, L, a)
  <2> HIDE DEF L, a
  <2>1. QED
    BY <1>2, SumsExist
<1>4. /\ g \in [0 .. L -> Nat] /\ g[0] = 0
       /\ \A i \in 1 .. L : g[i] = g[i - 1] + program[e][i][op]
  <2>1. \A i \in 1 .. L : a[i] = program[e][i][op]
    OBVIOUS
  <2> HIDE DEF a, L
  <2>2. QED
    BY <1>3, <2>1 DEF Sums
<1>5. g = F(g)
  <2>1. \A i \in 0 .. L : g[i] = F(g)[i]
    <3> HIDE DEF L
    <3> TAKE i \in 0 .. L
    <3>1. i = 0 \/ i \in 1 .. L
      BY <1>2
    <3>2. QED
      BY <1>2, <1>4, <3>1
  <2>2. g \in [0 .. L -> Nat]
    BY <1>4
  <2>3. QED
    BY <2>1, <2>2
<1>6. u = CHOOSE f : f = F(f)
  BY DEF Upto
<1> HIDE DEF u, F
<1>7. u = F(u)
  BY <1>5, <1>6
<1>8. u = g
  <2> DEFINE S == {n \in Nat : n <= L => u[n] = g[n]}
  <2>1. 0 \in S
    BY <1>2, <1>3, <1>7 DEF F, Sums
  <2>2. ASSUME NEW n \in Nat, n \in S PROVE n + 1 \in S
    <3>1. SUFFICES ASSUME n + 1 <= L PROVE u[n + 1] = g[n + 1]
      OBVIOUS
    <3>2. u[n] = g[n]
      BY <1>2, <2>2, <3>1
    <3>3. n + 1 \in 1 .. L /\ n + 1 - 1 = n /\ n + 1 # 0 /\ n + 1 \in 0 .. L
      BY <1>2, <3>1
    <3>4. u[n + 1] = u[n] + program[e][n + 1][op]
      BY <1>7, <3>3 DEF F
    <3>5. g[n + 1] = g[n] + program[e][n + 1][op]
      <4> HIDE DEF L
      <4>1. g[n + 1] = g[n + 1 - 1] + program[e][n + 1][op]
        BY <1>4, <3>3
      <4>2. QED
        BY <3>3, <4>1
    <3>6. QED
      BY <3>2, <3>3, <3>4, <3>5
  <2>3. Nat \subseteq S
    <3> HIDE DEF S
    <3>1. QED
      BY <2>1, <2>2, NatSteps
  <2>4. \A i \in 0 .. L : u[i] = g[i]
    BY <1>2, <2>3
  <2>5. u = [i \in 0 .. L |-> u[i]] /\ g = [i \in 0 .. L |-> g[i]]
    <3>1. u = [i \in 0 .. L |-> u[i]]
      BY <1>7 DEF F
    <3>2. QED
      BY <1>3, <3>1 DEF Sums
  <2>6. QED
    BY <2>4, <2>5
<1>9. Sums(u, L, a)
  BY <1>3, <1>8
<1>10. QED
  BY <1>9 DEF Sums, u

LEMMA UptoGrows ==
  ASSUME program \in Programs, NEW e \in Ends, NEW op \in Ops,
         NEW i \in 0 .. Len(program[e]), NEW j \in 0 .. Len(program[e]), i <= j
  PROVE  Upto(e, op)[i] <= Upto(e, op)[j]
<1> DEFINE L == Len(program[e])
           u == Upto(e, op)
           S == {d \in Nat : i + d <= L => u[i] <= u[i + d]}
<1>1. program[e] \in Seq([Ops -> Nat])
  BY ProgramTypes
<1>2. L \in Nat /\ \A n \in 1 .. L : program[e][n][op] \in Nat
  BY <1>1, ElementOfSeq
<1>3. u \in [0 .. L -> Nat] /\ \A n \in 1 .. L : u[n] = u[n - 1] + program[e][n][op]
  BY UptoFacts
<1> HIDE DEF L, u
<1>4. 0 \in S
  <2>1. i + 0 = i /\ i \in 0 .. L
    BY DEF L
  <2>2. QED
    BY <1>2, <1>3, <2>1
<1>5. ASSUME NEW d \in Nat, d \in S PROVE d + 1 \in S
  <2>1. SUFFICES ASSUME i + (d + 1) <= L PROVE u[i] <= u[i + (d + 1)]
    OBVIOUS
  <2>2. i + (d + 1) \in 1 .. L /\ i + (d + 1) - 1 = i + d /\ i + d <= L
        /\ i \in 0 .. L /\ i + d \in 0 .. L /\ i + (d + 1) \in 0 .. L
    BY <1>2, <2>1 DEF L
  <2>3. u[i] <= u[i + d]
    BY <1>5, <2>2
  <2>4. u[i + (d + 1)] = u[i + d] + program[e][i + (d + 1)][op]
    BY <1>3, <2>2
  <2>5. u[i] \in Nat /\ u[i + d] \in Nat /\ program[e][i + (d + 1)][op] \in Nat
    BY <1>2, <1>3, <2>2
  <2>6. QED
    BY <2>3, <2>4, <2>5
<1>6. Nat \subseteq S
  <2> HIDE DEF S
  <2>1. QED
    BY <1>4, <1>5, NatSteps
<1>7. j - i \in Nat /\ i + (j - i) = j /\ j <= L
  BY DEF L
<1>8. QED
  BY <1>6, <1>7 DEF u

(* Ends that match send and receive the same in all.                        *)
LEMMA TotalsMatch ==
  ASSUME program \in Programs, Matched, NEW e \in Ends
  PROVE  Upto(e, "send")[Len(program[e])] = Upto(Other(e), "recv")[Len(program[Other(e)])]
<1> DEFINE f == Other(e)
           s == Upto(e, "send")
           r == Upto(f, "recv")
           m == Len(program[e])
           n == Len(program[f])
<1>1. f \in Ends /\ "send" \in Ops /\ "recv" \in Ops
  BY OtherFacts DEF Ops
<1>2. Range(s) = Range(r)
  BY DEF Matched
<1>3. s \in [0 .. m -> Nat] /\ r \in [0 .. n -> Nat]
  BY <1>1, UptoFacts
<1>4. m \in Nat /\ n \in Nat
  <2>1. program[e] \in Seq([Ops -> Nat]) /\ program[f] \in Seq([Ops -> Nat])
    BY <1>1, ProgramTypes
  <2>2. QED
    BY <2>1
<1>5. (\A i \in 0 .. m : s[i] <= s[m]) /\ (\A i \in 0 .. n : r[i] <= r[n])
  BY <1>1, <1>4, UptoGrows
<1> HIDE DEF f, s, r, m, n
<1>6. PICK i \in 0 .. n : s[m] = r[i]
  <2>1. m \in DOMAIN s
    BY <1>3, <1>4
  <2>2. s[m] \in Range(r)
    BY <1>2, <2>1 DEF Range
  <2>3. QED
    BY <1>3, <2>2 DEF Range
<1>7. PICK j \in 0 .. m : r[n] = s[j]
  <2>1. n \in DOMAIN r
    BY <1>3, <1>4
  <2>2. r[n] \in Range(s)
    BY <1>2, <2>1 DEF Range
  <2>3. QED
    BY <1>3, <2>2 DEF Range
<1>8. s[m] <= r[n] /\ r[n] <= s[m] /\ s[m] \in Nat /\ r[n] \in Nat
  BY <1>3, <1>4, <1>5, <1>6, <1>7
<1>9. s[m] = r[n]
  BY <1>8
<1>10. QED
  BY <1>9 DEF s, r, m, n, f

-----------------------------------------------------------------------------
(* How far the calls of an end have come: the steps that are done, and its  *)
(* part of the current one.                                                 *)
Part(e, op) == IF op = "send" THEN handed[e] ELSE Len(taking[e])
Done(e, op) ==
  Upto(e, op)[pc[e]] + (IF op \in returned[e] THEN Size(e, op) ELSE Part(e, op))

(* No call has more than it was asked for; one that has returned has        *)
(* nothing in hand.                                                         *)
PartsOf(e) ==
  \A op \in Ops : /\ Part(e, op) <= Size(e, op)
                  /\ op \in returned[e] => Size(e, op) > 0 /\ Part(e, op) = 0

(* Every byte of an end is accounted for by its place in the program.       *)
TotalsOf(e) == /\ sent[e] = Done(e, "send")
               /\ Len(got[e]) + Len(taking[e]) = Done(e, "recv")

LEMMA ProgramFacts ==
  ASSUME NEW p \in Programs, NEW e \in Ends
  PROVE  /\ Len(p[e]) \in Nat
         /\ \A i \in 1 .. Len(p[e]) : \A op \in Ops : p[e][i][op] \in Nat
<1>1. p[e] \in Seq([Ops -> Nat])
  BY ProgramTypes
<1>2. \A i \in 1 .. Len(p[e]) : p[e][i] \in [Ops -> Nat]
  BY <1>1, ElementOfSeq
<1>3. QED
  BY <1>1, <1>2

LEMMA PartFacts ==
  ASSUME CallsTypeOK, NEW e \in Ends, NEW op \in Ops
  PROVE  /\ Part(e, op) \in Nat
         /\ Upto(e, op)[pc[e]] \in Nat
         /\ ~Over(e) => Upto(e, op)[pc[e] + 1] = Upto(e, op)[pc[e]] + Size(e, op)
<1>1. Part(e, op) \in Nat
  BY DEF Part, CallsTypeOK
<1>2. program \in Programs /\ pc[e] \in 0 .. Len(program[e]) /\ Len(program[e]) \in Nat
  BY ProgramFacts DEF CallsTypeOK
<1>3. Upto(e, op)[pc[e]] \in Nat
  BY <1>2, UptoFacts
<1>4. ~Over(e) => Upto(e, op)[pc[e] + 1] = Upto(e, op)[pc[e]] + Size(e, op)
  <2> SUFFICES ASSUME ~Over(e)
               PROVE  Upto(e, op)[pc[e] + 1] = Upto(e, op)[pc[e]] + Size(e, op)
    OBVIOUS
  <2>1. pc[e] + 1 \in 1 .. Len(program[e]) /\ pc[e] + 1 - 1 = pc[e]
    BY <1>2 DEF Over
  <2>2. Upto(e, op)[pc[e] + 1] = Upto(e, op)[pc[e] + 1 - 1] + program[e][pc[e] + 1][op]
    BY <1>2, <2>1, UptoFacts
  <2>3. QED
    BY <2>1, <2>2 DEF Size
<1>5. QED
  BY <1>1, <1>3, <1>4

(* An end has moved no more than its program says, all of it when it is     *)
(* through, and less while a call is not done.                              *)
LEMMA DoneBounds ==
  ASSUME CallsTypeOK, NEW e \in Ends, PartsOf(e), NEW op \in Ops
  PROVE  /\ Done(e, op) <= Upto(e, op)[Len(program[e])]
         /\ Over(e) => Done(e, op) = Upto(e, op)[Len(program[e])]
         /\ In(e, op) => Upto(e, op)[pc[e]] + Size(e, op) <= Upto(e, op)[Len(program[e])]
         /\ Done(e, op) \in Nat
<1> DEFINE L == Len(program[e])
           u == Upto(e, op)
           k == pc[e]
           s == Size(e, op)
           d == IF op \in returned[e] THEN s ELSE Part(e, op)
<1>1. program \in Programs /\ k \in 0 .. L /\ L \in Nat
  BY ProgramFacts DEF CallsTypeOK
<1>2. u[k] \in Nat /\ s \in Nat /\ d \in Nat /\ d <= s /\ u \in [0 .. L -> Nat]
  BY <1>1, SizeFacts, PartFacts, UptoFacts DEF PartsOf
<1>3. Done(e, op) = u[k] + d
  BY DEF Done
<1>4. CASE Over(e)
  <2>1. k = L /\ s = 0 /\ ~In(e, op)
    BY <1>4 DEF Over, Size, In
  <2> HIDE DEF L, u, k, s, d
  <2>2. d = 0
    BY <1>2, <2>1
  <2>3. Done(e, op) = u[L]
    BY <1>2, <1>3, <2>1, <2>2
  <2>4. Done(e, op) <= u[L] /\ Done(e, op) \in Nat
    BY <1>1, <1>2, <2>1, <2>3
  <2>5. QED
    BY <2>1, <2>3, <2>4 DEF L, u
<1>5. CASE ~Over(e)
  <2>1. k + 1 \in 0 .. L /\ L \in 0 .. L /\ k + 1 <= L
    BY <1>1, <1>5 DEF Over
  <2>2. u[k + 1] = u[k] + s /\ u[k + 1] <= u[L]
    <3>1. u[k + 1] = u[k] + s
      BY <1>5, PartFacts
    <3>2. u[k + 1] <= u[L]
      BY <1>1, <2>1, UptoGrows
    <3>3. QED
      BY <3>1, <3>2
  <2> HIDE DEF L, u, k, s, d
  <2>3. u[L] \in Nat /\ u[k] + s <= u[L]
    BY <1>2, <2>1, <2>2
  <2>4. u[k] + d <= u[L] /\ u[k] + d \in Nat
    BY <1>2, <2>3
  <2>5. QED
    BY <1>3, <1>5, <2>3, <2>4 DEF L, u, k, s
<1>6. QED
  BY <1>4, <1>5

(* A call that returns has moved its size; the call beside it stays where   *)
(* it is, also when the step is done.                                       *)
LEMMA ReturnsDone ==
  ASSUME CallsTypeOK, NEW e \in Ends, PartsOf(e), NEW op \in Ops,
         In(e, op), Returns(e, op), program' = program,
         Part(e, op)' = 0, \A o \in Ops : o # op => Part(e, o)' = Part(e, o)
  PROVE  /\ PartsOf(e)'
         /\ Done(e, op)' = Upto(e, op)[pc[e]] + Size(e, op)
         /\ \A o \in Ops : o # op => Done(e, o)' = Done(e, o)
<1>1. ~Over(e) /\ op \notin returned[e] /\ Size(e, op) > 0
  BY SizeFacts DEF In
<1>2. \A o \in Ops : /\ Size(e, o) \in Nat /\ Part(e, o) \in Nat
                     /\ Upto(e, o)[pc[e]] \in Nat
                     /\ Upto(e, o)[pc[e] + 1] = Upto(e, o)[pc[e]] + Size(e, o)
                     /\ Upto(e, o)' = Upto(e, o)
  BY <1>1, SizeFacts, PartFacts DEF Upto
<1>3. \A o \in Ops : /\ Part(e, o) <= Size(e, o)
                     /\ o \in returned[e] => Size(e, o) > 0 /\ Part(e, o) = 0
  BY DEF PartsOf
<1>4. /\ pc' \in [Ends -> Nat] /\ \A x \in Ends : pc'[x] <= Len(program[x])
      /\ \/ pc'[e] = pc[e] /\ returned'[e] = returned[e] \cup {op}
         \/ /\ pc'[e] = pc[e] + 1 /\ returned'[e] = {}
            /\ \A o \in Ops : Size(e, o) > 0 => o \in returned[e] \cup {op}
  BY ReturnsFacts
<1>5. \A o \in Ops : Size(e, o)' \in Nat
  <2>1. program \in Programs /\ Len(program[e]) \in Nat
        /\ \A i \in 1 .. Len(program[e]) : \A o \in Ops : program[e][i][o] \in Nat
    BY ProgramFacts DEF CallsTypeOK
  <2>2. ~Over(e)' => pc'[e] + 1 \in 1 .. Len(program[e])
    BY <1>4, <2>1 DEF Over
  <2>3. QED
    BY <2>1, <2>2 DEF Size
<1>6. CASE pc'[e] = pc[e] /\ returned'[e] = returned[e] \cup {op}
  <2>1. \A o \in Ops : Size(e, o)' = Size(e, o)
    BY <1>6, SameSize
  <2>2. PartsOf(e)'
    BY <1>1, <1>2, <1>3, <1>6, <2>1 DEF PartsOf
  <2>3. Done(e, op)' = Upto(e, op)[pc[e]] + Size(e, op)
    BY <1>2, <1>6, <2>1 DEF Done
  <2>4. \A o \in Ops : o # op => Done(e, o)' = Done(e, o)
    BY <1>2, <1>6, <2>1 DEF Done
  <2>5. QED
    BY <2>2, <2>3, <2>4
<1>7. CASE /\ pc'[e] = pc[e] + 1 /\ returned'[e] = {}
           /\ \A o \in Ops : Size(e, o) > 0 => o \in returned[e] \cup {op}
  <2>1. \A o \in Ops : Part(e, o)' = 0
    BY <1>2, <1>3, <1>7
  <2>2. PartsOf(e)'
    BY <1>5, <1>7, <2>1 DEF PartsOf
  <2>3. \A o \in Ops : Done(e, o)' = Upto(e, o)[pc[e]] + Size(e, o)
    BY <1>2, <1>7, <2>1 DEF Done
  <2>4. \A o \in Ops : o # op => Done(e, o) = Upto(e, o)[pc[e]] + Size(e, o)
    BY <1>2, <1>3, <1>7 DEF Done
  <2>5. QED
    BY <2>2, <2>3, <2>4
<1>8. QED
  BY <1>4, <1>6, <1>7

(* Nothing about the calls of an end changes.                               *)
LEMMA SameCalls ==
  ASSUME NEW e \in Ends, PartsOf(e), TotalsOf(e), program' = program,
         pc'[e] = pc[e], returned'[e] = returned[e], handed'[e] = handed[e],
         taking'[e] = taking[e], sent'[e] = sent[e], got'[e] = got[e]
  PROVE  PartsOf(e)' /\ TotalsOf(e)'
<1>1. \A op \in Ops : /\ Size(e, op)' = Size(e, op) /\ Part(e, op)' = Part(e, op)
                      /\ Done(e, op)' = Done(e, op)
  BY DEF Size, Over, Part, Done, Upto
<1>2. QED
  BY <1>1 DEF PartsOf, TotalsOf, Ops
=============================================================================
