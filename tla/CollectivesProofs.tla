------------------------- MODULE CollectivesProofs -------------------------
(* The collectives of both topologies, for any number of ranks, calls and   *)
(* crashes: the Sends and Recvs of every two ranks pair up, what a Recv     *)
(* reads is what the Send it is meant for has sent, two ranks never send to *)
(* each other at once, nothing is left on a stream, and no Barrier returns  *)
(* true before all ranks have entered it.                                   *)
EXTENDS CollectivePairs, SequenceTheorems, WellFoundedInduction, TLAPS

-----------------------------------------------------------------------------
(* Induction over the natural numbers, without an operator.                 *)
LEMMA LeastNat ==
  ASSUME NEW S, S \subseteq Nat, S # {}
  PROVE  \E x \in S : \A y \in S : x <= y
<1> DEFINE R == {ss \in Nat \X Nat : ss[1] < ss[2]}
<1>1. R = OpToRel(<, Nat)
  BY DEF OpToRel
<1>2. IsWellFoundedOn(R, Nat)
  BY <1>1, NatLessThanWellFounded
<1>3. PICK x \in S : \A y \in S : ~ (<<y, x>> \in R)
  <2> HIDE DEF R
  <2>1. QED
    BY <1>2, WFMin
<1>4. \A y \in S : ~ (y < x)
  <2> TAKE y \in S
  <2>1. y < x => <<y, x>> \in R
    OBVIOUS
  <2>2. QED
    BY <2>1, <1>3
<1>5. QED
  BY <1>4

(* Induction over a set.                                                    *)
LEMMA NatSteps ==
  ASSUME NEW S, 0 \in S, \A n \in Nat : n \in S => n + 1 \in S
  PROVE  Nat \subseteq S
<1> DEFINE Missing == Nat \ S
<1>1. SUFFICES ASSUME Missing # {} PROVE FALSE
  OBVIOUS
<1>2. Missing \subseteq Nat
  OBVIOUS
<1>3. PICK x \in Missing : \A y \in Missing : x <= y
  <2> HIDE DEF Missing
  <2>1. QED
    BY <1>1, <1>2, LeastNat
<1>4. x # 0 /\ x - 1 \in Nat
  OBVIOUS
<1>5. x - 1 \in S
  BY <1>3, <1>4
<1>6. x - 1 + 1 \in S /\ x - 1 + 1 = x
  BY <1>4, <1>5
<1>7. QED
  BY <1>6

-----------------------------------------------------------------------------
(* Sequences put end to end.                                                *)
Chain(g, n, s, X) ==
  /\ g \in [0 .. n -> Seq(X)] /\ g[0] = <<>>
  /\ \A i \in 1 .. n : g[i] = g[i - 1] \o s[i]

LEMMA ChainExists ==
  ASSUME NEW X, NEW L \in Nat, NEW s \in [1 .. L -> Seq(X)]
  PROVE  \E g : Chain(g, L, s, X)
<1> DEFINE S == {n \in Nat : n <= L => \E g : Chain(g, n, s, X)}
<1>1. 0 \in S
  <2>1. Chain([i \in 0 .. 0 |-> <<>>], 0, s, X)
    BY DEF Chain
  <2>2. QED
    BY <2>1
<1>2. ASSUME NEW n \in Nat, n \in S PROVE n + 1 \in S
  <2>1. SUFFICES ASSUME n + 1 <= L PROVE \E g : Chain(g, n + 1, s, X)
    OBVIOUS
  <2>2. PICK g : Chain(g, n, s, X)
    BY <1>2, <2>1
  <2>3. n + 1 \in 1 .. L /\ s[n + 1] \in Seq(X) /\ g[n] \in Seq(X)
    BY <2>1, <2>2 DEF Chain
  <2> DEFINE v == g[n] \o s[n + 1]
             h == [i \in 0 .. (n + 1) |-> IF i = n + 1 THEN v ELSE g[i]]
  <2>4. v \in Seq(X)
    BY <2>3, ConcatProperties
  <2>5. h \in [0 .. (n + 1) -> Seq(X)] /\ h[0] = <<>>
    <3> HIDE DEF v
    <3>1. QED
      BY <2>2, <2>4 DEF Chain
  <2>6. ASSUME NEW i \in 1 .. (n + 1) PROVE h[i] = h[i - 1] \o s[i]
    <3>1. CASE i = n + 1
      <4>1. h[n + 1] = v /\ h[n] = g[n] /\ i - 1 = n
        <5> HIDE DEF v
        <5>1. QED
          BY <3>1
      <4>2. QED
        BY <3>1, <4>1
    <3>2. CASE i # n + 1
      <4>1. i \in 1 .. n /\ i - 1 \in 0 .. (n + 1) /\ i - 1 # n + 1
        BY <3>2
      <4>2. h[i] = g[i] /\ h[i - 1] = g[i - 1]
        BY <3>2, <4>1
      <4>3. QED
        BY <2>2, <4>1, <4>2 DEF Chain
    <3>3. QED
      BY <3>1, <3>2
  <2> HIDE DEF h
  <2>7. Chain(h, n + 1, s, X)
    BY <2>5, <2>6 DEF Chain
  <2>8. QED
    BY <2>7
<1>3. Nat \subseteq S
  <2> HIDE DEF S
  <2>1. QED
    BY <1>1, <1>2, NatSteps
<1>4. QED
  BY <1>3

(* What JoinedUpto computes.                                                *)
LEMMA JoinedFacts ==
  ASSUME NEW X, NEW s \in Seq(Seq(X))
  PROVE  /\ JoinedUpto(s) \in [0 .. Len(s) -> Seq(X)]
         /\ JoinedUpto(s)[0] = <<>>
         /\ \A i \in 1 .. Len(s) : JoinedUpto(s)[i] = JoinedUpto(s)[i - 1] \o s[i]
<1> DEFINE L == Len(s)
           F(f) == [i \in 0 .. L |-> IF i = 0 THEN <<>> ELSE f[i - 1] \o s[i]]
           u == JoinedUpto(s)
<1>1. L \in Nat /\ s \in [1 .. L -> Seq(X)]
  OBVIOUS
<1>2. PICK g : Chain(g, L, s, X)
  <2> HIDE DEF L
  <2>1. QED
    BY <1>1, ChainExists
<1>3. /\ g \in [0 .. L -> Seq(X)] /\ g[0] = <<>>
      /\ \A i \in 1 .. L : g[i] = g[i - 1] \o s[i]
  BY <1>2 DEF Chain
<1>4. g = F(g)
  <2> HIDE DEF L
  <2>1. \A i \in 0 .. L : g[i] = F(g)[i]
    <3> TAKE i \in 0 .. L
    <3>1. i = 0 \/ i \in 1 .. L
      BY <1>1
    <3>2. QED
      BY <1>1, <1>3, <3>1
  <2>2. QED
    BY <1>3, <2>1
<1>5. u = CHOOSE f : f = F(f)
  BY DEF JoinedUpto
<1> HIDE DEF u, F
<1>6. u = F(u)
  BY <1>4, <1>5
<1>7. u = g
  <2> DEFINE S == {n \in Nat : n <= L => u[n] = g[n]}
  <2>1. 0 \in S
    BY <1>1, <1>3, <1>6 DEF F
  <2>2. ASSUME NEW n \in Nat, n \in S PROVE n + 1 \in S
    <3>1. SUFFICES ASSUME n + 1 <= L PROVE u[n + 1] = g[n + 1]
      OBVIOUS
    <3>2. u[n] = g[n]
      BY <1>1, <2>2, <3>1
    <3> DEFINE j == n + 1
    <3>3. j \in 1 .. L /\ j - 1 = n /\ j # 0 /\ j \in 0 .. L
      BY <1>1, <3>1
    <3> HIDE DEF L, j
    <3>4. u[j] = u[n] \o s[j]
      <4>1. u[j] = F(u)[j]
        BY <1>6
      <4>2. F(u)[j] = u[j - 1] \o s[j]
        BY <3>3 DEF F
      <4>3. QED
        BY <3>3, <4>1, <4>2
    <3>5. g[j] = g[n] \o s[j]
      BY <1>3, <3>3
    <3>7. u[j] = g[j]
      BY <3>2, <3>4, <3>5
    <3>6. QED
      BY <3>7 DEF j
  <2>3. Nat \subseteq S
    <3> HIDE DEF S
    <3>1. QED
      BY <2>1, <2>2, NatSteps
  <2>4. \A i \in 0 .. L : u[i] = g[i]
    BY <1>1, <2>3
  <2>5. u = [i \in 0 .. L |-> u[i]]
    BY <1>6 DEF F
  <2>6. QED
    BY <1>3, <2>4, <2>5
<1>8. QED
  BY <1>3, <1>7 DEF u

(* What is joined stays where it is when more is joined to it.              *)
LEMMA JoinedGrows ==
  ASSUME NEW X, NEW s \in Seq(Seq(X)), NEW i \in 0 .. Len(s), NEW j \in i .. Len(s)
  PROVE  /\ Len(JoinedUpto(s)[i]) <= Len(JoinedUpto(s)[j])
         /\ \A k \in 1 .. Len(JoinedUpto(s)[i]) : JoinedUpto(s)[j][k] = JoinedUpto(s)[i][k]
<1> DEFINE L == Len(s)
           u == JoinedUpto(s)
           Grown(d) == /\ Len(u[i]) <= Len(u[i + d])
                       /\ \A k \in 1 .. Len(u[i]) : u[i + d][k] = u[i][k]
           S == {d \in Nat : i + d <= L => Grown(d)}
<1>1. L \in Nat /\ i \in 0 .. L /\ j \in i .. L
  OBVIOUS
<1>2. /\ u \in [0 .. L -> Seq(X)]
      /\ \A n \in 1 .. L : u[n] = u[n - 1] \o s[n]
      /\ \A n \in 1 .. L : s[n] \in Seq(X)
  <2>1. \A n \in 1 .. L : s[n] \in Seq(X)
    BY ElementOfSeq
  <2>2. QED
    BY <2>1, JoinedFacts
<1> HIDE DEF L, u
<1>3. 0 \in S
  <2>1. i + 0 = i /\ Len(u[i]) \in Nat
    BY <1>1, <1>2
  <2>2. Grown(0)
    BY <2>1
  <2>3. QED
    BY <2>2
<1>4. ASSUME NEW d \in Nat, d \in S PROVE d + 1 \in S
  <2>1. SUFFICES ASSUME i + (d + 1) <= L PROVE Grown(d + 1)
    OBVIOUS
  <2> DEFINE m == i + (d + 1)
  <2>2. m \in 1 .. L /\ m - 1 = i + d /\ i + d \in 0 .. L
    BY <1>1, <2>1
  <2>3. Grown(d)
    BY <1>1, <1>4, <2>1
  <2> HIDE DEF m
  <2>4. u[m] = u[i + d] \o s[m] /\ u[i + d] \in Seq(X) /\ s[m] \in Seq(X)
    BY <1>2, <2>2
  <2>5. /\ Len(u[m]) = Len(u[i + d]) + Len(s[m]) /\ Len(u[i + d]) \in Nat /\ Len(s[m]) \in Nat
        /\ \A k \in 1 .. Len(u[i + d]) : u[m][k] = u[i + d][k]
    <3> DEFINE v == u[i + d]
               w == s[m]
    <3>1. v \in Seq(X) /\ w \in Seq(X) /\ u[m] = v \o w
      BY <2>4
    <3> HIDE DEF v, w
    <3>2. /\ Len(v \o w) = Len(v) + Len(w) /\ Len(v) \in Nat /\ Len(w) \in Nat
          /\ \A k \in 1 .. Len(v) + Len(w) : (v \o w)[k] = IF k <= Len(v) THEN v[k] ELSE w[k - Len(v)]
      BY <3>1, ConcatProperties
    <3>3. \A k \in 1 .. Len(v) : k \in 1 .. Len(v) + Len(w) /\ k <= Len(v)
      BY <3>2
    <3>4. QED
      BY <3>1, <3>2, <3>3 DEF v, w
  <2>6. Len(u[i]) \in Nat
    BY <1>1, <1>2
  <2>7. Len(u[i]) <= Len(u[m]) /\ \A k \in 1 .. Len(u[i]) : k \in 1 .. Len(u[i + d])
    <3> DEFINE x == Len(u[i])
               y == Len(u[i + d])
               e == Len(s[m])
    <3>1. x \in Nat /\ y \in Nat /\ e \in Nat /\ x <= y /\ Len(u[m]) = y + e
      BY <2>3, <2>5, <2>6
    <3> HIDE DEF x, y, e
    <3>2. x <= Len(u[m]) /\ \A k \in 1 .. x : k \in 1 .. y
      BY <3>1
    <3>3. QED
      BY <3>2 DEF x, y
  <2>8. \A k \in 1 .. Len(u[i]) : u[m][k] = u[i][k]
    BY <2>3, <2>5, <2>7
  <2>9. QED
    BY <2>7, <2>8 DEF m
<1>5. Nat \subseteq S
  <2> HIDE DEF S
  <2>1. QED
    BY <1>3, <1>4, NatSteps
<1>6. j - i \in Nat /\ i + (j - i) = j
  BY <1>1
<1>7. Grown(j - i)
  BY <1>1, <1>5, <1>6
<1>8. QED
  BY <1>6, <1>7 DEF u

LEMMA JoinedType ==
  ASSUME NEW X, NEW s \in Seq(Seq(X))
  PROVE  /\ Joined(s) \in Seq(X) /\ Joined(s) = JoinedUpto(s)[Len(s)]
         /\ JoinedUpto(s)[0] = <<>>
         /\ \A i \in 0 .. Len(s) : /\ JoinedUpto(s)[i] \in Seq(X)
                                  /\ Len(JoinedUpto(s)[i]) \in Nat
                                  /\ Len(JoinedUpto(s)[i]) <= Len(Joined(s))
<1> DEFINE L == Len(s)
           u == JoinedUpto(s)
<1>1. u \in [0 .. L -> Seq(X)] /\ u[0] = <<>>
  BY JoinedFacts
<1>2. L \in Nat /\ \A i \in 0 .. L : L \in i .. L
  OBVIOUS
<1>3. Joined(s) = u[L]
  BY DEF Joined
<1>4. \A i \in 0 .. L : Len(u[i]) <= Len(u[L])
  BY <1>2, JoinedGrows
<1> HIDE DEF L, u
<1>5. \A i \in 0 .. L : u[i] \in Seq(X) /\ Len(u[i]) \in Nat
  BY <1>1
<1>6. QED
  BY <1>1, <1>2, <1>3, <1>4, <1>5 DEF L, u

(* Where the elements of the i-th sequence are.                             *)
LEMMA JoinedPart ==
  ASSUME NEW X, NEW s \in Seq(Seq(X)), NEW i \in 1 .. Len(s)
  PROVE  /\ Joined(s) \in Seq(X) /\ JoinedUpto(s)[i - 1] \in Seq(X)
         /\ Len(JoinedUpto(s)[i]) = Len(JoinedUpto(s)[i - 1]) + Len(s[i])
         /\ Len(JoinedUpto(s)[i]) <= Len(Joined(s))
         /\ \A k \in 1 .. Len(s[i]) :
              /\ Len(JoinedUpto(s)[i - 1]) + k \in 1 .. Len(Joined(s))
              /\ Joined(s)[Len(JoinedUpto(s)[i - 1]) + k] = s[i][k]
<1> DEFINE L == Len(s)
           u == JoinedUpto(s)
           v == u[i - 1]
           w == s[i]
           z == Joined(s)
<1>1. L \in Nat /\ i \in 1 .. L /\ i - 1 \in 0 .. L /\ i \in 0 .. L /\ L \in i .. L /\ L \in 0 .. L
  OBVIOUS
<1>2. /\ u \in [0 .. L -> Seq(X)]
      /\ u[i] = v \o w /\ w \in Seq(X)
  <2>1. w \in Seq(X)
    BY <1>1, ElementOfSeq
  <2>2. u \in [0 .. L -> Seq(X)] /\ u[i] = v \o w
    BY <1>1, JoinedFacts
  <2>3. QED
    BY <2>1, <2>2
<1>3. z = u[L]
  BY DEF Joined
<1>4. /\ Len(u[i]) <= Len(u[L])
      /\ \A k \in 1 .. Len(u[i]) : u[L][k] = u[i][k]
  BY <1>1, JoinedGrows
<1> HIDE DEF L, u
<1>5. v \in Seq(X) /\ z \in Seq(X)
  BY <1>1, <1>2, <1>3
<1> HIDE DEF v, w, z
<1>6. /\ Len(u[i]) = Len(v) + Len(w) /\ Len(v) \in Nat /\ Len(w) \in Nat
      /\ \A k \in 1 .. Len(v) + Len(w) : u[i][k] = IF k <= Len(v) THEN v[k] ELSE w[k - Len(v)]
  BY <1>2, <1>5, ConcatProperties
<1>7. Len(z) \in Nat /\ Len(u[i]) <= Len(z)
  BY <1>3, <1>4, <1>5
<1>8. ASSUME NEW k \in 1 .. Len(w)
      PROVE  Len(v) + k \in 1 .. Len(z) /\ z[Len(v) + k] = w[k]
  <2> DEFINE m == Len(v) + k
  <2>1. m \in 1 .. Len(v) + Len(w) /\ ~(m <= Len(v)) /\ m - Len(v) = k /\ m \in 1 .. Len(u[i]) /\ m \in 1 .. Len(z)
    BY <1>6, <1>7
  <2> HIDE DEF m
  <2>2. u[i][m] = w[k]
    BY <1>6, <2>1
  <2>3. z[m] = u[i][m]
    BY <1>3, <1>4, <2>1
  <2>4. QED
    BY <2>1, <2>2, <2>3 DEF m
<1>9. QED
  BY <1>5, <1>6, <1>7, <1>8 DEF u, v, w, z

-----------------------------------------------------------------------------
(* What a program says to each rank, and that every two ranks' programs     *)
(* say it to each other.                                                    *)
Message == [dir : {"send", "recv"}, len : Nat \ {0}]

(* A step whose transport calls go to ranks of Q, each to another one, with *)
(* one Recv at most among them; and a sequence of such steps.               *)
Good(x, Q) ==
  /\ \A p \in x.parts : /\ p.dir \in {"send", "recv"} /\ p.peer \in Q
                        /\ Len(p.slots) \in Nat \ {0}
  /\ \A p, q \in x.parts : p.peer = q.peer => p = q
  /\ \A p, q \in x.parts : p.dir = "recv" /\ q.dir = "recv" => p = q
Fine(s, Q) == \E X : s \in Seq(X) /\ \A x \in X : Good(x, Q)

(* What a sequence of steps says to q, and when two ranks' steps match.     *)
Speak(s, q) == Joined([i \in 1 .. Len(s) |-> Said(s[i], q)])
Two(x, y) == <<x, y>>
Say(d, n) == <<[dir |-> d, len |-> n]>>
Straight(s, n, Q) == s = [k \in 1 .. n |-> s[k]] /\ \A k \in 1 .. n : Good(s[k], Q)
Loop(R, n, Q) == R = [k \in 1 .. n |-> R[k]] /\ \A k \in 1 .. n : Fine(R[k], Q)
Saids(s, n, q) == [k \in 1 .. n |-> Said(s[k], q)]
Turns(R, n, q) == [k \in 1 .. n |-> Speak(R[k], q)]
Match(s, a, t, b) == Mirror(Speak(s, b), Speak(t, a))

-----------------------------------------------------------------------------
(* Sequences put end to end: only JoinedUpto grows as it does.              *)
LEMMA JoinedUnique ==
  ASSUME NEW X, NEW s \in Seq(Seq(X)), NEW g, Chain(g, Len(s), s, X)
  PROVE  Joined(s) = g[Len(s)]
<1> DEFINE L == Len(s)
           u == JoinedUpto(s)
           S == {n \in Nat : n <= L => u[n] = g[n]}
<1>1. L \in Nat
  OBVIOUS
<1>2. /\ g[0] = <<>> /\ \A i \in 1 .. L : g[i] = g[i - 1] \o s[i]
      /\ u[0] = <<>> /\ \A i \in 1 .. L : u[i] = u[i - 1] \o s[i]
  BY JoinedFacts DEF Chain
<1>3. Joined(s) = u[L]
  BY DEF Joined
<1> HIDE DEF L, u
<1>4. 0 \in S
  BY <1>2
<1>5. ASSUME NEW n \in Nat, n \in S PROVE n + 1 \in S
  <2>1. SUFFICES ASSUME n + 1 <= L PROVE u[n + 1] = g[n + 1]
    OBVIOUS
  <2> DEFINE j == n + 1
  <2>2. j \in 1 .. L /\ j - 1 = n /\ n <= L
    BY <1>1, <2>1
  <2>3. u[n] = g[n]
    BY <1>5, <2>2
  <2> HIDE DEF j
  <2>4. u[j] = g[j]
    BY <1>2, <2>2, <2>3
  <2>5. QED
    BY <2>4 DEF j
<1>6. Nat \subseteq S
  <2> HIDE DEF S
  <2>1. QED
    BY <1>4, <1>5, NatSteps
<1>7. u[L] = g[L]
  BY <1>1, <1>6
<1>8. QED
  BY <1>3, <1>7 DEF L

LEMMA JoinedConcat ==
  ASSUME NEW X, NEW s \in Seq(Seq(X)), NEW t \in Seq(Seq(X))
  PROVE  Joined(s \o t) = Joined(s) \o Joined(t)
<1> DEFINE m == Len(s)
           n == Len(t)
           u == JoinedUpto(s)
           v == JoinedUpto(t)
           w == s \o t
           g == [i \in 0 .. (m + n) |-> IF i <= m THEN u[i] ELSE u[m] \o v[i - m]]
<1>1. m \in Nat /\ n \in Nat
  OBVIOUS
<1>2. /\ u \in [0 .. m -> Seq(X)] /\ u[0] = <<>> /\ \A i \in 1 .. m : u[i] = u[i - 1] \o s[i]
      /\ v \in [0 .. n -> Seq(X)] /\ v[0] = <<>> /\ \A i \in 1 .. n : v[i] = v[i - 1] \o t[i]
  BY JoinedFacts
<1>3. w \in Seq(Seq(X)) /\ Len(w) = m + n /\ \A i \in 1 .. m + n : w[i] = IF i <= m THEN s[i] ELSE t[i - m]
  BY ConcatProperties
<1>4. \A i \in 1 .. n : t[i] \in Seq(X)
  BY ElementOfSeq
<1>5. Joined(s) = u[m] /\ Joined(t) = v[n]
  BY DEF Joined
<1> HIDE DEF m, n, u, v, w
<1>6. g \in [0 .. (m + n) -> Seq(X)] /\ g[0] = <<>>
  <2>1. \A i \in 0 .. (m + n) : (IF i <= m THEN u[i] ELSE u[m] \o v[i - m]) \in Seq(X)
    <3> TAKE i \in 0 .. (m + n)
    <3>1. CASE i <= m
      <4>1. i \in 0 .. m
        BY <1>1, <3>1
      <4>2. QED
        BY <1>2, <3>1, <4>1
    <3>2. CASE ~(i <= m)
      <4>1. i - m \in 0 .. n /\ m \in 0 .. m
        BY <1>1, <3>2
      <4>2. u[m] \in Seq(X) /\ v[i - m] \in Seq(X)
        BY <1>2, <4>1
      <4>3. u[m] \o v[i - m] \in Seq(X)
        BY <4>2, ConcatProperties
      <4>4. QED
        BY <3>2, <4>3
    <3>3. QED
      BY <3>1, <3>2
  <2>2. QED
    BY <1>1, <1>2, <2>1
<1>7. ASSUME NEW i \in 1 .. (m + n) PROVE g[i] = g[i - 1] \o w[i]
  <2>1. CASE i <= m
    <3>1. i \in 1 .. m /\ i - 1 <= m /\ i - 1 \in 0 .. (m + n) /\ i \in 0 .. (m + n)
      BY <1>1, <2>1
    <3>2. QED
      BY <1>2, <1>3, <2>1, <3>1
  <2>2. CASE ~(i <= m)
    <3> DEFINE d == i - m
    <3>1. d \in 1 .. n /\ d - 1 = i - 1 - m /\ i \in 0 .. (m + n) /\ i - 1 \in 0 .. (m + n) /\ m \in 0 .. m /\ d - 1 \in 0 .. n
      BY <1>1, <2>2
    <3>2. g[i] = u[m] \o v[d] /\ w[i] = t[d]
      BY <1>3, <2>2, <3>1
    <3>3. g[i - 1] = u[m] \o v[d - 1]
      <4>1. CASE i - 1 <= m
        <5>1. i - 1 = m /\ d - 1 = 0
          BY <1>1, <2>2, <4>1
        <5>2. g[i - 1] = u[m] /\ u[m] \in Seq(X)
          BY <1>2, <3>1, <5>1
        <5>3. u[m] \o <<>> = u[m]
          BY <5>2, ConcatEmptySeq
        <5>4. QED
          BY <1>2, <5>1, <5>2, <5>3
      <4>2. CASE ~(i - 1 <= m)
        BY <3>1, <4>2
      <4>3. QED
        BY <4>1, <4>2
    <3> HIDE DEF d, g
    <3>4. v[d] = v[d - 1] \o t[d] /\ v[d - 1] \in Seq(X) /\ u[m] \in Seq(X) /\ t[d] \in Seq(X)
      BY <1>2, <1>4, <3>1
    <3>5. (u[m] \o v[d - 1]) \o t[d] = u[m] \o (v[d - 1] \o t[d])
      <4> DEFINE p == u[m]
                 q == v[d - 1]
                 r == t[d]
      <4>1. p \in Seq(X) /\ q \in Seq(X) /\ r \in Seq(X)
        BY <3>4
      <4> HIDE DEF p, q, r
      <4>2. (p \o q) \o r = p \o (q \o r)
        BY ONLY <4>1, ConcatAssociative, SMTT(20)
      <4>3. QED
        BY <4>2 DEF p, q, r
    <3>6. QED
      BY <3>2, <3>3, <3>4, <3>5
  <2>3. QED
    BY <2>1, <2>2
<1>8. Chain(g, Len(w), w, X)
  <2> HIDE DEF g
  <2>1. QED
    BY <1>3, <1>6, <1>7 DEF Chain
<1>9. g[m + n] = u[m] \o v[n]
  <2>1. CASE n = 0
    <3>1. u[m] \in Seq(X)
      BY <1>1, <1>2
    <3>2. u[m] \o <<>> = u[m]
      BY <3>1, ConcatEmptySeq
    <3>3. QED
      BY <1>1, <1>2, <2>1, <3>2
  <2>2. CASE n # 0
    <3> DEFINE e == m + n
    <3>1. ~(e <= m) /\ e - m = n /\ e \in 0 .. (m + n)
      BY <1>1, <2>2
    <3> HIDE DEF e
    <3>2. g[e] = u[m] \o v[n]
      BY <3>1
    <3>3. QED
      BY <3>2 DEF e
  <2>3. QED
    BY <2>1, <2>2
<1> HIDE DEF g
<1>10. Joined(w) = g[m + n]
  BY <1>3, <1>8, JoinedUnique
<1>11. QED
  BY <1>5, <1>9, <1>10 DEF w

(* When at most one of the sequences is not empty.                          *)
LEMMA JoinedSingle ==
  ASSUME NEW X, NEW s \in Seq(Seq(X)), NEW j \in 1 .. Len(s),
         \A i \in 1 .. Len(s) : i # j => s[i] = <<>>
  PROVE  Joined(s) = s[j]
<1> DEFINE L == Len(s)
           x == s[j]
           g == [i \in 0 .. L |-> IF i < j THEN <<>> ELSE x]
<1>1. L \in Nat /\ x \in Seq(X) /\ j \in 1 .. L /\ \A i \in 1 .. L : i # j => s[i] = <<>>
  BY ElementOfSeq
<1>2. x \o <<>> = x /\ <<>> \o x = x
  BY <1>1, ConcatEmptySeq
<1>3. <<>> \in Seq(X) /\ <<>> \o <<>> = <<>>
  BY ConcatEmptySeq, EmptySeq
<1>4. s[j] = x
  OBVIOUS
<1> HIDE DEF L, x
<1>5. g \in [0 .. L -> Seq(X)] /\ g[0] = <<>> /\ g[L] = x
  BY <1>1, <1>3
<1>6. ASSUME NEW i \in 1 .. L PROVE g[i] = g[i - 1] \o s[i]
  <2>0. i \in 0 .. L /\ i - 1 \in 0 .. L /\ i \in Int
    BY <1>1
  <2>1. CASE i < j
    <3>1. i - 1 < j /\ i # j
      BY <1>1, <2>0, <2>1
    <3>2. g[i] = <<>> /\ g[i - 1] = <<>> /\ s[i] = <<>>
      BY <1>1, <2>0, <2>1, <3>1
    <3>3. QED
      BY <1>3, <3>2
  <2>2. CASE i = j
    <3>1. ~(i < j) /\ i - 1 < j
      BY <1>1, <2>0, <2>2
    <3>2. g[i] = x /\ g[i - 1] = <<>> /\ s[i] = x
      BY <1>4, <2>0, <2>2, <3>1
    <3>3. QED
      BY <1>2, <3>2
  <2>3. CASE i > j
    <3>1. ~(i < j) /\ ~(i - 1 < j) /\ i # j
      BY <1>1, <2>0, <2>3
    <3>2. g[i] = x /\ g[i - 1] = x /\ s[i] = <<>>
      BY <1>1, <2>0, <3>1
    <3>3. QED
      BY <1>2, <3>2
  <2> HIDE DEF g
  <2>4. i < j \/ i = j \/ i > j
    BY <1>1, <2>0
  <2>5. QED
    BY <2>1, <2>2, <2>3, <2>4
<1> HIDE DEF g
<1>7. Chain(g, Len(s), s, X)
  BY <1>5, <1>6 DEF Chain, L
<1>8. QED
  BY <1>5, <1>7, JoinedUnique DEF L, x

LEMMA JoinedEmpty ==
  ASSUME NEW X, NEW s \in Seq(Seq(X)), \A i \in 1 .. Len(s) : s[i] = <<>>
  PROVE  Joined(s) = <<>>
<1> DEFINE L == Len(s)
           g == [i \in 0 .. L |-> <<>>]
<1>1. L \in Nat /\ \A i \in 1 .. L : s[i] = <<>>
  OBVIOUS
<1>3. <<>> \in Seq(X) /\ <<>> \o <<>> = <<>>
  BY ConcatEmptySeq, EmptySeq
<1> HIDE DEF L
<1>5. g \in [0 .. L -> Seq(X)] /\ g[0] = <<>> /\ g[L] = <<>>
  BY <1>1, <1>3
<1>6. ASSUME NEW i \in 1 .. L PROVE g[i] = g[i - 1] \o s[i]
  <2>1. i \in 0 .. L /\ i - 1 \in 0 .. L
    BY <1>1
  <2>2. QED
    BY <1>1, <1>3, <2>1
<1> HIDE DEF g
<1>7. Chain(g, Len(s), s, X)
  BY <1>5, <1>6 DEF Chain, L
<1>8. QED
  BY <1>5, <1>7, JoinedUnique DEF L

(* Sequences of one element each.                                           *)
LEMMA JoinedOnes ==
  ASSUME NEW X, NEW n \in Nat, NEW x \in [1 .. n -> X]
  PROVE  Joined([i \in 1 .. n |-> <<x[i]>>]) = x
<1> DEFINE s == [i \in 1 .. n |-> <<x[i]>>]
           f(k) == [i \in 1 .. k |-> x[i]]
           g == [k \in 0 .. n |-> f(k)]
<1>1. s \in Seq(Seq(X)) /\ Len(s) = n
  OBVIOUS
<1>2. \A k \in 0 .. n : f(k) \in Seq(X)
  OBVIOUS
<1>3. f(0) = <<>> /\ f(n) = x
  OBVIOUS
<1>4. ASSUME NEW k \in 1 .. n PROVE f(k) = f(k - 1) \o <<x[k]>>
  <2> DEFINE z == x[k]
             c == f(k - 1) \o <<z>>
  <2>1. /\ f(k - 1) \in Seq(X) /\ Len(f(k - 1)) = k - 1 /\ <<z>> \in Seq(X) /\ Len(<<z>>) = 1
        /\ f(k) \in Seq(X) /\ Len(f(k)) = k
    OBVIOUS
  <2>2. /\ c \in Seq(X) /\ Len(c) = k - 1 + 1
        /\ \A i \in 1 .. k - 1 + 1 : c[i] = IF i <= k - 1 THEN f(k - 1)[i] ELSE <<z>>[i - (k - 1)]
    BY <2>1, ConcatProperties
  <2>3. ASSUME NEW i \in 1 .. k PROVE c[i] = x[i]
    <3>1. CASE i <= k - 1
      BY <2>2, <3>1
    <3>2. CASE i = k
      BY <2>2, <3>2
    <3>3. QED
      BY <3>1, <3>2
  <2>4. \A i \in 1 .. k : f(k)[i] = x[i]
    OBVIOUS
  <2> HIDE DEF c, f
  <2>5. Len(c) = Len(f(k)) /\ \A i \in 1 .. Len(c) : c[i] = f(k)[i]
    BY <2>1, <2>2, <2>3, <2>4
  <2>6. c = f(k)
    BY <2>1, <2>2, <2>5, SeqEqual
  <2>7. QED
    BY <2>6 DEF c
<1>5. \A i \in 1 .. n : s[i] = <<x[i]>>
  OBVIOUS
<1> HIDE DEF s, f
<1>6. g \in [0 .. n -> Seq(X)] /\ g[0] = <<>>
  BY <1>2, <1>3
<1>7. \A i \in 1 .. n : g[i] = g[i - 1] \o s[i]
  <2> TAKE i \in 1 .. n
  <2>1. i \in 0 .. n /\ i - 1 \in 0 .. n
    OBVIOUS
  <2>2. QED
    BY <1>4, <1>5, <2>1
<1>8. g[n] = f(n)
  OBVIOUS
<1> HIDE DEF g
<1>9. Joined(s) = g[n]
  BY <1>1, <1>6, <1>7, JoinedUnique DEF Chain
<1>10. QED
  BY <1>3, <1>8, <1>9 DEF s

LEMMA JoinedRepeat ==
  ASSUME NEW X, NEW n \in Nat, NEW x \in X
  PROVE  Joined([i \in 1 .. n |-> <<x>>]) = [i \in 1 .. n |-> x]
<1> DEFINE f == [i \in 1 .. n |-> x]
<1>1. f \in [1 .. n -> X] /\ [i \in 1 .. n |-> <<x>>] = [i \in 1 .. n |-> <<f[i]>>]
  OBVIOUS
<1> HIDE DEF f
<1>2. QED
  BY <1>1, JoinedOnes DEF f

-----------------------------------------------------------------------------
(* Two sides of an exchange, put end to end.                                *)
LEMMA MirrorConcat ==
  ASSUME NEW x \in Seq(Message), NEW y \in Seq(Message), NEW v \in Seq(Message), NEW w \in Seq(Message),
         Mirror(x, y), Mirror(v, w)
  PROVE  Mirror(x \o v, y \o w)
<1> DEFINE n == Len(x)
           d == Len(v)
           xv == x \o v
           yw == y \o w
<1>1. n \in Nat /\ d \in Nat /\ n = Len(y) /\ d = Len(w)
  BY DEF Mirror
<1>2. /\ Len(xv) = n + d /\ Len(yw) = n + d
      /\ \A k \in 1 .. n + d : xv[k] = IF k <= n THEN x[k] ELSE v[k - n]
      /\ \A k \in 1 .. n + d : yw[k] = IF k <= n THEN y[k] ELSE w[k - n]
  <2>1. Len(xv) = n + d /\ \A k \in 1 .. n + d : xv[k] = IF k <= n THEN x[k] ELSE v[k - n]
    BY ConcatProperties
  <2>2. /\ Len(yw) = Len(y) + Len(w)
        /\ \A k \in 1 .. Len(y) + Len(w) : yw[k] = IF k <= Len(y) THEN y[k] ELSE w[k - Len(y)]
    BY ConcatProperties
  <2> HIDE DEF n, d, xv, yw
  <2>3. QED
    BY <1>1, <2>1, <2>2
<1>3. /\ \A k \in 1 .. n : x[k].len = y[k].len /\ x[k].dir # y[k].dir
      /\ \A k \in 1 .. d : v[k].len = w[k].len /\ v[k].dir # w[k].dir
  BY DEF Mirror
<1> HIDE DEF n, d, xv, yw
<1>4. ASSUME NEW k \in 1 .. n + d
      PROVE  xv[k].len = yw[k].len /\ xv[k].dir # yw[k].dir
  <2>1. CASE k <= n
    <3>1. k \in 1 .. n /\ xv[k] = x[k] /\ yw[k] = y[k]
      BY <1>1, <1>2, <2>1
    <3>2. QED
      BY <1>3, <3>1
  <2>2. CASE ~(k <= n)
    <3>1. k - n \in 1 .. d /\ xv[k] = v[k - n] /\ yw[k] = w[k - n]
      BY <1>1, <1>2, <2>2
    <3>2. QED
      BY <1>3, <3>1
  <2>3. QED
    BY <2>1, <2>2
<1>5. Mirror(xv, yw)
  BY <1>2, <1>4 DEF Mirror
<1>6. QED
  BY <1>5 DEF xv, yw

LEMMA MirrorJoined ==
  ASSUME NEW s \in Seq(Seq(Message)), NEW t \in Seq(Seq(Message)), Len(s) = Len(t),
         \A i \in 1 .. Len(s) : Mirror(s[i], t[i])
  PROVE  Mirror(Joined(s), Joined(t))
<1> DEFINE L == Len(s)
           u == JoinedUpto(s)
           v == JoinedUpto(t)
           S == {n \in Nat : n <= L => Mirror(u[n], v[n])}
<1>1. L \in Nat /\ L = Len(t) /\ \A i \in 1 .. L : Mirror(s[i], t[i])
  OBVIOUS
<1>2. /\ u \in [0 .. L -> Seq(Message)] /\ u[0] = <<>> /\ \A i \in 1 .. L : u[i] = u[i - 1] \o s[i]
      /\ v \in [0 .. L -> Seq(Message)] /\ v[0] = <<>> /\ \A i \in 1 .. L : v[i] = v[i - 1] \o t[i]
  BY JoinedFacts
<1>3. \A i \in 1 .. L : s[i] \in Seq(Message) /\ t[i] \in Seq(Message)
  BY ElementOfSeq
<1>4. Joined(s) = u[L] /\ Joined(t) = v[L]
  BY <1>1 DEF Joined
<1> HIDE DEF L, u, v
<1>5. 0 \in S
  <2>1. Mirror(<<>>, <<>>)
    BY DEF Mirror
  <2>2. QED
    BY <1>2, <2>1
<1>6. ASSUME NEW n \in Nat, n \in S PROVE n + 1 \in S
  <2>1. SUFFICES ASSUME n + 1 <= L PROVE Mirror(u[n + 1], v[n + 1])
    OBVIOUS
  <2> DEFINE j == n + 1
  <2>2. j \in 1 .. L /\ j - 1 = n /\ n <= L /\ n \in 0 .. L
    BY <1>1, <2>1
  <2>3. Mirror(u[n], v[n])
    BY <1>6, <2>2
  <2> HIDE DEF j
  <2>4. u[j] = u[n] \o s[j] /\ v[j] = v[n] \o t[j]
    BY <1>2, <2>2
  <2>5. u[n] \in Seq(Message) /\ v[n] \in Seq(Message) /\ s[j] \in Seq(Message) /\ t[j] \in Seq(Message) /\ Mirror(s[j], t[j])
    BY <1>1, <1>2, <1>3, <2>2
  <2>6. Mirror(u[n] \o s[j], v[n] \o t[j])
    BY <2>3, <2>5, MirrorConcat
  <2>7. QED
    BY <2>4, <2>6 DEF j
<1>7. Nat \subseteq S
  <2> HIDE DEF S
  <2>1. QED
    BY <1>5, <1>6, NatSteps
<1>8. Mirror(u[L], v[L])
  BY <1>1, <1>7
<1>9. QED
  BY <1>4, <1>8

LEMMA MirrorBack ==
  ASSUME NEW x, NEW y, Mirror(x, y)
  PROVE  Mirror(y, x)
  BY DEF Mirror

-----------------------------------------------------------------------------
(* Steps and sequences of steps.                                            *)
LEMMA GoodSaid ==
  ASSUME NEW Q, NEW x, Good(x, Q), NEW q
  PROVE  /\ Said(x, q) \in Seq(Message)
         /\ (\A p \in x.parts : p.peer # q) => Said(x, q) = <<>>
         /\ q \notin Q => Said(x, q) = <<>>
         /\ \A p \in x.parts : p.peer = q => Said(x, q) = <<[dir |-> p.dir, len |-> Len(p.slots)]>>
<1> DEFINE parts == x.parts
<1>1. /\ \A p \in parts : p.dir \in {"send", "recv"} /\ p.peer \in Q /\ Len(p.slots) \in Nat \ {0}
      /\ \A p, y \in parts : p.peer = y.peer => p = y
  BY DEF Good
<1>2. Said(x, q) =
        IF \E p \in parts : p.peer = q
        THEN LET p == CHOOSE p \in parts : p.peer = q
             IN  <<[dir |-> p.dir, len |-> Len(p.slots)]>>
        ELSE <<>>
  BY DEF Said
<1> HIDE DEF parts
<1>3. ASSUME NEW p \in parts, p.peer = q
      PROVE  /\ Said(x, q) = <<[dir |-> p.dir, len |-> Len(p.slots)]>>
             /\ Said(x, q) \in Seq(Message)
  <2> DEFINE y == CHOOSE y \in parts : y.peer = q
  <2>1. y \in parts /\ y.peer = q
    BY <1>3
  <2> HIDE DEF y
  <2>2. y = p
    BY <1>1, <1>3, <2>1
  <2>3. Said(x, q) = <<[dir |-> p.dir, len |-> Len(p.slots)]>>
    BY <1>2, <1>3, <2>2 DEF y
  <2>4. [dir |-> p.dir, len |-> Len(p.slots)] \in Message
    BY <1>1, <1>3 DEF Message
  <2>5. QED
    BY <2>3, <2>4
<1>4. (\A p \in parts : p.peer # q) => Said(x, q) = <<>>
  BY <1>2
<1>5. q \notin Q => Said(x, q) = <<>>
  BY <1>1, <1>4
<1>6. Said(x, q) \in Seq(Message)
  <2>1. CASE \E p \in parts : p.peer = q
    BY <1>3, <2>1
  <2>2. CASE \A p \in parts : p.peer # q
    <3>1. Said(x, q) = <<>>
      BY <1>4, <2>2
    <3>2. QED
      BY <3>1
  <2>3. QED
    BY <2>1, <2>2
<1>7. QED
  BY <1>3, <1>4, <1>5, <1>6 DEF parts

LEMMA FineFacts ==
  ASSUME NEW Q, NEW s, Fine(s, Q)
  PROVE  /\ Len(s) \in Nat /\ DOMAIN s = 1 .. Len(s) /\ s = [i \in 1 .. Len(s) |-> s[i]]
         /\ \A i \in 1 .. Len(s) : Good(s[i], Q)
<1>1. PICK X : s \in Seq(X) /\ \A x \in X : Good(x, Q)
  BY DEF Fine
<1>2. Len(s) \in Nat /\ s \in [1 .. Len(s) -> X] /\ DOMAIN s = 1 .. Len(s)
  BY <1>1, LenProperties
<1>3. \A i \in 1 .. Len(s) : s[i] \in X
  BY <1>2
<1>4. QED
  BY <1>1, <1>2, <1>3

LEMMA FineRow ==
  ASSUME NEW Q, NEW n \in Nat, NEW s, Straight(s, n, Q)
  PROVE  Fine(s, Q) /\ Len(s) = n
<1> DEFINE X == {s[i] : i \in 1 .. n}
<1>1. \A i \in 1 .. n : s[i] \in X
  OBVIOUS
<1>2. \A x \in X : Good(x, Q)
  BY DEF Straight
<1> HIDE DEF X
<1>3. s \in Seq(X) /\ Len(s) = n
  BY <1>1 DEF Straight
<1>4. QED
  BY <1>2, <1>3 DEF Fine

LEMMA FineNone == ASSUME NEW Q PROVE Fine(<<>>, Q)
<1> DEFINE X == {}
<1>1. <<>> \in Seq(X) /\ \A x \in X : Good(x, Q)
  BY EmptySeq
<1> HIDE DEF X
<1>2. QED
  BY <1>1 DEF Fine

LEMMA FineOne ==
  ASSUME NEW Q, NEW x, Good(x, Q)
  PROVE  Fine(<<x>>, Q) /\ Len(<<x>>) = 1
<1> DEFINE X == {x}
           s == <<x>>
<1>1. s \in Seq(X) /\ Len(s) = 1 /\ \A y \in X : Good(y, Q)
  OBVIOUS
<1> HIDE DEF X, s
<1>2. Fine(s, Q) /\ Len(s) = 1
  BY <1>1 DEF Fine
<1>3. QED
  BY <1>2 DEF s

LEMMA FineConcat ==
  ASSUME NEW Q, NEW s, NEW t, Fine(s, Q), Fine(t, Q)
  PROVE  Fine(s \o t, Q) /\ Len(s \o t) = Len(s) + Len(t)
<1>1. PICK X : s \in Seq(X) /\ \A x \in X : Good(x, Q)
  BY DEF Fine
<1>2. PICK Y : t \in Seq(Y) /\ \A x \in Y : Good(x, Q)
  BY DEF Fine
<1> DEFINE Z == X \cup Y
<1>3. \A x \in Z : Good(x, Q)
  BY <1>1, <1>2
<1>4. X \subseteq Z /\ Y \subseteq Z
  OBVIOUS
<1> HIDE DEF Z
<1>5. s \in Seq(Z) /\ t \in Seq(Z)
  BY <1>1, <1>2, <1>4, SeqMonotonic
<1>6. s \o t \in Seq(Z) /\ Len(s \o t) = Len(s) + Len(t)
  BY <1>5, ConcatProperties
<1>7. QED
  BY <1>3, <1>6 DEF Fine

(* The steps of a loop's turns.                                             *)
LEMMA FineTurns ==
  ASSUME NEW Q, NEW n \in Nat, NEW R, Loop(R, n, Q)
  PROVE  \E X : R \in Seq(Seq(X)) /\ \A x \in X : Good(x, Q)
<1> DEFINE X(k) == {R[k][i] : i \in 1 .. Len(R[k])}
           Z == UNION {X(k) : k \in 1 .. n}
<1>1. ASSUME NEW k \in 1 .. n PROVE R[k] \in Seq(Z)
  <2> DEFINE s == R[k]
  <2>1. Fine(s, Q)
    BY DEF Loop
  <2>2. Len(s) \in Nat /\ s = [i \in 1 .. Len(s) |-> s[i]]
    BY <2>1, FineFacts
  <2>3. \A i \in 1 .. Len(s) : s[i] \in Z
    OBVIOUS
  <2> HIDE DEF s, Z
  <2>4. s \in Seq(Z)
    BY <2>2, <2>3
  <2>5. QED
    BY <2>4 DEF s
<1>2. \A k \in 1 .. n : \A i \in 1 .. Len(R[k]) : Good(R[k][i], Q)
  BY FineFacts DEF Loop
<1>3. \A x \in Z : Good(x, Q)
  BY <1>2
<1> HIDE DEF Z
<1>4. R \in Seq(Seq(Z))
  BY <1>1 DEF Loop
<1>5. QED
  BY <1>3, <1>4

LEMMA FineJoined ==
  ASSUME NEW Q, NEW n \in Nat, NEW R, Loop(R, n, Q)
  PROVE  Fine(Joined(R), Q) /\ \A k \in 1 .. n : Len(R[k]) <= Len(Joined(R))
<1>1. PICK X : R \in Seq(Seq(X)) /\ \A x \in X : Good(x, Q)
  BY FineTurns
<1>2. Joined(R) \in Seq(X)
  BY <1>1, JoinedType
<1>3. Len(R) = n
  BY DEF Loop
<1>4. ASSUME NEW k \in 1 .. n PROVE Len(R[k]) <= Len(Joined(R))
  <2>1. k \in 1 .. Len(R)
    BY <1>3
  <2>2. /\ Len(JoinedUpto(R)[k]) = Len(JoinedUpto(R)[k - 1]) + Len(R[k])
        /\ Len(JoinedUpto(R)[k]) <= Len(Joined(R))
        /\ JoinedUpto(R)[k - 1] \in Seq(X)
    BY <1>1, <2>1, JoinedPart
  <2>3. R[k] \in Seq(X)
    BY <1>1, <2>1, ElementOfSeq
  <2>4. Len(R[k]) \in Nat /\ Len(JoinedUpto(R)[k - 1]) \in Nat /\ Len(Joined(R)) \in Nat
    BY <1>2, <2>2, <2>3
  <2> DEFINE x == Len(R[k])
             y == Len(JoinedUpto(R)[k - 1])
             z == Len(JoinedUpto(R)[k])
             w == Len(Joined(R))
  <2>5. x \in Nat /\ y \in Nat /\ w \in Nat /\ z = y + x /\ z <= w
    BY <2>2, <2>4
  <2> HIDE DEF x, y, z, w
  <2>6. x <= w
    BY <2>5
  <2>7. QED
    BY <2>6 DEF x, w
<1>5. QED
  BY <1>1, <1>2, <1>4 DEF Fine

LEMMA SpeakFacts ==
  ASSUME NEW Q, NEW s, Fine(s, Q), NEW q
  PROVE  LET S == [i \in 1 .. Len(s) |-> Said(s[i], q)]
         IN  /\ S \in Seq(Seq(Message)) /\ Len(S) = Len(s)
             /\ Speak(s, q) = Joined(S) /\ Speak(s, q) \in Seq(Message)
             /\ q \notin Q => Speak(s, q) = <<>>
<1> DEFINE L == Len(s)
           S == [i \in 1 .. L |-> Said(s[i], q)]
<1>1. L \in Nat /\ \A i \in 1 .. L : Good(s[i], Q)
  BY FineFacts
<1>2. \A i \in 1 .. L : Said(s[i], q) \in Seq(Message) /\ (q \notin Q => Said(s[i], q) = <<>>)
  BY <1>1, GoodSaid
<1>3. Speak(s, q) = Joined(S)
  BY DEF Speak
<1> HIDE DEF L
<1>4. S \in Seq(Seq(Message)) /\ Len(S) = L /\ \A i \in 1 .. L : q \notin Q => S[i] = <<>>
  BY <1>1, <1>2
<1> HIDE DEF S
<1>5. Joined(S) \in Seq(Message)
  BY <1>4, JoinedType
<1>6. q \notin Q => Joined(S) = <<>>
  BY <1>4, JoinedEmpty
<1>7. QED
  BY <1>3, <1>4, <1>5, <1>6 DEF S, L

LEMMA SpeakConcat ==
  ASSUME NEW Q, NEW s, NEW t, Fine(s, Q), Fine(t, Q), NEW q
  PROVE  Speak(s \o t, q) = Speak(s, q) \o Speak(t, q)
<1> DEFINE m == Len(s)
           n == Len(t)
           w == s \o t
           S == [i \in 1 .. m |-> Said(s[i], q)]
           T == [i \in 1 .. n |-> Said(t[i], q)]
           W == [i \in 1 .. Len(w) |-> Said(w[i], q)]
<1>1. /\ S \in Seq(Seq(Message)) /\ Len(S) = m /\ Speak(s, q) = Joined(S)
      /\ T \in Seq(Seq(Message)) /\ Len(T) = n /\ Speak(t, q) = Joined(T)
  BY SpeakFacts
<1>2. Fine(w, Q) /\ Len(w) = m + n
  BY FineConcat
<1>3. W \in Seq(Seq(Message)) /\ Len(W) = m + n /\ Speak(w, q) = Joined(W)
  <2> HIDE DEF w, m, n
  <2>1. W \in Seq(Seq(Message)) /\ Len(W) = Len(w) /\ Speak(w, q) = Joined(W)
    BY <1>2, SpeakFacts
  <2>2. QED
    BY <1>2, <2>1
<1>4. m \in Nat /\ n \in Nat /\ \A i \in 1 .. m + n : w[i] = IF i <= m THEN s[i] ELSE t[i - m]
  <2>1. PICK X : s \in Seq(X) /\ \A x \in X : Good(x, Q)
    BY DEF Fine
  <2>2. PICK Y : t \in Seq(Y) /\ \A x \in Y : Good(x, Q)
    BY DEF Fine
  <2> DEFINE Z == X \cup Y
  <2>3. X \subseteq Z /\ Y \subseteq Z
    OBVIOUS
  <2> HIDE DEF Z
  <2>4. s \in Seq(Z) /\ t \in Seq(Z)
    BY <2>1, <2>2, <2>3, SeqMonotonic
  <2>5. QED
    BY <2>4, ConcatProperties
<1>5. S \o T \in Seq(Seq(Message)) /\ Len(S \o T) = m + n
      /\ \A i \in 1 .. m + n : (S \o T)[i] = IF i <= m THEN S[i] ELSE T[i - m]
  <2> HIDE DEF S, T, m, n
  <2>1. /\ S \o T \in Seq(Seq(Message)) /\ Len(S \o T) = Len(S) + Len(T)
        /\ \A i \in 1 .. Len(S) + Len(T) : (S \o T)[i] = IF i <= Len(S) THEN S[i] ELSE T[i - Len(S)]
    BY <1>1, ConcatProperties
  <2>2. QED
    BY <1>1, <2>1
<1> HIDE DEF m, n, w
<1>6. ASSUME NEW i \in 1 .. m + n PROVE W[i] = (S \o T)[i]
  <2>0. W[i] = Said(w[i], q)
    BY <1>2
  <2>1. CASE i <= m
    <3>1. i \in 1 .. m
      BY <1>4, <2>1
    <3>2. S[i] = Said(s[i], q)
      BY <3>1
    <3> HIDE DEF S, T, W
    <3>3. QED
      BY <1>4, <1>5, <2>0, <2>1, <3>2
  <2>2. CASE ~(i <= m)
    <3>1. i - m \in 1 .. n
      BY <1>4, <2>2
    <3>2. T[i - m] = Said(t[i - m], q)
      BY <3>1
    <3> HIDE DEF S, T, W
    <3>3. QED
      BY <1>4, <1>5, <2>0, <2>2, <3>2
  <2>3. QED
    BY <2>1, <2>2
<1> HIDE DEF S, T, W
<1>7. W = S \o T
  <2> DEFINE V == S \o T
  <2> HIDE DEF V
  <2>1. V \in Seq(Seq(Message)) /\ Len(V) = m + n /\ \A i \in 1 .. m + n : W[i] = V[i]
    BY <1>5, <1>6 DEF V
  <2>2. W = V
    BY <1>3, <2>1, SeqEqual
  <2>3. QED
    BY <2>2 DEF V
<1>8. Joined(S \o T) = Joined(S) \o Joined(T)
  BY <1>1, JoinedConcat
<1>9. QED
  BY <1>1, <1>3, <1>7, <1>8 DEF w

LEMMA SpeakNone == ASSUME NEW q PROVE Speak(<<>>, q) = <<>>
<1> DEFINE Q == {}
           s == <<>>
<1>1. Fine(s, Q) /\ q \notin Q
  BY FineNone
<1> HIDE DEF Q, s
<1>2. Speak(s, q) = <<>>
  BY <1>1, SpeakFacts
<1>3. QED
  BY <1>2 DEF s

LEMMA SpeakOne ==
  ASSUME NEW Q, NEW x, Good(x, Q), NEW q
  PROVE  Speak(<<x>>, q) = Said(x, q)
<1> DEFINE s == <<x>>
           S == [i \in 1 .. Len(s) |-> Said(s[i], q)]
<1>1. Fine(s, Q) /\ Len(s) = 1
  BY FineOne
<1>2. S \in Seq(Seq(Message)) /\ Len(S) = 1 /\ Speak(s, q) = Joined(S)
  <2> HIDE DEF s
  <2>1. QED
    BY <1>1, SpeakFacts
<1>3. S[1] = Said(x, q)
  OBVIOUS
<1> HIDE DEF S, s
<1>4. Joined(S) = S[1]
  <2>1. 1 \in 1 .. Len(S) /\ \A i \in 1 .. Len(S) : i # 1 => S[i] = <<>>
    BY <1>2
  <2>2. QED
    BY <1>2, <2>1, JoinedSingle
<1>5. QED
  BY <1>2, <1>3, <1>4 DEF s

SaysTwo(w, x, y, Q, q) ==
  Fine(w, Q) /\ Len(w) = 2 /\ Speak(w, q) = Said(x, q) \o Said(y, q)
LEMMA SpeakTwo ==
  ASSUME NEW Q, NEW x, NEW y, Good(x, Q), Good(y, Q), NEW q
  PROVE  SaysTwo(Two(x, y), x, y, Q, q)
<1>1. Two(x, y) = <<x>> \o <<y>>
  <2> DEFINE X == {x, y}
             s == <<x>>
             t == <<y>>
             w == Two(x, y)
  <2>1. /\ s \in Seq(X) /\ t \in Seq(X) /\ w \in Seq(X) /\ Len(s) = 1 /\ Len(t) = 1 /\ Len(w) = 2
        /\ s[1] = x /\ t[1] = y /\ w[1] = x /\ w[2] = y
    BY DEF Two
  <2> HIDE DEF X, s, t, w
  <2>2. /\ s \o t \in Seq(X) /\ Len(s \o t) = Len(s) + Len(t)
        /\ \A i \in 1 .. Len(s) + Len(t) : (s \o t)[i] = IF i <= Len(s) THEN s[i] ELSE t[i - Len(s)]
    BY <2>1, ConcatProperties
  <2>3. \A i \in 1 .. 2 : w[i] = (s \o t)[i]
    BY <2>1, <2>2
  <2>4. w = s \o t
    BY <2>1, <2>2, <2>3, SeqEqual
  <2>5. QED
    BY <2>4 DEF s, t, w
<1>2. Fine(<<x>>, Q) /\ Fine(<<y>>, Q) /\ Len(<<x>>) = 1 /\ Len(<<y>>) = 1
  BY FineOne
<1> DEFINE s == <<x>>
           t == <<y>>
<1>3. Speak(s, q) = Said(x, q) /\ Speak(t, q) = Said(y, q)
  BY SpeakOne
<1>4. Two(x, y) = s \o t /\ Fine(s, Q) /\ Fine(t, Q) /\ Len(s) = 1 /\ Len(t) = 1
  BY <1>1, <1>2
<1> HIDE DEF s, t
<1>5. Fine(s \o t, Q) /\ Len(s \o t) = Len(s) + Len(t)
  BY <1>4, FineConcat
<1>6. Speak(s \o t, q) = Speak(s, q) \o Speak(t, q)
  BY <1>4, SpeakConcat
<1>7. QED
  BY <1>3, <1>4, <1>5, <1>6 DEF SaysTwo

(* What the turns of a loop say, put end to end.                            *)
LEMMA SpeakJoined ==
  ASSUME NEW Q, NEW n \in Nat, NEW R, Loop(R, n, Q), NEW q
  PROVE  /\ Turns(R, n, q) \in Seq(Seq(Message)) /\ Len(Turns(R, n, q)) = n
         /\ \A k \in 1 .. n : Turns(R, n, q)[k] = Speak(R[k], q)
         /\ Speak(Joined(R), q) = Joined(Turns(R, n, q))
<1> DEFINE S == [k \in 1 .. n |-> Speak(R[k], q)]
           u == JoinedUpto(R)
           g == [k \in 0 .. n |-> Speak(u[k], q)]
<1>1. PICK X : R \in Seq(Seq(X)) /\ \A x \in X : Good(x, Q)
  BY FineTurns
<1>2. Len(R) = n /\ \A k \in 1 .. n : Fine(R[k], Q)
  BY DEF Loop
<1>3. /\ u \in [0 .. n -> Seq(X)] /\ u[0] = <<>>
      /\ \A i \in 1 .. n : u[i] = u[i - 1] \o R[i]
  BY <1>1, <1>2, JoinedFacts
<1>4. Joined(R) = u[n]
  BY <1>2 DEF Joined
<1> HIDE DEF u
<1>5. \A k \in 0 .. n : Fine(u[k], Q)
  BY <1>1, <1>3 DEF Fine
<1>6. \A k \in 0 .. n : Speak(u[k], q) \in Seq(Message)
  BY <1>5, SpeakFacts
<1>7. \A k \in 1 .. n : Speak(R[k], q) \in Seq(Message)
  BY <1>2, SpeakFacts
<1>8. S \in Seq(Seq(Message)) /\ Len(S) = n
  BY <1>7
<1>9. g \in [0 .. n -> Seq(Message)] /\ g[0] = <<>>
  BY <1>3, <1>6, SpeakNone
<1>10. ASSUME NEW i \in 1 .. n PROVE g[i] = g[i - 1] \o S[i]
  <2>1. i \in 0 .. n /\ i - 1 \in 0 .. n
    OBVIOUS
  <2>2. Fine(u[i - 1], Q) /\ Fine(R[i], Q) /\ u[i] = u[i - 1] \o R[i]
    BY <1>2, <1>3, <1>5, <2>1
  <2>3. Speak(u[i - 1] \o R[i], q) = Speak(u[i - 1], q) \o Speak(R[i], q)
    BY <2>2, SpeakConcat
  <2>4. QED
    BY <2>1, <2>2, <2>3
<1> HIDE DEF S
<1>11. g[n] = Speak(u[n], q)
  OBVIOUS
<1> HIDE DEF g
<1>12. Joined(S) = g[n]
  BY <1>8, <1>9, <1>10, JoinedUnique DEF Chain
<1>13. \A k \in 1 .. n : S[k] = Speak(R[k], q)
  BY DEF S
<1>14. S = Turns(R, n, q)
  BY DEF S, Turns
<1>15. QED
  BY <1>4, <1>8, <1>11, <1>12, <1>13, <1>14

-----------------------------------------------------------------------------
(* Steps that match, one after the other.                                   *)
LEMMA MatchConcat ==
  ASSUME NEW P, NEW Q, NEW a, NEW b, NEW s, NEW v, NEW t, NEW w,
         Fine(s, P), Fine(v, P), Fine(t, Q), Fine(w, Q),
         Match(s, a, t, b), Match(v, a, w, b)
  PROVE  Match(s \o v, a, t \o w, b)
<1>1. /\ Speak(s, b) \in Seq(Message) /\ Speak(v, b) \in Seq(Message)
      /\ Speak(t, a) \in Seq(Message) /\ Speak(w, a) \in Seq(Message)
  BY SpeakFacts
<1>2. Speak(s \o v, b) = Speak(s, b) \o Speak(v, b) /\ Speak(t \o w, a) = Speak(t, a) \o Speak(w, a)
  BY SpeakConcat
<1>3. Mirror(Speak(s, b), Speak(t, a)) /\ Mirror(Speak(v, b), Speak(w, a))
  BY DEF Match
<1>4. Mirror(Speak(s, b) \o Speak(v, b), Speak(t, a) \o Speak(w, a))
  BY <1>1, <1>3, MirrorConcat
<1>5. QED
  BY <1>2, <1>4 DEF Match

LEMMA MatchJoined ==
  ASSUME NEW P, NEW Q, NEW a, NEW b, NEW n \in Nat,
         NEW R, Loop(R, n, P), NEW T, Loop(T, n, Q),
         \A k \in 1 .. n : Match(R[k], a, T[k], b)
  PROVE  Match(Joined(R), a, Joined(T), b)
<1> DEFINE S == Turns(R, n, b)
           U == Turns(T, n, a)
<1>1. S \in Seq(Seq(Message)) /\ Len(S) = n /\ Speak(Joined(R), b) = Joined(S)
      /\ \A k \in 1 .. n : S[k] = Speak(R[k], b)
  BY SpeakJoined
<1>2. U \in Seq(Seq(Message)) /\ Len(U) = n /\ Speak(Joined(T), a) = Joined(U)
      /\ \A k \in 1 .. n : U[k] = Speak(T[k], a)
  BY SpeakJoined
<1>3. \A k \in 1 .. n : Mirror(S[k], U[k])
  BY <1>1, <1>2 DEF Match
<1> HIDE DEF S, U
<1>4. Mirror(Joined(S), Joined(U))
  BY <1>1, <1>2, <1>3, MirrorJoined
<1>5. QED
  BY <1>1, <1>2, <1>4 DEF Match

LEMMA SpeakRow ==
  ASSUME NEW Q, NEW n \in Nat, NEW s, Straight(s, n, Q), NEW q
  PROVE  /\ Saids(s, n, q) \in Seq(Seq(Message)) /\ Len(Saids(s, n, q)) = n
         /\ \A k \in 1 .. n : Saids(s, n, q)[k] = Said(s[k], q)
         /\ Speak(s, q) = Joined(Saids(s, n, q))
<1>1. Fine(s, Q) /\ Len(s) = n
  BY FineRow
<1> DEFINE S(k) == [i \in 1 .. k |-> Said(s[i], q)]
           l == Len(s)
<1>2. S(l) \in Seq(Seq(Message)) /\ Len(S(l)) = l /\ Speak(s, q) = Joined(S(l))
  BY <1>1, SpeakFacts
<1>3. l = n
  BY <1>1
<1> HIDE DEF l, S
<1>4. S(n) \in Seq(Seq(Message)) /\ Len(S(n)) = n /\ Speak(s, q) = Joined(S(n))
  BY <1>2, <1>3
<1>5. S(n) = Saids(s, n, q) /\ \A k \in 1 .. n : S(n)[k] = Said(s[k], q)
  BY DEF S, Saids
<1>6. QED
  BY <1>4, <1>5

LEMMA MatchRow ==
  ASSUME NEW P, NEW Q, NEW a, NEW b, NEW n \in Nat,
         NEW R, Straight(R, n, P), NEW T, Straight(T, n, Q),
         \A k \in 1 .. n : Mirror(Said(R[k], b), Said(T[k], a))
  PROVE  Match(R, a, T, b)
<1> DEFINE S == Saids(R, n, b)
           U == Saids(T, n, a)
<1>1. S \in Seq(Seq(Message)) /\ Len(S) = n /\ Speak(R, b) = Joined(S)
      /\ \A k \in 1 .. n : S[k] = Said(R[k], b)
  BY SpeakRow
<1>2. U \in Seq(Seq(Message)) /\ Len(U) = n /\ Speak(T, a) = Joined(U)
      /\ \A k \in 1 .. n : U[k] = Said(T[k], a)
  BY SpeakRow
<1>3. \A k \in 1 .. n : Mirror(S[k], U[k])
  BY <1>1, <1>2
<1> HIDE DEF S, U
<1>4. Mirror(Joined(S), Joined(U))
  BY <1>1, <1>2, <1>3, MirrorJoined
<1>5. QED
  BY <1>1, <1>2, <1>4 DEF Match

LEMMA MatchSilent ==
  ASSUME NEW P, NEW Q, NEW a, NEW b, NEW s, NEW t, Fine(s, P), Fine(t, Q), b \notin P, a \notin Q
  PROVE  Match(s, a, t, b)
<1>1. Speak(s, b) = <<>> /\ Speak(t, a) = <<>>
  BY SpeakFacts
<1>2. QED
  BY <1>1 DEF Match, Mirror

(* One transport call; a Send beside a Recv.                                *)
One(d, p, slots, copies, folds) ==
  Step({[dir |-> d, peer |-> p, slots |-> slots]}, copies, folds)
LEMMA OneFacts ==
  ASSUME NEW Q, NEW p \in Q, NEW slots, Len(slots) \in Nat \ {0}, NEW copies, NEW folds,
         NEW d \in {"send", "recv"}, NEW q
  PROVE  /\ Good(One(d, p, slots, copies, folds), Q)
         /\ Said(One(d, p, slots, copies, folds), q) =
              IF q = p THEN Say(d, Len(slots)) ELSE <<>>
<1> DEFINE c == [dir |-> d, peer |-> p, slots |-> slots]
           x == One(d, p, slots, copies, folds)
<1>1. x.parts = {c} /\ c.dir = d /\ c.peer = p /\ c.slots = slots
  BY DEF One, Step
<1> HIDE DEF c, x
<1>2. Good(x, Q)
  BY <1>1 DEF Good
<1>3. Said(x, q) = IF q = p THEN Say(d, Len(slots)) ELSE <<>>
  <2>1. CASE q = p
    <3>1. c \in x.parts /\ c.peer = q
      BY <1>1, <2>1
    <3>2. Said(x, q) = <<[dir |-> c.dir, len |-> Len(c.slots)]>>
      BY <1>2, <3>1, GoodSaid
    <3>3. QED
      BY <1>1, <2>1, <3>2 DEF Say
  <2>2. CASE q # p
    <3>1. \A y \in x.parts : y.peer # q
      BY <1>1, <2>2
    <3>2. QED
      BY <1>2, <2>2, <3>1, GoodSaid
  <2>3. QED
    BY <2>1, <2>2
<1>4. QED
  BY <1>2, <1>3 DEF x

Both(p, mine, o, theirs, folds) == Step({SendPart(p, mine), RecvPart(o, theirs)}, {}, folds)
SaysBoth(x, Q, p, u, o, v) == Good(x, Q) /\ Said(x, p) = u /\ Said(x, o) = v
LEMMA BothFacts ==
  ASSUME NEW Q, NEW p \in Q, NEW o \in Q, p # o, NEW mine, NEW theirs, NEW folds,
         Len(mine) \in Nat \ {0}, Len(theirs) \in Nat \ {0}
  PROVE  SaysBoth(Both(p, mine, o, theirs, folds), Q, p, Say("send", Len(mine)), o, Say("recv", Len(theirs)))
<1> DEFINE c == SendPart(p, mine)
           d == RecvPart(o, theirs)
           x == Both(p, mine, o, theirs, folds)
<1>1. /\ x.parts = {c, d} /\ c.dir = "send" /\ c.peer = p /\ c.slots = mine
      /\ d.dir = "recv" /\ d.peer = o /\ d.slots = theirs
  BY DEF Both, Step, SendPart, RecvPart
<1> HIDE DEF c, d, x
<1>2. Good(x, Q)
  BY <1>1 DEF Good
<1>3. \A q : \A y \in x.parts : y.peer = q => Said(x, q) = <<[dir |-> y.dir, len |-> Len(y.slots)]>>
  BY <1>2, GoodSaid
<1>4. c \in x.parts /\ d \in x.parts
  BY <1>1
<1>5. Said(x, p) = Say("send", Len(mine))
  BY <1>1, <1>3, <1>4 DEF Say
<1>6. Said(x, o) = Say("recv", Len(theirs))
  BY <1>1, <1>3, <1>4 DEF Say
<1>7. SaysBoth(x, Q, p, Say("send", Len(mine)), o, Say("recv", Len(theirs)))
  BY <1>2, <1>5, <1>6 DEF SaysBoth
<1>8. QED
  BY <1>7 DEF x

-----------------------------------------------------------------------------
(* The transport calls of the programs.                                     *)
LEMMA SendSaid ==
  ASSUME NEW Q, NEW p \in Q, NEW slots, Len(slots) \in Nat \ {0}, NEW q
  PROVE  /\ Good(Send(p, slots), Q)
         /\ Said(Send(p, slots), q) = IF q = p THEN Say("send", Len(slots)) ELSE <<>>
<1>1. Send(p, slots) = One("send", p, slots, {}, {})
  BY DEF One, SendPart, Send
<1>2. QED
  BY <1>1, OneFacts

LEMMA SendStepSaid ==
  ASSUME NEW Q, NEW p \in Q, NEW slots, Len(slots) \in Nat \ {0}, NEW copies, NEW folds, NEW q
  PROVE  LET x == Step({SendPart(p, slots)}, copies, folds)
         IN  /\ Good(x, Q)
             /\ Said(x, q) = IF q = p THEN Say("send", Len(slots)) ELSE <<>>
<1>1. Step({SendPart(p, slots)}, copies, folds) = One("send", p, slots, copies, folds)
  BY DEF One, SendPart
<1>2. QED
  BY <1>1, OneFacts

LEMMA RecvSaid ==
  ASSUME NEW Q, NEW p \in Q, NEW slots, Len(slots) \in Nat \ {0}, NEW q
  PROVE  /\ Good(Recv(p, slots), Q)
         /\ Said(Recv(p, slots), q) = IF q = p THEN Say("recv", Len(slots)) ELSE <<>>
<1>1. Recv(p, slots) = One("recv", p, slots, {}, {})
  BY DEF One, RecvPart, Recv
<1>2. QED
  BY <1>1, OneFacts

LEMMA RecvCopySaid ==
  ASSUME NEW Q, NEW p \in Q, NEW slots, Len(slots) \in Nat \ {0}, NEW copies, NEW q
  PROVE  LET x == RecvCopy(p, slots, copies)
         IN  /\ Good(x, Q)
             /\ Said(x, q) = IF q = p THEN Say("recv", Len(slots)) ELSE <<>>
<1>1. RecvCopy(p, slots, copies) = One("recv", p, slots, copies, {})
  BY DEF One, RecvPart, RecvCopy
<1>2. QED
  BY <1>1, OneFacts

LEMMA RecvFoldSaid ==
  ASSUME NEW Q, NEW p \in Q, NEW slots, Len(slots) \in Nat \ {0}, NEW folds, NEW q
  PROVE  LET x == RecvFold(p, slots, folds)
         IN  /\ Good(x, Q)
             /\ Said(x, q) = IF q = p THEN Say("recv", Len(slots)) ELSE <<>>
<1>1. RecvFold(p, slots, folds) = One("recv", p, slots, {}, folds)
  BY DEF One, RecvPart, RecvFold
<1>2. QED
  BY <1>1, OneFacts

LEMMA SlotsLen ==
  /\ \A n \in Nat : Len(Ins(n)) = n /\ Len(Tmps(n)) = n
  /\ \A x : Len(<<x>>) = 1
<1>1. \A n \in Nat : Len(Ins(n)) = n /\ Len(Tmps(n)) = n
  BY DEF Ins, Tmps
<1>2. QED
  BY <1>1

LEMMA MirrorOne ==
  ASSUME NEW n \in Nat
  PROVE  /\ Mirror(Say("send", n), Say("recv", n))
         /\ Mirror(Say("recv", n), Say("send", n))
         /\ Mirror(<<>>, <<>>)
  BY DEF Mirror, Say

(* Where the ranks are on the ring.                                         *)
LEMMA RoundFacts == \A i \in 0 .. (2 * N - 1) : i % N = IF i < N THEN i ELSE i - N
<1>1. N \in Nat /\ N >= 2
  BY WorldSizeAssumption
<1>2. QED
  BY ONLY <1>1, SMTT(30)

LEMMA RingFacts ==
  ASSUME NEW r \in Ranks
  PROVE  /\ N \in Nat /\ N >= 2 /\ Ranks = 0 .. (N - 1)
         /\ Next1(r) = IF r = N - 1 THEN 0 ELSE r + 1
         /\ Prev1(r) = IF r = 0 THEN N - 1 ELSE r - 1
         /\ Next1(r) \in Ranks \ {r} /\ Prev1(r) \in Ranks \ {r}
         /\ Prev1(Next1(r)) = r /\ Next1(Prev1(r)) = r
         /\ N >= 3 => Next1(r) # Prev1(r)
         /\ RingNeighbors(r) = {Next1(r), Prev1(r)}
<1> DEFINE Round(i) == i % N
<1>1. N \in Nat /\ N >= 2 /\ Ranks = 0 .. (N - 1) /\ r \in 0 .. (N - 1)
  BY WorldSizeAssumption DEF Ranks
<1>2. \A i \in 0 .. (2 * N - 1) : Round(i) = IF i < N THEN i ELSE i - N
  BY RoundFacts
<1>3. \A x : Next1(x) = Round(x + 1) /\ Prev1(x) = Round(x - 1 + N)
  BY DEF Next1, Prev1
<1> HIDE DEF Round
<1>4. \A x \in 0 .. (N - 1) : /\ Next1(x) = IF x = N - 1 THEN 0 ELSE x + 1
                              /\ Prev1(x) = IF x = 0 THEN N - 1 ELSE x - 1
  BY <1>1, <1>2, <1>3
<1>5. Next1(r) \in 0 .. (N - 1) /\ Prev1(r) \in 0 .. (N - 1)
  BY <1>1, <1>4
<1>6. Prev1(Next1(r)) = r /\ Next1(Prev1(r)) = r
  BY <1>1, <1>4, <1>5
<1>7. QED
  BY <1>1, <1>4, <1>5, <1>6 DEF RingNeighbors

LEMMA PositionFacts ==
  ASSUME NEW r \in Ranks, NEW root \in Ranks
  PROVE  /\ Position(r, root) \in 0 .. (N - 1)
         /\ (Position(r, root) = 0) <=> (r = root)
         /\ (Position(r, root) = N - 1) <=> (Next1(r) = root)
         /\ Next1(r) # root => Position(Next1(r), root) = Position(r, root) + 1
<1> DEFINE Round(i) == i % N
           p(x) == Position(x, root)
           b == Next1(r)
<1>1. N \in Nat /\ N >= 2 /\ Ranks = 0 .. (N - 1) /\ r \in 0 .. (N - 1) /\ root \in 0 .. (N - 1)
  BY RingFacts
<1>2. \A i \in 0 .. (2 * N - 1) : Round(i) = IF i < N THEN i ELSE i - N
  BY RoundFacts
<1>3. \A x : p(x) = Round(x - root + N)
  BY DEF Position
<1>4. b = IF r = N - 1 THEN 0 ELSE r + 1
  BY RingFacts
<1> HIDE DEF Round, p, b
<1>5. \A x \in 0 .. (N - 1) : p(x) = IF x >= root THEN x - root ELSE x - root + N
  BY <1>1, <1>2, <1>3
<1>6. b \in 0 .. (N - 1)
  BY <1>1, <1>4
<1>7. /\ p(r) \in 0 .. (N - 1) /\ (p(r) = 0 <=> r = root) /\ (p(r) = N - 1 <=> b = root)
      /\ b # root => p(b) = p(r) + 1
  BY <1>1, <1>4, <1>5, <1>6
<1>8. QED
  BY <1>7 DEF p, b

-----------------------------------------------------------------------------
(* Programs for the ring that pair up: what a rank says to the next one is  *)
(* what that rank says to the previous.                                     *)
Ringed(f) ==
  /\ \A r \in Ranks : Fine(f[r], RingNeighbors(r)) /\ Len(f[r]) # 0
  /\ \A r \in Ranks : Match(f[r], r, f[Next1(r)], Next1(r))

(* One round of a ring: to the next, and from the previous rank, in either   *)
(* order.                                                                    *)
Turn(d, x, y) == IF d = "send" THEN Two(x, y) ELSE Two(y, x)

TurnSays(t, r, d, u, v) ==
  /\ Fine(t, RingNeighbors(r)) /\ Len(t) = 2
  /\ N >= 3 => Speak(t, Next1(r)) = u /\ Speak(t, Prev1(r)) = v
  /\ N = 2 /\ d = "send" => Speak(t, Next1(r)) = u \o v /\ Speak(t, Prev1(r)) = u \o v
  /\ N = 2 /\ d = "recv" => Speak(t, Next1(r)) = v \o u /\ Speak(t, Prev1(r)) = v \o u
LEMMA TurnFacts ==
  ASSUME NEW r \in Ranks, NEW mine, NEW theirs, Len(mine) \in Nat \ {0}, Len(theirs) \in Nat \ {0},
         NEW d \in {"send", "recv"}
  PROVE  TurnSays(Turn(d, Send(Next1(r), mine), Recv(Prev1(r), theirs)), r, d,
                  Say("send", Len(mine)), Say("recv", Len(theirs)))
<1> DEFINE x == Send(Next1(r), mine)
           y == Recv(Prev1(r), theirs)
           Q == RingNeighbors(r)
           u == Say("send", Len(mine))
           v == Say("recv", Len(theirs))
           b == Next1(r)
           a == Prev1(r)
           t == Turn(d, x, y)
<1>1. /\ N >= 3 => a # b
      /\ N = 2 => a = b
      /\ a \in Q /\ b \in Q
  <2>1. N >= 3 => a # b
    BY RingFacts
  <2>2. a \in Q /\ b \in Q
    BY RingFacts
  <2>3. N = 2 => a = b
    <3>1. r \in 0 .. (N - 1) /\ b = (IF r = N - 1 THEN 0 ELSE r + 1) /\ a = IF r = 0 THEN N - 1 ELSE r - 1
      BY RingFacts
    <3> HIDE DEF a, b
    <3>2. QED
      BY <3>1
  <2>4. QED
    BY <2>1, <2>2, <2>3
<1>2. \A q : /\ Good(x, Q) /\ Said(x, q) = IF q = b THEN u ELSE <<>>
             /\ Good(y, Q) /\ Said(y, q) = IF q = a THEN v ELSE <<>>
  <2> TAKE q
  <2> HIDE DEF Q, a, b
  <2>1. Good(x, Q) /\ Said(x, q) = IF q = b THEN u ELSE <<>>
    BY <1>1, SendSaid DEF b
  <2>2. Good(y, Q) /\ Said(y, q) = IF q = a THEN v ELSE <<>>
    BY <1>1, RecvSaid DEF a
  <2>3. QED
    BY <2>1, <2>2
<1>3. u \in Seq(Message) /\ v \in Seq(Message)
  BY DEF Message, Say
<1> HIDE DEF x, y, Q, u, v, a, b
<1>4. u \o <<>> = u /\ <<>> \o u = u /\ v \o <<>> = v /\ <<>> \o v = v
  BY <1>3, ConcatEmptySeq
<1>5. \A q : /\ Fine(Two(x, y), Q) /\ Len(Two(x, y)) = 2 /\ Speak(Two(x, y), q) = Said(x, q) \o Said(y, q)
             /\ Fine(Two(y, x), Q) /\ Len(Two(y, x)) = 2 /\ Speak(Two(y, x), q) = Said(y, q) \o Said(x, q)
  <2> TAKE q
  <2>1. Good(x, Q) /\ Good(y, Q)
    BY <1>2
  <2>2. SaysTwo(Two(x, y), x, y, Q, q) /\ SaysTwo(Two(y, x), y, x, Q, q)
    BY <2>1, SpeakTwo
  <2>3. QED
    BY <2>2 DEF SaysTwo
<1>6. d = "send" => t = Two(x, y)
  BY DEF Turn
<1>7. d = "recv" => t = Two(y, x)
  BY DEF Turn
<1> HIDE DEF t
<1>8. Fine(t, Q) /\ Len(t) = 2
  BY <1>5, <1>6, <1>7
<1>9. N >= 3 => Speak(t, b) = u /\ Speak(t, a) = v
  BY <1>1, <1>2, <1>4, <1>5, <1>6, <1>7
<1>10. N = 2 /\ d = "send" => Speak(t, b) = u \o v /\ Speak(t, a) = u \o v
  BY <1>1, <1>2, <1>5, <1>6
<1>11. N = 2 /\ d = "recv" => Speak(t, b) = v \o u /\ Speak(t, a) = v \o u
  BY <1>1, <1>2, <1>5, <1>7
<1>12. TurnSays(t, r, d, u, v)
  BY <1>8, <1>9, <1>10, <1>11 DEF TurnSays, Q, a, b
<1>13. QED
  BY <1>12 DEF t, Q, u, v, a, b, x, y

LEMMA TurnMatches ==
  ASSUME NEW r \in Ranks, NEW n \in Nat \ {0},
         NEW d \in {"send", "recv"}, NEW e \in {"send", "recv"}, N = 2 => d # e,
         NEW mine, NEW theirs, Len(mine) = n, Len(theirs) = n,
         NEW yours, NEW hers, Len(yours) = n, Len(hers) = n
  PROVE  LET b == Next1(r)
         IN  Match(Turn(d, Send(Next1(r), mine), Recv(Prev1(r), theirs)), r,
                   Turn(e, Send(Next1(b), yours), Recv(Prev1(b), hers)), b)
<1> DEFINE b == Next1(r)
           s == Turn(d, Send(Next1(r), mine), Recv(Prev1(r), theirs))
           t == Turn(e, Send(Next1(b), yours), Recv(Prev1(b), hers))
           u == Say("send", n)
           v == Say("recv", n)
<1>1. b \in Ranks /\ Prev1(b) = r /\ (N = 2 \/ N >= 3)
  BY RingFacts
<1>2. /\ N >= 3 => Speak(s, b) = u
      /\ N = 2 /\ d = "send" => Speak(s, b) = u \o v
      /\ N = 2 /\ d = "recv" => Speak(s, b) = v \o u
  <2>1. TurnSays(s, r, d, Say("send", Len(mine)), Say("recv", Len(theirs)))
    BY TurnFacts
  <2> HIDE DEF s, u, v
  <2>2. TurnSays(s, r, d, u, v)
    BY <2>1 DEF u, v
  <2>3. QED
    BY <2>2 DEF TurnSays, b
<1> HIDE DEF b
<1>3. /\ N >= 3 => Speak(t, r) = v
      /\ N = 2 /\ e = "send" => Speak(t, r) = u \o v
      /\ N = 2 /\ e = "recv" => Speak(t, r) = v \o u
  <2>1. TurnSays(t, b, e, Say("send", Len(yours)), Say("recv", Len(hers)))
    BY <1>1, TurnFacts
  <2> HIDE DEF t, u, v
  <2>2. TurnSays(t, b, e, u, v)
    BY <2>1 DEF u, v
  <2>3. QED
    BY <1>1, <2>2 DEF TurnSays
<1>4. u \in Seq(Message) /\ v \in Seq(Message)
  BY DEF Message, Say
<1>5. Mirror(u, v) /\ Mirror(v, u)
  BY MirrorOne
<1> HIDE DEF s, t, u, v
<1>6. Mirror(u \o v, v \o u) /\ Mirror(v \o u, u \o v)
  BY <1>4, <1>5, MirrorConcat
<1>7. Mirror(Speak(s, b), Speak(t, r))
  BY <1>1, <1>2, <1>3, <1>5, <1>6
<1>8. QED
  BY <1>7 DEF Match, b, s, t

LEMMA FourSteps ==
  ASSUME NEW w, NEW x, NEW y, NEW z
  PROVE  <<w, x, y, z>> = Two(w, x) \o Two(y, z)
<1> DEFINE X == {w, x, y, z}
           s == Two(w, x)
           t == Two(y, z)
           u == <<w, x, y, z>>
<1>1. /\ s \in Seq(X) /\ t \in Seq(X) /\ u \in Seq(X) /\ Len(s) = 2 /\ Len(t) = 2 /\ Len(u) = 4
      /\ s[1] = w /\ s[2] = x /\ t[1] = y /\ t[2] = z
      /\ u[1] = w /\ u[2] = x /\ u[3] = y /\ u[4] = z
  BY DEF Two
<1> HIDE DEF X, s, t, u
<1>2. /\ s \o t \in Seq(X) /\ Len(s \o t) = Len(s) + Len(t)
      /\ \A i \in 1 .. Len(s) + Len(t) : (s \o t)[i] = IF i <= Len(s) THEN s[i] ELSE t[i - Len(s)]
  BY <1>1, ConcatProperties
<1>3. \A i \in 1 .. 4 : u[i] = (s \o t)[i]
  BY <1>1, <1>2
<1>4. u = s \o t
  BY <1>1, <1>2, <1>3, SeqEqual
<1>5. QED
  BY <1>4 DEF s, t, u

(* Two token rings.                                                         *)
LEMMA RingBarrierPairs == Ringed([r \in Ranks |-> RingBarrier(r).steps])
<1> DEFINE D(r) == IF r = 0 THEN "send" ELSE "recv"
           T(r) == Turn(D(r), Send(Next1(r), Ins(1)), Recv(Prev1(r), Ins(1)))
           f == [r \in Ranks |-> RingBarrier(r).steps]
<1>1. ASSUME NEW r \in Ranks PROVE f[r] = T(r) \o T(r)
  <2> DEFINE x == Send(Next1(r), Ins(1))
             y == Recv(Prev1(r), Ins(1))
  <2>1. RingBarrier(r).steps = IF r = 0 THEN <<x, y, x, y>> ELSE <<y, x, y, x>>
    BY DEF RingBarrier, Program
  <2>2. T(r) = IF r = 0 THEN Two(x, y) ELSE Two(y, x)
    BY DEF Turn
  <2> HIDE DEF x, y, T
  <2>3. <<x, y, x, y>> = Two(x, y) \o Two(x, y)
    BY FourSteps
  <2>4. <<y, x, y, x>> = Two(y, x) \o Two(y, x)
    BY FourSteps
  <2>5. f[r] = RingBarrier(r).steps
    OBVIOUS
  <2> HIDE DEF f
  <2>6. QED
    BY <2>1, <2>2, <2>3, <2>4, <2>5
<1>2. ASSUME NEW r \in Ranks
      PROVE  /\ Fine(T(r), RingNeighbors(r)) /\ Len(T(r)) = 2
             /\ Match(T(r), r, T(Next1(r)), Next1(r))
  <2>1. Len(Ins(1)) = 1 /\ 1 \in Nat \ {0} /\ D(r) \in {"send", "recv"} /\ D(Next1(r)) \in {"send", "recv"}
    BY SlotsLen
  <2>2. N = 2 => D(Next1(r)) # D(r)
    BY RingFacts
  <2> HIDE DEF D
  <2>3. Fine(T(r), RingNeighbors(r)) /\ Len(T(r)) = 2
    BY <2>1, TurnFacts DEF TurnSays
  <2>4. Match(T(r), r, T(Next1(r)), Next1(r))
    BY <2>1, <2>2, TurnMatches
  <2>5. QED
    BY <2>3, <2>4
<1>3. \A r \in Ranks : Next1(r) \in Ranks
  BY RingFacts
<1> HIDE DEF T, f
<1>4. ASSUME NEW r \in Ranks PROVE Fine(f[r], RingNeighbors(r)) /\ Len(f[r]) # 0
  <2> DEFINE t == T(r)
             w == t \o t
  <2>1. Fine(t, RingNeighbors(r)) /\ Len(t) = 2
    BY <1>2
  <2>2. f[r] = w
    BY <1>1
  <2> HIDE DEF t
  <2>3. Fine(w, RingNeighbors(r)) /\ Len(w) = Len(t) + Len(t)
    BY <2>1, FineConcat
  <2> HIDE DEF w
  <2>4. QED
    BY <2>1, <2>2, <2>3
<1>5. ASSUME NEW r \in Ranks PROVE Match(f[r], r, f[Next1(r)], Next1(r))
  <2> DEFINE b == Next1(r)
             t == T(r)
             u == T(b)
  <2>1. b \in Ranks
    BY <1>3
  <2>2. f[r] = t \o t /\ f[b] = u \o u
    BY <1>1, <2>1
  <2>3. Fine(t, RingNeighbors(r)) /\ Fine(u, RingNeighbors(b)) /\ Match(t, r, u, b)
    BY <1>2, <2>1
  <2> HIDE DEF t, u, b
  <2>4. Match(t \o t, r, u \o u, b)
    BY <2>3, MatchConcat
  <2>5. QED
    BY <2>2, <2>4 DEF b
<1>6. Ringed(f)
  BY <1>4, <1>5 DEF Ringed
<1>7. QED
  BY <1>6 DEF f

-----------------------------------------------------------------------------
(* Programs end to end, and loops of programs.                              *)
LEMMA RingedConcat ==
  ASSUME NEW f, NEW g, Ringed(f), Ringed(g)
  PROVE  Ringed([r \in Ranks |-> f[r] \o g[r]])
<1> DEFINE h == [r \in Ranks |-> f[r] \o g[r]]
<1>1. ASSUME NEW r \in Ranks
      PROVE  /\ Fine(f[r], RingNeighbors(r)) /\ Fine(g[r], RingNeighbors(r)) /\ Len(f[r]) # 0
             /\ Match(f[r], r, f[Next1(r)], Next1(r)) /\ Match(g[r], r, g[Next1(r)], Next1(r))
             /\ Next1(r) \in Ranks /\ h[r] = f[r] \o g[r]
  BY RingFacts DEF Ringed
<1> HIDE DEF h
<1>2. ASSUME NEW r \in Ranks PROVE Fine(h[r], RingNeighbors(r)) /\ Len(h[r]) # 0
  <2> DEFINE s == f[r]
             t == g[r]
             w == s \o t
             Q == RingNeighbors(r)
  <2>1. Fine(s, Q) /\ Fine(t, Q) /\ Len(s) # 0 /\ h[r] = w
    BY <1>1
  <2> HIDE DEF s, t, Q
  <2>2. Len(s) \in Nat /\ Len(t) \in Nat
    BY <2>1, FineFacts
  <2>3. Fine(w, Q) /\ Len(w) = Len(s) + Len(t)
    BY <2>1, FineConcat
  <2> HIDE DEF w
  <2>4. QED
    BY <2>1, <2>2, <2>3 DEF Q
<1>3. ASSUME NEW r \in Ranks PROVE Match(h[r], r, h[Next1(r)], Next1(r))
  <2> DEFINE b == Next1(r)
             s == f[r]
             t == g[r]
             u == f[b]
             v == g[b]
             P == RingNeighbors(r)
             Q == RingNeighbors(b)
  <2>1. /\ Fine(s, P) /\ Fine(t, P) /\ Fine(u, Q) /\ Fine(v, Q) /\ Match(s, r, u, b) /\ Match(t, r, v, b)
        /\ h[r] = s \o t /\ h[b] = u \o v
    BY <1>1
  <2> HIDE DEF s, t, u, v, b, P, Q
  <2>2. Match(s \o t, r, u \o v, b)
    BY <2>1, MatchConcat
  <2>3. QED
    BY <2>1, <2>2 DEF b
<1>4. Ringed(h)
  BY <1>2, <1>3 DEF Ringed
<1>5. QED
  BY <1>4 DEF h

AllRinged(F, n) == \A k \in 1 .. n : Ringed(F[k])
Lap(F, n, r) == [k \in 1 .. n |-> F[k][r]]
LEMMA RingedJoined ==
  ASSUME NEW n \in Nat \ {0}, NEW F, AllRinged(F, n)
  PROVE  Ringed([r \in Ranks |-> Joined(Lap(F, n, r))])
<1> DEFINE h == [r \in Ranks |-> Joined(Lap(F, n, r))]
<1>1. ASSUME NEW r \in Ranks
      PROVE  /\ Loop(Lap(F, n, r), n, RingNeighbors(r)) /\ Len(Lap(F, n, r)[1]) # 0
             /\ h[r] = Joined(Lap(F, n, r)) /\ Next1(r) \in Ranks
  <2>1. \A k \in 1 .. n : Fine(F[k][r], RingNeighbors(r)) /\ Len(F[k][r]) # 0
    BY DEF AllRinged, Ringed
  <2>2. \A k \in 1 .. n : Lap(F, n, r)[k] = F[k][r]
    BY DEF Lap
  <2>3. Lap(F, n, r) = [k \in 1 .. n |-> Lap(F, n, r)[k]]
    BY DEF Lap
  <2>4. 1 \in 1 .. n /\ Next1(r) \in Ranks
    BY RingFacts
  <2>5. h[r] = Joined(Lap(F, n, r))
    OBVIOUS
  <2> HIDE DEF h
  <2>6. QED
    BY <2>1, <2>2, <2>3, <2>4, <2>5 DEF Loop
<1> HIDE DEF h
<1>2. ASSUME NEW r \in Ranks PROVE Fine(h[r], RingNeighbors(r)) /\ Len(h[r]) # 0
  <2> DEFINE R == Lap(F, n, r)
             Q == RingNeighbors(r)
             w == Joined(R)
             x == R[1]
  <2>1. Loop(R, n, Q) /\ Len(x) # 0 /\ h[r] = w /\ 1 \in 1 .. n
    BY <1>1
  <2> HIDE DEF R, Q
  <2>2. Fine(w, Q) /\ Len(x) <= Len(w)
    BY <2>1, FineJoined
  <2>3. Fine(x, Q)
    BY <2>1 DEF Loop
  <2> HIDE DEF w, x
  <2>4. Len(x) \in Nat /\ Len(w) \in Nat
    BY <2>2, <2>3, FineFacts
  <2>5. QED
    BY <2>1, <2>2, <2>4 DEF Q
<1>3. ASSUME NEW r \in Ranks PROVE Match(h[r], r, h[Next1(r)], Next1(r))
  <2> DEFINE b == Next1(r)
             R == Lap(F, n, r)
             T == Lap(F, n, b)
             P == RingNeighbors(r)
             Q == RingNeighbors(b)
  <2>1. Loop(R, n, P) /\ Loop(T, n, Q) /\ h[r] = Joined(R) /\ h[b] = Joined(T)
    BY <1>1
  <2>2. \A k \in 1 .. n : Match(R[k], r, T[k], b)
    BY DEF AllRinged, Ringed, Lap
  <2> HIDE DEF b, R, T, P, Q
  <2>3. Match(Joined(R), r, Joined(T), b)
    BY <2>1, <2>2, MatchJoined
  <2>4. QED
    BY <2>1, <2>3 DEF b
<1>4. Ringed(h)
  BY <1>2, <1>3 DEF Ringed
<1>5. QED
  BY <1>4 DEF h

(* A chain from the root, once around the ring: d is what a rank says to    *)
(* the next one, u what it says to the previous.                            *)
ChainSays(w, r, root, d, u) ==
  /\ Fine(w, RingNeighbors(r)) /\ Len(w) # 0
  /\ N >= 3 => Speak(w, Next1(r)) = d /\ Speak(w, Prev1(r)) = u
  /\ N = 2 => Speak(w, Next1(r)) = IF r = root THEN d ELSE u
Chained(f, root, D, U) == \A r \in Ranks :
  /\ ChainSays(f[r], r, root, D[r], U[r])
  /\ IF Next1(r) = root THEN D[r] = <<>> /\ U[root] = <<>> ELSE Mirror(D[r], U[Next1(r)])

LEMMA TwoRanks == ASSUME N = 2, NEW r \in Ranks PROVE Next1(r) = Prev1(r) /\ Ranks = {r, Next1(r)}
<1>1. /\ Ranks = 0 .. (N - 1) /\ r \in 0 .. (N - 1)
      /\ Next1(r) = (IF r = N - 1 THEN 0 ELSE r + 1) /\ Prev1(r) = IF r = 0 THEN N - 1 ELSE r - 1
  BY RingFacts
<1>2. QED
  BY <1>1

LEMMA RingSides ==
  ASSUME NEW r \in Ranks
  PROVE  /\ Next1(r) \in Ranks \ {r} /\ Prev1(r) \in Ranks \ {r} /\ N \in Nat
         /\ N >= 3 \/ N = 2
         /\ N >= 3 => Prev1(r) # Next1(r)
         /\ N = 2 => Prev1(r) = Next1(r) /\ Ranks = {r, Next1(r)}
         /\ Next1(r) \in RingNeighbors(r) /\ Prev1(r) \in RingNeighbors(r)
         /\ {Prev1(r)} \subseteq RingNeighbors(r) /\ {Next1(r)} \subseteq RingNeighbors(r)
<1>1. /\ N \in Nat /\ N >= 2 /\ Next1(r) \in Ranks \ {r} /\ Prev1(r) \in Ranks \ {r}
      /\ N >= 3 => Next1(r) # Prev1(r)
      /\ RingNeighbors(r) = {Next1(r), Prev1(r)}
  BY RingFacts
<1>2. N >= 3 \/ N = 2
  BY <1>1
<1>3. N = 2 => Prev1(r) = Next1(r) /\ Ranks = {r, Next1(r)}
  BY TwoRanks
<1>4. QED
  BY <1>1, <1>2, <1>3

LEMMA ChainPairs ==
  ASSUME NEW f, NEW root \in Ranks, NEW D, NEW U, Chained(f, root, D, U)
  PROVE  Ringed(f)
<1>1. ASSUME NEW r \in Ranks
      PROVE  /\ Fine(f[r], RingNeighbors(r)) /\ Len(f[r]) # 0
             /\ N >= 3 => Speak(f[r], Next1(r)) = D[r] /\ Speak(f[r], Prev1(r)) = U[r]
             /\ N = 2 => Speak(f[r], Next1(r)) = IF r = root THEN D[r] ELSE U[r]
             /\ IF Next1(r) = root THEN D[r] = <<>> /\ U[root] = <<>> ELSE Mirror(D[r], U[Next1(r)])
  BY DEF Chained, ChainSays
<1>2. ASSUME NEW r \in Ranks PROVE Match(f[r], r, f[Next1(r)], Next1(r))
  <2> DEFINE b == Next1(r)
  <2>1. b \in Ranks \ {r} /\ Prev1(b) = r /\ (N >= 3 \/ N = 2)
    BY RingFacts
  <2>2. Mirror(<<>>, <<>>)
    BY MirrorOne
  <2>3. CASE N >= 3
    <3>1. Speak(f[r], b) = D[r] /\ Speak(f[b], r) = U[b]
      BY <1>1, <2>1, <2>3
    <3>2. Mirror(D[r], U[b])
      BY <1>1, <2>2
    <3>3. QED
      BY <3>1, <3>2 DEF Match
  <2>4. CASE N = 2
    <3>1. Next1(b) = r /\ Ranks = {r, b}
      BY <2>1, <2>4, TwoRanks
    <3>2. /\ Speak(f[r], b) = IF r = root THEN D[r] ELSE U[r]
          /\ Speak(f[b], r) = IF b = root THEN D[b] ELSE U[b]
      BY <1>1, <2>1, <2>4, <3>1
    <3>3. r = root => Mirror(D[r], U[b])
      BY <1>1, <2>1
    <3>4. b = root => Mirror(D[b], U[r])
      BY <1>1, <2>1, <3>1
    <3>5. b = root => Mirror(U[r], D[b])
      BY <3>4, MirrorBack
    <3>6. (r = root /\ b # root) \/ (b = root /\ r # root)
      BY <2>1, <3>1
    <3>7. Mirror(Speak(f[r], b), Speak(f[b], r))
      BY <3>2, <3>3, <3>5, <3>6
    <3>8. QED
      BY <3>7 DEF Match
  <2>5. QED
    BY <2>1, <2>3, <2>4
<1>3. QED
  BY <1>1, <1>2 DEF Ringed

(* A rank of such a chain with one step towards the next rank, x, and one   *)
(* towards the previous, y: the root has only x, the last rank only y.      *)
Just(x) == <<x>>
Relayed(w, r, root, x, y) ==
  /\ Next1(r) # root => Good(x, {Next1(r)})
  /\ r # root => Good(y, {Prev1(r)})
  /\ r = root => w = Just(x)
  /\ r # root /\ Next1(r) = root => w = Just(y)
  /\ r # root /\ Next1(r) # root => w = Just(x) \o Just(y) \/ w = Just(y) \o Just(x)

LEMMA GoodWider == ASSUME NEW P, NEW Q, P \subseteq Q, NEW x, Good(x, P) PROVE Good(x, Q)
  BY DEF Good

LEMMA JustFacts ==
  ASSUME NEW Q, NEW x, Good(x, Q), NEW q
  PROVE  /\ Fine(Just(x), Q) /\ Len(Just(x)) = 1
         /\ Speak(Just(x), q) = Said(x, q) /\ Speak(Just(x), q) \in Seq(Message)
<1>1. Fine(<<x>>, Q) /\ Len(<<x>>) = 1 /\ Speak(<<x>>, q) = Said(x, q)
  BY FineOne, SpeakOne
<1>2. Said(x, q) \in Seq(Message)
  BY GoodSaid
<1>3. QED
  BY <1>1, <1>2 DEF Just

LEMMA RelaySays ==
  ASSUME NEW r \in Ranks, NEW root \in Ranks, NEW x, NEW y, NEW w, Relayed(w, r, root, x, y)
  PROVE  ChainSays(w, r, root, IF Next1(r) = root THEN <<>> ELSE Said(x, Next1(r)),
                               IF r = root THEN <<>> ELSE Said(y, Prev1(r)))
<1> DEFINE b == Next1(r)
           a == Prev1(r)
           Q == RingNeighbors(r)
           d == IF b = root THEN <<>> ELSE Said(x, b)
           u == IF r = root THEN <<>> ELSE Said(y, a)
           s == Just(x)
           t == Just(y)
<1>1. /\ b \in Ranks \ {r} /\ (N >= 3 \/ N = 2) /\ N \in Nat
      /\ N >= 3 => a # b
      /\ N = 2 => a = b /\ Ranks = {r, b}
      /\ {a} \subseteq Q /\ {b} \subseteq Q
  BY RingSides
<1>2. /\ b # root => Good(x, {b})
      /\ r # root => Good(y, {a})
      /\ r = root => w = s
      /\ r # root /\ b = root => w = t
      /\ r # root /\ b # root => w = s \o t \/ w = t \o s
  BY DEF Relayed
<1>3. ASSUME b # root
      PROVE  /\ Fine(s, Q) /\ Len(s) = 1 /\ \A q : Speak(s, q) = Said(x, q) /\ Speak(s, q) \in Seq(Message)
             /\ N >= 3 => Speak(s, a) = <<>>
  <2>1. Good(x, {b}) /\ Good(x, Q)
    BY <1>1, <1>2, <1>3, GoodWider
  <2> HIDE DEF s, Q, a, b
  <2>2. Fine(s, Q) /\ Len(s) = 1
    BY <2>1, JustFacts DEF s
  <2>3. ASSUME NEW q PROVE Speak(s, q) = Said(x, q) /\ Speak(s, q) \in Seq(Message)
    BY <2>1, JustFacts DEF s
  <2>4. N >= 3 => Said(x, a) = <<>>
    <3>1. N >= 3 => a \notin {b}
      BY <1>1
    <3>2. QED
      BY <2>1, <3>1, GoodSaid
  <2>5. QED
    BY <2>2, <2>3, <2>4
<1>4. ASSUME r # root
      PROVE  /\ Fine(t, Q) /\ Len(t) = 1 /\ \A q : Speak(t, q) = Said(y, q) /\ Speak(t, q) \in Seq(Message)
             /\ N >= 3 => Speak(t, b) = <<>>
  <2>1. Good(y, {a}) /\ Good(y, Q)
    BY <1>1, <1>2, <1>4, GoodWider
  <2> HIDE DEF t, Q, a, b
  <2>2. Fine(t, Q) /\ Len(t) = 1
    BY <2>1, JustFacts DEF t
  <2>3. ASSUME NEW q PROVE Speak(t, q) = Said(y, q) /\ Speak(t, q) \in Seq(Message)
    BY <2>1, JustFacts DEF t
  <2>4. N >= 3 => Said(y, b) = <<>>
    <3>1. N >= 3 => b \notin {a}
      BY <1>1
    <3>2. QED
      BY <2>1, <3>1, GoodSaid
  <2>5. QED
    BY <2>2, <2>3, <2>4
<1> HIDE DEF s, t, Q, a, b
<1>5. CASE r = root
  <2>1. b # root /\ w = s
    BY <1>1, <1>2, <1>5
  <2>2. Fine(w, Q) /\ Len(w) # 0
    <3>1. Fine(s, Q) /\ Len(s) = 1
      BY <1>3, <2>1
    <3>2. QED
      BY <2>1, <3>1
  <2>3. Speak(w, b) = d
    <3>1. Speak(s, b) = Said(x, b)
      BY <1>3, <2>1
    <3>2. d = Said(x, b)
      BY <2>1
    <3>3. QED
      BY <2>1, <3>1, <3>2
  <2>4. N >= 3 => Speak(w, a) = u
    BY <1>3, <1>5, <2>1
  <2>5. QED
    BY <1>5, <2>2, <2>3, <2>4 DEF ChainSays, Q, a, b
<1>6. CASE r # root /\ b = root
  <2>1. w = t
    BY <1>2, <1>6
  <2>2. Fine(w, Q) /\ Len(w) # 0
    BY <1>4, <1>6, <2>1
  <2>3. Speak(w, a) = u /\ (N >= 3 => Speak(w, b) = d)
    BY <1>4, <1>6, <2>1
  <2>4. N = 2 => Speak(w, b) = u
    BY <1>1, <2>3
  <2>5. QED
    BY <1>6, <2>2, <2>3, <2>4 DEF ChainSays, Q, a, b
<1>7. CASE r # root /\ b # root
  <2>1. N >= 3
    BY <1>1, <1>7
  <2>2. Fine(s, Q) /\ Fine(t, Q) /\ Len(s) = 1 /\ Len(t) = 1
    BY <1>3, <1>4, <1>7
  <2>3. Fine(s \o t, Q) /\ Len(s \o t) = Len(s) + Len(t) /\ Fine(t \o s, Q) /\ Len(t \o s) = Len(t) + Len(s)
    <3> HIDE DEF s, t, Q
    <3>1. Fine(s \o t, Q) /\ Len(s \o t) = Len(s) + Len(t)
      BY <2>2, FineConcat
    <3>2. Fine(t \o s, Q) /\ Len(t \o s) = Len(t) + Len(s)
      BY <2>2, FineConcat
    <3>3. QED
      BY <3>1, <3>2
  <2>4. Fine(w, Q) /\ Len(w) # 0
    <3> DEFINE st == s \o t
               ts == t \o s
    <3>1. Fine(st, Q) /\ Len(st) = 2 /\ Fine(ts, Q) /\ Len(ts) = 2
      <4> HIDE DEF st, ts
      <4>1. Len(st) = Len(s) + Len(t) /\ Len(ts) = Len(t) + Len(s) /\ Fine(st, Q) /\ Fine(ts, Q)
        BY <2>3 DEF st, ts
      <4>2. QED
        BY <2>2, <4>1
    <3>2. w = st \/ w = ts
      BY <1>2, <1>7
    <3> HIDE DEF st, ts
    <3>3. QED
      BY <3>1, <3>2
  <2>5. ASSUME NEW q
        PROVE  Speak(s \o t, q) = Speak(s, q) \o Speak(t, q) /\ Speak(t \o s, q) = Speak(t, q) \o Speak(s, q)
    BY <2>2, SpeakConcat
  <2>6. /\ Speak(s, b) \in Seq(Message) /\ Speak(t, b) = <<>>
        /\ Speak(t, a) \in Seq(Message) /\ Speak(s, a) = <<>>
    BY <1>3, <1>4, <1>7, <2>1
  <2>7. /\ Speak(s, b) \o <<>> = Speak(s, b) /\ <<>> \o Speak(s, b) = Speak(s, b)
        /\ Speak(t, a) \o <<>> = Speak(t, a) /\ <<>> \o Speak(t, a) = Speak(t, a)
    BY <2>6, ConcatEmptySeq
  <2>8. Speak(w, b) = Speak(s, b) /\ Speak(w, a) = Speak(t, a)
    BY <1>2, <1>7, <2>5, <2>6, <2>7
  <2>9. Speak(w, b) = d /\ Speak(w, a) = u
    BY <1>3, <1>4, <1>7, <2>8
  <2>10. N # 2
    BY <1>1, <2>1
  <2>11. QED
    BY <2>4, <2>9, <2>10 DEF ChainSays, Q, a, b
<1>8. QED
  BY <1>5, <1>6, <1>7

(* All the ranks: it is enough that neighbours say matching things.         *)
Relay(f, root, X, Y) == \A r \in Ranks :
  /\ Relayed(f[r], r, root, X[r], Y[r])
  /\ Next1(r) # root => Mirror(Said(X[r], Next1(r)), Said(Y[Next1(r)], r))
LEMMA RelayPairs ==
  ASSUME NEW f, NEW root \in Ranks, NEW X, NEW Y, Relay(f, root, X, Y)
  PROVE  Ringed(f)
<1> DEFINE D == [r \in Ranks |-> IF Next1(r) = root THEN <<>> ELSE Said(X[r], Next1(r))]
           U == [r \in Ranks |-> IF r = root THEN <<>> ELSE Said(Y[r], Prev1(r))]
<1>1. ASSUME NEW r \in Ranks PROVE ChainSays(f[r], r, root, D[r], U[r])
  BY RelaySays DEF Relay
<1>2. ASSUME NEW r \in Ranks
      PROVE  IF Next1(r) = root THEN D[r] = <<>> /\ U[root] = <<>> ELSE Mirror(D[r], U[Next1(r)])
  <2>1. Next1(r) \in Ranks /\ Prev1(Next1(r)) = r
    BY RingFacts
  <2>2. QED
    BY <2>1 DEF Relay
<1> HIDE DEF D, U
<1>3. Chained(f, root, D, U)
  BY <1>1, <1>2 DEF Chained
<1>4. QED
  BY <1>3, ChainPairs

LEMMA JustNone == ASSUME NEW x PROVE Just(x) \o <<>> = Just(x) /\ <<>> \o Just(x) = Just(x)
<1> DEFINE X == {x}
           s == Just(x)
<1>1. s \in Seq(X)
  BY DEF Just
<1> HIDE DEF X, s
<1>2. QED
  BY <1>1, ConcatEmptySeq DEF s

(* Broadcast: down the ring from the root.                                  *)
LEMMA RingBroadcastPairs ==
  ASSUME NEW root \in Ranks
  PROVE  Ringed([r \in Ranks |-> RingBroadcast(r, root).steps])
<1> DEFINE x(r) == Send(Next1(r), Ins(1))
           y(r) == Recv(Prev1(r), Ins(1))
           f == [r \in Ranks |-> RingBroadcast(r, root).steps]
           X == [r \in Ranks |-> x(r)]
           Y == [r \in Ranks |-> y(r)]
<1>1. ASSUME NEW r \in Ranks
      PROVE  /\ Good(x(r), {Next1(r)}) /\ Said(x(r), Next1(r)) = Say("send", 1)
             /\ Good(y(r), {Prev1(r)}) /\ Said(y(r), Prev1(r)) = Say("recv", 1)
  <2> DEFINE s == Ins(1)
             b == Next1(r)
             a == Prev1(r)
  <2>0. Len(s) = 1 /\ b \in {b} /\ a \in {a}
    BY SlotsLen
  <2>1. Len(s) = 1 /\ Len(s) \in Nat \ {0} /\ b \in {b} /\ a \in {a}
    BY <2>0
  <2> HIDE DEF s, a, b
  <2>2. Good(Send(b, s), {b}) /\ Said(Send(b, s), b) = Say("send", 1)
    BY <2>1, SendSaid
  <2>3. Good(Recv(a, s), {a}) /\ Said(Recv(a, s), a) = Say("recv", Len(s))
    BY <2>1, RecvSaid
  <2>4. QED
    BY <2>1, <2>2, <2>3 DEF s, a, b
<1>2. ASSUME NEW r \in Ranks
      PROVE  f[r] = LET forward == IF Next1(r) = root THEN <<>> ELSE Just(x(r))
                    IN  IF r = root THEN forward ELSE Just(y(r)) \o forward
  BY DEF RingBroadcast, Program, Just
<1> HIDE DEF f, x, y
<1>3. ASSUME NEW r \in Ranks PROVE Relayed(f[r], r, root, X[r], Y[r])
  <2>1. Next1(r) # r
    BY RingFacts
  <2>2. Just(y(r)) \o <<>> = Just(y(r))
    BY JustNone
  <2>3. QED
    BY <1>1, <1>2, <2>1, <2>2 DEF Relayed
<1>4. ASSUME NEW r \in Ranks PROVE Mirror(Said(X[r], Next1(r)), Said(Y[Next1(r)], r))
  <2>1. Next1(r) \in Ranks /\ Prev1(Next1(r)) = r
    BY RingFacts
  <2>2. Mirror(Say("send", 1), Say("recv", 1))
    BY MirrorOne
  <2>3. QED
    BY <1>1, <2>1, <2>2
<1> HIDE DEF X, Y
<1>5. Relay(f, root, X, Y)
  BY <1>3, <1>4 DEF Relay
<1>6. Ringed(f)
  BY <1>5, RelayPairs
<1>7. QED
  BY <1>6 DEF f

(* Reduce of n chunks: up the ring to the root.                             *)
LEMMA RingReducePairs ==
  ASSUME NEW root \in Ranks, NEW n \in Nat \ {0}
  PROVE  Ringed([r \in Ranks |-> RingReduceOf(n, r, root).steps])
<1> DEFINE x(r) == RecvFold(Next1(r), [i \in 1 .. n |-> Tmp(i - 1)], {<<In(i), Tmp(i)>> : i \in 0 .. (n - 1)})
           y(r) == Send(Prev1(r), Ins(n))
           f == [r \in Ranks |-> RingReduceOf(n, r, root).steps]
           X == [r \in Ranks |-> x(r)]
           Y == [r \in Ranks |-> y(r)]
<1>1. ASSUME NEW r \in Ranks
      PROVE  /\ Good(x(r), {Next1(r)}) /\ Said(x(r), Next1(r)) = Say("recv", n)
             /\ Good(y(r), {Prev1(r)}) /\ Said(y(r), Prev1(r)) = Say("send", n)
  <2> DEFINE s == Ins(n)
             t == [i \in 1 .. n |-> Tmp(i - 1)]
             folds == {<<In(i), Tmp(i)>> : i \in 0 .. (n - 1)}
             b == Next1(r)
             a == Prev1(r)
  <2>1. Len(s) = n /\ Len(t) = n /\ b \in {b} /\ a \in {a}
    BY SlotsLen
  <2> HIDE DEF s, t, folds, a, b
  <2>2. Good(RecvFold(b, t, folds), {b}) /\ Said(RecvFold(b, t, folds), b) = Say("recv", n)
    BY <2>1, RecvFoldSaid
  <2>3. Good(Send(a, s), {a}) /\ Said(Send(a, s), a) = Say("send", n)
    BY <2>1, SendSaid
  <2>4. QED
    BY <2>2, <2>3 DEF s, t, folds, a, b
<1>2. ASSUME NEW r \in Ranks
      PROVE  f[r] = IF r = root THEN Just(x(r))
                    ELSE (IF Position(r, root) = N - 1 THEN <<>> ELSE Just(x(r))) \o Just(y(r))
  BY DEF RingReduceOf, Program, Just
<1> HIDE DEF f, x, y
<1>3. ASSUME NEW r \in Ranks PROVE Relayed(f[r], r, root, X[r], Y[r])
  <2>1. (Position(r, root) = N - 1) <=> (Next1(r) = root)
    BY PositionFacts
  <2>2. <<>> \o Just(y(r)) = Just(y(r))
    BY JustNone
  <2>3. QED
    BY <1>1, <1>2, <2>1, <2>2 DEF Relayed
<1>4. ASSUME NEW r \in Ranks PROVE Mirror(Said(X[r], Next1(r)), Said(Y[Next1(r)], r))
  <2>1. Next1(r) \in Ranks /\ Prev1(Next1(r)) = r
    BY RingFacts
  <2>2. Mirror(Say("recv", n), Say("send", n))
    BY MirrorOne
  <2>3. QED
    BY <1>1, <2>1, <2>2
<1> HIDE DEF X, Y
<1>5. Relay(f, root, X, Y)
  BY <1>3, <1>4 DEF Relay
<1>6. Ringed(f)
  BY <1>5, RelayPairs
<1>7. QED
  BY <1>6 DEF f

(* Gather: up the ring, one chunk more at each rank.                        *)
LEMMA RingGatherPairs ==
  ASSUME NEW root \in Ranks
  PROVE  Ringed([r \in Ranks |-> RingGather(r, root).steps])
<1> DEFINE held(r) == N - Position(r, root)
           rest(r) == [i \in 1 .. (held(r) - 1) |-> Tmp(i)]
           place == {<<In((root + 1 + i) % N), Tmp(i)>> : i \in 0 .. (N - 2)}
           x(r) == IF r = root THEN RecvCopy(Next1(r), Tmps(N - 1), place) ELSE Recv(Next1(r), rest(r))
           y(r) == Send(Prev1(r), Tmps(held(r)))
           f == [r \in Ranks |-> RingGather(r, root).steps]
           X == [r \in Ranks |-> x(r)]
           Y == [r \in Ranks |-> y(r)]
<1>0. ASSUME NEW r \in Ranks
      PROVE  /\ held(r) \in 1 .. N
             /\ (held(r) = 1) <=> (Next1(r) = root)
             /\ r = root => held(r) = N
             /\ Next1(r) # root => held(Next1(r)) = held(r) - 1
  <2> DEFINE p == Position(r, root)
             b == Next1(r)
             q == Position(b, root)
  <2>1. /\ p \in 0 .. (N - 1) /\ (p = 0 <=> r = root) /\ (p = N - 1 <=> b = root)
        /\ b # root => q = p + 1
        /\ N \in Nat
    BY PositionFacts, RingFacts
  <2>2. held(r) = N - p /\ held(b) = N - q
    OBVIOUS
  <2> HIDE DEF p, b, q, held
  <2>3. /\ held(r) \in 1 .. N /\ (held(r) = 1 <=> b = root) /\ (r = root => held(r) = N)
        /\ b # root => held(b) = held(r) - 1
    BY <2>1, <2>2
  <2>4. QED
    BY <2>3 DEF b
<1>2. ASSUME NEW r \in Ranks
      PROVE  f[r] = IF r = root THEN Just(x(r))
                    ELSE (IF held(r) = 1 THEN <<>> ELSE Just(x(r))) \o Just(y(r))
  BY DEF RingGather, Program, Just
<1> HIDE DEF held, place
<1>1. ASSUME NEW r \in Ranks
      PROVE  /\ Next1(r) # root => Good(x(r), {Next1(r)}) /\ Said(x(r), Next1(r)) = Say("recv", held(r) - 1)
             /\ Good(y(r), {Prev1(r)}) /\ Said(y(r), Prev1(r)) = Say("send", held(r))
  <2> DEFINE b == Next1(r)
             a == Prev1(r)
             h == held(r)
             l == h - 1
             s == Tmps(h)
             t == rest(r)
             u == Tmps(N - 1)
  <2>1. h \in 1 .. N /\ (h = 1 <=> b = root) /\ (r = root => h = N) /\ N \in Nat /\ N >= 2
    BY <1>0, RingFacts
  <2>2. b \in {b} /\ a \in {a} /\ Len(s) = h /\ Len(u) = N - 1 /\ Len(t) = l
    BY <2>1, SlotsLen
  <2>3. x(r) = IF r = root THEN RecvCopy(b, u, place) ELSE Recv(b, t)
    OBVIOUS
  <2>4. y(r) = Send(a, s)
    OBVIOUS
  <2>5. h \in Nat \ {0} /\ (b # root => l \in Nat \ {0}) /\ (r = root => l = N - 1)
    BY <2>1
  <2> HIDE DEF s, t, u, a, b, h, l, x, y
  <2>6. Good(Send(a, s), {a}) /\ Said(Send(a, s), a) = Say("send", h)
    BY <2>2, <2>5, SendSaid
  <2>7. ASSUME b # root, r # root PROVE Good(Recv(b, t), {b}) /\ Said(Recv(b, t), b) = Say("recv", l)
    BY <2>2, <2>5, <2>7, RecvSaid
  <2>8. ASSUME b # root, r = root
        PROVE  Good(RecvCopy(b, u, place), {b}) /\ Said(RecvCopy(b, u, place), b) = Say("recv", l)
    <3>1. Len(u) = l
      BY <2>2, <2>5, <2>8
    <3>2. QED
      BY <2>2, <2>5, <2>8, <3>1, RecvCopySaid
  <2>9. b # root => Good(x(r), {b}) /\ Said(x(r), b) = Say("recv", l)
    BY <2>3, <2>7, <2>8
  <2>10. Good(y(r), {a}) /\ Said(y(r), a) = Say("send", h)
    BY <2>4, <2>6
  <2>11. QED
    BY <2>9, <2>10 DEF a, b, h, l
<1> HIDE DEF f, x, y
<1>3. ASSUME NEW r \in Ranks PROVE Relayed(f[r], r, root, X[r], Y[r])
  <2>1. (held(r) = 1) <=> (Next1(r) = root)
    BY <1>0
  <2>2. <<>> \o Just(y(r)) = Just(y(r))
    BY JustNone
  <2>3. QED
    BY <1>1, <1>2, <2>1, <2>2 DEF Relayed
<1>4. ASSUME NEW r \in Ranks, Next1(r) # root PROVE Mirror(Said(X[r], Next1(r)), Said(Y[Next1(r)], r))
  <2> DEFINE l == held(r) - 1
  <2>1. Next1(r) \in Ranks /\ Prev1(Next1(r)) = r
    BY RingFacts
  <2>2. l = held(Next1(r)) /\ l \in Nat
    BY <1>0, <1>4, <2>1
  <2>3. Said(X[r], Next1(r)) = Say("recv", l) /\ Said(Y[Next1(r)], r) = Say("send", held(Next1(r)))
    BY <1>1, <1>4, <2>1
  <2> HIDE DEF l
  <2>4. Mirror(Say("recv", l), Say("send", l))
    BY <2>2, MirrorOne
  <2>5. QED
    BY <2>2, <2>3, <2>4
<1> HIDE DEF X, Y
<1>5. Relay(f, root, X, Y)
  BY <1>3, <1>4 DEF Relay
<1>6. Ringed(f)
  BY <1>5, RelayPairs
<1>7. QED
  BY <1>6 DEF f

(* n messages of one chunk.                                                 *)
Times(d, n) == [i \in 1 .. n |-> [dir |-> d, len |-> 1]]

LEMMA TimesNext ==
  ASSUME NEW n \in Nat, NEW d \in {"send", "recv"}
  PROVE  Say(d, 1) \o Times(d, n) = Times(d, n + 1)
<1> DEFINE m == [dir |-> d, len |-> 1]
           s == Say(d, 1)
           t == Times(d, n)
           u == Times(d, n + 1)
<1>1. /\ s \in Seq({m}) /\ Len(s) = 1 /\ s[1] = m
      /\ t \in Seq({m}) /\ Len(t) = n /\ \A i \in 1 .. n : t[i] = m
      /\ u \in Seq({m}) /\ Len(u) = n + 1 /\ \A i \in 1 .. n + 1 : u[i] = m
  BY DEF Say, Times
<1> HIDE DEF m, s, t, u
<1>2. /\ s \o t \in Seq({m}) /\ Len(s \o t) = Len(s) + Len(t)
      /\ \A i \in 1 .. Len(s) + Len(t) : (s \o t)[i] = IF i <= Len(s) THEN s[i] ELSE t[i - Len(s)]
  BY <1>1, ConcatProperties
<1> DEFINE st == s \o t
<1>3. st \in Seq({m}) /\ Len(st) = n + 1
  BY <1>1, <1>2
<1> HIDE DEF st
<1>4. \A i \in 1 .. n + 1 : st[i] = m
  <2> TAKE i \in 1 .. n + 1
  <2>1. i \in 1 .. Len(st)
    BY <1>3
  <2>2. QED
    BY <1>3, <2>1, ElementOfSeq
<1>5. st = u
  BY <1>1, <1>3, <1>4, SeqEqual
<1>6. QED
  BY <1>5 DEF st, s, t, u

LEMMA TimesJoined ==
  ASSUME NEW n \in Nat, NEW d \in {"send", "recv"}, NEW s \in Seq(Seq(Message)), Len(s) = n,
         \A k \in 1 .. n : s[k] = Say(d, 1)
  PROVE  Joined(s) = Times(d, n)
<1> DEFINE m == [dir |-> d, len |-> 1]
           t == [i \in 1 .. n |-> <<m>>]
<1>1. m \in Message
  BY DEF Message
<1>2. t \in Seq(Seq(Message)) /\ Len(t) = n /\ \A k \in 1 .. n : t[k] = Say(d, 1)
  BY <1>1 DEF Say
<1>3. Joined(t) = Times(d, n)
  <2>1. Times(d, n) = [i \in 1 .. n |-> m]
    BY DEF Times
  <2> HIDE DEF m
  <2>2. Joined(t) = [i \in 1 .. n |-> m]
    BY <1>1, JoinedRepeat
  <2>3. QED
    BY <2>1, <2>2
<1> HIDE DEF t
<1>4. s = t
  BY <1>2, SeqEqual
<1>5. QED
  BY <1>3, <1>4

LEMMA TimesMirror ==
  ASSUME NEW n \in Nat
  PROVE  Mirror(Times("send", n), Times("recv", n)) /\ Mirror(Times("recv", n), Times("send", n))
  BY DEF Mirror, Times

(* A loop of n turns that say one message of one chunk each.                *)
LEMMA TimesLoop ==
  ASSUME NEW Q, NEW n \in Nat, NEW R, Loop(R, n, Q), NEW q, NEW d \in {"send", "recv"},
         \A k \in 1 .. n : Speak(R[k], q) = Say(d, 1)
  PROVE  Speak(Joined(R), q) = Times(d, n)
<1> DEFINE S == Turns(R, n, q)
<1>1. S \in Seq(Seq(Message)) /\ Len(S) = n /\ (\A k \in 1 .. n : S[k] = Speak(R[k], q))
      /\ Speak(Joined(R), q) = Joined(S)
  BY SpeakJoined
<1>2. \A k \in 1 .. n : S[k] = Say(d, 1)
  BY <1>1
<1> HIDE DEF S
<1>3. Joined(S) = Times(d, n)
  BY <1>1, <1>2, TimesJoined
<1>4. QED
  BY <1>1, <1>3

LEMMA TimesRow ==
  ASSUME NEW Q, NEW n \in Nat, NEW s, Straight(s, n, Q), NEW q, NEW d \in {"send", "recv"},
         \A k \in 1 .. n : Said(s[k], q) = Say(d, 1)
  PROVE  Speak(s, q) = Times(d, n)
<1> DEFINE S == Saids(s, n, q)
<1>1. S \in Seq(Seq(Message)) /\ Len(S) = n /\ (\A k \in 1 .. n : S[k] = Said(s[k], q))
      /\ Speak(s, q) = Joined(S)
  BY SpeakRow
<1>2. \A k \in 1 .. n : S[k] = Say(d, 1)
  BY <1>1
<1> HIDE DEF S
<1>3. Joined(S) = Times(d, n)
  BY <1>1, <1>2, TimesJoined
<1>4. QED
  BY <1>1, <1>3

LEMMA TwoJust == ASSUME NEW x, NEW y PROVE Two(x, y) = Just(x) \o Just(y)
<1> DEFINE X == {x, y}
           s == Just(x)
           t == Just(y)
           w == Two(x, y)
<1>1. /\ s \in Seq(X) /\ t \in Seq(X) /\ w \in Seq(X) /\ Len(s) = 1 /\ Len(t) = 1 /\ Len(w) = 2
      /\ s[1] = x /\ t[1] = y /\ w[1] = x /\ w[2] = y
  BY DEF Two, Just
<1> HIDE DEF X, s, t, w
<1>2. /\ s \o t \in Seq(X) /\ Len(s \o t) = Len(s) + Len(t)
      /\ \A i \in 1 .. Len(s) + Len(t) : (s \o t)[i] = IF i <= Len(s) THEN s[i] ELSE t[i - Len(s)]
  BY <1>1, ConcatProperties
<1>3. \A i \in 1 .. 2 : w[i] = (s \o t)[i]
  BY <1>1, <1>2
<1>4. w = s \o t
  BY <1>1, <1>2, <1>3, SeqEqual
<1>5. QED
  BY <1>4 DEF s, t, w

(* Scatter: N - 1 chunks leave the root one by one; a rank keeps the first  *)
(* it receives and passes on the others.                                    *)
LEMMA ScatterRoot ==
  ASSUME NEW root \in Ranks, NEW source
  PROVE  ChainSays(RingScatterFrom(root, root, source).steps, root, root, Times("send", N - 1), <<>>)
<1> DEFINE n == N - 1
           b == Next1(root)
           a == Prev1(root)
           Q == RingNeighbors(root)
           s == [k \in 1 .. n |-> Send(Next1(root), <<source[(root + k) % N]>>)]
<1>0. RingScatterFrom(root, root, source).steps = s
  BY DEF RingScatterFrom, Program
<1>1. /\ n \in Nat \ {0} /\ b \in Q /\ a \in Q /\ (N >= 3 => a # b)
      /\ RingScatterFrom(root, root, source).steps = s
  <2> HIDE DEF s
  <2>1. n \in Nat \ {0}
    BY WorldSizeAssumption
  <2>2. b \in Q /\ a \in Q /\ (N >= 3 => a # b)
    BY RingFacts
  <2>3. QED
    BY <1>0, <2>1, <2>2
<1>2. ASSUME NEW k \in 1 .. n
      PROVE  Good(s[k], {b}) /\ Good(s[k], Q) /\ Said(s[k], b) = Say("send", 1)
  <2> DEFINE t == <<source[(root + k) % N]>>
  <2>0. Len(t) = 1 /\ b \in {b}
    BY SlotsLen
  <2>1. Len(t) = 1 /\ Len(t) \in Nat \ {0} /\ b \in {b}
    BY <2>0
  <2>2. s[k] = Send(b, t)
    OBVIOUS
  <2>3. {b} \subseteq Q
    BY <1>1
  <2> HIDE DEF t, s, b, Q
  <2>4. Good(Send(b, t), {b}) /\ Said(Send(b, t), b) = Say("send", Len(t))
    BY <2>1, SendSaid
  <2>5. QED
    BY <2>1, <2>2, <2>3, <2>4, GoodWider
<1>3. s = [k \in 1 .. n |-> s[k]]
  OBVIOUS
<1> HIDE DEF s, n, a, b, Q
<1>4. Straight(s, n, {b}) /\ Straight(s, n, Q)
  BY <1>2, <1>3 DEF Straight
<1>5. Fine(s, Q) /\ Fine(s, {b}) /\ Len(s) = n
  BY <1>1, <1>4, FineRow
<1>6. Speak(s, b) = Times("send", n)
  BY <1>1, <1>2, <1>4, TimesRow
<1>7. N >= 3 => Speak(s, a) = <<>>
  <2>1. N >= 3 => a \notin {b}
    BY <1>1
  <2>2. QED
    BY <1>5, <2>1, SpeakFacts
<1>8. Len(s) # 0
  BY <1>1, <1>5
<1>9. ChainSays(s, root, root, Times("send", n), <<>>)
  BY <1>5, <1>6, <1>7, <1>8 DEF ChainSays, a, b, Q
<1>10. QED
  BY <1>1, <1>9 DEF n

LEMMA ScatterOther ==
  ASSUME NEW root \in Ranks, NEW source, NEW r \in Ranks, r # root
  PROVE  ChainSays(RingScatterFrom(r, root, source).steps, r, root,
                   Times("send", N - 1 - Position(r, root)), Times("recv", N - Position(r, root)))
<1> DEFINE n == N - 1 - Position(r, root)
           b == Next1(r)
           a == Prev1(r)
           Q == RingNeighbors(r)
           x == Recv(Prev1(r), Ins(1))
           pass == Turn("recv", Send(Next1(r), Tmps(1)), Recv(Prev1(r), Tmps(1)))
           R == [k \in 1 .. n |-> pass]
           s == Just(x)
           w == s \o Joined(R)
<1>1. /\ n \in Nat /\ N - Position(r, root) = n + 1 /\ N \in Nat /\ (N = 2 => n = 0)
      /\ b \in Q /\ a \in Q /\ (N >= 3 => a # b) /\ (N = 2 => a = b)
  <2>1. Position(r, root) \in 0 .. (N - 1) /\ Position(r, root) # 0 /\ N \in Nat
    BY PositionFacts, RingFacts
  <2>2. b \in Q /\ a \in Q /\ (N >= 3 => a # b) /\ (N = 2 => a = b)
    BY RingSides
  <2> HIDE DEF a, b, Q
  <2>3. QED
    BY <2>1, <2>2
<1>2. RingScatterFrom(r, root, source).steps = w
  BY DEF RingScatterFrom, Program, Turn, Two, Just
<1>3. Fine(pass, Q) /\ (N >= 3 => Speak(pass, b) = Say("send", 1) /\ Speak(pass, a) = Say("recv", 1))
  <2> DEFINE t == Tmps(1)
  <2>1. Len(t) = 1
    BY SlotsLen
  <2>2. Len(t) \in Nat \ {0}
    BY <2>1
  <2> HIDE DEF t
  <2>3. TurnSays(Turn("recv", Send(Next1(r), t), Recv(Prev1(r), t)), r, "recv", Say("send", Len(t)), Say("recv", Len(t)))
    BY <2>2, TurnFacts
  <2>4. TurnSays(Turn("recv", Send(Next1(r), t), Recv(Prev1(r), t)), r, "recv", Say("send", 1), Say("recv", 1))
    BY <2>1, <2>3
  <2>5. TurnSays(pass, r, "recv", Say("send", 1), Say("recv", 1))
    BY <2>4 DEF t
  <2> HIDE DEF pass
  <2>6. QED
    BY <2>5 DEF TurnSays
<1>4. Good(x, {a}) /\ Good(x, Q) /\ Said(x, a) = Say("recv", 1)
  <2> DEFINE t == Ins(1)
  <2>0. Len(t) = 1 /\ a \in {a} /\ {a} \subseteq Q
    BY <1>1, SlotsLen
  <2>1. Len(t) = 1 /\ Len(t) \in Nat \ {0} /\ a \in {a} /\ {a} \subseteq Q
    BY <2>0
  <2> HIDE DEF t, a, Q
  <2>2. Good(Recv(a, t), {a}) /\ Said(Recv(a, t), a) = Say("recv", Len(t))
    BY <2>1, RecvSaid
  <2>3. Good(Recv(a, t), Q)
    BY <2>1, <2>2, GoodWider
  <2>4. QED
    BY <2>1, <2>2, <2>3 DEF t, a
<1>5. R = [k \in 1 .. n |-> R[k]] /\ \A k \in 1 .. n : R[k] = pass
  OBVIOUS
<1> HIDE DEF x, pass, R, n, a, b, Q
<1>6. Loop(R, n, Q)
  BY <1>3, <1>5 DEF Loop
<1>7. /\ Fine(s, Q) /\ Fine(s, {a}) /\ Len(s) = 1 /\ Speak(s, a) = Say("recv", 1) /\ Speak(s, a) \in Seq(Message)
      /\ N >= 3 => Speak(s, b) = <<>>
  <2>1. Fine(s, Q) /\ Len(s) = 1 /\ Speak(s, a) = Said(x, a) /\ Speak(s, a) \in Seq(Message)
    BY <1>4, JustFacts
  <2>2. Fine(s, {a})
    BY <1>4, JustFacts
  <2>3. N >= 3 => b \notin {a}
    BY <1>1
  <2> HIDE DEF s
  <2>4. QED
    BY <1>4, <2>1, <2>2, <2>3, SpeakFacts
<1> DEFINE t == Joined(R)
<1>8. Fine(t, Q)
  BY <1>1, <1>6, FineJoined
<1>9. ASSUME N >= 3 PROVE Speak(t, b) = Times("send", n) /\ Speak(t, a) = Times("recv", n)
  <2>1. \A k \in 1 .. n : Speak(R[k], b) = Say("send", 1) /\ Speak(R[k], a) = Say("recv", 1)
    BY <1>3, <1>5, <1>9
  <2> HIDE DEF t
  <2>2. Speak(Joined(R), b) = Times("send", n)
    BY <1>1, <1>6, <2>1, TimesLoop
  <2>3. Speak(Joined(R), a) = Times("recv", n)
    BY <1>1, <1>6, <2>1, TimesLoop
  <2>4. QED
    BY <2>2, <2>3 DEF t
<1>10. ASSUME N = 2 PROVE Speak(t, a) = Times("recv", n)
  <2>1. \A k \in 1 .. n : Speak(R[k], a) = Say("recv", 1)
    BY <1>1, <1>10
  <2>2. Speak(Joined(R), a) = Times("recv", n)
    BY <1>1, <1>6, <2>1, TimesLoop
  <2>3. QED
    BY <2>2
<1> HIDE DEF s, t
<1>11. Fine(s \o t, Q) /\ Len(s \o t) = Len(s) + Len(t)
  BY <1>7, <1>8, FineConcat
<1>12. Len(t) \in Nat
  BY <1>8, FineFacts
<1>13. \A q : Speak(s \o t, q) = Speak(s, q) \o Speak(t, q)
  BY <1>7, <1>8, SpeakConcat
<1>14. w = s \o t
  BY DEF t
<1> HIDE DEF w
<1>15. N >= 3 => Speak(w, b) = Times("send", n)
  <2>1. Times("send", n) \in Seq(Message)
    BY <1>1 DEF Times, Message
  <2>2. <<>> \o Times("send", n) = Times("send", n)
    BY <2>1, ConcatEmptySeq
  <2>3. QED
    BY <1>7, <1>9, <1>13, <1>14, <2>2
<1>16. Say("recv", 1) \o Times("recv", n) = Times("recv", n + 1)
  BY <1>1, TimesNext
<1>17. Speak(w, a) = Times("recv", n + 1)
  <2>1. N >= 3 \/ N = 2
    BY RingSides
  <2>2. Speak(t, a) = Times("recv", n)
    BY <1>9, <1>10, <2>1
  <2>3. QED
    BY <1>7, <1>13, <1>14, <1>16, <2>2
<1>18. Fine(w, Q) /\ Len(w) # 0
  BY <1>7, <1>11, <1>12, <1>14
<1>19. N = 2 => Speak(w, b) = Times("recv", n + 1)
  BY <1>1, <1>17
<1>20. ChainSays(w, r, root, Times("send", n), Times("recv", n + 1))
  BY <1>15, <1>17, <1>18, <1>19 DEF ChainSays, a, b, Q
<1>21. QED
  BY <1>1, <1>2, <1>20 DEF n

LEMMA RingScatterPairs ==
  ASSUME NEW root \in Ranks, NEW source
  PROVE  Ringed([r \in Ranks |-> RingScatterFrom(r, root, source).steps])
<1> DEFINE f == [r \in Ranks |-> RingScatterFrom(r, root, source).steps]
           D == [r \in Ranks |-> Times("send", N - 1 - Position(r, root))]
           U == [r \in Ranks |-> IF r = root THEN <<>> ELSE Times("recv", N - Position(r, root))]
<1>1. ASSUME NEW r \in Ranks PROVE ChainSays(f[r], r, root, D[r], U[r])
  <2>1. CASE r = root
    <3>1. Position(r, root) = 0 /\ N - 1 - 0 = N - 1
      BY <2>1, PositionFacts, RingFacts
    <3>2. ChainSays(RingScatterFrom(root, root, source).steps, root, root, Times("send", N - 1), <<>>)
      BY ScatterRoot
    <3>3. D[r] = Times("send", N - 1) /\ U[r] = <<>> /\ f[r] = RingScatterFrom(root, root, source).steps
      BY <2>1, <3>1
    <3> HIDE DEF f, D, U
    <3>4. QED
      BY <2>1, <3>2, <3>3
  <2>2. CASE r # root
    <3>1. ChainSays(RingScatterFrom(r, root, source).steps, r, root,
                    Times("send", N - 1 - Position(r, root)), Times("recv", N - Position(r, root)))
      BY <2>2, ScatterOther
    <3>2. QED
      BY <2>2, <3>1
  <2>3. QED
    BY <2>1, <2>2
<1>2. ASSUME NEW r \in Ranks
      PROVE  IF Next1(r) = root THEN D[r] = <<>> /\ U[root] = <<>> ELSE Mirror(D[r], U[Next1(r)])
  <2> DEFINE b == Next1(r)
             n == N - 1 - Position(r, root)
  <2>1. /\ b \in Ranks /\ N \in Nat /\ Position(r, root) \in 0 .. (N - 1)
        /\ (Position(r, root) = N - 1 <=> b = root)
        /\ (b # root => Position(b, root) = Position(r, root) + 1)
    BY RingFacts, PositionFacts
  <2>2. n \in Nat /\ (b = root => n = 0) /\ (b # root => N - Position(b, root) = n)
    BY <2>1
  <2>3. Times("send", 0) = <<>>
    BY DEF Times
  <2>4. D[r] = Times("send", n) /\ U[root] = <<>> /\ (b # root => U[b] = Times("recv", N - Position(b, root)))
    BY <2>1
  <2> HIDE DEF b, n, D, U
  <2>5. Mirror(Times("send", n), Times("recv", n))
    BY <2>2, TimesMirror
  <2>6. QED
    BY <2>2, <2>3, <2>4, <2>5 DEF b
<1> HIDE DEF f, D, U
<1>3. Chained(f, root, D, U)
  BY <1>1, <1>2 DEF Chained
<1>4. Ringed(f)
  BY <1>3, ChainPairs
<1>5. QED
  BY <1>4 DEF f

-----------------------------------------------------------------------------
(* Two ranks that swap: the smaller sends first.                            *)
Swapped(w, r, p, u, v) ==
  /\ Fine(w, {p}) /\ Len(w) = 2
  /\ r < p => Speak(w, p) = u \o v
  /\ ~(r < p) => Speak(w, p) = v \o u
LEMMA SwapFacts ==
  ASSUME NEW r, NEW p, NEW mine, NEW theirs, NEW folds,
         Len(mine) \in Nat \ {0}, Len(theirs) \in Nat \ {0}
  PROVE  Swapped(Swap(r, p, mine, theirs, folds), r, p, Say("send", Len(mine)), Say("recv", Len(theirs)))
<1> DEFINE Q == {p}
           w == Swap(r, p, mine, theirs, folds)
           c == Send(p, mine)
           d == RecvFold(p, theirs, folds)
           e == Recv(p, theirs)
           g == Step({SendPart(p, mine)}, {}, folds)
           u == Say("send", Len(mine))
           v == Say("recv", Len(theirs))
<1>1. r < p => w = Two(c, d)
  BY DEF Swap, Two
<1>2. ~(r < p) => w = Two(e, g)
  BY DEF Swap, Two
<1>3. p \in Q
  OBVIOUS
<1> HIDE DEF Q
<1>4. Good(c, Q) /\ Said(c, p) = u
  BY <1>3, SendSaid
<1>5. Good(d, Q) /\ Said(d, p) = v
  BY <1>3, RecvFoldSaid
<1>6. Good(e, Q) /\ Said(e, p) = v
  BY <1>3, RecvSaid
<1>7. Good(g, Q) /\ Said(g, p) = u
  BY <1>3, SendStepSaid
<1> HIDE DEF w, c, d, e, g, u, v
<1>8. SaysTwo(Two(c, d), c, d, Q, p) /\ SaysTwo(Two(e, g), e, g, Q, p)
  <2>1. Good(c, Q) /\ Good(d, Q) /\ Good(e, Q) /\ Good(g, Q)
    BY <1>4, <1>5, <1>6, <1>7
  <2>2. QED
    BY <2>1, SpeakTwo
<1>9. /\ Fine(Two(c, d), Q) /\ Len(Two(c, d)) = 2 /\ Speak(Two(c, d), p) = u \o v
      /\ Fine(Two(e, g), Q) /\ Len(Two(e, g)) = 2 /\ Speak(Two(e, g), p) = v \o u
  BY <1>4, <1>5, <1>6, <1>7, <1>8 DEF SaysTwo
<1>10. Fine(w, Q) /\ Len(w) = 2
  <2>1. CASE r < p
    BY <1>1, <1>9, <2>1
  <2>2. CASE ~(r < p)
    BY <1>2, <1>9, <2>2
  <2>3. QED
    BY <2>1, <2>2
<1>11. /\ r < p => Speak(w, p) = u \o v
       /\ ~(r < p) => Speak(w, p) = v \o u
  BY <1>1, <1>2, <1>9
<1>12. Swapped(w, r, p, u, v)
  BY <1>10, <1>11 DEF Swapped, Q
<1>13. QED
  BY <1>12 DEF w, u, v

LEMMA SwapMatches ==
  ASSUME NEW a \in Int, NEW b \in Int, a # b, NEW n \in Nat \ {0}, NEW s, NEW t,
         Swapped(s, a, b, Say("send", n), Say("recv", n)),
         Swapped(t, b, a, Say("send", n), Say("recv", n))
  PROVE  Match(s, a, t, b)
<1> DEFINE u == Say("send", n)
           v == Say("recv", n)
<1>1. u \in Seq(Message) /\ v \in Seq(Message)
  BY DEF Message, Say
<1>2. Mirror(u, v) /\ Mirror(v, u)
  BY MirrorOne
<1>3. /\ a < b => Speak(s, b) = u \o v /\ Speak(t, a) = v \o u
      /\ ~(a < b) => Speak(s, b) = v \o u /\ Speak(t, a) = u \o v
  <2>1. a < b <=> ~(b < a)
    OBVIOUS
  <2> HIDE DEF u, v
  <2>2. /\ a < b => Speak(s, b) = u \o v
        /\ ~(a < b) => Speak(s, b) = v \o u
        /\ b < a => Speak(t, a) = u \o v
        /\ ~(b < a) => Speak(t, a) = v \o u
    BY DEF Swapped, u, v
  <2>3. QED
    BY <2>1, <2>2
<1> HIDE DEF u, v
<1>4. Mirror(u \o v, v \o u) /\ Mirror(v \o u, u \o v)
  BY <1>1, <1>2, MirrorConcat
<1>5. Mirror(Speak(s, b), Speak(t, a))
  BY <1>3, <1>4
<1>6. QED
  BY <1>5 DEF Match

LEMMA FineWider == ASSUME NEW P, NEW Q, P \subseteq Q, NEW s, Fine(s, P) PROVE Fine(s, Q)
<1>1. PICK X : s \in Seq(X) /\ \A x \in X : Good(x, P)
  BY DEF Fine
<1>2. \A x \in X : Good(x, Q)
  BY <1>1, GoodWider
<1>3. QED
  BY <1>1, <1>2 DEF Fine

-----------------------------------------------------------------------------
(* The rest of the ring.                                                    *)
LEMMA RingReduceScatterPairs == Ringed([r \in Ranks |-> RingReduceScatter(r).steps])
<1> DEFINE f == [r \in Ranks |-> RingReduceOf(N, r, 0).steps]
           g == [r \in Ranks |-> RingScatterFrom(r, 0, [i \in Ranks |-> In(i)]).steps]
           h == [r \in Ranks |-> f[r] \o g[r]]
<1>1. 0 \in Ranks /\ N \in Nat \ {0}
  BY WorldSizeAssumption DEF Ranks
<1>2. h = [r \in Ranks |-> RingReduceScatter(r).steps]
  BY DEF RingReduceScatter, Program
<1>3. Ringed(f) /\ Ringed(g)
  BY <1>1, RingReducePairs, RingScatterPairs
<1> HIDE DEF f, g
<1>4. Ringed(h)
  BY <1>3, RingedConcat
<1>5. QED
  BY <1>2, <1>4

LEMMA RingAllGatherPairs == Ringed([r \in Ranks |-> RingAllGather(r).steps])
<1> DEFINE D(r) == IF r % 2 = 0 THEN "send" ELSE "recv"
           mine(r, k) == <<In((r - (k - 1) + N) % N)>>
           theirs(r, k) == <<In((r - (k - 1) + N - 1) % N)>>
           T(r, k) == Turn(D(r), Send(Next1(r), mine(r, k)), Recv(Prev1(r), theirs(r, k)))
           n == N - 1
           F == [k \in 1 .. n |-> [r \in Ranks |-> T(r, k)]]
           f == [r \in Ranks |-> RingAllGather(r).steps]
<1>1. n \in Nat \ {0}
  BY WorldSizeAssumption
<1>2. ASSUME NEW r \in Ranks PROVE f[r] = Joined(Lap(F, n, r))
  <2>1. Lap(F, n, r) = [k \in 1 .. n |-> T(r, k)]
    BY DEF Lap
  <2>2. RingAllGather(r).steps = Joined([k \in 1 .. n |-> T(r, k)])
    <3>1. \A k \in 1 .. n : T(r, k) = IF r % 2 = 0 THEN <<Send(Next1(r), mine(r, k)), Recv(Prev1(r), theirs(r, k))>>
                                      ELSE <<Recv(Prev1(r), theirs(r, k)), Send(Next1(r), mine(r, k))>>
      BY DEF Turn, Two
    <3>2. QED
      BY <3>1 DEF RingAllGather, Program
  <2>3. QED
    BY <2>1, <2>2
<1>3. ASSUME NEW r \in Ranks
      PROVE  /\ D(r) \in {"send", "recv"}
             /\ N = 2 => D(Next1(r)) # D(r)
  <2>1. D(r) \in {"send", "recv"}
    OBVIOUS
  <2>2. N = 2 => D(Next1(r)) # D(r)
    <3>1. Ranks = 0 .. (N - 1) /\ Next1(r) = (IF r = N - 1 THEN 0 ELSE r + 1)
      BY RingFacts
    <3>2. ASSUME N = 2 PROVE (r = 0 /\ Next1(r) = 1) \/ (r = 1 /\ Next1(r) = 0)
      BY <3>1, <3>2
    <3>3. 0 % 2 = 0 /\ 1 % 2 = 1
      OBVIOUS
    <3>4. QED
      BY <3>2, <3>3
  <2>3. QED
    BY <2>1, <2>2
<1>4. ASSUME NEW r \in Ranks, NEW k \in 1 .. n PROVE Len(mine(r, k)) = 1 /\ Len(theirs(r, k)) = 1
  BY SlotsLen
<1>5. ASSUME NEW k \in 1 .. n PROVE Ringed(F[k])
  <2>1. ASSUME NEW r \in Ranks PROVE F[k][r] = T(r, k)
    OBVIOUS
  <2>2. ASSUME NEW r \in Ranks PROVE Fine(T(r, k), RingNeighbors(r)) /\ Len(T(r, k)) = 2
    <3> HIDE DEF D, mine, theirs
    <3>0. Len(mine(r, k)) = 1 /\ Len(theirs(r, k)) = 1 /\ D(r) \in {"send", "recv"}
      BY <1>3, <1>4
    <3>1. Len(mine(r, k)) \in Nat \ {0} /\ Len(theirs(r, k)) \in Nat \ {0} /\ D(r) \in {"send", "recv"}
      BY <3>0
    <3>2. TurnSays(T(r, k), r, D(r), Say("send", Len(mine(r, k))), Say("recv", Len(theirs(r, k))))
      BY <3>1, TurnFacts
    <3> HIDE DEF T
    <3>3. QED
      BY <3>2 DEF TurnSays
  <2>3. ASSUME NEW r \in Ranks PROVE Match(T(r, k), r, T(Next1(r), k), Next1(r))
    <3>1. Next1(r) \in Ranks
      BY RingFacts
    <3> HIDE DEF D, mine, theirs
    <3>2. /\ Len(mine(r, k)) = 1 /\ Len(theirs(r, k)) = 1 /\ 1 \in Nat \ {0}
          /\ Len(mine(Next1(r), k)) = 1 /\ Len(theirs(Next1(r), k)) = 1
          /\ D(r) \in {"send", "recv"} /\ D(Next1(r)) \in {"send", "recv"} /\ (N = 2 => D(r) # D(Next1(r)))
      BY <1>3, <1>4, <3>1
    <3>3. QED
      BY <3>2, TurnMatches
  <2> HIDE DEF F, T
  <2>4. ASSUME NEW r \in Ranks PROVE Next1(r) \in Ranks
    BY RingFacts
  <2>5. \A r \in Ranks : Fine(F[k][r], RingNeighbors(r)) /\ Len(F[k][r]) # 0
    BY <2>1, <2>2
  <2>6. \A r \in Ranks : Match(F[k][r], r, F[k][Next1(r)], Next1(r))
    BY <2>1, <2>3, <2>4
  <2>7. QED
    BY <2>5, <2>6 DEF Ringed
<1> HIDE DEF F, n, f
<1>6. AllRinged(F, n)
  BY <1>5 DEF AllRinged
<1>7. Ringed([r \in Ranks |-> Joined(Lap(F, n, r))])
  BY <1>1, <1>6, RingedJoined
<1>8. f = [r \in Ranks |-> Joined(Lap(F, n, r))]
  BY <1>2 DEF f
<1>9. QED
  BY <1>7, <1>8 DEF f

(* AllToAll: N broadcasts of N chunks, one from each rank.                  *)
LEMMA RingAllToAllPairs == Ringed([r \in Ranks |-> RingAllToAll(r).steps])
<1> DEFINE whole == [i \in 1 .. N |-> Own(i - 1)]
           keep(r, src) == {<<In(src), Tmp(r)>>}
           x(r, src) == IF r = src THEN Step({SendPart(Next1(r), whole)}, {<<In(src), Own(r)>>}, {})
                        ELSE Step({SendPart(Next1(r), Tmps(N))}, keep(r, src), {})
           y(r, src) == IF Next1(r) = src THEN RecvCopy(Prev1(r), Tmps(N), keep(r, src))
                        ELSE Recv(Prev1(r), Tmps(N))
           T(r, src) == IF r = src THEN Just(x(r, src)) ELSE IF Next1(r) = src THEN Just(y(r, src))
                        ELSE Two(y(r, src), x(r, src))
           F == [k \in 1 .. N |-> [r \in Ranks |-> T(r, k - 1)]]
           f == [r \in Ranks |-> RingAllToAll(r).steps]
<1>1. N \in Nat \ {0}
  BY WorldSizeAssumption
<1>2. ASSUME NEW r \in Ranks PROVE f[r] = Joined(Lap(F, N, r))
  <2>1. Lap(F, N, r) = [k \in 1 .. N |-> T(r, k - 1)]
    BY DEF Lap
  <2>2. \A k \in 1 .. N :
          T(r, k - 1) = IF r = k - 1 THEN <<Step({SendPart(Next1(r), whole)}, {<<In(k - 1), Own(r)>>}, {})>>
                        ELSE IF Next1(r) = k - 1 THEN <<RecvCopy(Prev1(r), Tmps(N), keep(r, k - 1))>>
                        ELSE <<Recv(Prev1(r), Tmps(N)), Step({SendPart(Next1(r), Tmps(N))}, keep(r, k - 1), {})>>
    BY DEF Just, Two
  <2>3. RingAllToAll(r).steps = Joined([k \in 1 .. N |-> T(r, k - 1)])
    BY <2>2 DEF RingAllToAll, Program
  <2>4. QED
    BY <2>1, <2>3
<1>3. ASSUME NEW r \in Ranks, NEW src \in Ranks
      PROVE  /\ Good(x(r, src), {Next1(r)}) /\ Said(x(r, src), Next1(r)) = Say("send", N)
             /\ Good(y(r, src), {Prev1(r)}) /\ Said(y(r, src), Prev1(r)) = Say("recv", N)
  <2> DEFINE b == Next1(r)
             a == Prev1(r)
             P == {b}
             Q == {a}
             t == Tmps(N)
             c == keep(r, src)
             d == {<<In(src), Own(r)>>}
  <2>1. Len(t) = N /\ Len(whole) = N /\ b \in P /\ a \in Q
    BY <1>1, SlotsLen
  <2>2. Len(t) \in Nat \ {0} /\ Len(whole) \in Nat \ {0}
    BY <1>1, <2>1
  <2> HIDE DEF t, whole, a, b, P, Q, keep, c, d
  <2>3. Good(Step({SendPart(b, whole)}, d, {}), P) /\ Said(Step({SendPart(b, whole)}, d, {}), b) = Say("send", Len(whole))
    BY <2>1, <2>2, SendStepSaid
  <2>4. Good(Step({SendPart(b, t)}, c, {}), P) /\ Said(Step({SendPart(b, t)}, c, {}), b) = Say("send", Len(t))
    BY <2>1, <2>2, SendStepSaid
  <2>5. Good(RecvCopy(a, t, c), Q) /\ Said(RecvCopy(a, t, c), a) = Say("recv", Len(t))
    BY <2>1, <2>2, RecvCopySaid
  <2>6. Good(Recv(a, t), Q) /\ Said(Recv(a, t), a) = Say("recv", Len(t))
    BY <2>1, <2>2, RecvSaid
  <2>7. Good(x(r, src), P) /\ Said(x(r, src), b) = Say("send", N)
    BY <2>1, <2>3, <2>4 DEF b, c, d, t
  <2>8. Good(y(r, src), Q) /\ Said(y(r, src), a) = Say("recv", N)
    BY <2>1, <2>5, <2>6 DEF a, c, t
  <2>9. QED
    BY <2>7, <2>8 DEF a, b, P, Q
<1> HIDE DEF x, y, f
<1>4. ASSUME NEW k \in 1 .. N PROVE Ringed(F[k])
  <2> DEFINE src == k - 1
             X == [r \in Ranks |-> x(r, src)]
             Y == [r \in Ranks |-> y(r, src)]
             g == F[k]
  <2>1. src \in Ranks
    BY <1>1 DEF Ranks
  <2>2. ASSUME NEW r \in Ranks PROVE Relayed(g[r], r, src, X[r], Y[r])
    <3>1. Next1(r) # r
      BY RingFacts
    <3>2. Good(X[r], {Next1(r)}) /\ Good(Y[r], {Prev1(r)})
      BY <1>3, <2>1
    <3>3. Two(y(r, src), x(r, src)) = Just(y(r, src)) \o Just(x(r, src))
      BY TwoJust
    <3>4. g[r] = T(r, src) /\ X[r] = x(r, src) /\ Y[r] = y(r, src)
      OBVIOUS
    <3> HIDE DEF X, Y, g, src
    <3>5. QED
      BY <3>1, <3>2, <3>3, <3>4 DEF Relayed
  <2>3. ASSUME NEW r \in Ranks PROVE Mirror(Said(X[r], Next1(r)), Said(Y[Next1(r)], r))
    <3>1. Next1(r) \in Ranks /\ Prev1(Next1(r)) = r
      BY RingFacts
    <3>2. Mirror(Say("send", N), Say("recv", N))
      BY <1>1, MirrorOne
    <3>3. QED
      BY <1>3, <2>1, <3>1, <3>2
  <2> HIDE DEF X, Y, g, src
  <2>4. Relay(g, src, X, Y)
    BY <2>2, <2>3 DEF Relay
  <2>5. Ringed(g)
    BY <2>1, <2>4, RelayPairs
  <2>6. QED
    BY <2>5 DEF g
<1> HIDE DEF F
<1>5. AllRinged(F, N)
  BY <1>4 DEF AllRinged
<1>6. Ringed([r \in Ranks |-> Joined(Lap(F, N, r))])
  BY <1>1, <1>5, RingedJoined
<1>7. f = [r \in Ranks |-> Joined(Lap(F, N, r))]
  BY <1>2 DEF f
<1>8. QED
  BY <1>6, <1>7 DEF f

(* AllReduce of three ranks or more: rounds of a Send beside a Recv.        *)
Rounds(f, n) == \A r \in Ranks :
  /\ f[r] = [k \in 1 .. n |-> f[r][k]]
  /\ \A k \in 1 .. n : /\ Good(f[r][k], RingNeighbors(r))
                       /\ Said(f[r][k], Next1(r)) = Say("send", 1)
                       /\ Said(f[r][k], Prev1(r)) = Say("recv", 1)
LEMMA RoundsPair ==
  ASSUME NEW n \in Nat \ {0}, NEW f, Rounds(f, n)
  PROVE  Ringed(f)
<1>1. ASSUME NEW r \in Ranks PROVE Straight(f[r], n, RingNeighbors(r))
  BY DEF Rounds, Straight
<1>2. ASSUME NEW r \in Ranks PROVE Fine(f[r], RingNeighbors(r)) /\ Len(f[r]) # 0
  <2>1. Fine(f[r], RingNeighbors(r)) /\ Len(f[r]) = n
    BY <1>1, FineRow
  <2>2. QED
    BY <2>1
<1>3. ASSUME NEW r \in Ranks PROVE Match(f[r], r, f[Next1(r)], Next1(r))
  <2> DEFINE b == Next1(r)
             R == f[r]
             T == f[b]
             P == RingNeighbors(r)
             Q == RingNeighbors(b)
  <2>1. b \in Ranks /\ Prev1(b) = r
    BY RingFacts
  <2>2. Straight(R, n, P) /\ Straight(T, n, Q)
    BY <1>1, <2>1
  <2>3. Mirror(Say("send", 1), Say("recv", 1))
    BY MirrorOne
  <2>4. \A k \in 1 .. n : Said(R[k], b) = Say("send", 1) /\ Said(T[k], r) = Say("recv", 1)
    BY <2>1 DEF Rounds
  <2> HIDE DEF b, R, T, P, Q
  <2>5. \A k \in 1 .. n : Mirror(Said(R[k], b), Said(T[k], r))
    BY <2>3, <2>4
  <2>6. Match(R, r, T, b)
    BY <2>2, <2>5, MatchRow
  <2>7. QED
    BY <2>6 DEF b, R, T
<1>4. QED
  BY <1>2, <1>3 DEF Ringed

LEMMA RoundStep ==
  ASSUME N >= 3, NEW r \in Ranks, NEW s, NEW t, Len(s) = 1, Len(t) = 1, NEW folds
  PROVE  LET x == Step({SendPart(Next1(r), s), RecvPart(Prev1(r), t)}, {}, folds)
         IN  /\ Good(x, RingNeighbors(r))
             /\ Said(x, Next1(r)) = Say("send", 1) /\ Said(x, Prev1(r)) = Say("recv", 1)
<1> DEFINE b == Next1(r)
           a == Prev1(r)
           Q == RingNeighbors(r)
           x == Both(b, s, a, t, folds)
<1>1. b \in Q /\ a \in Q /\ b # a
  BY RingFacts
<1>2. Len(s) = 1 /\ Len(t) = 1
  OBVIOUS
<1>3. Len(s) \in Nat \ {0} /\ Len(t) \in Nat \ {0}
  BY <1>2
<1>4. x = Step({SendPart(Next1(r), s), RecvPart(Prev1(r), t)}, {}, folds)
  BY DEF Both
<1> HIDE DEF a, b, Q
<1>5. SaysBoth(Both(b, s, a, t, folds), Q, b, Say("send", Len(s)), a, Say("recv", Len(t)))
  BY <1>1, <1>3, BothFacts
<1> HIDE DEF x
<1>6. Good(x, Q) /\ Said(x, b) = Say("send", 1) /\ Said(x, a) = Say("recv", 1)
  BY <1>2, <1>5 DEF SaysBoth, x
<1>7. QED
  BY <1>4, <1>6 DEF a, b, Q

LEMMA RingAllReduceMany == N >= 3 => Ringed([r \in Ranks |-> RingAllReduce(r).steps])
<1> SUFFICES ASSUME N >= 3 PROVE Ringed([r \in Ranks |-> RingAllReduce(r).steps])
  OBVIOUS
<1> DEFINE n == N - 1
           f == [r \in Ranks |-> [k \in 1 .. n |-> RingReduceScatterStep(r, k - 1)]]
           g == [r \in Ranks |-> [k \in 1 .. n |-> RingAllGatherStep(r, k - 1)]]
           h == [r \in Ranks |-> f[r] \o g[r]]
<1>1. n \in Nat \ {0} /\ N # 2
  BY WorldSizeAssumption
<1>2. h = [r \in Ranks |-> RingAllReduce(r).steps]
  BY <1>1 DEF RingAllReduce, Program
<1>3. ASSUME NEW r \in Ranks, NEW k \in 1 .. n
      PROVE  /\ Good(f[r][k], RingNeighbors(r))
             /\ Said(f[r][k], Next1(r)) = Say("send", 1) /\ Said(f[r][k], Prev1(r)) = Say("recv", 1)
  <2> DEFINE s == <<In((r - (k - 1) + N) % N)>>
             t == Tmps(1)
             folds == {<<In((r - (k - 1) + N - 1) % N), Tmp(0)>>}
  <2>1. f[r][k] = Step({SendPart(Next1(r), s), RecvPart(Prev1(r), t)}, {}, folds)
    BY DEF RingReduceScatterStep
  <2>2. Len(s) = 1 /\ Len(t) = 1
    BY SlotsLen
  <2> HIDE DEF s, t, folds, f, n
  <2>3. QED
    BY <2>1, <2>2, RoundStep
<1>4. ASSUME NEW r \in Ranks, NEW k \in 1 .. n
      PROVE  /\ Good(g[r][k], RingNeighbors(r))
             /\ Said(g[r][k], Next1(r)) = Say("send", 1) /\ Said(g[r][k], Prev1(r)) = Say("recv", 1)
  <2> DEFINE s == <<In((r - (k - 1) + 1 + N) % N)>>
             t == <<In((r - (k - 1) + N) % N)>>
             folds == {}
  <2>1. g[r][k] = Step({SendPart(Next1(r), s), RecvPart(Prev1(r), t)}, {}, folds)
    BY DEF RingAllGatherStep
  <2>2. Len(s) = 1 /\ Len(t) = 1
    BY SlotsLen
  <2> HIDE DEF s, t, folds, g, n
  <2>3. QED
    BY <2>1, <2>2, RoundStep
<1>5. \A r \in Ranks : f[r] = [k \in 1 .. n |-> f[r][k]] /\ g[r] = [k \in 1 .. n |-> g[r][k]]
  OBVIOUS
<1> HIDE DEF f, g, n
<1>6. Rounds(f, n) /\ Rounds(g, n)
  BY <1>3, <1>4, <1>5 DEF Rounds
<1>7. Ringed(f) /\ Ringed(g)
  BY <1>1, <1>6, RoundsPair
<1>8. Ringed(h)
  BY <1>7, RingedConcat
<1>9. QED
  BY <1>2, <1>8

(* Between two ranks it is one swap of the whole vector.                    *)
LEMMA RingAllReduceTwo == N = 2 => Ringed([r \in Ranks |-> RingAllReduce(r).steps])
<1> SUFFICES ASSUME N = 2 PROVE Ringed([r \in Ranks |-> RingAllReduce(r).steps])
  OBVIOUS
<1> DEFINE folds == {<<In(i), Tmp(i)>> : i \in 0 .. 1}
           T(r) == Swap(r, 1 - r, Ins(2), Tmps(2), folds)
           f == [r \in Ranks |-> RingAllReduce(r).steps]
<1>1. Ranks = {0, 1}
  BY DEF Ranks
<1>2. ASSUME NEW r \in Ranks PROVE Next1(r) = 1 - r /\ Next1(r) \in Ranks /\ Next1(r) # r
  <2>1. Next1(r) \in Ranks \ {r}
    BY RingFacts
  <2>2. QED
    BY <1>1, <2>1
<1>3. ASSUME NEW r \in Ranks PROVE f[r] = T(r)
  <2>1. RingAllReduce(r).steps = RingAllReduceTwoRanks(r).steps
    BY DEF RingAllReduce
  <2>2. (r = 0) <=> (r < 1 - r)
    BY <1>1
  <2>3. RingAllReduceTwoRanks(r).steps = T(r)
    BY <2>2 DEF RingAllReduceTwoRanks, Program, Swap
  <2>4. QED
    BY <2>1, <2>3
<1>4. ASSUME NEW r \in Ranks PROVE Swapped(T(r), r, Next1(r), Say("send", 2), Say("recv", 2))
  <2> DEFINE s == Ins(2)
             t == Tmps(2)
             p == 1 - r
  <2>1. Len(s) = 2 /\ Len(t) = 2
    BY SlotsLen
  <2>2. Len(s) \in Nat \ {0} /\ Len(t) \in Nat \ {0}
    BY <2>1
  <2> HIDE DEF s, t, p, folds
  <2>3. Swapped(Swap(r, p, s, t, folds), r, p, Say("send", Len(s)), Say("recv", Len(t)))
    BY <2>2, SwapFacts
  <2>4. Swapped(Swap(r, p, s, t, folds), r, p, Say("send", 2), Say("recv", 2))
    BY <2>1, <2>3
  <2>5. Next1(r) = p
    BY <1>2 DEF p
  <2>6. QED
    BY <2>4, <2>5 DEF s, t, p
<1> HIDE DEF T, f, folds
<1>5. ASSUME NEW r \in Ranks PROVE Fine(f[r], RingNeighbors(r)) /\ Len(f[r]) # 0
  <2>1. Fine(f[r], {Next1(r)}) /\ Len(f[r]) = 2
    BY <1>3, <1>4 DEF Swapped
  <2>2. {Next1(r)} \subseteq RingNeighbors(r)
    BY RingFacts
  <2>3. Fine(f[r], RingNeighbors(r))
    BY <2>1, <2>2, FineWider
  <2>4. QED
    BY <2>1, <2>3
<1>6. ASSUME NEW r \in Ranks PROVE Match(f[r], r, f[Next1(r)], Next1(r))
  <2> DEFINE b == Next1(r)
  <2>1. b \in Ranks /\ b # r /\ Next1(b) = r /\ r \in Int /\ b \in Int /\ 2 \in Nat \ {0}
    BY <1>1, <1>2
  <2> HIDE DEF b
  <2>2. /\ Swapped(f[r], r, b, Say("send", 2), Say("recv", 2))
        /\ Swapped(f[b], b, r, Say("send", 2), Say("recv", 2))
    BY <1>3, <1>4, <2>1 DEF b
  <2>3. Match(f[r], r, f[b], b)
    BY <2>1, <2>2, SwapMatches
  <2>4. QED
    BY <2>3 DEF b
<1>7. Ringed(f)
  BY <1>5, <1>6 DEF Ringed
<1>8. QED
  BY <1>7 DEF f

-----------------------------------------------------------------------------
(* The full mesh: every two ranks have a stream of their own.               *)
PairUp(f) ==
  /\ \A r \in Ranks : Fine(f[r], Ranks \ {r}) /\ Len(f[r]) # 0
  /\ \A a, b \in Ranks : a # b => Match(f[a], a, f[b], b)

(* One rank, the hub, talks with every other, and they only with it.        *)
Hub(f, root, u, v) ==
  /\ Fine(f[root], Ranks \ {root}) /\ Len(f[root]) # 0
  /\ \A p \in Ranks \ {root} : Speak(f[root], p) = u
  /\ \A r \in Ranks \ {root} : Fine(f[r], {root}) /\ Len(f[r]) # 0 /\ Speak(f[r], root) = v
  /\ Mirror(u, v)
LEMMA HubPairs ==
  ASSUME NEW f, NEW root \in Ranks, NEW u, NEW v, Hub(f, root, u, v)
  PROVE  PairUp(f)
<1>1. /\ Fine(f[root], Ranks \ {root}) /\ Len(f[root]) # 0
      /\ \A p \in Ranks \ {root} : Speak(f[root], p) = u
      /\ \A r \in Ranks \ {root} : Fine(f[r], {root}) /\ Len(f[r]) # 0 /\ Speak(f[r], root) = v
      /\ Mirror(u, v) /\ Mirror(v, u)
  BY MirrorBack DEF Hub
<1>2. ASSUME NEW r \in Ranks PROVE Fine(f[r], Ranks \ {r}) /\ Len(f[r]) # 0
  <2>1. CASE r = root
    BY <1>1, <2>1
  <2>2. CASE r # root
    <3>1. {root} \subseteq Ranks \ {r} /\ Fine(f[r], {root}) /\ Len(f[r]) # 0
      BY <1>1, <2>2
    <3>2. Fine(f[r], Ranks \ {r})
      BY <3>1, FineWider
    <3>3. QED
      BY <3>1, <3>2
  <2>3. QED
    BY <2>1, <2>2
<1>3. ASSUME NEW a \in Ranks, NEW b \in Ranks, a # b PROVE Match(f[a], a, f[b], b)
  <2>1. CASE a = root
    <3>1. Speak(f[a], b) = u /\ Speak(f[b], a) = v
      BY <1>1, <1>3, <2>1
    <3>2. QED
      BY <1>1, <3>1 DEF Match
  <2>2. CASE b = root
    <3>1. Speak(f[a], b) = v /\ Speak(f[b], a) = u
      BY <1>1, <1>3, <2>2
    <3>2. QED
      BY <1>1, <3>1 DEF Match
  <2>3. CASE a # root /\ b # root
    <3> DEFINE Q == {root}
    <3>1. Fine(f[a], Q) /\ Fine(f[b], Q) /\ b \notin Q /\ a \notin Q
      BY <1>1, <2>3
    <3> HIDE DEF Q
    <3>2. QED
      BY <3>1, MatchSilent
  <2>4. QED
    BY <2>1, <2>2, <2>3
<1>4. QED
  BY <1>2, <1>3 DEF PairUp

(* Where rank p is among the peers of r.                                    *)
PeerAt(r, p) == IF p < r THEN p + 1 ELSE p
LEMMA PeersFacts ==
  ASSUME NEW r \in Ranks
  PROVE  /\ \A i \in 1 .. (N - 1) : Peers(r)[i] \in Ranks \ {r}
         /\ \A p \in Ranks \ {r} :
              /\ PeerAt(r, p) \in 1 .. (N - 1) /\ Peers(r)[PeerAt(r, p)] = p
              /\ \A i \in 1 .. (N - 1) : i # PeerAt(r, p) => Peers(r)[i] # p
<1>1. N \in Nat /\ N >= 2 /\ Ranks = 0 .. (N - 1) /\ r \in 0 .. (N - 1)
  BY WorldSizeAssumption DEF Ranks
<1>2. \A i \in 1 .. (N - 1) : Peers(r)[i] = IF i <= r THEN i - 1 ELSE i
  BY DEF Peers
<1>3. QED
  BY <1>1, <1>2 DEF PeerAt

(* A loop over the peers, with steps for each.                              *)
Each(R, r) ==
  /\ R = [i \in 1 .. (N - 1) |-> R[i]]
  /\ \A i \in 1 .. (N - 1) : Fine(R[i], {Peers(r)[i]}) /\ Len(R[i]) # 0
LEMMA EachFacts ==
  ASSUME NEW r \in Ranks, NEW R, Each(R, r)
  PROVE  /\ Fine(Joined(R), Ranks \ {r}) /\ Len(Joined(R)) # 0
         /\ \A p \in Ranks \ {r} : Speak(Joined(R), p) = Speak(R[PeerAt(r, p)], p)
<1> DEFINE n == N - 1
           Q == Ranks \ {r}
           w == Joined(R)
<1>1. n \in Nat \ {0}
  BY WorldSizeAssumption
<1>2. ASSUME NEW i \in 1 .. n
      PROVE  Fine(R[i], {Peers(r)[i]}) /\ Fine(R[i], Q) /\ Len(R[i]) # 0 /\ Len(R[i]) \in Nat
  <2>1. Fine(R[i], {Peers(r)[i]}) /\ Len(R[i]) # 0 /\ {Peers(r)[i]} \subseteq Q
    BY PeersFacts DEF Each
  <2>2. Len(R[i]) \in Nat
    BY <2>1, FineFacts
  <2>3. QED
    BY <2>1, <2>2, FineWider
<1> HIDE DEF n, Q
<1>3. Loop(R, n, Q)
  BY <1>2 DEF Loop, Each, n
<1>4. Fine(w, Q) /\ Len(w) # 0
  <2>1. Fine(w, Q) /\ \A k \in 1 .. n : Len(R[k]) <= Len(w)
    BY <1>1, <1>3, FineJoined
  <2>2. 1 \in 1 .. n
    BY <1>1
  <2>3. Len(w) \in Nat
    BY <2>1, FineFacts
  <2> DEFINE x == Len(R[1])
             y == Len(w)
  <2>4. x \in Nat /\ x # 0 /\ y \in Nat /\ x <= y
    BY <1>2, <2>1, <2>2, <2>3
  <2> HIDE DEF x, y
  <2>5. y # 0
    BY <2>4
  <2>6. QED
    BY <2>1, <2>5 DEF y
<1>5. ASSUME NEW p \in Q PROVE Speak(w, p) = Speak(R[PeerAt(r, p)], p)
  <2> DEFINE S == Turns(R, n, p)
             j == PeerAt(r, p)
  <2>1. /\ S \in Seq(Seq(Message)) /\ Len(S) = n /\ (\A k \in 1 .. n : S[k] = Speak(R[k], p))
        /\ Speak(w, p) = Joined(S)
    BY <1>1, <1>3, SpeakJoined
  <2>2. j \in 1 .. n /\ \A i \in 1 .. n : i # j => Peers(r)[i] # p
    BY PeersFacts DEF Q, n
  <2>3. ASSUME NEW i \in 1 .. n, i # j PROVE Speak(R[i], p) = <<>>
    <3> DEFINE P == {Peers(r)[i]}
    <3>1. p \notin P /\ Fine(R[i], P)
      BY <1>2, <2>2, <2>3
    <3> HIDE DEF P
    <3>2. QED
      BY <3>1, SpeakFacts
  <2> HIDE DEF S, j, w
  <2>4. j \in 1 .. Len(S) /\ \A i \in 1 .. Len(S) : i # j => S[i] = <<>>
    BY <2>1, <2>2, <2>3
  <2>5. Joined(S) = S[j]
    BY <2>1, <2>4, JoinedSingle
  <2>6. QED
    BY <2>1, <2>2, <2>5 DEF j
<1>6. QED
  BY <1>4, <1>5 DEF Q, w

(* The root sends to every peer, or receives from every peer, one chunk.    *)
LEMMA MeshBroadcastPairs ==
  ASSUME NEW root \in Ranks
  PROVE  PairUp([r \in Ranks |-> MeshBroadcast(r, root).steps])
<1> DEFINE s == Ins(1)
           x == Step({SendPart(p, s) : p \in Ranks \ {root}}, {}, {})
           y == Recv(root, s)
           f == [r \in Ranks |-> MeshBroadcast(r, root).steps]
           Q == Ranks \ {root}
           P == {root}
<1>1. Len(s) = 1
  BY SlotsLen
<1>2. f[root] = Just(x) /\ \A r \in Ranks \ {root} : f[r] = Just(y)
  BY DEF MeshBroadcast, Program, Just
<1>3. Good(x, Q)
  <2>1. x.parts = {SendPart(p, s) : p \in Q}
    BY DEF Step
  <2>2. \A p : SendPart(p, s).dir = "send" /\ SendPart(p, s).peer = p /\ SendPart(p, s).slots = s
    BY DEF SendPart
  <2> HIDE DEF x, s, Q
  <2>3. QED
    BY <1>1, <2>1, <2>2 DEF Good
<1>4. ASSUME NEW p \in Q PROVE Said(x, p) = Say("send", 1)
  <2> DEFINE c == SendPart(p, s)
  <2>1. c \in x.parts /\ c.peer = p /\ c.dir = "send" /\ c.slots = s
    BY DEF SendPart, Step
  <2> HIDE DEF c, x, s, Q
  <2>2. Said(x, p) = <<[dir |-> c.dir, len |-> Len(c.slots)]>>
    BY <1>3, <2>1, GoodSaid
  <2>3. QED
    BY <1>1, <2>1, <2>2 DEF Say
<1>5. Good(y, P) /\ Said(y, root) = Say("recv", 1)
  <2>1. root \in P /\ Len(s) \in Nat \ {0}
    BY <1>1
  <2> HIDE DEF P, s
  <2>2. Good(y, P) /\ Said(y, root) = Say("recv", Len(s))
    BY <2>1, RecvSaid
  <2>3. QED
    BY <1>1, <2>2
<1> HIDE DEF x, y, f, Q, P
<1>6. Fine(f[root], Q) /\ Len(f[root]) # 0 /\ \A p \in Q : Speak(f[root], p) = Say("send", 1)
  <2>1. Fine(Just(x), Q) /\ Len(Just(x)) = 1 /\ \A p : Speak(Just(x), p) = Said(x, p)
    BY <1>3, JustFacts
  <2>2. QED
    BY <1>2, <1>4, <2>1
<1>7. ASSUME NEW r \in Q PROVE Fine(f[r], P) /\ Len(f[r]) # 0 /\ Speak(f[r], root) = Say("recv", 1)
  <2>1. Fine(Just(y), P) /\ Len(Just(y)) = 1 /\ Speak(Just(y), root) = Said(y, root)
    BY <1>5, JustFacts
  <2>2. QED
    BY <1>2, <1>5, <2>1 DEF Q
<1>8. Hub(f, root, Say("send", 1), Say("recv", 1))
  BY <1>6, <1>7, MirrorOne DEF Hub, P, Q
<1>9. PairUp(f)
  BY <1>8, HubPairs
<1>10. QED
  BY <1>9 DEF f

(* The loop of a rank that says u to every peer, one by one.                *)
Round(X, r, u) == \A i \in 1 .. (N - 1) :
  LET p == Peers(r)[i] IN Good(X[i], {p}) /\ Said(X[i], p) = u
LEMMA RoundSays ==
  ASSUME NEW r \in Ranks, NEW X, NEW u, Round(X, r, u)
  PROVE  LET w == Joined([i \in 1 .. (N - 1) |-> Just(X[i])])
         IN  /\ Fine(w, Ranks \ {r}) /\ Len(w) # 0
             /\ \A p \in Ranks \ {r} : Speak(w, p) = u
<1> DEFINE R == [i \in 1 .. (N - 1) |-> Just(X[i])]
<1>1. ASSUME NEW i \in 1 .. (N - 1)
      PROVE  Fine(R[i], {Peers(r)[i]}) /\ Len(R[i]) # 0 /\ Speak(R[i], Peers(r)[i]) = u
  <2> DEFINE p == Peers(r)[i]
             Q == {p}
             x == X[i]
  <2>1. Good(x, Q) /\ Said(x, p) = u
    BY DEF Round
  <2>2. R[i] = Just(x)
    OBVIOUS
  <2> HIDE DEF p, Q, x, R
  <2>3. Fine(Just(x), Q) /\ Len(Just(x)) = 1 /\ Speak(Just(x), p) = Said(x, p)
    BY <2>1, JustFacts
  <2>4. R[i] = Just(x) /\ Fine(R[i], Q) /\ Len(R[i]) # 0 /\ Speak(R[i], p) = u
    <3>1. Len(R[i]) = 1
      BY <2>2, <2>3
    <3>2. QED
      BY <2>1, <2>2, <2>3, <3>1
  <2>5. QED
    BY <2>4 DEF p, Q, x
<1>2. R = [i \in 1 .. (N - 1) |-> R[i]]
  OBVIOUS
<1> HIDE DEF R
<1>3. Each(R, r)
  BY <1>1, <1>2 DEF Each
<1>4. /\ Fine(Joined(R), Ranks \ {r}) /\ Len(Joined(R)) # 0
      /\ \A p \in Ranks \ {r} : Speak(Joined(R), p) = Speak(R[PeerAt(r, p)], p)
  BY <1>3, EachFacts
<1>5. ASSUME NEW p \in Ranks \ {r} PROVE Speak(Joined(R), p) = u
  <2>1. PeerAt(r, p) \in 1 .. (N - 1) /\ Peers(r)[PeerAt(r, p)] = p
    BY PeersFacts
  <2>2. QED
    BY <1>1, <1>4, <2>1
<1>6. QED
  BY <1>4, <1>5 DEF R

(* A root that goes through its peers one by one, and they have one step.   *)
Spokes(f, root, X, Y, u, v) ==
  /\ f[root] = Joined([i \in 1 .. (N - 1) |-> Just(X[i])])
  /\ Round(X, root, u)
  /\ \A r \in Ranks \ {root} : f[r] = Just(Y[r]) /\ Good(Y[r], {root}) /\ Said(Y[r], root) = v
  /\ Mirror(u, v)
LEMMA SpokesPair ==
  ASSUME NEW f, NEW root \in Ranks, NEW X, NEW Y, NEW u, NEW v, Spokes(f, root, X, Y, u, v)
  PROVE  PairUp(f)
<1> DEFINE w == Joined([i \in 1 .. (N - 1) |-> Just(X[i])])
<1>1. f[root] = w /\ Round(X, root, u) /\ Mirror(u, v)
  BY DEF Spokes
<1>2. Fine(w, Ranks \ {root}) /\ Len(w) # 0 /\ \A p \in Ranks \ {root} : Speak(w, p) = u
  BY <1>1, RoundSays
<1> HIDE DEF w
<1>3. ASSUME NEW r \in Ranks \ {root} PROVE Fine(f[r], {root}) /\ Len(f[r]) # 0 /\ Speak(f[r], root) = v
  <2> DEFINE Q == {root}
             y == Y[r]
  <2>1. Good(y, Q) /\ Said(y, root) = v /\ f[r] = Just(y)
    BY DEF Spokes
  <2> HIDE DEF Q, y
  <2>2. Fine(Just(y), Q) /\ Len(Just(y)) = 1 /\ Speak(Just(y), root) = Said(y, root)
    BY <2>1, JustFacts
  <2>3. Len(f[r]) = 1
    BY <2>1, <2>2
  <2>4. QED
    BY <2>1, <2>2, <2>3 DEF Q
<1>4. Hub(f, root, u, v)
  BY <1>1, <1>2, <1>3 DEF Hub
<1>5. QED
  BY <1>4, HubPairs

LEMMA MeshGatherPairs ==
  ASSUME NEW root \in Ranks
  PROVE  PairUp([r \in Ranks |-> MeshGather(r, root).steps])
<1> DEFINE x(p) == Recv(p, <<In(p)>>)
           y == Send(root, <<Own(0)>>)
           X == [i \in 1 .. (N - 1) |-> x(Peers(root)[i])]
           Y == [r \in Ranks |-> y]
           f == [r \in Ranks |-> MeshGather(r, root).steps]
<1>1. f[root] = Joined([i \in 1 .. (N - 1) |-> Just(X[i])])
  <2>1. [i \in 1 .. (N - 1) |-> Just(X[i])] = [i \in 1 .. (N - 1) |-> <<x(Peers(root)[i])>>]
    BY DEF Just
  <2>2. MeshGather(root, root).steps = Joined([i \in 1 .. (N - 1) |-> <<x(Peers(root)[i])>>])
    BY DEF MeshGather, Program, EachPeer
  <2>3. QED
    BY <2>1, <2>2
<1>2. \A r \in Ranks \ {root} : f[r] = Just(Y[r])
  BY DEF MeshGather, Program, Just
<1>3. ASSUME NEW p PROVE Good(x(p), {p}) /\ Said(x(p), p) = Say("recv", 1)
  <2> DEFINE s == <<In(p)>>
             Q == {p}
  <2>1. Len(s) = 1 /\ p \in Q
    BY SlotsLen
  <2>2. Len(s) \in Nat \ {0}
    BY <2>1
  <2> HIDE DEF s, Q
  <2>3. Good(Recv(p, s), Q) /\ Said(Recv(p, s), p) = Say("recv", Len(s))
    BY <2>1, <2>2, RecvSaid
  <2>4. QED
    BY <2>1, <2>3 DEF s, Q
<1>4. Good(y, {root}) /\ Said(y, root) = Say("send", 1)
  <2> DEFINE s == <<Own(0)>>
             Q == {root}
  <2>1. Len(s) = 1 /\ root \in Q
    BY SlotsLen
  <2>2. Len(s) \in Nat \ {0}
    BY <2>1
  <2> HIDE DEF s, Q
  <2>3. Good(Send(root, s), Q) /\ Said(Send(root, s), root) = Say("send", Len(s))
    BY <2>1, <2>2, SendSaid
  <2>4. QED
    BY <2>1, <2>3 DEF s, Q
<1> HIDE DEF x, y, f
<1>5. \A i \in 1 .. (N - 1) : X[i] = x(Peers(root)[i])
  OBVIOUS
<1>6. \A r \in Ranks : Y[r] = y
  OBVIOUS
<1> HIDE DEF X, Y
<1>7. Spokes(f, root, X, Y, Say("recv", 1), Say("send", 1))
  BY <1>1, <1>2, <1>3, <1>4, <1>5, <1>6, MirrorOne DEF Spokes, Round
<1>8. PairUp(f)
  BY <1>7, SpokesPair
<1>9. QED
  BY <1>8 DEF f

LEMMA MeshScatterPairs ==
  ASSUME NEW root \in Ranks
  PROVE  PairUp([r \in Ranks |-> MeshScatter(r, root).steps])
<1> DEFINE x(p) == Send(p, <<Own(p)>>)
           y == Recv(root, Ins(1))
           X == [i \in 1 .. (N - 1) |-> x(Peers(root)[i])]
           Y == [r \in Ranks |-> y]
           f == [r \in Ranks |-> MeshScatter(r, root).steps]
<1>1. f[root] = Joined([i \in 1 .. (N - 1) |-> Just(X[i])])
  <2>1. [i \in 1 .. (N - 1) |-> Just(X[i])] = [i \in 1 .. (N - 1) |-> <<x(Peers(root)[i])>>]
    BY DEF Just
  <2>2. MeshScatter(root, root).steps = Joined([i \in 1 .. (N - 1) |-> <<x(Peers(root)[i])>>])
    BY DEF MeshScatter, Program, EachPeer
  <2>3. QED
    BY <2>1, <2>2
<1>2. \A r \in Ranks \ {root} : f[r] = Just(Y[r])
  BY DEF MeshScatter, Program, Just
<1>3. ASSUME NEW p PROVE Good(x(p), {p}) /\ Said(x(p), p) = Say("send", 1)
  <2> DEFINE s == <<Own(p)>>
             Q == {p}
  <2>1. Len(s) = 1 /\ p \in Q
    BY SlotsLen
  <2>2. Len(s) \in Nat \ {0}
    BY <2>1
  <2> HIDE DEF s, Q
  <2>3. Good(Send(p, s), Q) /\ Said(Send(p, s), p) = Say("send", Len(s))
    BY <2>1, <2>2, SendSaid
  <2>4. QED
    BY <2>1, <2>3 DEF s, Q
<1>4. Good(y, {root}) /\ Said(y, root) = Say("recv", 1)
  <2> DEFINE s == Ins(1)
             Q == {root}
  <2>1. Len(s) = 1 /\ root \in Q
    BY SlotsLen
  <2>2. Len(s) \in Nat \ {0}
    BY <2>1
  <2> HIDE DEF s, Q
  <2>3. Good(Recv(root, s), Q) /\ Said(Recv(root, s), root) = Say("recv", Len(s))
    BY <2>1, <2>2, RecvSaid
  <2>4. QED
    BY <2>1, <2>3 DEF s, Q
<1> HIDE DEF x, y, f
<1>5. \A i \in 1 .. (N - 1) : X[i] = x(Peers(root)[i])
  OBVIOUS
<1>6. \A r \in Ranks : Y[r] = y
  OBVIOUS
<1> HIDE DEF X, Y
<1>7. Spokes(f, root, X, Y, Say("send", 1), Say("recv", 1))
  BY <1>1, <1>2, <1>3, <1>4, <1>5, <1>6, MirrorOne DEF Spokes, Round
<1>8. PairUp(f)
  BY <1>7, SpokesPair
<1>9. QED
  BY <1>8 DEF f

LEMMA MeshReducePairs ==
  ASSUME NEW root \in Ranks
  PROVE  PairUp([r \in Ranks |-> MeshReduce(r, root).steps])
<1> DEFINE folds == {<<In(0), Tmp(0)>>}
           x(p) == RecvFold(p, Tmps(1), folds)
           y == Send(root, <<Own(0)>>)
           X == [i \in 1 .. (N - 1) |-> x(Peers(root)[i])]
           Y == [r \in Ranks |-> y]
           f == [r \in Ranks |-> MeshReduce(r, root).steps]
<1>1. f[root] = Joined([i \in 1 .. (N - 1) |-> Just(X[i])])
  <2>1. [i \in 1 .. (N - 1) |-> Just(X[i])] = [i \in 1 .. (N - 1) |-> <<x(Peers(root)[i])>>]
    BY DEF Just
  <2>2. MeshReduce(root, root).steps = Joined([i \in 1 .. (N - 1) |-> <<x(Peers(root)[i])>>])
    BY DEF MeshReduce, Program, EachPeer
  <2>3. QED
    BY <2>1, <2>2
<1>2. \A r \in Ranks \ {root} : f[r] = Just(Y[r])
  BY DEF MeshReduce, Program, Just
<1>3. ASSUME NEW p PROVE Good(x(p), {p}) /\ Said(x(p), p) = Say("recv", 1)
  <2> DEFINE s == Tmps(1)
             Q == {p}
  <2>1. Len(s) = 1 /\ p \in Q
    BY SlotsLen
  <2>2. Len(s) \in Nat \ {0}
    BY <2>1
  <2> HIDE DEF s, Q, folds
  <2>3. Good(RecvFold(p, s, folds), Q) /\ Said(RecvFold(p, s, folds), p) = Say("recv", Len(s))
    BY <2>1, <2>2, RecvFoldSaid
  <2>4. QED
    BY <2>1, <2>3 DEF s, Q
<1>4. Good(y, {root}) /\ Said(y, root) = Say("send", 1)
  <2> DEFINE s == <<Own(0)>>
             Q == {root}
  <2>1. Len(s) = 1 /\ root \in Q
    BY SlotsLen
  <2>2. Len(s) \in Nat \ {0}
    BY <2>1
  <2> HIDE DEF s, Q
  <2>3. Good(Send(root, s), Q) /\ Said(Send(root, s), root) = Say("send", Len(s))
    BY <2>1, <2>2, SendSaid
  <2>4. QED
    BY <2>1, <2>3 DEF s, Q
<1> HIDE DEF x, y, f
<1>5. \A i \in 1 .. (N - 1) : X[i] = x(Peers(root)[i])
  OBVIOUS
<1>6. \A r \in Ranks : Y[r] = y
  OBVIOUS
<1> HIDE DEF X, Y
<1>7. Spokes(f, root, X, Y, Say("recv", 1), Say("send", 1))
  BY <1>1, <1>2, <1>3, <1>4, <1>5, <1>6, MirrorOne DEF Spokes, Round
<1>8. PairUp(f)
  BY <1>7, SpokesPair
<1>9. QED
  BY <1>8 DEF f

LEMMA MeshBarrierPairs == PairUp([r \in Ranks |-> MeshBarrier(r).steps])
<1> DEFINE hear(p) == Recv(p, Ins(1))
           answer(p) == Send(p, Ins(1))
           X == [i \in 1 .. (N - 1) |-> hear(Peers(0)[i])]
           Y == [i \in 1 .. (N - 1) |-> answer(Peers(0)[i])]
           s == Joined([i \in 1 .. (N - 1) |-> Just(X[i])])
           t == Joined([i \in 1 .. (N - 1) |-> Just(Y[i])])
           u == Say("recv", 1)
           v == Say("send", 1)
           f == [r \in Ranks |-> MeshBarrier(r).steps]
           Q == Ranks \ {0}
<1>1. 0 \in Ranks
  BY WorldSizeAssumption DEF Ranks
<1>2. f[0] = s \o t
  <2>1. [i \in 1 .. (N - 1) |-> Just(X[i])] = [i \in 1 .. (N - 1) |-> <<hear(Peers(0)[i])>>]
    BY DEF Just
  <2>2. [i \in 1 .. (N - 1) |-> Just(Y[i])] = [i \in 1 .. (N - 1) |-> <<answer(Peers(0)[i])>>]
    BY DEF Just
  <2>3. MeshBarrier(0).steps = Joined([i \in 1 .. (N - 1) |-> <<hear(Peers(0)[i])>>])
                               \o Joined([i \in 1 .. (N - 1) |-> <<answer(Peers(0)[i])>>])
    BY DEF MeshBarrier, Program, EachPeer
  <2>4. QED
    BY <1>1, <2>1, <2>2, <2>3
<1>3. ASSUME NEW r \in Q PROVE f[r] = Two(answer(0), hear(0))
  <2>1. f[r] = <<answer(0)>> \o <<hear(0)>>
    BY DEF MeshBarrier, Program
  <2>2. <<answer(0)>> \o <<hear(0)>> = Two(answer(0), hear(0))
    BY TwoJust DEF Just
  <2>3. QED
    BY <2>1, <2>2
<1>4. ASSUME NEW p
      PROVE  /\ Good(hear(p), {p}) /\ Said(hear(p), p) = u
             /\ Good(answer(p), {p}) /\ Said(answer(p), p) = v
  <2> DEFINE c == Ins(1)
             P == {p}
  <2>1. Len(c) = 1 /\ p \in P
    BY SlotsLen
  <2>2. Len(c) \in Nat \ {0}
    BY <2>1
  <2> HIDE DEF c, P
  <2>3. Good(Recv(p, c), P) /\ Said(Recv(p, c), p) = Say("recv", Len(c))
    BY <2>1, <2>2, RecvSaid
  <2>4. Good(Send(p, c), P) /\ Said(Send(p, c), p) = Say("send", Len(c))
    BY <2>1, <2>2, SendSaid
  <2>5. QED
    BY <2>1, <2>3, <2>4 DEF c, P
<1>5. u \in Seq(Message) /\ v \in Seq(Message) /\ Mirror(u, v) /\ Mirror(v, u)
  BY MirrorOne DEF Message, Say
<1>6. \A i \in 1 .. (N - 1) : X[i] = hear(Peers(0)[i]) /\ Y[i] = answer(Peers(0)[i])
  OBVIOUS
<1> HIDE DEF hear, answer, X, Y, u, v, f
<1>7. Round(X, 0, u) /\ Round(Y, 0, v)
  BY <1>4, <1>6 DEF Round
<1>8. /\ Fine(s, Q) /\ Len(s) # 0 /\ \A p \in Q : Speak(s, p) = u
      /\ Fine(t, Q) /\ Len(t) # 0 /\ \A p \in Q : Speak(t, p) = v
  <2>1. Fine(s, Q) /\ Len(s) # 0 /\ \A p \in Q : Speak(s, p) = u
    BY <1>1, <1>7, RoundSays
  <2>2. Fine(t, Q) /\ Len(t) # 0 /\ \A p \in Q : Speak(t, p) = v
    BY <1>1, <1>7, RoundSays
  <2>3. QED
    BY <2>1, <2>2
<1> HIDE DEF s, t, Q
<1> DEFINE w == s \o t
<1>9. Fine(w, Q) /\ Len(w) # 0 /\ \A p \in Q : Speak(w, p) = u \o v
  <2>1. Len(s) \in Nat /\ Len(t) \in Nat
    BY <1>8, FineFacts
  <2>2. Fine(s \o t, Q) /\ Len(s \o t) = Len(s) + Len(t)
    BY <1>8, FineConcat
  <2>3. \A p : Speak(s \o t, p) = Speak(s, p) \o Speak(t, p)
    BY <1>8, SpeakConcat
  <2>4. \A p \in Q : Speak(w, p) = u \o v
    BY <1>8, <2>3
  <2>5. Len(w) # 0
    BY <1>8, <2>1, <2>2
  <2>6. QED
    BY <2>2, <2>4, <2>5
<1>10. ASSUME NEW r \in Q PROVE Fine(f[r], {0}) /\ Len(f[r]) # 0 /\ Speak(f[r], 0) = v \o u
  <2> DEFINE P == {0}
             c == answer(0)
             d == hear(0)
  <2>1. Good(c, P) /\ Good(d, P) /\ Said(c, 0) = v /\ Said(d, 0) = u /\ f[r] = Two(c, d)
    BY <1>3, <1>4
  <2> HIDE DEF P, c, d
  <2>2. SaysTwo(Two(c, d), c, d, P, 0)
    BY <2>1, SpeakTwo
  <2>3. Fine(f[r], P) /\ Len(f[r]) = 2 /\ Speak(f[r], 0) = v \o u
    BY <2>1, <2>2 DEF SaysTwo
  <2>4. QED
    BY <2>3 DEF P
<1>11. Mirror(u \o v, v \o u)
  BY <1>5, MirrorConcat
<1> HIDE DEF w
<1>12. Hub(f, 0, u \o v, v \o u)
  BY <1>2, <1>9, <1>10, <1>11 DEF Hub, Q, w
<1>13. PairUp(f)
  BY <1>1, <1>12, HubPairs
<1>14. QED
  BY <1>13 DEF f

(* Every two ranks swap.                                                    *)
Swaps(f, T) ==
  \A r \in Ranks :
    /\ f[r] = Joined([i \in 1 .. (N - 1) |-> T[r][Peers(r)[i]]])
    /\ \A p \in Ranks \ {r} : Swapped(T[r][p], r, p, Say("send", 1), Say("recv", 1))
LEMMA SwapsPair ==
  ASSUME NEW f, NEW T, Swaps(f, T)
  PROVE  PairUp(f)
<1>1. ASSUME NEW r \in Ranks
      PROVE  /\ Fine(f[r], Ranks \ {r}) /\ Len(f[r]) # 0
             /\ \A p \in Ranks \ {r} : Speak(f[r], p) = Speak(T[r][p], p)
  <2> DEFINE R == [i \in 1 .. (N - 1) |-> T[r][Peers(r)[i]]]
  <2>1. \A i \in 1 .. (N - 1) : R[i] = T[r][Peers(r)[i]] /\ Peers(r)[i] \in Ranks \ {r}
    BY PeersFacts
  <2>2. f[r] = Joined(R) /\ R = [i \in 1 .. (N - 1) |-> R[i]]
    BY DEF Swaps
  <2> HIDE DEF R
  <2>3. ASSUME NEW i \in 1 .. (N - 1) PROVE Fine(R[i], {Peers(r)[i]}) /\ Len(R[i]) # 0
    <3> DEFINE p == Peers(r)[i]
    <3>1. p \in Ranks \ {r} /\ R[i] = T[r][p]
      BY <2>1
    <3> HIDE DEF p
    <3>2. Fine(R[i], {p}) /\ Len(R[i]) = 2
      BY <3>1 DEF Swaps, Swapped
    <3>3. QED
      BY <3>2 DEF p
  <2>4. Each(R, r)
    BY <2>2, <2>3 DEF Each
  <2>5. /\ Fine(f[r], Ranks \ {r}) /\ Len(f[r]) # 0
        /\ \A p \in Ranks \ {r} : Speak(f[r], p) = Speak(R[PeerAt(r, p)], p)
    BY <2>2, <2>4, EachFacts
  <2>6. ASSUME NEW p \in Ranks \ {r} PROVE Speak(f[r], p) = Speak(T[r][p], p)
    <3>1. PeerAt(r, p) \in 1 .. (N - 1) /\ Peers(r)[PeerAt(r, p)] = p
      BY PeersFacts
    <3>2. QED
      BY <2>1, <2>5, <3>1
  <2>7. QED
    BY <2>5, <2>6
<1>2. ASSUME NEW a \in Ranks, NEW b \in Ranks, a # b PROVE Match(f[a], a, f[b], b)
  <2>1. a \in Int /\ b \in Int /\ 1 \in Nat \ {0}
    BY WorldSizeAssumption DEF Ranks
  <2>2. /\ Swapped(T[a][b], a, b, Say("send", 1), Say("recv", 1))
        /\ Swapped(T[b][a], b, a, Say("send", 1), Say("recv", 1))
    BY <1>2 DEF Swaps
  <2>3. Match(T[a][b], a, T[b][a], b)
    BY <1>2, <2>1, <2>2, SwapMatches
  <2>4. Speak(f[a], b) = Speak(T[a][b], b) /\ Speak(f[b], a) = Speak(T[b][a], a)
    BY <1>1, <1>2
  <2>5. QED
    BY <2>3, <2>4 DEF Match
<1>3. QED
  BY <1>1, <1>2 DEF PairUp

LEMMA MeshAllGatherPairs == PairUp([r \in Ranks |-> MeshAllGather(r).steps])
<1> DEFINE folds == {}
           swap(r, p) == Swap(r, p, <<Own(0)>>, <<In(p)>>, folds)
           T == [r \in Ranks |-> [p \in Ranks |-> swap(r, p)]]
           f == [r \in Ranks |-> MeshAllGather(r).steps]
<1>1. ASSUME NEW r \in Ranks PROVE f[r] = Joined([i \in 1 .. (N - 1) |-> T[r][Peers(r)[i]]])
  <2>1. f[r] = Joined([i \in 1 .. (N - 1) |-> swap(r, Peers(r)[i])])
    BY DEF MeshAllGather, Program, EachPeer
  <2>2. \A i \in 1 .. (N - 1) : Peers(r)[i] \in Ranks
    BY PeersFacts
  <2> HIDE DEF swap
  <2>3. [i \in 1 .. (N - 1) |-> T[r][Peers(r)[i]]] = [i \in 1 .. (N - 1) |-> swap(r, Peers(r)[i])]
    BY <2>2
  <2>4. QED
    BY <2>1, <2>3
<1>2. ASSUME NEW r \in Ranks, NEW p \in Ranks
      PROVE  Swapped(T[r][p], r, p, Say("send", 1), Say("recv", 1))
  <2> DEFINE s == <<Own(0)>>
             t == <<In(p)>>
  <2>1. Len(s) = 1 /\ Len(t) = 1
    BY SlotsLen
  <2>2. Len(s) \in Nat \ {0} /\ Len(t) \in Nat \ {0}
    BY <2>1
  <2>3. T[r][p] = Swap(r, p, s, t, folds)
    OBVIOUS
  <2> HIDE DEF s, t, T, folds
  <2>4. Swapped(Swap(r, p, s, t, folds), r, p, Say("send", Len(s)), Say("recv", Len(t)))
    BY <2>2, SwapFacts
  <2>5. QED
    BY <2>1, <2>3, <2>4
<1> HIDE DEF f, T
<1>3. Swaps(f, T)
  BY <1>1, <1>2 DEF Swaps
<1>4. PairUp(f)
  BY <1>3, SwapsPair
<1>5. QED
  BY <1>4 DEF f

LEMMA MeshAllToAllPairs == PairUp([r \in Ranks |-> MeshAllToAll(r).steps])
<1> DEFINE folds == {}
           swap(r, p) == Swap(r, p, <<Own(p)>>, <<In(p)>>, folds)
           T == [r \in Ranks |-> [p \in Ranks |-> swap(r, p)]]
           f == [r \in Ranks |-> MeshAllToAll(r).steps]
<1>1. ASSUME NEW r \in Ranks PROVE f[r] = Joined([i \in 1 .. (N - 1) |-> T[r][Peers(r)[i]]])
  <2>1. f[r] = Joined([i \in 1 .. (N - 1) |-> swap(r, Peers(r)[i])])
    BY DEF MeshAllToAll, Program, EachPeer
  <2>2. \A i \in 1 .. (N - 1) : Peers(r)[i] \in Ranks
    BY PeersFacts
  <2> HIDE DEF swap
  <2>3. [i \in 1 .. (N - 1) |-> T[r][Peers(r)[i]]] = [i \in 1 .. (N - 1) |-> swap(r, Peers(r)[i])]
    BY <2>2
  <2>4. QED
    BY <2>1, <2>3
<1>2. ASSUME NEW r \in Ranks, NEW p \in Ranks
      PROVE  Swapped(T[r][p], r, p, Say("send", 1), Say("recv", 1))
  <2> DEFINE s == <<Own(p)>>
             t == <<In(p)>>
  <2>1. Len(s) = 1 /\ Len(t) = 1
    BY SlotsLen
  <2>2. Len(s) \in Nat \ {0} /\ Len(t) \in Nat \ {0}
    BY <2>1
  <2>3. T[r][p] = Swap(r, p, s, t, folds)
    OBVIOUS
  <2> HIDE DEF s, t, T, folds
  <2>4. Swapped(Swap(r, p, s, t, folds), r, p, Say("send", Len(s)), Say("recv", Len(t)))
    BY <2>2, SwapFacts
  <2>5. QED
    BY <2>1, <2>3, <2>4
<1> HIDE DEF f, T
<1>3. Swaps(f, T)
  BY <1>1, <1>2 DEF Swaps
<1>4. PairUp(f)
  BY <1>3, SwapsPair
<1>5. QED
  BY <1>4 DEF f

(* The masks of the recursive doubling.                                     *)
Doubles(g, n) == g \in [0 .. n -> Nat] /\ g[0] = 1 /\ \A i \in 1 .. n : g[i] = 2 * g[i - 1]
LEMMA DoublesExists == ASSUME NEW n \in Nat PROVE \E g : Doubles(g, n)
<1> DEFINE S == {k \in Nat : \E g : Doubles(g, k)}
<1>1. 0 \in S
  <2>1. Doubles([i \in 0 .. 0 |-> 1], 0)
    BY DEF Doubles
  <2>2. QED
    BY <2>1
<1>2. ASSUME NEW k \in Nat, k \in S PROVE k + 1 \in S
  <2>1. PICK g : Doubles(g, k)
    BY <1>2
  <2> DEFINE h == [i \in 0 .. (k + 1) |-> IF i = k + 1 THEN 2 * g[k] ELSE g[i]]
  <2>2. h \in [0 .. (k + 1) -> Nat] /\ h[0] = 1
    BY <2>1 DEF Doubles
  <2>3. ASSUME NEW i \in 1 .. (k + 1) PROVE h[i] = 2 * h[i - 1]
    <3>1. CASE i = k + 1
      BY <3>1
    <3>2. CASE i # k + 1
      <4>1. i \in 1 .. k /\ i - 1 \in 0 .. (k + 1) /\ i - 1 # k + 1 /\ i \in 0 .. (k + 1)
        BY <3>2
      <4>2. h[i] = g[i] /\ h[i - 1] = g[i - 1]
        BY <3>2, <4>1
      <4>3. QED
        BY <2>1, <4>1, <4>2 DEF Doubles
    <3>3. QED
      BY <3>1, <3>2
  <2> HIDE DEF h
  <2>4. Doubles(h, k + 1)
    BY <2>2, <2>3 DEF Doubles
  <2>5. QED
    BY <2>4
<1>3. Nat \subseteq S
  <2> HIDE DEF S
  <2>1. QED
    BY <1>1, <1>2, NatSteps
<1>4. QED
  BY <1>3

LEMMA MaskFacts ==
  /\ Mask[0] = 1
  /\ \A k \in 1 .. N : Mask[k] = 2 * Mask[k - 1]
  /\ \A k \in 0 .. N : Mask[k] \in Nat /\ Mask[k] > k
<1> DEFINE F(f) == [i \in 0 .. N |-> IF i = 0 THEN 1 ELSE 2 * f[i - 1]]
<1>1. N \in Nat
  BY WorldSizeAssumption
<1>2. PICK g : Doubles(g, N)
  BY <1>1, DoublesExists
<1>3. g \in [0 .. N -> Nat] /\ g[0] = 1 /\ \A i \in 1 .. N : g[i] = 2 * g[i - 1]
  BY <1>2 DEF Doubles
<1>4. g = F(g)
  <2>1. \A i \in 0 .. N : g[i] = F(g)[i]
    BY <1>1, <1>3
  <2>2. QED
    BY <1>3, <2>1
<1>5. Mask = CHOOSE f : f = F(f)
  BY DEF Mask
<1> HIDE DEF F
<1>6. Mask = F(Mask)
  BY <1>4, <1>5
<1> DEFINE m == Mask
<1>7. m = [i \in 0 .. N |-> IF i = 0 THEN 1 ELSE 2 * m[i - 1]]
  BY <1>6 DEF F
<1> HIDE DEF m
<1>8. m[0] = 1 /\ \A k \in 1 .. N : m[k] = 2 * m[k - 1]
  <2> DEFINE h == [i \in 0 .. N |-> IF i = 0 THEN 1 ELSE 2 * m[i - 1]]
  <2>1. m = h
    BY <1>7
  <2>2. h[0] = 1
    BY <1>1
  <2>3. \A k \in 1 .. N : h[k] = 2 * m[k - 1]
    BY <1>1
  <2> HIDE DEF h
  <2>4. QED
    BY <2>1, <2>2, <2>3
<1> DEFINE S == {k \in Nat : k <= N => m[k] \in Nat /\ m[k] > k}
<1>9. 0 \in S
  BY <1>8
<1>10. ASSUME NEW k \in Nat, k \in S PROVE k + 1 \in S
  <2>1. SUFFICES ASSUME k + 1 <= N PROVE m[k + 1] \in Nat /\ m[k + 1] > k + 1
    OBVIOUS
  <2> DEFINE j == k + 1
  <2>2. j \in 1 .. N /\ j - 1 = k /\ k <= N
    BY <1>1, <2>1
  <2>3. m[k] \in Nat /\ m[k] > k
    BY <1>10, <2>2
  <2> HIDE DEF j
  <2>4. m[j] = 2 * m[k]
    BY <1>8, <2>2
  <2>5. m[j] \in Nat /\ m[j] > j
    BY <2>2, <2>3, <2>4
  <2>6. QED
    BY <2>5 DEF j
<1>11. Nat \subseteq S
  <2> HIDE DEF S
  <2>1. QED
    BY <1>9, <1>10, NatSteps
<1>12. \A k \in 0 .. N : m[k] \in Nat /\ m[k] > k
  BY <1>1, <1>11
<1>13. QED
  BY <1>8, <1>12 DEF m

(* rank ^ mask is an involution.                                            *)
LEMMA XorFacts ==
  ASSUME NEW r \in Nat, NEW m \in Nat \ {0}
  PROVE  /\ XorMask(r, m) \in Nat /\ XorMask(r, m) # r
         /\ XorMask(XorMask(r, m), m) = r
         /\ m <= r /\ r < 2 * m => XorMask(r, m) = r - m
<1> DEFINE d == r \div m
<1>1. d \in Nat
  OBVIOUS
<1>2. (r + m) \div m = d + 1
  OBVIOUS
<1>3. r >= m => (r - m) \div m = d - 1
  OBVIOUS
<1>4. r < m => d = 0
  OBVIOUS
<1>5. m <= r /\ r < 2 * m => d = 1
  OBVIOUS
<1>6. XorMask(r, m) = IF d % 2 = 0 THEN r + m ELSE r - m
  BY DEF XorMask
<1>7. XorMask(r + m, m) = IF (d + 1) % 2 = 0 THEN r + m + m ELSE r + m - m
  BY <1>2 DEF XorMask
<1>8. r >= m => XorMask(r - m, m) = IF (d - 1) % 2 = 0 THEN r - m + m ELSE r - m - m
  BY <1>3 DEF XorMask
<1> HIDE DEF d
<1>9. d % 2 = 0 => (d + 1) % 2 # 0
  BY <1>1
<1>10. d % 2 # 0 => (d - 1) % 2 = 0 /\ d # 0
  BY <1>1
<1>11. CASE d % 2 = 0
  <2>1. XorMask(r, m) = r + m
    BY <1>6, <1>11
  <2>2. XorMask(r + m, m) = r
    BY <1>7, <1>9, <1>11
  <2>3. d # 1
    BY <1>11
  <2>4. QED
    BY <1>5, <2>1, <2>2, <2>3
<1>12. CASE d % 2 # 0
  <2>1. XorMask(r, m) = r - m /\ r >= m
    BY <1>4, <1>6, <1>10, <1>12
  <2>2. XorMask(r - m, m) = r
    BY <1>8, <1>10, <1>12, <2>1
  <2>3. QED
    BY <2>1, <2>2
<1>13. QED
  BY <1>11, <1>12

(* One round of the doubling at rank r, with the mask m.                    *)
Doubled(s, r, m, n) ==
  /\ m < N /\ XorMask(r, m) < N => Swapped(s, r, XorMask(r, m), Say("send", n), Say("recv", n))
  /\ ~(m < N /\ XorMask(r, m) < N) => s = <<>>
LEMMA DoubledFine ==
  ASSUME NEW r \in Ranks, NEW m \in Nat \ {0}, NEW n, NEW s, Doubled(s, r, m, n)
  PROVE  /\ Fine(s, Ranks \ {r})
         /\ \A q : ~(m < N /\ q = XorMask(r, m) /\ q < N) => \E P : Fine(s, P) /\ q \notin P
<1> DEFINE p == XorMask(r, m)
<1>1. N \in Nat /\ Ranks = 0 .. (N - 1) /\ r \in Nat
  BY WorldSizeAssumption DEF Ranks
<1>2. p \in Nat /\ p # r
  BY <1>1, XorFacts
<1>3. CASE m < N /\ p < N
  <2>1. Fine(s, {p})
    BY <1>3 DEF Doubled, Swapped
  <2>2. {p} \subseteq Ranks \ {r}
    BY <1>1, <1>2, <1>3
  <2> HIDE DEF p
  <2>3. Fine(s, Ranks \ {r})
    BY <2>1, <2>2, FineWider
  <2>4. ASSUME NEW q, ~(m < N /\ q = p /\ q < N) PROVE Fine(s, {p}) /\ q \notin {p}
    BY <1>3, <2>1, <2>4
  <2>5. QED
    BY <2>3, <2>4 DEF p
<1>4. CASE ~(m < N /\ p < N)
  <2>1. s = <<>>
    BY <1>4 DEF Doubled
  <2>2. Fine(s, Ranks \ {r}) /\ Fine(s, {})
    BY <2>1, FineNone
  <2>3. QED
    BY <2>2
<1>5. QED
  BY <1>3, <1>4

LEMMA DoubledMatch ==
  ASSUME NEW a \in Ranks, NEW b \in Ranks, a # b, NEW m \in Nat \ {0}, NEW n \in Nat \ {0},
         NEW s, NEW t, Doubled(s, a, m, n), Doubled(t, b, m, n)
  PROVE  Match(s, a, t, b)
<1>1. N \in Nat /\ a \in Nat /\ b \in Nat /\ a < N /\ b < N /\ a \in Int /\ b \in Int
  BY WorldSizeAssumption DEF Ranks
<1>2. XorMask(XorMask(a, m), m) = a /\ XorMask(XorMask(b, m), m) = b
  BY <1>1, XorFacts
<1>3. CASE m < N /\ b = XorMask(a, m)
  <2>1. a = XorMask(b, m)
    BY <1>2, <1>3
  <2>2. /\ Swapped(s, a, b, Say("send", n), Say("recv", n))
        /\ Swapped(t, b, a, Say("send", n), Say("recv", n))
    BY <1>1, <1>3, <2>1 DEF Doubled
  <2>3. QED
    BY <1>1, <2>2, SwapMatches
<1>4. CASE ~(m < N /\ b = XorMask(a, m))
  <2>1. ~(m < N /\ a = XorMask(b, m))
    BY <1>2, <1>4
  <2>2. (\E P : Fine(s, P) /\ b \notin P) /\ (\E P : Fine(t, P) /\ a \notin P)
    BY <1>4, <2>1, DoubledFine
  <2>3. PICK P : Fine(s, P) /\ b \notin P
    BY <2>2
  <2>4. PICK Q : Fine(t, Q) /\ a \notin Q
    BY <2>2
  <2>5. QED
    BY <2>3, <2>4, MatchSilent
<1>5. QED
  BY <1>3, <1>4

(* Some round has a peer for r.                                             *)
LEMMA DoublingPeer ==
  ASSUME NEW r \in Ranks
  PROVE  \E k \in 1 .. N : Mask[k - 1] < N /\ XorMask(r, Mask[k - 1]) < N
<1>1. N \in Nat /\ N >= 2 /\ Ranks = 0 .. (N - 1) /\ r \in Nat /\ r < N
  BY WorldSizeAssumption DEF Ranks
<1> DEFINE m == Mask
<1>2. /\ m[0] = 1 /\ \A k \in 1 .. N : m[k] = 2 * m[k - 1]
      /\ \A k \in 0 .. N : m[k] \in Nat /\ m[k] > k
  BY MaskFacts
<1> HIDE DEF m
<1>3. CASE r = 0
  <2>1. m[1 - 1] = 1 /\ 1 \in 1 .. N
    BY <1>1, <1>2
  <2>2. XorMask(0, 1) = 1
    <3>1. (0 \div 1) % 2 = 0
      OBVIOUS
    <3>2. QED
      BY <3>1 DEF XorMask
  <2>3. QED
    BY <1>1, <1>3, <2>1, <2>2 DEF m
<1>4. CASE r # 0
  <2> DEFINE S == {k \in 0 .. N : m[k] > r}
  <2>1. S \subseteq Nat /\ N \in S
    BY <1>1, <1>2
  <2>2. PICK k \in S : \A j \in S : k <= j
    <3> HIDE DEF S
    <3>1. QED
      BY <2>1, LeastNat
  <2>3. k \in 0 .. N /\ m[k] > r /\ k # 0
    BY <1>1, <1>2, <1>4
  <2> DEFINE d == m[k - 1]
  <2>4. k \in 1 .. N /\ k - 1 \in 0 .. N /\ k - 1 \notin S
    BY <1>1, <2>2, <2>3
  <2>5. d \in Nat \ {0} /\ d <= r /\ r < 2 * d
    BY <1>1, <1>2, <2>3, <2>4
  <2> HIDE DEF d
  <2>6. XorMask(r, d) = r - d
    BY <1>1, <2>5, XorFacts
  <2>7. d < N /\ XorMask(r, d) < N
    BY <1>1, <2>5, <2>6
  <2>8. QED
    BY <2>4, <2>7 DEF d, m
<1>5. QED
  BY <1>3, <1>4

LEMMA MeshDoublingPairs ==
  ASSUME NEW n \in Nat \ {0}
  PROVE  PairUp([r \in Ranks |-> MeshDoubling(r, n)])
<1> DEFINE folds == {<<In(i), Tmp(i)>> : i \in 0 .. (n - 1)}
           turn(r, m) == IF m < N
                         THEN IF XorMask(r, m) < N THEN Swap(r, XorMask(r, m), Ins(n), Tmps(n), folds)
                                                   ELSE <<>>
                         ELSE <<>>
           R(r) == [k \in 1 .. N |-> turn(r, Mask[k - 1])]
           f == [r \in Ranks |-> MeshDoubling(r, n)]
<1>1. N \in Nat
  BY WorldSizeAssumption
<1>2. \A r \in Ranks : f[r] = Joined(R(r))
  BY DEF MeshDoubling
<1>3. ASSUME NEW r \in Ranks, NEW m PROVE Doubled(turn(r, m), r, m, n)
  <2> DEFINE p == XorMask(r, m)
             s == Ins(n)
             t == Tmps(n)
  <2>1. CASE m < N /\ p < N
    <3>1. Len(s) = n /\ Len(t) = n
      BY SlotsLen
    <3>2. turn(r, m) = Swap(r, p, s, t, folds)
      BY <2>1
    <3> HIDE DEF s, t, folds, turn, p
    <3>3. Swapped(Swap(r, p, s, t, folds), r, p, Say("send", Len(s)), Say("recv", Len(t)))
      BY <3>1, SwapFacts
    <3>4. Swapped(turn(r, m), r, p, Say("send", n), Say("recv", n))
      BY <3>1, <3>2, <3>3
    <3>5. QED
      BY <2>1, <3>4 DEF Doubled, p
  <2>2. CASE ~(m < N /\ p < N)
    <3>1. turn(r, m) = <<>>
      BY <2>2
    <3> HIDE DEF turn
    <3>2. QED
      BY <2>2, <3>1 DEF Doubled
  <2>3. QED
    BY <2>1, <2>2
<1> HIDE DEF turn
<1>4. \A r \in Ranks, k \in 1 .. N : Mask[k - 1] \in Nat \ {0} /\ Doubled(R(r)[k], r, Mask[k - 1], n)
  <2>1. ASSUME NEW k \in 1 .. N PROVE Mask[k - 1] \in Nat \ {0}
    <3> DEFINE j == k - 1
    <3>1. j \in 0 .. N
      BY <1>1
    <3> HIDE DEF j
    <3>2. Mask[j] \in Nat /\ Mask[j] > j /\ j \in Nat
      BY <1>1, <3>1, MaskFacts
    <3>3. QED
      BY <3>2 DEF j
  <2>2. \A r \in Ranks, k \in 1 .. N : R(r)[k] = turn(r, Mask[k - 1])
    OBVIOUS
  <2>3. QED
    BY <1>3, <2>1, <2>2
<1>5. \A r \in Ranks : R(r) = [k \in 1 .. N |-> R(r)[k]]
  OBVIOUS
<1> HIDE DEF R, f
<1>6. ASSUME NEW r \in Ranks PROVE Loop(R(r), N, Ranks \ {r})
  <2> DEFINE Q == Ranks \ {r}
  <2>1. \A k \in 1 .. N : Fine(R(r)[k], Q)
    BY <1>4, DoubledFine
  <2> HIDE DEF Q
  <2>2. Loop(R(r), N, Q)
    BY <1>5, <2>1 DEF Loop
  <2>3. QED
    BY <2>2 DEF Q
<1>7. ASSUME NEW r \in Ranks PROVE Fine(f[r], Ranks \ {r}) /\ Len(f[r]) # 0
  <2> DEFINE Q == Ranks \ {r}
             S == R(r)
  <2>1. Loop(S, N, Q) /\ f[r] = Joined(S) /\ \A k \in 1 .. N : Doubled(S[k], r, Mask[k - 1], n)
    BY <1>2, <1>4, <1>6
  <2> HIDE DEF Q, S
  <2>2. Fine(Joined(S), Q) /\ \A k \in 1 .. N : Len(S[k]) <= Len(Joined(S))
    BY <1>1, <2>1, FineJoined
  <2>3. PICK k \in 1 .. N : Mask[k - 1] < N /\ XorMask(r, Mask[k - 1]) < N
    BY DoublingPeer
  <2>4. Len(S[k]) = 2
    BY <2>1, <2>3 DEF Doubled, Swapped
  <2>5. Len(f[r]) # 0
    <3>1. Len(S[k]) <= Len(Joined(S)) /\ Len(Joined(S)) \in Nat
      BY <2>2, FineFacts
    <3>2. Len(Joined(S)) # 0
      BY <2>4, <3>1
    <3>3. QED
      BY <2>1, <3>2
  <2>6. QED
    BY <2>1, <2>2, <2>5 DEF Q
<1>8. ASSUME NEW a \in Ranks, NEW b \in Ranks, a # b PROVE Match(f[a], a, f[b], b)
  <2> DEFINE P == Ranks \ {a}
             Q == Ranks \ {b}
             S == R(a)
             T == R(b)
  <2>1. \A k \in 1 .. N : Match(S[k], a, T[k], b)
    BY <1>4, <1>8, DoubledMatch
  <2>2. Loop(S, N, P) /\ Loop(T, N, Q) /\ f[a] = Joined(S) /\ f[b] = Joined(T)
    BY <1>2, <1>6
  <2> HIDE DEF P, Q, S, T
  <2>3. QED
    BY <1>1, <2>1, <2>2, MatchJoined
<1>9. PairUp(f)
  BY <1>7, <1>8 DEF PairUp
<1>10. QED
  BY <1>9 DEF f

LEMMA MeshAllReducePairs == PairUp([r \in Ranks |-> MeshAllReduce(r).steps])
<1>1. \A r : MeshAllReduce(r).steps = MeshDoubling(r, 1)
  BY DEF MeshAllReduce, Program
<1>2. 1 \in Nat \ {0}
  OBVIOUS
<1>3. QED
  BY <1>1, <1>2, MeshDoublingPairs

LEMMA MeshReduceScatterPairs == PairUp([r \in Ranks |-> MeshReduceScatter(r).steps])
<1>1. ASSUME NEW r PROVE MeshReduceScatter(r).steps = MeshDoubling(r, N)
  BY DEF MeshReduceScatter, Program
<1>2. N \in Nat \ {0}
  BY WorldSizeAssumption
<1>3. QED
  BY <1>1, <1>2, MeshDoublingPairs

-----------------------------------------------------------------------------
(* On the ring a rank talks with its two neighbors and nobody else.         *)
LEMMA RingedPairs == ASSUME NEW f, Ringed(f) PROVE PairUp(f)
<1>1. ASSUME NEW r \in Ranks
      PROVE  Fine(f[r], RingNeighbors(r)) /\ Fine(f[r], Ranks \ {r}) /\ Len(f[r]) # 0
  <2> DEFINE P == RingNeighbors(r)
             Q == Ranks \ {r}
  <2>1. Fine(f[r], P) /\ Len(f[r]) # 0
    BY DEF Ringed
  <2>2. P \subseteq Q
    BY RingFacts
  <2> HIDE DEF P, Q
  <2>3. Fine(f[r], Q)
    BY <2>1, <2>2, FineWider
  <2>4. QED
    BY <2>1, <2>3 DEF P, Q
<1>2. ASSUME NEW a \in Ranks, NEW b \in Ranks, a # b PROVE Match(f[a], a, f[b], b)
  <2>1. CASE b = Next1(a)
    BY <2>1 DEF Ringed
  <2>2. CASE a = Next1(b)
    <3>1. Match(f[b], b, f[a], a)
      BY <2>2 DEF Ringed
    <3>2. QED
      BY <3>1, MirrorBack DEF Match
  <2>3. CASE b # Next1(a) /\ a # Next1(b)
    <3>1. b \notin RingNeighbors(a)
      <4>1. RingNeighbors(a) = {Next1(a), Prev1(a)} /\ Next1(Prev1(a)) = a
        BY RingFacts
      <4>2. QED
        BY <2>3, <4>1
    <3>2. a \notin RingNeighbors(b)
      <4>1. RingNeighbors(b) = {Next1(b), Prev1(b)} /\ Next1(Prev1(b)) = b
        BY RingFacts
      <4>2. QED
        BY <2>3, <4>1
    <3>3. QED
      BY <1>1, <3>1, <3>2, MatchSilent
  <2>4. QED
    BY <2>1, <2>2, <2>3
<1>3. QED
  BY <1>1, <1>2 DEF PairUp

LEMMA RingProgramPairs ==
  ASSUME NEW c \in Calls
  PROVE  PairUp([r \in Ranks |-> RingProgram(c, r).steps])
<1> DEFINE f == [r \in Ranks |-> RingProgram(c, r).steps]
<1>1. c.op \in RootedOps \cup RootlessOps /\ c.root \in Ranks
  BY WorldSizeAssumption DEF Calls, Ranks
<1>2. Ringed(f)
  <2>1. CASE c.op = "Broadcast"
    <3>1. c.root \in Ranks
      BY <1>1
    <3>2. \A r : RingProgram(c, r) = RingBroadcast(r, c.root)
      BY <2>1 DEF RingProgram
    <3>3. QED
      BY <3>1, <3>2, RingBroadcastPairs
  <2>2. CASE c.op = "Gather"
    <3>1. c.root \in Ranks
      BY <1>1
    <3>2. \A r : RingProgram(c, r) = RingGather(r, c.root)
      BY <2>2 DEF RingProgram
    <3>3. QED
      BY <3>1, <3>2, RingGatherPairs
  <2>3. CASE c.op = "Scatter"
    <3>1. c.root \in Ranks
      BY <1>1
    <3>2. \A r : RingProgram(c, r) = RingScatterFrom(r, c.root, [i \in Ranks |-> Own(i)])
      BY <2>3 DEF RingProgram, RingScatter
    <3>3. QED
      BY <3>1, <3>2, RingScatterPairs
  <2>4. CASE c.op = "Reduce"
    <3>1. c.root \in Ranks /\ 1 \in Nat \ {0}
      BY <1>1
    <3>2. \A r : RingProgram(c, r) = RingReduceOf(1, r, c.root)
      BY <2>4 DEF RingProgram, RingReduce
    <3>3. QED
      BY <3>1, <3>2, RingReducePairs
  <2>5. CASE c.op = "AllGather"
    <3>1. \A r : RingProgram(c, r) = RingAllGather(r)
      BY <2>5 DEF RingProgram
    <3>2. QED
      BY <3>1, RingAllGatherPairs
  <2>6. CASE c.op = "ReduceScatter"
    <3>1. \A r : RingProgram(c, r) = RingReduceScatter(r)
      BY <2>6 DEF RingProgram
    <3>2. QED
      BY <3>1, RingReduceScatterPairs
  <2>7. CASE c.op = "AllReduce"
    <3>1. \A r : RingProgram(c, r) = RingAllReduce(r)
      BY <2>7 DEF RingProgram
    <3>2. N = 2 \/ N >= 3
      BY WorldSizeAssumption
    <3>3. QED
      BY <3>1, <3>2, RingAllReduceMany, RingAllReduceTwo
  <2>8. CASE c.op = "AllToAll"
    <3>1. \A r : RingProgram(c, r) = RingAllToAll(r)
      BY <2>8 DEF RingProgram
    <3>2. QED
      BY <3>1, RingAllToAllPairs
  <2>9. CASE c.op = "Barrier"
    <3>1. \A r : RingProgram(c, r) = RingBarrier(r)
      BY <2>9 DEF RingProgram
    <3>2. QED
      BY <3>1, RingBarrierPairs
  <2>10. QED
    BY <1>1, <2>1, <2>2, <2>3, <2>4, <2>5, <2>6, <2>7, <2>8, <2>9 DEF RootedOps, RootlessOps
<1>3. PairUp(f)
  BY <1>2, RingedPairs
<1>4. QED
  BY <1>3 DEF f

LEMMA MeshProgramPairs ==
  ASSUME NEW c \in Calls
  PROVE  PairUp([r \in Ranks |-> MeshProgram(c, r).steps])
<1>1. c.op \in RootedOps \cup RootlessOps /\ c.root \in Ranks
  BY WorldSizeAssumption DEF Calls, Ranks
<1>2. CASE c.op = "Broadcast"
  <2>1. c.root \in Ranks
    BY <1>1
  <2>2. \A r : MeshProgram(c, r) = MeshBroadcast(r, c.root)
    BY <1>2 DEF MeshProgram
  <2>3. QED
    BY <2>1, <2>2, MeshBroadcastPairs
<1>3. CASE c.op = "Gather"
  <2>1. c.root \in Ranks
    BY <1>1
  <2>2. \A r : MeshProgram(c, r) = MeshGather(r, c.root)
    BY <1>3 DEF MeshProgram
  <2>3. QED
    BY <2>1, <2>2, MeshGatherPairs
<1>4. CASE c.op = "Scatter"
  <2>1. c.root \in Ranks
    BY <1>1
  <2>2. \A r : MeshProgram(c, r) = MeshScatter(r, c.root)
    BY <1>4 DEF MeshProgram
  <2>3. QED
    BY <2>1, <2>2, MeshScatterPairs
<1>5. CASE c.op = "Reduce"
  <2>1. c.root \in Ranks
    BY <1>1
  <2>2. \A r : MeshProgram(c, r) = MeshReduce(r, c.root)
    BY <1>5 DEF MeshProgram
  <2>3. QED
    BY <2>1, <2>2, MeshReducePairs
<1>6. CASE c.op = "AllGather"
  <2>1. \A r : MeshProgram(c, r) = MeshAllGather(r)
    BY <1>6 DEF MeshProgram
  <2>2. QED
    BY <2>1, MeshAllGatherPairs
<1>7. CASE c.op = "ReduceScatter"
  <2>1. \A r : MeshProgram(c, r) = MeshReduceScatter(r)
    BY <1>7 DEF MeshProgram
  <2>2. QED
    BY <2>1, MeshReduceScatterPairs
<1>8. CASE c.op = "AllReduce"
  <2>1. \A r : MeshProgram(c, r) = MeshAllReduce(r)
    BY <1>8 DEF MeshProgram
  <2>2. QED
    BY <2>1, MeshAllReducePairs
<1>9. CASE c.op = "AllToAll"
  <2>1. \A r : MeshProgram(c, r) = MeshAllToAll(r)
    BY <1>9 DEF MeshProgram
  <2>2. QED
    BY <2>1, MeshAllToAllPairs
<1>10. CASE c.op = "Barrier"
  <2>1. \A r : MeshProgram(c, r) = MeshBarrier(r)
    BY <1>10 DEF MeshProgram
  <2>2. QED
    BY <2>1, MeshBarrierPairs
<1>11. QED
  BY <1>1, <1>2, <1>3, <1>4, <1>5, <1>6, <1>7, <1>8, <1>9, <1>10 DEF RootedOps, RootlessOps

(* What PairUp says is what PairedCall asks.                                *)
LEMMA CallPaired ==
  ASSUME NEW t, NEW c, PairUp([r \in Ranks |-> CodeOf(t, c, r).steps])
  PROVE  PairedCall(t, c)
<1> DEFINE steps(r) == CodeOf(t, c, r).steps
<1>1. /\ \A r \in Ranks : Fine(steps(r), Ranks \ {r}) /\ Len(steps(r)) # 0
      /\ \A a, b \in Ranks : a # b => Match(steps(a), a, steps(b), b)
  BY DEF PairUp
<1>2. \A r, q : Joined(Talk(CodeOf(t, c, r), q)) = Speak(steps(r), q)
  BY DEF Talk, Speak
<1>3. ASSUME NEW r \in Ranks PROVE WellFormed(CodeOf(t, c, r), r)
  <2> DEFINE s == steps(r)
             Q == Ranks \ {r}
  <2>1. Fine(s, Q) /\ Len(s) # 0
    BY <1>1
  <2> HIDE DEF s, Q
  <2>2. DOMAIN s = 1 .. Len(s) /\ Len(s) \in Nat \ {0} /\ \A i \in 1 .. Len(s) : Good(s[i], Q)
    BY <2>1, FineFacts
  <2>3. QED
    BY <2>2 DEF WellFormed, Good, s, Q
<1> HIDE DEF steps
<1>4. ASSUME NEW a \in Ranks, NEW b \in Ranks \ {a}
      PROVE  Mirror(Joined(Talk(CodeOf(t, c, a), b)), Joined(Talk(CodeOf(t, c, b), a)))
  BY <1>1, <1>2 DEF Match
<1>5. QED
  BY <1>3, <1>4 DEF PairedCall

(* Every collective of both topologies pairs up, whatever the world size.   *)
THEOREM ProgramsPair == Paired
<1> SUFFICES ASSUME NEW s \in Setups, NEW i \in DOMAIN s.work PROVE PairedCall(s.topology, s.work[i])
  BY DEF Paired
<1> DEFINE t == s.topology
           c == s.work[i]
           f == [r \in Ranks |-> CodeOf(t, c, r).steps]
<1>1. c \in Calls
  BY SetupsAssumption, ElementOfSeq
<1> HIDE DEF t, c
<1>2. PairUp(f)
  <2>1. CASE t = "ring"
    <3>1. f = [r \in Ranks |-> RingProgram(c, r).steps]
      BY <1>1, <2>1 DEF CodeOf, RingCode
    <3>2. QED
      BY <1>1, <3>1, RingProgramPairs
  <2>2. CASE t # "ring"
    <3>1. f = [r \in Ranks |-> MeshProgram(c, r).steps]
      BY <1>1, <2>2 DEF CodeOf, MeshCode
    <3>2. QED
      BY <1>1, <3>1, MeshProgramPairs
  <2>3. QED
    BY <2>1, <2>2
<1>3. PairedCall(t, c)
  BY <1>2, CallPaired
<1>4. QED
  BY <1>3 DEF t, c

-----------------------------------------------------------------------------
(* What two ranks tell each other in all their calls.                       *)
Told == [dir : {"send", "recv"}, len : Nat \ {0}, call : Nat]
Tag == [call : Nat, pos : Nat, of : Nat]

LEMMA TalkFacts ==
  ASSUME NEW r \in Ranks, NEW code, WellFormed(code, r), NEW q \in Ranks
  PROVE  /\ Talk(code, q) \in Seq(Seq(Message))
         /\ Len(Talk(code, q)) = Len(code.steps)
         /\ \A i \in 1 .. Len(code.steps) :
              /\ Talk(code, q)[i] = Said(code.steps[i], q)
              /\ (\A p \in code.steps[i].parts : p.peer # q) => Said(code.steps[i], q) = <<>>
              /\ \A p \in code.steps[i].parts : p.peer = q =>
                   Said(code.steps[i], q) = <<[dir |-> p.dir, len |-> Len(p.slots)]>>
<1> DEFINE L == Len(code.steps)
           t == Talk(code, q)
<1>1. L \in Nat \ {0} /\ DOMAIN code.steps = 1 .. L
  BY DEF WellFormed
<1>2. ASSUME NEW i \in 1 .. L
      PROVE  /\ (\A p \in code.steps[i].parts : p.peer # q) => Said(code.steps[i], q) = <<>>
             /\ \A p \in code.steps[i].parts : p.peer = q =>
                  Said(code.steps[i], q) = <<[dir |-> p.dir, len |-> Len(p.slots)]>>
             /\ Said(code.steps[i], q) \in Seq(Message)
  <2> DEFINE parts == code.steps[i].parts
  <2>1. /\ \A p \in parts : p.dir \in {"send", "recv"} /\ Len(p.slots) \in Nat \ {0}
        /\ \A p, x \in parts : p.peer = x.peer => p = x
    BY <1>1 DEF WellFormed
  <2>2. Said(code.steps[i], q) =
          IF \E p \in parts : p.peer = q
          THEN LET p == CHOOSE p \in parts : p.peer = q
               IN  <<[dir |-> p.dir, len |-> Len(p.slots)]>>
          ELSE <<>>
    BY DEF Said
  <2> HIDE DEF parts
  <2>3. ASSUME NEW p \in parts, p.peer = q
        PROVE  /\ Said(code.steps[i], q) = <<[dir |-> p.dir, len |-> Len(p.slots)]>>
               /\ Said(code.steps[i], q) \in Seq(Message)
    <3> DEFINE x == CHOOSE x \in parts : x.peer = q
    <3>1. x \in parts /\ x.peer = q
      BY <2>3
    <3> HIDE DEF x
    <3>2. x = p
      BY <2>1, <2>3, <3>1
    <3>3. Said(code.steps[i], q) = <<[dir |-> p.dir, len |-> Len(p.slots)]>>
      BY <2>2, <2>3, <3>2 DEF x
    <3>4. [dir |-> p.dir, len |-> Len(p.slots)] \in Message
      BY <2>1, <2>3 DEF Message
    <3>5. QED
      BY <3>3, <3>4
  <2>4. (\A p \in parts : p.peer # q) => Said(code.steps[i], q) = <<>>
    BY <2>2
  <2>5. Said(code.steps[i], q) \in Seq(Message)
    <3>1. CASE \E p \in parts : p.peer = q
      BY <2>3, <3>1
    <3>2. CASE \A p \in parts : p.peer # q
      <4>1. Said(code.steps[i], q) = <<>>
        BY <2>4, <3>2
      <4>2. QED
        BY <4>1
    <3>3. QED
      BY <3>1, <3>2
  <2>6. QED
    BY <2>3, <2>4, <2>5 DEF parts
<1>3. t = [i \in 1 .. L |-> Said(code.steps[i], q)]
  BY DEF Talk
<1> HIDE DEF L, t
<1>4. t \in Seq(Seq(Message)) /\ Len(t) = L /\ \A i \in 1 .. L : t[i] = Said(code.steps[i], q)
  BY <1>1, <1>2, <1>3
<1>5. QED
  BY <1>2, <1>4 DEF L, t

(* The programs of a setup that pairs up.                                   *)
LEMMA CodeFacts ==
  ASSUME Paired, NEW s \in Setups
  PROVE  /\ s.work \in Seq(Calls) /\ Len(s.work) \in Nat /\ DOMAIN s.work = 1 .. Len(s.work)
         /\ \A c \in 1 .. Len(s.work) :
              /\ s.work[c] \in Calls
              /\ \A r \in Ranks : WellFormed(CodeOf(s.topology, s.work[c], r), r)
              /\ \A a \in Ranks : \A b \in Ranks \ {a} :
                   Mirror(Joined(Talk(CodeOf(s.topology, s.work[c], a), b)),
                          Joined(Talk(CodeOf(s.topology, s.work[c], b), a)))
<1>1. s.work \in Seq(Calls)
  BY SetupsAssumption
<1>2. Len(s.work) \in Nat /\ DOMAIN s.work = 1 .. Len(s.work) /\ \A c \in 1 .. Len(s.work) : s.work[c] \in Calls
  BY <1>1
<1>3. \A c \in 1 .. Len(s.work) : PairedCall(s.topology, s.work[c])
  BY <1>2 DEF Paired
<1>4. QED
  BY <1>1, <1>2, <1>3 DEF PairedCall

LEMMA TaggedFacts ==
  ASSUME NEW c \in Nat, NEW t \in Seq(Message)
  PROVE  /\ Tagged(c, t) \in Seq(Told) /\ Len(Tagged(c, t)) = Len(t)
         /\ \A k \in 1 .. Len(t) :
              Tagged(c, t)[k] = [dir |-> t[k].dir, len |-> t[k].len, call |-> c]
<1> DEFINE n == Len(t)
<1>1. n \in Nat /\ \A k \in 1 .. n : t[k] \in Message
  BY ElementOfSeq
<1>2. Tagged(c, t) = [k \in 1 .. n |-> [dir |-> t[k].dir, len |-> t[k].len, call |-> c]]
  BY DEF Tagged
<1> HIDE DEF n
<1>3. \A k \in 1 .. n : [dir |-> t[k].dir, len |-> t[k].len, call |-> c] \in Told
  BY <1>1 DEF Message, Told
<1>4. QED
  BY <1>1, <1>2, <1>3 DEF n

LEMMA StoryType ==
  ASSUME Paired, NEW s \in Setups, NEW r \in Ranks, NEW q \in Ranks
  PROVE  /\ Story(s, r, q) \in Seq(Seq(Told)) /\ Len(Story(s, r, q)) = Len(s.work)
         /\ \A c \in 1 .. Len(s.work) :
              LET talk == Joined(Talk(CodeOf(s.topology, s.work[c], r), q))
              IN  talk \in Seq(Message) /\ Story(s, r, q)[c] = Tagged(c, talk)
<1> DEFINE K == Len(s.work)
           T(c) == Joined(Talk(CodeOf(s.topology, s.work[c], r), q))
           y == Story(s, r, q)
<1>1. K \in Nat /\ \A c \in 1 .. K : WellFormed(CodeOf(s.topology, s.work[c], r), r)
  BY CodeFacts
<1>2. ASSUME NEW c \in 1 .. K PROVE T(c) \in Seq(Message)
  <2> DEFINE code == CodeOf(s.topology, s.work[c], r)
  <2>1. Talk(code, q) \in Seq(Seq(Message)) /\ Len(Talk(code, q)) = Len(code.steps)
    BY <1>1, TalkFacts
  <2>2. Len(code.steps) \in Nat \ {0}
    BY <1>1 DEF WellFormed
  <2>3. 1 \in 1 .. Len(Talk(code, q))
    BY <2>1, <2>2
  <2> HIDE DEF code
  <2>4. Joined(Talk(code, q)) \in Seq(Message)
    BY <2>1, <2>3, JoinedPart
  <2>5. QED
    BY <2>4 DEF code
<1>3. y = [c \in 1 .. K |-> Tagged(c, T(c))]
  BY DEF Story
<1> HIDE DEF K, T, y
<1>4. \A c \in 1 .. K : Tagged(c, T(c)) \in Seq(Told)
  BY <1>1, <1>2, TaggedFacts
<1>5. y \in Seq(Seq(Told)) /\ Len(y) = K /\ \A c \in 1 .. K : y[c] = Tagged(c, T(c))
  BY <1>1, <1>3, <1>4
<1>6. QED
  BY <1>2, <1>5 DEF K, T, y

(* The messages of r with q, call by call and step by step: call c, whose    *)
(* program is code, goes on in M after the u[c - 1] of the calls before; a   *)
(* step without q adds none, a transport call with q is the next.            *)
StoryOf(u, M, code, upto, q, c) ==
  /\ Len(upto[0]) = 0
  /\ \A i \in 0 .. Len(code.steps) : Len(upto[i]) \in Nat
  /\ Len(u[c]) = Len(u[c - 1]) + Len(upto[Len(code.steps)])
  /\ \A i \in 1 .. Len(code.steps) :
       /\ (\A p \in code.steps[i].parts : p.peer # q) => Len(upto[i]) = Len(upto[i - 1])
       /\ \A p \in code.steps[i].parts : p.peer = q =>
            LET m == Len(u[c - 1]) + Len(upto[i - 1]) + 1
            IN  /\ Len(upto[i]) = Len(upto[i - 1]) + 1
                /\ m \in 1 .. Len(M)
                /\ M[m] = [dir |-> p.dir, len |-> Len(p.slots), call |-> c]

LEMMA StoryFacts ==
  ASSUME Paired, NEW s \in Setups, NEW r \in Ranks, NEW q \in Ranks
  PROVE  /\ Messages[s][r][q] \in Seq(Told)
         /\ Messages[s][r][q] = StoryUpto[s][r][q][Len(s.work)]
         /\ StoryUpto[s][r][q][0] = <<>>
         /\ \A c \in 0 .. Len(s.work) :
              /\ Len(StoryUpto[s][r][q][c]) \in Nat
              /\ Len(StoryUpto[s][r][q][c]) <= Len(Messages[s][r][q])
         /\ \A c \in 1 .. Len(s.work) :
              LET code == CodeOf(s.topology, s.work[c], r)
              IN  StoryOf(StoryUpto[s][r][q], Messages[s][r][q], code,
                          JoinedUpto(Talk(code, q)), q, c)
<1> DEFINE K == Len(s.work)
           y == Story(s, r, q)
           M == Messages[s][r][q]
           u == StoryUpto[s][r][q]
<1>1. /\ K \in Nat /\ y \in Seq(Seq(Told)) /\ Len(y) = K
      /\ \A c \in 1 .. K : WellFormed(CodeOf(s.topology, s.work[c], r), r)
      /\ \A c \in 1 .. K :
           LET talk == Joined(Talk(CodeOf(s.topology, s.work[c], r), q))
           IN  talk \in Seq(Message) /\ y[c] = Tagged(c, talk)
  BY CodeFacts, StoryType
<1>2. M = Joined(y) /\ u = JoinedUpto(y)
  BY DEF Messages, StoryUpto
<1>3. /\ M \in Seq(Told) /\ M = u[K] /\ u[0] = <<>>
      /\ \A c \in 0 .. K : Len(u[c]) \in Nat /\ Len(u[c]) <= Len(M)
  BY <1>1, <1>2, JoinedType
<1>4. ASSUME NEW c \in 1 .. K
      PROVE  LET code == CodeOf(s.topology, s.work[c], r)
             IN  StoryOf(u, M, code, JoinedUpto(Talk(code, q)), q, c)
  <2> DEFINE code == CodeOf(s.topology, s.work[c], r)
             t == Talk(code, q)
             upto == JoinedUpto(t)
             L == Len(code.steps)
             w == Joined(t)
  <2>1. /\ t \in Seq(Seq(Message)) /\ Len(t) = L
        /\ \A i \in 1 .. L :
             /\ t[i] = Said(code.steps[i], q)
             /\ (\A p \in code.steps[i].parts : p.peer # q) => Said(code.steps[i], q) = <<>>
             /\ \A p \in code.steps[i].parts : p.peer = q =>
                  Said(code.steps[i], q) = <<[dir |-> p.dir, len |-> Len(p.slots)]>>
    BY <1>1, TalkFacts
  <2>2. L \in Nat \ {0}
    BY <1>1 DEF WellFormed
  <2>3. w \in Seq(Message) /\ y[c] = Tagged(c, w) /\ c \in Nat
    BY <1>1
  <2> HIDE DEF K, y, M, u, code, t, upto, L, w
  <2>4. /\ Len(u[c]) = Len(u[c - 1]) + Len(y[c]) /\ Len(u[c - 1]) \in Nat
        /\ \A k \in 1 .. Len(y[c]) : /\ Len(u[c - 1]) + k \in 1 .. Len(M)
                                     /\ M[Len(u[c - 1]) + k] = y[c][k]
    <3>1. c \in 1 .. Len(y) /\ c - 1 \in 0 .. K
      BY <1>1
    <3>2. Len(u[c - 1]) \in Nat
      BY <1>3, <3>1
    <3>3. /\ Len(JoinedUpto(y)[c]) = Len(JoinedUpto(y)[c - 1]) + Len(y[c])
          /\ \A k \in 1 .. Len(y[c]) :
               /\ Len(JoinedUpto(y)[c - 1]) + k \in 1 .. Len(Joined(y))
               /\ Joined(y)[Len(JoinedUpto(y)[c - 1]) + k] = y[c][k]
      BY <1>1, <3>1, JoinedPart
    <3>4. QED
      BY <1>2, <3>2, <3>3
  <2>5. /\ Len(y[c]) = Len(w)
        /\ \A k \in 1 .. Len(w) : y[c][k] = [dir |-> w[k].dir, len |-> w[k].len, call |-> c]
    BY <2>3, TaggedFacts
  <2>6. /\ w = upto[L] /\ upto[0] = <<>>
        /\ \A i \in 0 .. L : Len(upto[i]) \in Nat
    BY <2>1, JoinedType DEF upto, w
  <2>7. ASSUME NEW i \in 1 .. L
        PROVE  /\ Len(upto[i]) = Len(upto[i - 1]) + Len(t[i]) /\ Len(upto[i - 1]) \in Nat
               /\ \A k \in 1 .. Len(t[i]) : /\ Len(upto[i - 1]) + k \in 1 .. Len(w)
                                            /\ w[Len(upto[i - 1]) + k] = t[i][k]
    <3>0. t \in Seq(Seq(Message))
      BY <2>1
    <3>1. i \in 1 .. Len(t) /\ i - 1 \in 0 .. L
      BY <2>1, <2>2
    <3>2. Len(upto[i - 1]) \in Nat
      BY <2>6, <3>1
    <3>3. /\ Len(JoinedUpto(t)[i]) = Len(JoinedUpto(t)[i - 1]) + Len(t[i])
          /\ \A k \in 1 .. Len(t[i]) :
               /\ Len(JoinedUpto(t)[i - 1]) + k \in 1 .. Len(Joined(t))
               /\ Joined(t)[Len(JoinedUpto(t)[i - 1]) + k] = t[i][k]
      BY ONLY <3>0, <3>1, JoinedPart
    <3>4. QED
      BY <3>2, <3>3 DEF upto, w
  <2>8. Len(upto[0]) = 0 /\ Len(u[c]) = Len(u[c - 1]) + Len(upto[L])
    BY <2>4, <2>5, <2>6
  <2>9. ASSUME NEW i \in 1 .. L, \A p \in code.steps[i].parts : p.peer # q
        PROVE  Len(upto[i]) = Len(upto[i - 1])
    <3>1. t[i] = <<>>
      BY <2>1, <2>9
    <3>2. Len(t[i]) = 0
      BY <3>1
    <3>3. Len(upto[i]) = Len(upto[i - 1]) + 0 /\ Len(upto[i - 1]) \in Nat
      BY <2>7, <3>2
    <3>4. QED
      BY <3>3
  <2>10. ASSUME NEW i \in 1 .. L, NEW p \in code.steps[i].parts, p.peer = q
         PROVE  LET m == Len(u[c - 1]) + Len(upto[i - 1]) + 1
                IN  /\ Len(upto[i]) = Len(upto[i - 1]) + 1
                    /\ m \in 1 .. Len(M)
                    /\ M[m] = [dir |-> p.dir, len |-> Len(p.slots), call |-> c]
    <3> DEFINE x == [dir |-> p.dir, len |-> Len(p.slots)]
               k == Len(upto[i - 1]) + 1
               d == Len(u[c - 1])
    <3>1. t[i] = <<x>>
      BY <2>1, <2>10
    <3>2. x.dir = p.dir /\ x.len = Len(p.slots)
      OBVIOUS
    <3> HIDE DEF x
    <3>3. Len(t[i]) = 1 /\ t[i][1] = x
      BY <3>1
    <3>4. Len(upto[i]) = k /\ k \in 1 .. Len(w) /\ w[k] = x
      <4>1. 1 \in 1 .. Len(t[i])
        BY <3>3
      <4>2. QED
        BY <2>7, <3>3, <4>1
    <3> HIDE DEF k, d
    <3>5. y[c][k] = [dir |-> p.dir, len |-> Len(p.slots), call |-> c]
      BY <2>5, <3>2, <3>4
    <3>6. d + k \in 1 .. Len(M) /\ M[d + k] = y[c][k]
      BY <2>4, <2>5, <3>4 DEF d
    <3>7. d + k = d + Len(upto[i - 1]) + 1
      <4> DEFINE e == Len(upto[i - 1])
      <4>1. e \in Nat /\ d \in Nat /\ k = e + 1
        BY <2>4, <2>7 DEF d, k
      <4> HIDE DEF e
      <4>2. d + k = d + e + 1
        BY <4>1
      <4>3. QED
        BY <4>2 DEF e
    <3>8. QED
      BY <3>4, <3>5, <3>6, <3>7 DEF d, k
  <2>11. StoryOf(u, M, code, upto, q, c)
    BY <2>6, <2>8, <2>9, <2>10 DEF L, StoryOf
  <2>12. QED
    BY <2>11 DEF upto, t, code
<1>5. QED
  BY <1>3, <1>4

(* The two sides of an exchange, message by message.                        *)
Sides(x, y) ==
  /\ Len(x) = Len(y)
  /\ \A k \in 1 .. Len(x) : x[k].len = y[k].len /\ x[k].dir # y[k].dir /\ x[k].call = y[k].call

LEMMA SidesJoin ==
  ASSUME NEW x \in Seq(Told), NEW y \in Seq(Told), NEW v \in Seq(Told), NEW w \in Seq(Told),
         Sides(x, y), Sides(v, w)
  PROVE  Sides(x \o v, y \o w)
<1> DEFINE n == Len(x)
           d == Len(v)
           xv == x \o v
           yw == y \o w
<1>1. n \in Nat /\ d \in Nat /\ n = Len(y) /\ d = Len(w)
  BY DEF Sides
<1>2. /\ Len(xv) = n + d /\ Len(yw) = n + d
      /\ \A k \in 1 .. n + d : xv[k] = IF k <= n THEN x[k] ELSE v[k - n]
      /\ \A k \in 1 .. n + d : yw[k] = IF k <= n THEN y[k] ELSE w[k - n]
  <2>1. Len(xv) = n + d /\ \A k \in 1 .. n + d : xv[k] = IF k <= n THEN x[k] ELSE v[k - n]
    BY ConcatProperties
  <2>2. /\ Len(yw) = Len(y) + Len(w)
        /\ \A k \in 1 .. Len(y) + Len(w) : yw[k] = IF k <= Len(y) THEN y[k] ELSE w[k - Len(y)]
    BY ConcatProperties
  <2> HIDE DEF n, d, xv, yw
  <2>3. QED
    BY <1>1, <2>1, <2>2
<1>3. /\ \A k \in 1 .. n : x[k].len = y[k].len /\ x[k].dir # y[k].dir /\ x[k].call = y[k].call
      /\ \A k \in 1 .. d : v[k].len = w[k].len /\ v[k].dir # w[k].dir /\ v[k].call = w[k].call
  BY DEF Sides
<1> HIDE DEF n, d, xv, yw
<1>4. ASSUME NEW k \in 1 .. n + d
      PROVE  xv[k].len = yw[k].len /\ xv[k].dir # yw[k].dir /\ xv[k].call = yw[k].call
  <2>1. CASE k <= n
    <3>1. k \in 1 .. n /\ xv[k] = x[k] /\ yw[k] = y[k]
      BY <1>1, <1>2, <2>1
    <3>2. QED
      BY <1>3, <3>1
  <2>2. CASE ~(k <= n)
    <3>1. k - n \in 1 .. d /\ xv[k] = v[k - n] /\ yw[k] = w[k - n]
      BY <1>1, <1>2, <2>2
    <3>2. QED
      BY <1>3, <3>1
  <2>3. QED
    BY <2>1, <2>2
<1>5. Sides(xv, yw)
  BY <1>2, <1>4 DEF Sides
<1>6. QED
  BY <1>5 DEF xv, yw

LEMMA SidesFacts ==
  ASSUME Paired, NEW s \in Setups, NEW a \in Ranks, NEW b \in Ranks, a # b
  PROVE  Sides(Messages[s][a][b], Messages[s][b][a])
<1> DEFINE K == Len(s.work)
           y == Story(s, a, b)
           z == Story(s, b, a)
           u == JoinedUpto(y)
           v == JoinedUpto(z)
           S == {n \in Nat : n <= K => Sides(u[n], v[n])}
<1>1. /\ K \in Nat
      /\ y \in Seq(Seq(Told)) /\ Len(y) = K
      /\ z \in Seq(Seq(Told)) /\ Len(z) = K
  BY CodeFacts, StoryType
<1>2. ASSUME NEW c \in 1 .. K PROVE Sides(y[c], z[c])
  <2> DEFINE f == Joined(Talk(CodeOf(s.topology, s.work[c], a), b))
             g == Joined(Talk(CodeOf(s.topology, s.work[c], b), a))
  <2>1. f \in Seq(Message) /\ g \in Seq(Message) /\ y[c] = Tagged(c, f) /\ z[c] = Tagged(c, g)
    BY StoryType
  <2>2. Mirror(f, g)
    BY CodeFacts
  <2> HIDE DEF f, g, y, z
  <2>3. c \in Nat
    BY <1>1
  <2>4. /\ Len(y[c]) = Len(f) /\ Len(z[c]) = Len(g)
        /\ \A k \in 1 .. Len(f) : y[c][k] = [dir |-> f[k].dir, len |-> f[k].len, call |-> c]
        /\ \A k \in 1 .. Len(g) : z[c][k] = [dir |-> g[k].dir, len |-> g[k].len, call |-> c]
    BY <2>1, <2>3, TaggedFacts
  <2>5. Len(f) = Len(g) /\ \A k \in 1 .. Len(f) : f[k].len = g[k].len /\ f[k].dir # g[k].dir
    BY <2>2 DEF Mirror
  <2>6. ASSUME NEW k \in 1 .. Len(f)
        PROVE  /\ y[c][k].len = z[c][k].len /\ y[c][k].dir # z[c][k].dir
               /\ y[c][k].call = z[c][k].call
    <3>1. /\ y[c][k] = [dir |-> f[k].dir, len |-> f[k].len, call |-> c]
          /\ z[c][k] = [dir |-> g[k].dir, len |-> g[k].len, call |-> c]
      BY <2>4, <2>5
    <3>2. f[k].len = g[k].len /\ f[k].dir # g[k].dir
      BY <2>5
    <3>3. QED
      BY <3>1, <3>2
  <2>7. QED
    BY <2>4, <2>5, <2>6 DEF Sides
<1>3. /\ u \in [0 .. K -> Seq(Told)] /\ u[0] = <<>>
      /\ \A i \in 1 .. K : u[i] = u[i - 1] \o y[i] /\ y[i] \in Seq(Told)
      /\ v \in [0 .. K -> Seq(Told)] /\ v[0] = <<>>
      /\ \A i \in 1 .. K : v[i] = v[i - 1] \o z[i] /\ z[i] \in Seq(Told)
  <2> HIDE DEF K, y, z
  <2>1. /\ JoinedUpto(y) \in [0 .. K -> Seq(Told)] /\ JoinedUpto(y)[0] = <<>>
        /\ \A i \in 1 .. K : JoinedUpto(y)[i] = JoinedUpto(y)[i - 1] \o y[i]
    BY <1>1, JoinedFacts
  <2>2. /\ JoinedUpto(z) \in [0 .. K -> Seq(Told)] /\ JoinedUpto(z)[0] = <<>>
        /\ \A i \in 1 .. K : JoinedUpto(z)[i] = JoinedUpto(z)[i - 1] \o z[i]
    BY <1>1, JoinedFacts
  <2>3. \A i \in 1 .. K : y[i] \in Seq(Told) /\ z[i] \in Seq(Told)
    BY <1>1, ElementOfSeq
  <2>4. QED
    BY <2>1, <2>2, <2>3 DEF u, v
<1> HIDE DEF K, y, z, u, v
<1>4. 0 \in S
  <2>1. Sides(<<>>, <<>>)
    BY DEF Sides
  <2>2. QED
    BY <1>3, <2>1
<1>5. ASSUME NEW n \in Nat, n \in S PROVE n + 1 \in S
  <2>1. SUFFICES ASSUME n + 1 <= K PROVE Sides(u[n + 1], v[n + 1])
    OBVIOUS
  <2> DEFINE j == n + 1
  <2>2. j \in 1 .. K /\ j - 1 = n /\ n \in 0 .. K /\ n <= K
    BY <1>1, <2>1
  <2>3. Sides(u[n], v[n])
    BY <1>5, <2>2
  <2> HIDE DEF j
  <2>4. u[j] = u[n] \o y[j] /\ v[j] = v[n] \o z[j]
    BY <1>3, <2>2
  <2>5. u[n] \in Seq(Told) /\ v[n] \in Seq(Told) /\ y[j] \in Seq(Told) /\ z[j] \in Seq(Told)
    BY <1>3, <2>2
  <2>6. Sides(u[j], v[j])
    BY <1>2, <2>2, <2>3, <2>4, <2>5, SidesJoin
  <2>7. QED
    BY <2>6 DEF j
<1>6. Nat \subseteq S
  <2> HIDE DEF S
  <2>1. QED
    BY <1>4, <1>5, NatSteps
<1>7. Sides(u[K], v[K])
  BY <1>1, <1>6
<1>8. Messages[s][a][b] = u[K] /\ Messages[s][b][a] = v[K]
  BY <1>1 DEF Messages, Joined, u, v, y, z
<1>9. QED
  BY <1>7, <1>8

(* The chunks that a sends b: a message that a sends adds its chunks, one   *)
(* that it receives none.                                                   *)
SendsOf(M, u, U) ==
  /\ Len(M) \in Nat /\ Len(U) \in Nat /\ Len(u[0]) = 0 /\ Len(u[Len(M)]) = Len(U)
  /\ \A m \in 0 .. Len(M) : Len(u[m]) \in Nat
  /\ \A m \in 0 .. Len(M) : \A n \in m .. Len(M) : Len(u[m]) <= Len(u[n])
  /\ \A m \in 1 .. Len(M) :
       /\ M[m].len \in Nat \ {0} /\ M[m].dir \in {"send", "recv"}
       /\ M[m].dir = "send" => Len(u[m]) = Len(u[m - 1]) + M[m].len
       /\ M[m].dir = "recv" => Len(u[m]) = Len(u[m - 1])
  /\ \A m \in 1 .. Len(M) : M[m].dir = "send" =>
       \A i \in 1 .. M[m].len :
         U[Len(u[m - 1]) + i] = [call |-> M[m].call, pos |-> i, of |-> M[m].len]

LEMMA SendsFacts ==
  ASSUME Paired, NEW s \in Setups, NEW a \in Ranks, NEW b \in Ranks
  PROVE  SendsOf(Messages[s][a][b], SendsUpto[s][a][b], SentChunks[s][a][b])
<1> DEFINE M == Messages[s][a][b]
           L == Len(M)
           y == Sends(s, a, b)
           u == SendsUpto[s][a][b]
           U == SentChunks[s][a][b]
<1>1. M \in Seq(Told)
  BY StoryFacts
<1>2. L \in Nat /\ \A m \in 1 .. L : M[m] \in Told
  BY <1>1, ElementOfSeq
<1>3. y = [m \in 1 .. L |-> Chunks(M[m])] /\ u = JoinedUpto(y) /\ U = Joined(y)
  BY DEF Sends, Messages, SendsUpto, SentChunks
<1> HIDE DEF M, y, u, U
<1>4. ASSUME NEW m \in 1 .. L
      PROVE  /\ M[m].len \in Nat \ {0} /\ M[m].dir \in {"send", "recv"}
             /\ Chunks(M[m]) \in Seq(Tag)
             /\ M[m].dir = "recv" => Chunks(M[m]) = <<>>
             /\ M[m].dir = "send" =>
                  /\ Len(Chunks(M[m])) = M[m].len
                  /\ \A i \in 1 .. M[m].len :
                       Chunks(M[m])[i] = [call |-> M[m].call, pos |-> i, of |-> M[m].len]
  <2> DEFINE x == M[m]
  <2>1. x.len \in Nat \ {0} /\ x.dir \in {"send", "recv"} /\ x.call \in Nat
    BY <1>2 DEF Told
  <2> HIDE DEF x
  <2>2. CASE x.dir = "recv"
    <3>1. Chunks(x) = <<>>
      BY <2>2 DEF Chunks
    <3>2. Chunks(x) \in Seq(Tag)
      BY <3>1
    <3>3. QED
      BY <2>1, <2>2, <3>1, <3>2 DEF x
  <2>3. CASE x.dir = "send"
    <3>1. Chunks(x) = [i \in 1 .. x.len |-> [call |-> x.call, pos |-> i, of |-> x.len]]
      BY <2>3 DEF Chunks
    <3>2. \A i \in 1 .. x.len : [call |-> x.call, pos |-> i, of |-> x.len] \in Tag
      BY <2>1 DEF Tag
    <3>3. Chunks(x) \in Seq(Tag) /\ Len(Chunks(x)) = x.len
      BY <2>1, <3>1, <3>2
    <3>4. QED
      BY <2>1, <2>3, <3>1, <3>3 DEF x
  <2>4. QED
    BY <2>1, <2>2, <2>3 DEF x
<1>5. y \in Seq(Seq(Tag)) /\ Len(y) = L /\ \A m \in 1 .. L : y[m] = Chunks(M[m])
  BY <1>2, <1>3, <1>4
<1> HIDE DEF L
<1>6. /\ Len(U) \in Nat /\ u[0] = <<>> /\ U = u[L]
      /\ \A m \in 0 .. L : Len(u[m]) \in Nat
  <2>1. U \in Seq(Tag) /\ U = u[L] /\ u[0] = <<>> /\ \A m \in 0 .. L : Len(u[m]) \in Nat
    BY <1>3, <1>5, JoinedType
  <2>2. QED
    BY <2>1
<1>7. \A m \in 0 .. L : \A n \in m .. L : Len(u[m]) <= Len(u[n])
  BY <1>3, <1>5, JoinedGrows
<1>8. ASSUME NEW m \in 1 .. L
      PROVE  /\ Len(u[m]) = Len(u[m - 1]) + Len(y[m]) /\ Len(u[m - 1]) \in Nat
             /\ \A k \in 1 .. Len(y[m]) : U[Len(u[m - 1]) + k] = y[m][k]
  <2>1. m \in 1 .. Len(y) /\ m - 1 \in 0 .. L
    BY <1>2, <1>5
  <2>2. /\ Len(JoinedUpto(y)[m]) = Len(JoinedUpto(y)[m - 1]) + Len(y[m])
        /\ \A k \in 1 .. Len(y[m]) : Joined(y)[Len(JoinedUpto(y)[m - 1]) + k] = y[m][k]
    BY <1>5, <2>1, JoinedPart
  <2>3. QED
    BY <1>3, <1>6, <2>1, <2>2
<1>9. ASSUME NEW m \in 1 .. L
      PROVE  /\ M[m].dir = "send" => Len(u[m]) = Len(u[m - 1]) + M[m].len
             /\ M[m].dir = "recv" => Len(u[m]) = Len(u[m - 1])
  <2>1. M[m].dir = "recv" => Len(y[m]) = 0
    BY <1>4, <1>5
  <2>2. M[m].dir = "send" => Len(y[m]) = M[m].len
    BY <1>4, <1>5
  <2> DEFINE d == Len(u[m - 1])
             e == Len(y[m])
  <2>3. Len(u[m]) = d + e /\ d \in Nat
    BY <1>8
  <2> HIDE DEF d, e
  <2>4. M[m].dir = "recv" => Len(u[m]) = d
    BY <2>1, <2>3 DEF e
  <2>5. M[m].dir = "send" => Len(u[m]) = d + M[m].len
    BY <2>2, <2>3 DEF e
  <2>6. QED
    BY <2>4, <2>5 DEF d
<1>10. ASSUME NEW m \in 1 .. L, M[m].dir = "send", NEW i \in 1 .. M[m].len
       PROVE  U[Len(u[m - 1]) + i] = [call |-> M[m].call, pos |-> i, of |-> M[m].len]
  <2>1. /\ y[m] = Chunks(M[m]) /\ i \in 1 .. Len(y[m])
        /\ Chunks(M[m])[i] = [call |-> M[m].call, pos |-> i, of |-> M[m].len]
    BY <1>4, <1>5, <1>10
  <2>2. U[Len(u[m - 1]) + i] = y[m][i]
    BY <1>8, <2>1
  <2>3. QED
    BY <2>1, <2>2
<1>11. Len(u[0]) = 0 /\ Len(u[L]) = Len(U)
  BY <1>6
<1>12. /\ \A m \in 1 .. L : /\ M[m].len \in Nat \ {0} /\ M[m].dir \in {"send", "recv"}
  BY <1>4
<1>13. SendsOf(M, u, U)
  BY <1>2, <1>6, <1>7, <1>9, <1>10, <1>11, <1>12 DEF SendsOf, L
<1>14. QED
  BY <1>13 DEF M, u, U

LEMMA SendsTypes ==
  ASSUME Paired, NEW s \in Setups, NEW a \in Ranks, NEW b \in Ranks
  PROVE  /\ Len(Messages[s][a][b]) \in Nat /\ Len(SentChunks[s][a][b]) \in Nat
         /\ Len(SendsUpto[s][a][b][Len(Messages[s][a][b])]) = Len(SentChunks[s][a][b])
         /\ \A m \in 0 .. Len(Messages[s][a][b]) : Len(SendsUpto[s][a][b][m]) \in Nat
<1> DEFINE M == Messages[s][a][b]
           u == SendsUpto[s][a][b]
           U == SentChunks[s][a][b]
<1>1. SendsOf(M, u, U)
  BY SendsFacts
<1> HIDE DEF M, u, U
<1>2. /\ Len(M) \in Nat /\ Len(U) \in Nat /\ Len(u[Len(M)]) = Len(U)
      /\ \A m \in 0 .. Len(M) : Len(u[m]) \in Nat
  BY <1>1 DEF SendsOf
<1>3. QED
  BY <1>2 DEF M, u, U

(* n is the message after m.                                                *)
LEMMA SendsStep ==
  ASSUME Paired, NEW s \in Setups, NEW a \in Ranks, NEW b \in Ranks,
         NEW m \in Nat, NEW n \in 1 .. Len(Messages[s][a][b]), n = m + 1
  PROVE  LET x == Messages[s][a][b][n]
             F(k) == Len(SendsUpto[s][a][b][k])
         IN  /\ F(m) \in Nat /\ F(n) \in Nat
             /\ x.len \in Nat \ {0} /\ x.dir \in {"send", "recv"}
             /\ x.dir = "send" => F(n) = F(m) + x.len
             /\ x.dir = "recv" => F(n) = F(m)
             /\ x.dir = "send" => \A i \in 1 .. x.len :
                  SentChunks[s][a][b][F(m) + i] = [call |-> x.call, pos |-> i, of |-> x.len]
<1> DEFINE M == Messages[s][a][b]
           u == SendsUpto[s][a][b]
           U == SentChunks[s][a][b]
<1>1. SendsOf(M, u, U)
  BY SendsFacts
<1> HIDE DEF u, U, M
<1>2. n \in 1 .. Len(M)
  BY DEF M
<1>3. m = n - 1 /\ m \in 0 .. Len(M) /\ n \in 0 .. Len(M)
  BY <1>1, <1>2 DEF SendsOf
<1>4. /\ Len(u[m]) \in Nat /\ Len(u[n]) \in Nat
      /\ M[n].len \in Nat \ {0} /\ M[n].dir \in {"send", "recv"}
      /\ M[n].dir = "send" => Len(u[n]) = Len(u[m]) + M[n].len
      /\ M[n].dir = "recv" => Len(u[n]) = Len(u[m])
  BY <1>1, <1>2, <1>3 DEF SendsOf
<1>5. M[n].dir = "send" => \A i \in 1 .. M[n].len :
        U[Len(u[m]) + i] = [call |-> M[n].call, pos |-> i, of |-> M[n].len]
  BY <1>1, <1>2, <1>3 DEF SendsOf
<1>6. QED
  BY <1>4, <1>5 DEF u, U, M

-----------------------------------------------------------------------------
(* A rank in a step: what its transport calls are, and where they stand in  *)
(* what it says to each peer.                                               *)
StepOf(r) == Code(r).steps[pc[r]]
Base(r, q) ==
  Len(StoryUpto[setup][r][q][calls[r] - 1])
  + Len(JoinedUpto(Talk(Code(r), q))[pc[r] - 1])
Beyond(q, o) == IF \E p \in DOMAIN o : p.peer = q /\ Through(p, o[p]) THEN 1 ELSE 0
Partly(q, o, n) ==
  IF \E p \in DOMAIN o : p.peer = q /\ p.dir = "recv" /\ o[p] = "todo" THEN n ELSE 0

LEMMA PosForms ==
  /\ \A r, q : Pos(r, q) = IF InCall(r) THEN Base(r, q) + Beyond(q, part[r])
                           ELSE Len(StoryUpto[setup][r][q][calls[r]])
  /\ \A r, q : Read(r, q) = Sent(q, r, Pos(r, q)) + Partly(q, part[r], got[r])
BY DEF Pos, Read, Base, Beyond, Partly, Parts

RankType(r) ==
  /\ InCall(r) => pc[r] \in DOMAIN Code(r).steps
  /\ InCall(r) /\ up[r] => Parts(r) = Code(r).steps[pc[r]].parts
  /\ \A p \in Parts(r) : part[r][p] \in {"todo", "open", "done", "failed"}
  /\ Len(results[r]) = calls[r] - (IF InCall(r) THEN 1 ELSE 0)

LEMMA TypeParts ==
  TypeOK <=> /\ setup \in Setups
             /\ calls \in [Ranks -> 0 .. Len(setup.work)]
             /\ \A r \in Ranks : RankType(r)
             /\ up \in [Ranks -> BOOLEAN] /\ crashed \in 0 .. setup.crashes
BY DEF TypeOK, RankType

(* A rank has transport calls only while it runs and is in a call.          *)
LEMMA InStep ==
  ASSUME StreamInv, NEW r \in Ranks, NEW p \in Parts(r)
  PROVE  up[r] /\ InCall(r)
<1>1. ~(up[r] /\ InCall(r)) => part[r] = <<>>
  BY DEF StreamInv, RankInv
<1>2. DOMAIN <<>> = {}
  OBVIOUS
<1>3. QED
  BY <1>1, <1>2 DEF Parts

(* The programs of the setup that runs.                                     *)
LEMMA SetupFacts ==
  ASSUME StreamInv
  PROVE  /\ Paired /\ setup \in Setups /\ Len(setup.work) \in Nat
         /\ \A r \in Ranks : calls[r] \in 0 .. Len(setup.work)
         /\ \A c \in 1 .. Len(setup.work) : \A r \in Ranks :
              WellFormed(CodeOf(setup.topology, setup.work[c], r), r)
<1>1. Paired /\ setup \in Setups /\ \A r \in Ranks : calls[r] \in 0 .. Len(setup.work)
  BY DEF StreamInv, TypeOK
<1>2. QED
  BY <1>1, CodeFacts

LEMMA StepFacts ==
  ASSUME StreamInv, NEW r \in Ranks, up[r], InCall(r)
  PROVE  /\ calls[r] \in 1 .. Len(setup.work)
         /\ Code(r) = CodeOf(setup.topology, setup.work[calls[r]], r)
         /\ WellFormed(Code(r), r)
         /\ Len(Code(r).steps) \in Nat \ {0} /\ pc[r] \in 1 .. Len(Code(r).steps)
         /\ Parts(r) = StepOf(r).parts /\ Sound(r)
         /\ \A p \in Parts(r) : /\ p.dir \in {"send", "recv"} /\ p.peer \in Ranks \ {r}
                                /\ Len(p.slots) \in Nat \ {0}
         /\ \A p, q \in Parts(r) : p.peer = q.peer => p = q
         /\ \A p, q \in Parts(r) : p.dir = "recv" /\ q.dir = "recv" => p = q
<1>1. /\ setup \in Setups /\ calls[r] \in 0 .. Len(setup.work) /\ Len(setup.work) \in Nat
      /\ \A c \in 1 .. Len(setup.work) : WellFormed(CodeOf(setup.topology, setup.work[c], r), r)
  BY SetupFacts
<1>2. calls[r] > 0 /\ Sound(r)
  BY DEF StreamInv, RankInv, Sound
<1>3. calls[r] \in 1 .. Len(setup.work)
  BY <1>1, <1>2
<1>4. Code(r) = CodeOf(setup.topology, setup.work[calls[r]], r)
  BY DEF Code, ProgramOf
<1>5. WellFormed(Code(r), r)
  BY <1>1, <1>3, <1>4
<1>6. RankType(r)
  BY TypeParts DEF StreamInv
<1>7. pc[r] \in DOMAIN Code(r).steps /\ Parts(r) = StepOf(r).parts
  BY <1>6 DEF RankType, StepOf
<1>8. DOMAIN Code(r).steps = 1 .. Len(Code(r).steps) /\ Len(Code(r).steps) \in Nat \ {0}
  BY <1>5 DEF WellFormed
<1>9. /\ \A p \in Parts(r) : /\ p.dir \in {"send", "recv"} /\ p.peer \in Ranks \ {r}
                             /\ Len(p.slots) \in Nat \ {0}
      /\ \A p, q \in Parts(r) : p.peer = q.peer => p = q
      /\ \A p, q \in Parts(r) : p.dir = "recv" /\ q.dir = "recv" => p = q
  BY <1>5, <1>7 DEF WellFormed, StepOf
<1>10. QED
  BY <1>2, <1>3, <1>4, <1>5, <1>7, <1>8, <1>9

(* Before a step r is through with Base messages of each peer; the next is  *)
(* the step's own, if it has one with that peer.                            *)
LEMMA BaseFacts ==
  ASSUME StreamInv, NEW r \in Ranks, up[r], InCall(r), NEW q \in Ranks
  PROVE  /\ Base(r, q) \in Nat /\ Base(r, q) <= Len(Messages[setup][r][q])
         /\ \A p \in Parts(r) : p.peer = q =>
              /\ Base(r, q) + 1 \in 1 .. Len(Messages[setup][r][q])
              /\ Messages[setup][r][q][Base(r, q) + 1] =
                   [dir |-> p.dir, len |-> Len(p.slots), call |-> calls[r]]
         /\ LET next == Len(StoryUpto[setup][r][q][calls[r] - 1])
                        + Len(JoinedUpto(Talk(Code(r), q))[pc[r]])
            IN  /\ (\A p \in Parts(r) : p.peer # q) => next = Base(r, q)
                /\ (\E p \in Parts(r) : p.peer = q) => next = Base(r, q) + 1
         /\ pc[r] = Len(Code(r).steps) =>
              Len(StoryUpto[setup][r][q][calls[r]]) =
                Len(StoryUpto[setup][r][q][calls[r] - 1])
                + Len(JoinedUpto(Talk(Code(r), q))[pc[r]])
<1> DEFINE c == calls[r]
           i == pc[r]
           L == Len(Code(r).steps)
           K == Len(setup.work)
           M == Messages[setup][r][q]
           u == StoryUpto[setup][r][q]
           v == JoinedUpto(Talk(Code(r), q))
           d == Len(u[c - 1])
           e == Len(v[i - 1])
<1>1. /\ Paired /\ setup \in Setups /\ K \in Nat
      /\ c \in 1 .. K /\ Code(r) = CodeOf(setup.topology, setup.work[c], r)
      /\ L \in Nat \ {0} /\ i \in 1 .. L /\ Parts(r) = Code(r).steps[i].parts
  BY SetupFacts, StepFacts DEF StepOf
<1>2. /\ \A k \in 0 .. L : Len(v[k]) \in Nat
      /\ Len(u[c]) = d + Len(v[L])
      /\ (\A p \in Parts(r) : p.peer # q) => Len(v[i]) = e
      /\ \A p \in Parts(r) : p.peer = q =>
           /\ Len(v[i]) = e + 1
           /\ d + e + 1 \in 1 .. Len(M)
           /\ M[d + e + 1] = [dir |-> p.dir, len |-> Len(p.slots), call |-> c]
  <2>1. StoryOf(u, M, Code(r), v, q, c)
    BY <1>1, StoryFacts
  <2> HIDE DEF c, u, M, v, L
  <2>2. StoryOf(u, M, Code(r), v, q, c) =>
          /\ \A k \in 0 .. L : Len(v[k]) \in Nat
          /\ Len(u[c]) = d + Len(v[L])
          /\ \A k \in 1 .. L :
               /\ (\A p \in Code(r).steps[k].parts : p.peer # q) => Len(v[k]) = Len(v[k - 1])
               /\ \A p \in Code(r).steps[k].parts : p.peer = q =>
                    /\ Len(v[k]) = Len(v[k - 1]) + 1
                    /\ d + Len(v[k - 1]) + 1 \in 1 .. Len(M)
                    /\ M[d + Len(v[k - 1]) + 1] =
                         [dir |-> p.dir, len |-> Len(p.slots), call |-> c]
    BY DEF StoryOf, L
  <2>3. QED
    BY <1>1, <2>1, <2>2
<1>3. M \in Seq(Told) /\ \A k \in 0 .. K : Len(u[k]) \in Nat /\ Len(u[k]) <= Len(M)
  BY <1>1, StoryFacts
<1>4. Base(r, q) = d + e
  BY DEF Base
<1>5. d \in Nat /\ e \in Nat /\ Len(M) \in Nat /\ Len(v[L]) \in Nat /\ Len(u[c]) <= Len(M)
  <2> HIDE DEF c, i, L, K, M, u, v
  <2>1. c - 1 \in 0 .. K /\ i - 1 \in 0 .. L /\ L \in 0 .. L /\ c \in 0 .. K
    BY <1>1
  <2>2. Len(u[c - 1]) \in Nat /\ Len(v[i - 1]) \in Nat /\ Len(v[L]) \in Nat /\ Len(u[c]) <= Len(M)
    BY <1>2, <1>3, <2>1
  <2>3. Len(M) \in Nat
    BY <1>3
  <2>4. QED
    BY <2>2, <2>3
<1>6. e <= Len(v[L])
  <2> DEFINE t == Talk(Code(r), q)
  <2>1. t \in Seq(Seq(Message)) /\ Len(t) = L
    BY StepFacts, TalkFacts
  <2>2. i - 1 \in 0 .. Len(t) /\ L \in (i - 1) .. Len(t)
    BY <1>1, <2>1
  <2> HIDE DEF t
  <2>3. Len(JoinedUpto(t)[i - 1]) <= Len(JoinedUpto(t)[L])
    BY <2>1, <2>2, JoinedGrows
  <2>4. QED
    BY <2>3 DEF t
<1> HIDE DEF c, i, L, K, M, u, v, d, e
<1>7. d + e \in Nat /\ d + e <= Len(M)
  BY <1>2, <1>5, <1>6
<1>8. \A p \in Parts(r) : p.peer = q => d + Len(v[i]) = d + e + 1
  <2> DEFINE f == Len(v[i])
  <2>1. \A p \in Parts(r) : p.peer = q => f = e + 1
    BY <1>2
  <2> HIDE DEF f
  <2>2. \A p \in Parts(r) : p.peer = q => d + f = d + e + 1
    BY <1>5, <2>1
  <2>3. QED
    BY <2>2 DEF f
<1>9. (\A p \in Parts(r) : p.peer # q) => d + Len(v[i]) = d + e
  BY <1>2
<1>10. i = L => Len(u[c]) = d + Len(v[i])
  BY <1>2
<1>11. /\ \A p \in Parts(r) : p.peer = q =>
            /\ d + e + 1 \in 1 .. Len(M)
            /\ M[d + e + 1] = [dir |-> p.dir, len |-> Len(p.slots), call |-> c]
  BY <1>2
<1>12. QED
  BY <1>4, <1>7, <1>8, <1>9, <1>10, <1>11 DEF c, i, L, M, u, v, d

-----------------------------------------------------------------------------
(* What PairInv says of a stream, apart from the state: R chunks read by b, *)
(* which is through with P messages; ln on the stream; a, if it is sound,   *)
(* through with Q.                                                          *)
Flow(s, a, b, R, P, ln, sound, Q) ==
  /\ R + Len(ln) <= Len(SentChunks[s][a][b])
  /\ \A i \in 1 .. Len(ln) :
       [call |-> ln[i].call, pos |-> ln[i].pos, of |-> ln[i].of] = SentChunks[s][a][b][R + i]
  /\ \A m \in (P + 1) .. Len(Messages[s][a][b]) :
       Messages[s][a][b][m].dir = "recv" => R + Len(ln) <= Len(SendsUpto[s][a][b][m])
  /\ sound => Len(SendsUpto[s][a][b][Q]) = R + Len(ln)

LEMMA PairForm ==
  \A a, b : PairInv(a, b) <=>
              Flow(setup, a, b, Read(b, a), Pos(b, a), link[a][b], Sound(a), Pos(a, b))
BY DEF PairInv, Flow, Sent

LEMMA PairFormNext ==
  \A a, b : PairInv(a, b)' <=>
              Flow(setup', a, b, Read(b, a)', Pos(b, a)', link'[a][b], Sound(a)', Pos(a, b)')
BY DEF PairInv, Flow, Sent

(* The sender fails, or gets past messages that are not Sends.              *)
LEMMA FlowQuiet ==
  ASSUME NEW s, NEW a, NEW b, NEW R, NEW P, NEW ln, NEW sound, NEW Q, NEW sound2, NEW Q2,
         Flow(s, a, b, R, P, ln, sound, Q),
         sound2 => sound /\ Len(SendsUpto[s][a][b][Q2]) = Len(SendsUpto[s][a][b][Q])
  PROVE  Flow(s, a, b, R, P, ln, sound2, Q2)
BY DEF Flow

(* What a rank sent is lost from some point on when it goes.                *)
LEMMA FlowLost ==
  ASSUME Paired, NEW s \in Setups, NEW a \in Ranks, NEW b \in Ranks, NEW R \in Nat, NEW P \in Nat,
         NEW W, NEW ln \in Seq(W), NEW sound, NEW Q, NEW Q2, NEW k \in 0 .. Len(ln),
         Flow(s, a, b, R, P, ln, sound, Q)
  PROVE  Flow(s, a, b, R, P, SubSeq(ln, 1, k), FALSE, Q2)
<1> DEFINE n == Len(ln)
           z == SubSeq(ln, 1, k)
           M == Messages[s][a][b]
           U == SentChunks[s][a][b]
           F(m) == Len(SendsUpto[s][a][b][m])
<1>1. n \in Nat /\ k \in Nat /\ k <= n /\ Len(z) = k /\ \A i \in 1 .. k : z[i] = ln[i]
  OBVIOUS
<1>2. /\ Len(M) \in Nat /\ Len(U) \in Nat
      /\ \A m \in 0 .. Len(M) : F(m) \in Nat
  BY SendsTypes
<1>3. /\ R + n <= Len(U)
      /\ \A i \in 1 .. n : [call |-> ln[i].call, pos |-> ln[i].pos, of |-> ln[i].of] = U[R + i]
      /\ \A m \in (P + 1) .. Len(M) : M[m].dir = "recv" => R + n <= F(m)
  BY DEF Flow
<1> HIDE DEF n, z, M, U, F
<1>4. R + k <= Len(U)
  BY <1>1, <1>2, <1>3
<1>5. \A i \in 1 .. k : [call |-> z[i].call, pos |-> z[i].pos, of |-> z[i].of] = U[R + i]
  BY <1>1, <1>3
<1>6. ASSUME NEW m \in (P + 1) .. Len(M), M[m].dir = "recv" PROVE R + k <= F(m)
  <2>1. R + n <= F(m) /\ F(m) \in Nat
    BY <1>2, <1>3, <1>6
  <2>2. QED
    BY <1>1, <2>1
<1>7. QED
  BY <1>1, <1>4, <1>5, <1>6 DEF Flow, z, M, U, F

(* The reader takes a chunk, which may be the last of a message.            *)
LEMMA FlowRead ==
  ASSUME NEW s, NEW a, NEW b, NEW R \in Nat, NEW P \in Nat, NEW P2 \in {P, P + 1},
         NEW W, NEW ln \in Seq(W), ln # <<>>, NEW sound, NEW Q,
         Flow(s, a, b, R, P, ln, sound, Q)
  PROVE  Flow(s, a, b, R + 1, P2, Tail(ln), sound, Q)
<1> DEFINE n == Len(ln)
           z == Tail(ln)
           M == Messages[s][a][b]
           U == SentChunks[s][a][b]
           F(m) == Len(SendsUpto[s][a][b][m])
<1>1. n \in Nat \ {0} /\ Len(z) = n - 1 /\ \A i \in 1 .. (n - 1) : z[i] = ln[i + 1]
  OBVIOUS
<1>2. /\ R + n <= Len(U)
      /\ \A i \in 1 .. n : [call |-> ln[i].call, pos |-> ln[i].pos, of |-> ln[i].of] = U[R + i]
      /\ \A m \in (P + 1) .. Len(M) : M[m].dir = "recv" => R + n <= F(m)
      /\ sound => F(Q) = R + n
  BY DEF Flow
<1> HIDE DEF n, z, M, U, F
<1>3. R + 1 + (n - 1) = R + n
  BY <1>1
<1>4. ASSUME NEW i \in 1 .. (n - 1)
      PROVE  [call |-> z[i].call, pos |-> z[i].pos, of |-> z[i].of] = U[R + 1 + i]
  <2>1. i + 1 \in 1 .. n /\ R + 1 + i = R + (i + 1) /\ z[i] = ln[i + 1]
    BY <1>1
  <2>2. QED
    BY <1>2, <2>1
<1>5. ASSUME NEW m \in (P2 + 1) .. Len(M), M[m].dir = "recv" PROVE R + n <= F(m)
  <2>1. m \in (P + 1) .. Len(M)
    OBVIOUS
  <2>2. QED
    BY <1>2, <1>5, <2>1
<1>6. QED
  BY <1>1, <1>2, <1>3, <1>4, <1>5 DEF Flow, z, M, U, F

(* The sender puts its next message on the stream; no message of the        *)
(* reader's lies between the two.                                           *)
LEMMA FlowSend ==
  ASSUME Paired, NEW s \in Setups, NEW a \in Ranks, NEW b \in Ranks,
         NEW R \in Nat, NEW P \in Nat, NEW Q \in Nat, NEW W, NEW ln \in Seq(W),
         Flow(s, a, b, R, P, ln, TRUE, Q), NEW V, NEW new \in Seq(V), NEW c,
         Q + 1 <= Len(Messages[s][a][b]),
         Messages[s][a][b][Q + 1] = [dir |-> "send", len |-> Len(new), call |-> c],
         \A m \in (P + 1) .. Q : Messages[s][a][b][m].dir # "recv",
         \A i \in 1 .. Len(new) : new[i].call = c /\ new[i].pos = i /\ new[i].of = Len(new)
  PROVE  Flow(s, a, b, R, P, ln \o new, TRUE, Q + 1)
<1> DEFINE n == Len(ln)
           l == Len(new)
           z == ln \o new
           M == Messages[s][a][b]
           U == SentChunks[s][a][b]
           u == SendsUpto[s][a][b]
           F(m) == Len(u[m])
           j == Q + 1
<1>1. /\ n \in Nat /\ l \in Nat /\ Len(z) = n + l
      /\ \A i \in 1 .. n + l : z[i] = IF i <= n THEN ln[i] ELSE new[i - n]
  BY ConcatProperties
<1>2. /\ R + n <= Len(U)
      /\ \A i \in 1 .. n : [call |-> ln[i].call, pos |-> ln[i].pos, of |-> ln[i].of] = U[R + i]
      /\ \A m \in (P + 1) .. Len(M) : M[m].dir = "recv" => R + n <= F(m)
      /\ F(Q) = R + n
  BY DEF Flow
<1>3. j = Q + 1 /\ j \in 1 .. Len(M) /\ Len(M) \in Nat /\ Len(U) \in Nat /\ F(Len(M)) = Len(U)
  BY SendsTypes
<1>4. M[j].dir = "send" /\ M[j].len = l /\ M[j].call = c
  OBVIOUS
<1>5. /\ F(j) = F(Q) + l /\ F(j) \in Nat
      /\ \A i \in 1 .. l : U[F(Q) + i] = [call |-> c, pos |-> i, of |-> l]
      /\ \A m \in j .. Len(M) : F(j) <= F(m)
  <2>1. SendsOf(M, u, U)
    BY SendsFacts
  <2>2. j - 1 = Q /\ j \in 0 .. Len(M)
    BY <1>3
  <2> HIDE DEF M, u, U, l, j
  <2>3. QED
    <3>1. /\ Len(u[j]) = Len(u[Q]) + l /\ Len(u[j]) \in Nat
          /\ \A m \in j .. Len(M) : Len(u[j]) <= Len(u[m])
      BY <1>3, <1>4, <2>1, <2>2 DEF SendsOf
    <3>2. \A i \in 1 .. l : U[Len(u[Q]) + i] = [call |-> c, pos |-> i, of |-> l]
      BY <1>3, <1>4, <2>1, <2>2 DEF SendsOf
    <3>3. QED
      BY <3>1, <3>2
<1>7. \A i \in 1 .. l : new[i].call = c /\ new[i].pos = i /\ new[i].of = l
  OBVIOUS
<1>8. \A m \in (P + 1) .. Q : M[m].dir # "recv"
  OBVIOUS
<1> HIDE DEF n, l, z, M, U, u, F, j
<1>9. F(j) = R + n + l /\ \A i \in 1 .. l : U[R + n + i] = [call |-> c, pos |-> i, of |-> l]
  BY <1>2, <1>5
<1>10. F(j) <= Len(U) /\ \A m \in j .. Len(M) : F(j) <= F(m)
  BY <1>3, <1>5
<1>11. R + (n + l) = R + n + l
  BY <1>1
<1>12. ASSUME NEW i \in 1 .. n + l
       PROVE  [call |-> z[i].call, pos |-> z[i].pos, of |-> z[i].of] = U[R + i]
  <2>1. CASE i <= n
    <3>1. i \in 1 .. n /\ z[i] = ln[i]
      BY <1>1, <2>1
    <3>2. QED
      BY <1>2, <3>1
  <2>2. CASE ~(i <= n)
    <3> DEFINE k == i - n
    <3>1. k \in 1 .. l /\ z[i] = new[k] /\ R + i = R + n + k
      BY <1>1, <2>2
    <3> HIDE DEF k
    <3>2. [call |-> new[k].call, pos |-> new[k].pos, of |-> new[k].of] = [call |-> c, pos |-> k, of |-> l]
      BY <1>7, <3>1
    <3>3. QED
      BY <1>9, <3>1, <3>2
  <2>3. QED
    BY <2>1, <2>2
<1>13. ASSUME NEW m \in (P + 1) .. Len(M), M[m].dir = "recv" PROVE R + (n + l) <= F(m)
  <2>1. ~(m <= Q)
    BY <1>8, <1>13
  <2>2. m \in j .. Len(M)
    BY <1>3, <2>1
  <2>3. QED
    BY <1>9, <1>10, <1>11, <2>2
<1>14. QED
  BY <1>1, <1>9, <1>10, <1>11, <1>12, <1>13 DEF Flow, z, M, U, u, F, j

-----------------------------------------------------------------------------
(* A sound rank is through with some of its messages with q, and has read   *)
(* at least what q sends it in these.                                       *)
LEMMA PosType ==
  ASSUME StreamInv, NEW r \in Ranks, Sound(r), NEW q \in Ranks \ {r}
  PROVE  /\ Len(Messages[setup][r][q]) \in Nat
         /\ Len(Messages[setup][q][r]) = Len(Messages[setup][r][q])
         /\ Pos(r, q) \in 0 .. Len(Messages[setup][r][q])
         /\ Sent(q, r, Pos(r, q)) \in Nat /\ Read(r, q) \in Nat
         /\ Sent(q, r, Pos(r, q)) <= Read(r, q)
<1> DEFINE M == Messages[setup][r][q]
           P == Pos(r, q)
<1>1. Paired /\ setup \in Setups /\ calls[r] \in 0 .. Len(setup.work) /\ up[r] /\ Len(setup.work) \in Nat
  BY SetupFacts DEF Sound
<1>2. /\ Len(M) \in Nat /\ Len(Messages[setup][q][r]) = Len(M)
      /\ \A m \in 0 .. Len(M) : Len(SendsUpto[setup][q][r][m]) \in Nat
  <2>1. Sides(Messages[setup][q][r], M)
    BY <1>1, SidesFacts
  <2>2. Len(Messages[setup][q][r]) = Len(M)
    BY <2>1 DEF Sides
  <2>3. M \in Seq(Told)
    BY <1>1, StoryFacts
  <2>4. \A m \in 0 .. Len(Messages[setup][q][r]) : Len(SendsUpto[setup][q][r][m]) \in Nat
    BY <1>1, SendsTypes
  <2>5. QED
    BY <2>2, <2>3, <2>4
<1>3. P \in 0 .. Len(M)
  <2>1. CASE InCall(r)
    <3>1. P = Base(r, q) + Beyond(q, part[r])
      BY <2>1, PosForms
    <3>2. /\ Base(r, q) \in Nat /\ Base(r, q) <= Len(M)
          /\ \A p \in Parts(r) : p.peer = q => Base(r, q) + 1 \in 1 .. Len(M)
      BY <1>1, <2>1, BaseFacts
    <3>3. CASE \E p \in Parts(r) : p.peer = q /\ Through(p, part[r][p])
      <4>1. Beyond(q, part[r]) = 1 /\ Base(r, q) + 1 \in 1 .. Len(M)
        BY <3>2, <3>3 DEF Beyond, Parts
      <4> HIDE DEF P, M
      <4>2. QED
        BY <1>2, <3>1, <4>1
    <3>4. CASE ~\E p \in Parts(r) : p.peer = q /\ Through(p, part[r][p])
      <4>1. Beyond(q, part[r]) = 0
        BY <3>4 DEF Beyond, Parts
      <4> HIDE DEF P, M
      <4>2. QED
        BY <1>2, <3>1, <3>2, <4>1
    <3>5. QED
      BY <3>3, <3>4
  <2>2. CASE ~InCall(r)
    <3>1. P = Len(StoryUpto[setup][r][q][calls[r]])
      BY <2>2, PosForms
    <3>2. \A c \in 0 .. Len(setup.work) : /\ Len(StoryUpto[setup][r][q][c]) \in Nat
                                           /\ Len(StoryUpto[setup][r][q][c]) <= Len(M)
      BY ONLY <1>1, r \in Ranks, q \in Ranks, StoryFacts
    <3> HIDE DEF P, M
    <3>3. P \in Nat /\ P <= Len(M)
      BY <1>1, <3>1, <3>2
    <3>4. QED
      BY <1>2, <3>3
  <2>3. QED
    BY <2>1, <2>2
<1>4. Sent(q, r, P) \in Nat
  BY <1>2, <1>3 DEF Sent
<1>5. Read(r, q) = Sent(q, r, P) + Partly(q, part[r], got[r])
  BY PosForms
<1>6. Partly(q, part[r], got[r]) \in Nat
  <2>1. got[r] \in Nat
    BY DEF StreamInv, Shapes
  <2>2. QED
    BY <2>1 DEF Partly
<1> HIDE DEF P, M
<1>7. Read(r, q) \in Nat /\ Sent(q, r, P) <= Read(r, q)
  BY <1>4, <1>5, <1>6
<1>8. QED
  BY <1>2, <1>3, <1>4, <1>7 DEF P, M

(* While both are sound, a cannot be through with a message that it         *)
(* receives from b before b is.                                             *)
LEMMA NothingBetween ==
  ASSUME StreamInv, NEW a \in Ranks, NEW b \in Ranks \ {a}, Sound(a), Sound(b),
         NEW m \in (Pos(b, a) + 1) .. Pos(a, b)
  PROVE  Messages[setup][a][b][m].dir # "recv"
<1> DEFINE P == Pos(b, a)
           Q == Pos(a, b)
           M == Messages[setup][b][a]
           G(k) == Len(SendsUpto[setup][b][a][k])
           n == Len(link[b][a])
           R == Read(a, b)
<1>1. SUFFICES ASSUME Messages[setup][a][b][m].dir = "recv" PROVE FALSE
  OBVIOUS
<1>2. Paired /\ setup \in Setups
  BY SetupFacts
<1>3. /\ Len(M) \in Nat /\ P \in 0 .. Len(M) /\ Q \in 0 .. Len(M)
      /\ Len(Messages[setup][a][b]) = Len(M) /\ R \in Nat /\ G(Q) <= R
  BY PosType DEF Sent
<1> DEFINE j == m - 1
<1>4. m \in 1 .. Len(M) /\ j \in Nat /\ m = j + 1 /\ P <= j /\ m <= Q /\ m \in Nat
  <2> HIDE DEF M
  <2>1. m \in (P + 1) .. Q
    OBVIOUS
  <2> HIDE DEF P, Q
  <2>2. QED
    BY <1>3, <2>1
<1>5. M[m].dir = "send"
  <2>1. Sides(Messages[setup][a][b], M)
    BY <1>2, SidesFacts
  <2>2. Messages[setup][a][b][m].dir # M[m].dir
    BY <1>3, <1>4, <2>1 DEF Sides
  <2>3. M[m].dir \in {"send", "recv"}
    BY <1>2, <1>4, SendsStep
  <2>4. QED
    BY <1>1, <2>2, <2>3
<1>6. G(P) = R + n /\ n \in Nat
  <2>1. PairInv(b, a)
    BY DEF StreamInv
  <2>2. Flow(setup, b, a, R, Q, link[b][a], TRUE, P)
    BY <2>1, PairForm
  <2>3. Dense(link[b][a])
    BY DEF StreamInv, Shapes
  <2>4. n \in Nat
    BY <2>3 DEF Dense
  <2>5. QED
    BY <2>2, <2>4 DEF Flow
<1>7. /\ G(j) \in Nat /\ G(m) \in Nat /\ M[m].len \in Nat \ {0}
      /\ G(m) = G(j) + M[m].len
      /\ G(P) <= G(j) /\ G(P) \in Nat /\ G(m) <= G(Q) /\ G(Q) \in Nat
  <2> DEFINE u == SendsUpto[setup][b][a]
             U == SentChunks[setup][b][a]
  <2>1. SendsOf(M, u, U)
    BY <1>2, SendsFacts
  <2>2. j = m - 1
    OBVIOUS
  <2> HIDE DEF M, u, U, P, Q, j
  <2>3. /\ P \in 0 .. Len(M) /\ Q \in 0 .. Len(M) /\ j \in 0 .. Len(M) /\ m \in 0 .. Len(M)
        /\ j \in P .. Len(M) /\ Q \in m .. Len(M)
    BY <1>3, <1>4
  <2>4. /\ Len(u[j]) \in Nat /\ Len(u[m]) \in Nat /\ M[m].len \in Nat \ {0}
        /\ Len(u[m]) = Len(u[j]) + M[m].len
    BY <1>4, <1>5, <2>1, <2>2, <2>3 DEF SendsOf
  <2>5. Len(u[P]) <= Len(u[j]) /\ Len(u[P]) \in Nat /\ Len(u[m]) <= Len(u[Q]) /\ Len(u[Q]) \in Nat
    BY <2>1, <2>3 DEF SendsOf
  <2>6. QED
    BY <2>4, <2>5 DEF u
<1> DEFINE l == M[m].len
<1> HIDE DEF P, Q, M, G, n, R, l, j
<1>8. G(j) < G(m)
  <2>1. l \in Nat \ {0} /\ G(m) = G(j) + l
    BY <1>7 DEF l
  <2>2. QED
    BY <1>7, <2>1
<1>9. G(P) < G(Q)
  BY <1>7, <1>8
<1>10. QED
  BY <1>3, <1>6, <1>7, <1>9

(* A rank about to send to b has read all that b sent it.                   *)
LEMMA OtherWayEmpty ==
  ASSUME StreamInv, NEW r \in Ranks, NEW p \in Parts(r), p.dir = "send", part[r][p] = "todo"
  PROVE  link[p.peer][r] = <<>>
<1> DEFINE b == p.peer
           P == Pos(r, b)
           M == Messages[setup][b][r]
           G(k) == Len(SendsUpto[setup][b][r][k])
           n == Len(link[b][r])
           R == Read(r, b)
<1>1. up[r] /\ InCall(r) /\ Paired /\ setup \in Setups
  BY InStep, SetupFacts
<1>2. Sound(r) /\ b \in Ranks \ {r} /\ \A x, y \in Parts(r) : x.peer = y.peer => x = y
  BY <1>1, StepFacts
<1>3. \A x \in DOMAIN part[r] : x.peer = b => x = p
  BY <1>2 DEF Parts
<1>4. ~Through(p, part[r][p])
  BY DEF Through
<1>5. Beyond(b, part[r]) = 0 /\ Partly(b, part[r], got[r]) = 0
  BY <1>3, <1>4 DEF Beyond, Partly
<1>6. /\ Base(r, b) \in Nat /\ Base(r, b) + 1 \in 1 .. Len(Messages[setup][r][b])
      /\ Messages[setup][r][b][Base(r, b) + 1] =
           [dir |-> p.dir, len |-> Len(p.slots), call |-> calls[r]]
  BY <1>1, <1>2, BaseFacts
<1>7. P = Base(r, b)
  BY <1>1, <1>5, <1>6, PosForms
<1>8. /\ Len(M) \in Nat /\ Len(Messages[setup][r][b]) = Len(M)
      /\ P \in 0 .. Len(M) /\ G(P) \in Nat /\ R \in Nat
  BY <1>2, PosType DEF Sent
<1>9. R = G(P)
  <2>1. R = Sent(b, r, P) + Partly(b, part[r], got[r])
    BY PosForms
  <2>2. R = G(P) + 0
    BY <1>5, <2>1 DEF Sent
  <2> HIDE DEF R, G
  <2>3. QED
    BY <1>8, <2>2
<1> DEFINE j == P + 1
<1>10. j \in 1 .. Len(M) /\ j = P + 1 /\ P \in Nat /\ M[j].dir = "recv"
  <2>1. Sides(Messages[setup][r][b], M)
    BY <1>1, <1>2, SidesFacts
  <2>2. j \in 1 .. Len(M) /\ P \in Nat
    BY <1>6, <1>7, <1>8
  <2>3. Messages[setup][r][b][j].dir = "send"
    BY <1>6, <1>7
  <2>4. Messages[setup][r][b][j].dir # M[j].dir
    BY <1>8, <2>1, <2>2 DEF Sides
  <2>5. M[j].dir \in {"send", "recv"}
    <3> HIDE DEF P, j
    <3>1. j = P + 1
      BY DEF j
    <3>2. QED
      BY <1>1, <1>2, <2>2, <3>1, SendsStep
  <2>6. QED
    BY <2>2, <2>3, <2>4, <2>5
<1>11. G(j) = G(P)
  <2> DEFINE u == SendsUpto[setup][b][r]
             U == SentChunks[setup][b][r]
  <2>1. SendsOf(M, u, U)
    BY <1>1, <1>2, SendsFacts
  <2> HIDE DEF M, u, U, P, j
  <2>2. P = j - 1
    BY <1>10
  <2>3. Len(u[j]) = Len(u[P])
    BY <1>10, <2>1, <2>2 DEF SendsOf
  <2>4. QED
    BY <2>3 DEF u
<1> HIDE DEF P, j
<1>12. Dense(link[b][r]) /\ PairInv(b, r)
  BY <1>2 DEF StreamInv, Shapes
<1>13. n \in Nat /\ link[b][r] \in Seq({link[b][r][i] : i \in DOMAIN link[b][r]})
  BY <1>12 DEF Dense
<1>14. R + n <= G(j)
  <2>1. Flow(setup, b, r, R, P, link[b][r], Sound(b), Pos(b, r))
    BY <1>12, PairForm DEF P
  <2>2. j \in (P + 1) .. Len(M)
    BY <1>8, <1>10
  <2>3. QED
    BY <1>10, <2>1, <2>2 DEF Flow
<1>15. n = 0
  <2> HIDE DEF R, G, P, n
  <2>1. QED
    BY <1>8, <1>9, <1>11, <1>13, <1>14
<1>16. QED
  BY <1>13, <1>15

-----------------------------------------------------------------------------
LEMMA DenseSeq ==
  ASSUME NEW W, NEW s \in Seq(W)
  PROVE  Dense(s)
<1>1. DOMAIN s = 1 .. Len(s) /\ Len(s) \in Nat /\ s = [i \in 1 .. Len(s) |-> s[i]]
  OBVIOUS
<1> DEFINE S == {s[i] : i \in DOMAIN s}
<1>2. \A i \in 1 .. Len(s) : s[i] \in S
  BY <1>1
<1> HIDE DEF S
<1>3. s \in Seq(S)
  BY <1>1, <1>2
<1>4. QED
  BY <1>3 DEF Dense, S

(* A step of r leaves the other ranks alone.                                *)
Kept(x) ==
  /\ calls'[x] = calls[x] /\ pc'[x] = pc[x] /\ part'[x] = part[x]
  /\ got'[x] = got[x] /\ results'[x] = results[x] /\ up'[x] = up[x]

LEMMA KeptRank ==
  ASSUME NEW x, Kept(x), setup' = setup
  PROVE  /\ Sound(x)' <=> Sound(x)
         /\ RankInv(x)' <=> RankInv(x)
         /\ RankType(x)' <=> RankType(x)
         /\ \A q : Pos(x, q)' = Pos(x, q) /\ Read(x, q)' = Read(x, q)
<1>1. Parts(x)' = Parts(x) /\ (InCall(x)' <=> InCall(x)) /\ (Sound(x)' <=> Sound(x))
  BY DEF Kept, Parts, InCall, Sound
<1>2. Code(x)' = Code(x)
  BY DEF Kept, Code, ProgramOf
<1>3. RankInv(x)' <=> RankInv(x)
  BY <1>1 DEF Kept, RankInv
<1>4. RankType(x)' <=> RankType(x)
  BY <1>1, <1>2 DEF Kept, RankType
<1>5. ASSUME NEW q PROVE Pos(x, q)' = Pos(x, q) /\ Read(x, q)' = Read(x, q)
  <2>1. Pos(x, q)' = Pos(x, q)
    BY <1>1, <1>2 DEF Kept, Pos
  <2>2. Read(x, q)' = Read(x, q)
    BY <1>1, <2>1 DEF Kept, Read, Sent
  <2>3. QED
    BY <2>1, <2>2
<1>6. QED
  BY <1>1, <1>3, <1>4, <1>5

(* A stream that is left alone, whose sender at most fails or gets past     *)
(* messages it does not send, and whose reader gets nowhere or fails.       *)
LEMMA QuietPair ==
  ASSUME NEW a, NEW b, PairInv(a, b), setup' = setup, link'[a][b] = link[a][b],
         Read(b, a)' = Read(b, a), Pos(b, a)' = Pos(b, a),
         Sound(a)' => /\ Sound(a)
                      /\ Len(SendsUpto[setup][a][b][Pos(a, b)'])
                           = Len(SendsUpto[setup][a][b][Pos(a, b)])
  PROVE  PairInv(a, b)'
<1>1. Flow(setup, a, b, Read(b, a), Pos(b, a), link[a][b], Sound(a), Pos(a, b))
  BY PairForm
<1>2. Flow(setup, a, b, Read(b, a), Pos(b, a), link[a][b], Sound(a)', Pos(a, b)')
  BY <1>1, FlowQuiet
<1>3. QED
  BY <1>2, PairFormNext

(* What a step of r has to show.                                            *)
Shown(r) ==
  /\ setup' = setup
  /\ calls' \in [Ranks -> 0 .. Len(setup.work)] /\ up' \in [Ranks -> BOOLEAN]
  /\ crashed' \in 0 .. setup.crashes /\ Shapes'
  /\ RankType(r)' /\ RankInv(r)'
  /\ \A a, b \in Ranks \ {r} : link'[a][b] = link[a][b]
  /\ HalfDuplex' /\ Closed'

LEMMA Assemble ==
  ASSUME StreamInv, NEW r \in Ranks, Shown(r),
         \A x \in Ranks \ {r} : Kept(x),
         \A q \in Ranks \ {r} : Sound(q) => PairInv(r, q)',
         Sound(r)' => \A q \in Ranks \ {r} : PairInv(q, r)'
  PROVE  StreamInv'
<1>1. Paired /\ setup \in Setups /\ setup' = setup
  BY SetupFacts DEF Shown
<1>2. \A x \in Ranks : RankType(x)' /\ RankInv(x)'
  <2>1. SUFFICES ASSUME NEW x \in Ranks PROVE RankType(x)' /\ RankInv(x)'
    OBVIOUS
  <2>2. CASE x = r
    BY <2>2 DEF Shown
  <2>3. CASE x # r
    <3>1. RankType(x) /\ RankInv(x)
      BY TypeParts DEF StreamInv
    <3>2. QED
      BY <1>1, <2>3, <3>1, KeptRank
  <2>4. QED
    BY <2>2, <2>3
<1>3. TypeOK'
  <2>1. TypeOK' <=> /\ setup' \in Setups
                    /\ calls' \in [Ranks -> 0 .. Len(setup'.work)]
                    /\ \A x \in Ranks : RankType(x)'
                    /\ up' \in [Ranks -> BOOLEAN] /\ crashed' \in 0 .. setup'.crashes
    BY DEF TypeOK, RankType
  <2>2. QED
    BY <1>1, <1>2, <2>1 DEF Shown
<1>4. ASSUME NEW a \in Ranks, NEW b \in Ranks, a # b, Sound(b)' PROVE PairInv(a, b)'
  <2>1. CASE b = r
    BY <1>4, <2>1
  <2>2. CASE b # r
    <3>1. /\ Sound(b) /\ Read(b, a)' = Read(b, a) /\ Pos(b, a)' = Pos(b, a)
      BY <1>1, <1>4, <2>2, KeptRank
    <3>2. CASE a = r
      BY <2>2, <3>1, <3>2
    <3>3. CASE a # r
      <4>1. PairInv(a, b)
        BY <1>4, <3>1 DEF StreamInv
      <4>2. (Sound(a)' <=> Sound(a)) /\ Pos(a, b)' = Pos(a, b)
        BY <1>1, <3>3, KeptRank
      <4>3. link'[a][b] = link[a][b]
        BY <2>2, <3>3 DEF Shown
      <4>4. QED
        BY <1>1, <3>1, <4>1, <4>2, <4>3, QuietPair
    <3>4. QED
      BY <3>2, <3>3
  <2>3. QED
    BY <2>1, <2>2
<1>5. Shapes' /\ HalfDuplex' /\ Closed' /\ Paired'
  BY <1>1 DEF Shown, Paired
<1>6. QED
  BY <1>2, <1>3, <1>4, <1>5 DEF StreamInv

-----------------------------------------------------------------------------
(* The end of a transport call: the other calls of the step go on, or the   *)
(* step fails, or the program goes on to its next step, or it returns.      *)
Outcome(r, p, ok) == [part[r] EXCEPT ![p] = IF ok THEN "done" ELSE "failed"]
Settled(o) == \A q \in DOMAIN o : o[q] \in {"done", "failed"}
Failed(o) == {q \in DOMAIN o : o[q] = "failed"}

Stays(r, o) == ~Settled(o) /\ part' = [part EXCEPT ![r] = o] /\ UNCHANGED <<pc, results>>
Fails(r, o) ==
  /\ Settled(o) /\ StepFails(DOMAIN o, Failed(o))
  /\ part' = [part EXCEPT ![r] = <<>>] /\ pc' = [pc EXCEPT ![r] = 0]
  /\ results' = [results EXCEPT ![r] = Append(@, FALSE)]
Moves(r, o) ==
  /\ Settled(o) /\ ~StepFails(DOMAIN o, Failed(o)) /\ pc[r] # Len(Code(r).steps)
  /\ part' = [part EXCEPT ![r] = StartOf(Code(r).steps[pc[r] + 1])]
  /\ pc' = [pc EXCEPT ![r] = @ + 1] /\ UNCHANGED results
Returns(r, o) ==
  /\ Settled(o) /\ ~StepFails(DOMAIN o, Failed(o)) /\ pc[r] = Len(Code(r).steps)
  /\ part' = [part EXCEPT ![r] = <<>>] /\ pc' = [pc EXCEPT ![r] = 0]
  /\ results' = [results EXCEPT ![r] = Append(@, TRUE)]

LEMMA EndCases ==
  ASSUME NEW r, NEW p, NEW ok, NEW m, EndPart(r, p, ok, m)
  PROVE  LET o == Outcome(r, p, ok)
         IN  /\ Stays(r, o) \/ Fails(r, o) \/ Moves(r, o) \/ Returns(r, o)
             /\ \E x : mem' = [mem EXCEPT ![r] = x]
<1> DEFINE o == Outcome(r, p, ok)
<1>1. o = [part[r] EXCEPT ![p] = IF ok THEN "done" ELSE "failed"]
  BY DEF Outcome
<1> HIDE DEF o
<1>2. Stays(r, o) \/ Fails(r, o) \/ Moves(r, o) \/ Returns(r, o)
  BY <1>1 DEF EndPart, Stays, Fails, Moves, Returns, Settled, Failed
<1>3. \E x : mem' = [mem EXCEPT ![r] = x]
  BY DEF EndPart
<1>4. QED
  BY <1>2, <1>3 DEF o

(* How far got may be when the transport calls of a step stand at o.        *)
GotFits(o, n) ==
  /\ \A q \in DOMAIN o : q.dir = "recv" /\ o[q] = "todo" => n < Len(q.slots)
  /\ (\A q \in DOMAIN o : q.dir = "recv" => o[q] # "todo") => n = 0

(* A step that does not fail is through with all its messages.              *)
LEMMA AllThrough ==
  ASSUME NEW o, Settled(o), ~StepFails(DOMAIN o, Failed(o)), NEW q \in DOMAIN o,
         q.dir \in {"send", "recv"}
  PROVE  Through(q, o[q])
<1>1. o[q] \in {"done", "failed"}
  BY DEF Settled
<1>2. q.dir = "recv" => o[q] # "failed"
  <2>1. SUFFICES ASSUME q.dir = "recv", o[q] = "failed" PROVE FALSE
    OBVIOUS
  <2>2. q \in Failed(o)
    BY <2>1 DEF Failed
  <2>3. StepFails(DOMAIN o, Failed(o))
    BY <2>1, <2>2 DEF StepFails
  <2>4. QED
    BY <2>3
<1>3. QED
  BY <1>1, <1>2 DEF Through

(* Where r stands once a transport call of its step has ended.              *)
Landed(r, o) ==
  /\ pc' \in [Ranks -> Nat] /\ DOMAIN part' = Ranks /\ results' \in [Ranks -> Seq(BOOLEAN)]
  /\ \A x \in Ranks \ {r} : pc'[x] = pc[x] /\ part'[x] = part[x] /\ results'[x] = results[x]
  /\ RankType(r)' /\ RankInv(r)'
  /\ Sound(r)' => \A q \in Ranks :
       /\ Pos(r, q)' = Base(r, q) + Beyond(q, o)
       /\ Read(r, q)' = Sent(q, r, Pos(r, q)') + Partly(q, o, got'[r])

LEMMA LandsStaying ==
  ASSUME StreamInv, NEW r \in Ranks, NEW p \in Parts(r), NEW ok \in BOOLEAN,
         setup' = setup, calls' = calls, up' = up,
         GotFits(Outcome(r, p, ok), got'[r]), Stays(r, Outcome(r, p, ok))
  PROVE  Landed(r, Outcome(r, p, ok))
<1> DEFINE o == Outcome(r, p, ok)
<1>1. up[r] /\ InCall(r)
  BY InStep
<1>2. o = [x \in Parts(r) |-> IF x = p THEN IF ok THEN "done" ELSE "failed" ELSE part[r][x]]
  BY DEF Outcome, Parts
<1>3. /\ RankInv(r) /\ RankType(r) /\ DOMAIN part = Ranks
      /\ pc \in [Ranks -> Nat] /\ results \in [Ranks -> Seq(BOOLEAN)]
  BY TypeParts DEF StreamInv, Shapes
<1> HIDE DEF o
<1>4. /\ part' = [part EXCEPT ![r] = o] /\ pc' = pc /\ results' = results
      /\ GotFits(o, got'[r])
  BY DEF Stays, o
<1>5. part'[r] = o /\ DOMAIN part' = Ranks /\ \A x \in Ranks \ {r} : part'[x] = part[x]
  BY <1>3, <1>4
<1>6. Parts(r)' = Parts(r) /\ DOMAIN o = Parts(r) /\ Code(r)' = Code(r) /\ InCall(r)' /\ InCall(r)
  BY <1>1, <1>2, <1>4, <1>5 DEF Parts, Code, ProgramOf, InCall
<1>7. \A x \in Parts(r) : o[x] \in States(x) /\ o[x] \in {"todo", "open", "done", "failed"}
  BY <1>2, <1>3 DEF RankInv, RankType, States
<1>8. RankType(r)'
  BY <1>3, <1>4, <1>5, <1>6, <1>7 DEF RankType
<1>9. RankInv(r)'
  BY <1>1, <1>3, <1>4, <1>5, <1>6, <1>7 DEF RankInv, GotFits
<1>10. ASSUME NEW q \in Ranks
       PROVE  /\ Pos(r, q)' = Base(r, q) + Beyond(q, o)
              /\ Read(r, q)' = Sent(q, r, Pos(r, q)') + Partly(q, o, got'[r])
  <2>1. Pos(r, q)' = Base(r, q) + Beyond(q, o)
    BY <1>4, <1>5, <1>6 DEF Pos, Base, Beyond
  <2>2. Read(r, q)' = Sent(q, r, Pos(r, q)') + Partly(q, o, got'[r])
    BY <1>4, <1>5, <1>6 DEF Read, Sent, Partly
  <2>3. QED
    BY <2>1, <2>2
<1>11. QED
  BY <1>3, <1>4, <1>5, <1>8, <1>9, <1>10 DEF Landed, o

LEMMA EmptyParts == DOMAIN <<>> = {}
OBVIOUS

(* Out of the call: nothing is left of the step.                            *)
LEMMA LandsOutside ==
  ASSUME StreamInv, NEW r \in Ranks, up[r], InCall(r), NEW o, NEW ok \in BOOLEAN,
         setup' = setup, calls' = calls, up' = up, GotFits(o, got'[r]), Settled(o),
         part' = [part EXCEPT ![r] = <<>>], pc' = [pc EXCEPT ![r] = 0],
         results' = [results EXCEPT ![r] = Append(@, ok)]
  PROVE  /\ pc' \in [Ranks -> Nat] /\ DOMAIN part' = Ranks /\ results' \in [Ranks -> Seq(BOOLEAN)]
         /\ \A x \in Ranks \ {r} : pc'[x] = pc[x] /\ part'[x] = part[x] /\ results'[x] = results[x]
         /\ RankType(r)' /\ RankInv(r)' /\ ~InCall(r)' /\ part'[r] = <<>> /\ got'[r] = 0
         /\ Sound(r)' => ok
<1>1. /\ RankInv(r) /\ RankType(r) /\ DOMAIN part = Ranks
      /\ pc \in [Ranks -> Nat] /\ results \in [Ranks -> Seq(BOOLEAN)]
      /\ calls[r] \in Nat
  BY SetupFacts, TypeParts DEF StreamInv, Shapes
<1>2. got'[r] = 0
  BY DEF GotFits, Settled
<1>3. part'[r] = <<>> /\ pc'[r] = 0 /\ results'[r] = Append(results[r], ok)
  BY <1>1
<1>4. Parts(r)' = {} /\ ~InCall(r)'
  BY <1>3, EmptyParts DEF Parts, InCall
<1> DEFINE n == Len(results[r])
<1>5. results[r] \in Seq(BOOLEAN) /\ n \in Nat
  BY <1>1
<1>6. /\ results'[r] \in Seq(BOOLEAN) /\ Len(results'[r]) = n + 1
      /\ n + 1 \in DOMAIN results'[r] /\ results'[r][n + 1] = ok
  <2> DEFINE s == results[r]
  <2>1. s \in Seq(BOOLEAN)
    BY <1>5
  <2> HIDE DEF s
  <2>2. /\ Append(s, ok) \in Seq(BOOLEAN) /\ Len(Append(s, ok)) = Len(s) + 1
        /\ Append(s, ok)[Len(s) + 1] = ok
    BY <2>1, AppendProperties
  <2>3. Len(s) + 1 \in DOMAIN Append(s, ok)
    BY <2>1, <2>2
  <2>4. QED
    BY <1>3, <2>2, <2>3 DEF s
<1>7. n = calls[r] - 1
  BY <1>1 DEF RankType
<1>8. RankType(r)'
  <2> HIDE DEF n
  <2>1. Len(results'[r]) = calls'[r]
    BY <1>1, <1>5, <1>6, <1>7
  <2>2. calls'[r] - 0 = calls'[r]
    BY <1>1
  <2>3. QED
    BY <1>4, <2>1, <2>2 DEF RankType
<1>9. RankInv(r)'
  BY <1>2, <1>3, <1>4 DEF RankInv
<1>10. Sound(r)' => ok
  BY <1>6 DEF Sound
<1>11. results' \in [Ranks -> Seq(BOOLEAN)]
  BY <1>1, <1>3, <1>6
<1>12. pc' \in [Ranks -> Nat]
  BY <1>1
<1>13. \A x \in Ranks \ {r} : pc'[x] = pc[x] /\ part'[x] = part[x] /\ results'[x] = results[x]
  BY <1>1
<1>14. DOMAIN part' = Ranks
  BY <1>1
<1>15. QED
  BY <1>2, <1>3, <1>4, <1>8, <1>9, <1>10, <1>11, <1>12, <1>13, <1>14

LEMMA LandsFailing ==
  ASSUME StreamInv, NEW r \in Ranks, up[r], InCall(r), NEW o,
         setup' = setup, calls' = calls, up' = up, GotFits(o, got'[r]), Fails(r, o)
  PROVE  Landed(r, o)
<1>1. /\ Settled(o) /\ part' = [part EXCEPT ![r] = <<>>] /\ pc' = [pc EXCEPT ![r] = 0]
      /\ results' = [results EXCEPT ![r] = Append(@, FALSE)]
  BY DEF Fails
<1>2. QED
  BY <1>1, LandsOutside DEF Landed

(* What r has exchanged with q when the step it is in ends well.            *)
LEMMA StepOver ==
  ASSUME StreamInv, NEW r \in Ranks, up[r], InCall(r), NEW o, DOMAIN o = Parts(r),
         Settled(o), ~StepFails(DOMAIN o, Failed(o)), NEW q \in Ranks
  PROVE  Len(StoryUpto[setup][r][q][calls[r] - 1])
         + Len(JoinedUpto(Talk(Code(r), q))[pc[r]]) = Base(r, q) + Beyond(q, o)
<1> DEFINE z == Len(StoryUpto[setup][r][q][calls[r] - 1])
                + Len(JoinedUpto(Talk(Code(r), q))[pc[r]])
<1>1. /\ Base(r, q) \in Nat
      /\ (\A p \in Parts(r) : p.peer # q) => z = Base(r, q)
      /\ (\E p \in Parts(r) : p.peer = q) => z = Base(r, q) + 1
  BY BaseFacts
<1>2. \A p \in Parts(r) : Through(p, o[p])
  BY StepFacts, AllThrough
<1>3. CASE \E p \in Parts(r) : p.peer = q
  <2>1. Beyond(q, o) = 1
    BY <1>2, <1>3 DEF Beyond
  <2>2. QED
    BY <1>1, <1>3, <2>1
<1>4. CASE \A p \in Parts(r) : p.peer # q
  <2>1. Beyond(q, o) = 0
    BY <1>4 DEF Beyond
  <2>2. z = Base(r, q) /\ Base(r, q) \in Nat
    BY <1>1, <1>4
  <2> HIDE DEF z
  <2>3. z = Base(r, q) + Beyond(q, o)
    BY <2>1, <2>2
  <2>4. QED
    BY <2>3 DEF z
<1>5. QED
  BY <1>3, <1>4

LEMMA LandsReturning ==
  ASSUME StreamInv, NEW r \in Ranks, up[r], InCall(r), NEW o, DOMAIN o = Parts(r),
         setup' = setup, calls' = calls, up' = up, GotFits(o, got'[r]), Returns(r, o)
  PROVE  Landed(r, o)
<1>1. /\ Settled(o) /\ part' = [part EXCEPT ![r] = <<>>] /\ pc' = [pc EXCEPT ![r] = 0]
      /\ results' = [results EXCEPT ![r] = Append(@, TRUE)]
      /\ ~StepFails(DOMAIN o, Failed(o)) /\ pc[r] = Len(Code(r).steps)
  BY DEF Returns
<1>2. /\ pc' \in [Ranks -> Nat] /\ DOMAIN part' = Ranks /\ results' \in [Ranks -> Seq(BOOLEAN)]
      /\ \A x \in Ranks \ {r} : pc'[x] = pc[x] /\ part'[x] = part[x] /\ results'[x] = results[x]
      /\ RankType(r)' /\ RankInv(r)' /\ ~InCall(r)' /\ part'[r] = <<>> /\ got'[r] = 0
  BY <1>1, LandsOutside
<1>3. ASSUME NEW q \in Ranks
      PROVE  /\ Pos(r, q)' = Base(r, q) + Beyond(q, o)
             /\ Read(r, q)' = Sent(q, r, Pos(r, q)') + Partly(q, o, got'[r])
  <2>1. Pos(r, q)' = Len(StoryUpto[setup][r][q][calls[r]])
    BY <1>2 DEF Pos
  <2>2. Pos(r, q)' = Base(r, q) + Beyond(q, o)
    <3>1. pc[r] = Len(Code(r).steps) =>
            Len(StoryUpto[setup][r][q][calls[r]]) =
              Len(StoryUpto[setup][r][q][calls[r] - 1])
              + Len(JoinedUpto(Talk(Code(r), q))[pc[r]])
      BY BaseFacts
    <3>2. Len(StoryUpto[setup][r][q][calls[r] - 1])
          + Len(JoinedUpto(Talk(Code(r), q))[pc[r]]) = Base(r, q) + Beyond(q, o)
      BY <1>1, StepOver
    <3>3. QED
      BY <1>1, <2>1, <3>1, <3>2
  <2>3. Partly(q, o, got'[r]) = 0
    BY <1>2 DEF Partly
  <2>4. Read(r, q)' = Sent(q, r, Pos(r, q)') + 0
    BY <1>2, EmptyParts DEF Read, Sent, Parts
  <2>5. QED
    BY <2>2, <2>3, <2>4
<1>4. QED
  BY <1>2, <1>3 DEF Landed

LEMMA LandsMoving ==
  ASSUME StreamInv, NEW r \in Ranks, up[r], InCall(r), NEW o, DOMAIN o = Parts(r),
         setup' = setup, calls' = calls, up' = up, GotFits(o, got'[r]), Moves(r, o)
  PROVE  Landed(r, o)
<1> DEFINE next == Code(r).steps[pc[r] + 1]
           L == Len(Code(r).steps)
<1>1. /\ Settled(o) /\ ~StepFails(DOMAIN o, Failed(o)) /\ pc[r] # L
      /\ part' = [part EXCEPT ![r] = StartOf(next)]
      /\ pc' = [pc EXCEPT ![r] = @ + 1] /\ results' = results
  BY DEF Moves
<1>2. /\ RankInv(r) /\ RankType(r) /\ DOMAIN part = Ranks
      /\ pc \in [Ranks -> Nat] /\ results \in [Ranks -> Seq(BOOLEAN)]
  BY TypeParts DEF StreamInv, Shapes
<1>3. /\ WellFormed(Code(r), r) /\ L \in Nat \ {0} /\ pc[r] \in 1 .. L /\ DOMAIN Code(r).steps = 1 .. L
  BY StepFacts DEF WellFormed
<1>4. pc[r] + 1 \in 1 .. L /\ pc[r] + 1 > 0 /\ pc[r] + 1 \in Nat
  BY <1>1, <1>3
<1>5. \A p \in next.parts : /\ p.dir \in {"send", "recv"} /\ Len(p.slots) \in Nat \ {0}
  BY <1>3, <1>4 DEF WellFormed
<1>6. /\ part'[r] = StartOf(next) /\ pc'[r] = pc[r] + 1
      /\ pc' \in [Ranks -> Nat] /\ DOMAIN part' = Ranks
      /\ \A x \in Ranks \ {r} : pc'[x] = pc[x] /\ part'[x] = part[x] /\ results'[x] = results[x]
  BY <1>1, <1>2, <1>4
<1>7. got'[r] = 0
  BY <1>1 DEF GotFits, Settled
<1>8. Code(r)' = Code(r)
  BY DEF Code, ProgramOf
<1>9. Parts(r)' = next.parts /\ InCall(r)' /\ \A p \in next.parts : part'[r][p] = "todo"
  BY <1>4, <1>6 DEF Parts, InCall, StartOf
<1> HIDE DEF next
<1>10. RankType(r)'
  <2>1. next = Code(r).steps[pc'[r]]
    BY <1>6 DEF next
  <2>2. Len(results'[r]) = calls'[r] - 1
    BY <1>1, <1>2 DEF RankType
  <2>3. pc'[r] \in DOMAIN Code(r).steps
    BY <1>3, <1>4, <1>6
  <2>4. \A p \in next.parts : part'[r][p] \in {"todo", "open", "done", "failed"}
    BY <1>9
  <2>5. QED
    BY <1>8, <1>9, <2>1, <2>2, <2>3, <2>4 DEF RankType
<1>11. RankInv(r)'
  <2>1. \A p \in next.parts : "todo" \in States(p)
    BY DEF States
  <2>2. \A p \in next.parts : 0 < Len(p.slots)
    BY <1>5
  <2>3. calls'[r] > 0 /\ \A i \in DOMAIN results'[r] : results'[r][i]
    BY <1>1, <1>2 DEF RankInv
  <2>4. up'[r]
    OBVIOUS
  <2>5. QED
    BY <1>7, <1>9, <2>1, <2>2, <2>3, <2>4 DEF RankInv
<1>12. ASSUME NEW q \in Ranks
       PROVE  /\ Pos(r, q)' = Base(r, q) + Beyond(q, o)
              /\ Read(r, q)' = Sent(q, r, Pos(r, q)') + Partly(q, o, got'[r])
  <2> DEFINE d == Len(StoryUpto[setup][r][q][calls[r] - 1])
             z == d + Len(JoinedUpto(Talk(Code(r), q))[pc[r]])
  <2>1. Pos(r, q)' = d + Len(JoinedUpto(Talk(Code(r), q))[pc'[r] - 1]) + 0
    <3>1. ~\E p \in next.parts : p.peer = q /\ Through(p, part'[r][p])
      BY <1>9 DEF Through
    <3>2. QED
      BY <1>8, <1>9, <3>1 DEF Pos
  <2>2. pc'[r] - 1 = pc[r]
    BY <1>3, <1>6
  <2>3. z = Base(r, q) + Beyond(q, o)
    BY <1>1, StepOver
  <2>4. z \in Nat
    <3>1. Base(r, q) \in Nat
      BY BaseFacts
    <3>2. Beyond(q, o) \in {0, 1}
      BY DEF Beyond
    <3> HIDE DEF z
    <3>3. QED
      BY <2>3, <3>1, <3>2
  <2>5. Pos(r, q)' = z
    <3>1. Pos(r, q)' = z + 0
      BY <2>1, <2>2
    <3> HIDE DEF z
    <3>2. QED
      BY <2>4, <3>1
  <2>6. Partly(q, o, got'[r]) = 0
    BY <1>7 DEF Partly
  <2>7. Read(r, q)' = Sent(q, r, Pos(r, q)') + 0
    BY <1>7 DEF Read, Sent
  <2>8. QED
    BY <2>3, <2>5, <2>6, <2>7
<1>13. QED
  BY <1>1, <1>2, <1>6, <1>10, <1>11, <1>12 DEF Landed

LEMMA Lands ==
  ASSUME StreamInv, NEW r \in Ranks, NEW p \in Parts(r), NEW ok \in BOOLEAN, NEW m,
         setup' = setup, calls' = calls, up' = up,
         GotFits(Outcome(r, p, ok), got'[r]), EndPart(r, p, ok, m)
  PROVE  Landed(r, Outcome(r, p, ok)) /\ DOMAIN mem' = Ranks
<1> DEFINE o == Outcome(r, p, ok)
<1>1. up[r] /\ InCall(r)
  BY InStep
<1>2. DOMAIN o = Parts(r)
  BY DEF Outcome, Parts
<1>3. /\ Stays(r, o) \/ Fails(r, o) \/ Moves(r, o) \/ Returns(r, o)
      /\ DOMAIN mem' = Ranks
  <2>1. DOMAIN mem = Ranks
    BY DEF StreamInv, Shapes
  <2>2. QED
    BY <2>1, EndCases
<1>4. Stays(r, o) => Landed(r, o)
  BY LandsStaying
<1>5. Fails(r, o) => Landed(r, o)
  BY <1>1, LandsFailing
<1>6. Moves(r, o) => Landed(r, o)
  BY <1>1, <1>2, LandsMoving
<1>7. Returns(r, o) => Landed(r, o)
  BY <1>1, <1>2, LandsReturning
<1>8. QED
  BY <1>3, <1>4, <1>5, <1>6, <1>7

-----------------------------------------------------------------------------
(* The types that a step of r which changes neither calls nor up keeps.     *)
LEMMA ShownEasily ==
  ASSUME StreamInv, NEW r \in Ranks, setup' = setup, calls' = calls, up' = up, crashed' = crashed,
         pc' \in [Ranks -> Nat], got' \in [Ranks -> Nat],
         DOMAIN part' = Ranks, DOMAIN mem' = Ranks, results' \in [Ranks -> Seq(BOOLEAN)],
         DOMAIN link' = Ranks, \A a \in Ranks : DOMAIN link'[a] = Ranks,
         \A a, b \in Ranks : Dense(link'[a][b]),
         RankType(r)', RankInv(r)', HalfDuplex', Closed',
         \A a, b \in Ranks \ {r} : link'[a][b] = link[a][b]
  PROVE  Shown(r)
<1>1. /\ calls \in [Ranks -> 0 .. Len(setup.work)] /\ up \in [Ranks -> BOOLEAN]
      /\ crashed \in 0 .. setup.crashes
  BY DEF StreamInv, TypeOK
<1>2. \A a, b \in Ranks : Dense(link[a][b])'
  BY DEF Dense
<1>3. Shapes'
  BY <1>2 DEF Shapes
<1>4. QED
  BY <1>1, <1>3 DEF Shown

(* A step of r that leaves the streams alone and gets r nowhere.            *)
LEMMA QuietStep ==
  ASSUME StreamInv, NEW r \in Ranks, Shown(r), link' = link,
         \A x \in Ranks \ {r} : Kept(x),
         Sound(r)' => /\ Sound(r)
                      /\ \A q \in Ranks \ {r} : Pos(r, q)' = Pos(r, q) /\ Read(r, q)' = Read(r, q)
  PROVE  StreamInv'
<1>1. setup' = setup
  BY DEF Shown
<1>2. ASSUME NEW q \in Ranks \ {r}
      PROVE  /\ (Sound(q)' <=> Sound(q))
             /\ Pos(q, r)' = Pos(q, r) /\ Read(q, r)' = Read(q, r)
  BY <1>1, KeptRank
<1>3. ASSUME NEW q \in Ranks \ {r}, Sound(q) PROVE PairInv(r, q)'
  <2>1. PairInv(r, q)
    BY <1>3 DEF StreamInv
  <2>2. QED
    BY <1>1, <1>2, <2>1, QuietPair
<1>4. ASSUME Sound(r)', NEW q \in Ranks \ {r} PROVE PairInv(q, r)'
  <2>1. PairInv(q, r)
    BY <1>4 DEF StreamInv
  <2>2. QED
    BY <1>1, <1>2, <1>4, <2>1, QuietPair
<1>5. QED
  BY <1>3, <1>4, Assemble

(* What a step of r does to the streams that r reads, if r stays sound.     *)
ReadsOn(r) ==
  Sound(r)' =>
    \A q \in Ranks \ {r} :
      \/ link'[q][r] = <<>>
      \/ Read(r, q)' = Read(r, q) /\ link'[q][r] = link[q][r]
      \/ Read(r, q)' = Read(r, q) + 1 /\ link[q][r] # <<>> /\ link'[q][r] = Tail(link[q][r])

(* The end of a Send, well or not.                                          *)
LEMMA SendEnds ==
  ASSUME StreamInv, NEW r \in Ranks, NEW p \in Parts(r), NEW ok \in BOOLEAN, NEW m,
         p.dir = "send", part[r][p] = "open", EndPart(r, p, ok, m),
         UNCHANGED <<setup, calls, got, up, crashed, link>>
  PROVE  StreamInv' /\ ReadsOn(r)
<1> DEFINE o == Outcome(r, p, ok)
<1>1. up[r] /\ InCall(r) /\ Sound(r)
  BY InStep, StepFacts
<1>2. /\ DOMAIN o = Parts(r) /\ o[p] \in {"done", "failed"}
      /\ \A x \in Parts(r) : x # p => o[x] = part[r][x]
  BY DEF Outcome, Parts
<1>3. RankInv(r)
  BY DEF StreamInv
<1> HIDE DEF o
<1>4. \A x \in Parts(r) : x.dir = "recv" => x # p
  OBVIOUS
<1>5. GotFits(o, got'[r])
  <2>1. \A x \in Parts(r) : x.dir = "recv" => o[x] = part[r][x]
    BY <1>2, <1>4
  <2>2. QED
    BY <1>2, <1>3, <2>1 DEF GotFits, RankInv
<1>6. Landed(r, o) /\ DOMAIN mem' = Ranks
  BY <1>5, Lands DEF o
<1>7. \A x \in Parts(r) : Through(x, o[x]) <=> Through(x, part[r][x])
  BY <1>2 DEF Through
<1>8. ASSUME NEW q PROVE Beyond(q, o) = Beyond(q, part[r]) /\ Partly(q, o, got[r]) = Partly(q, part[r], got[r])
  BY <1>2, <1>4, <1>7 DEF Beyond, Partly, Parts
<1>9. ASSUME Sound(r)', NEW q \in Ranks \ {r}
      PROVE  Pos(r, q)' = Pos(r, q) /\ Read(r, q)' = Read(r, q)
  <2>1. Pos(r, q)' = Base(r, q) + Beyond(q, o)
    BY <1>6, <1>9 DEF Landed
  <2>2. Pos(r, q)' = Pos(r, q)
    BY <1>1, <1>8, <2>1, PosForms
  <2>3. Read(r, q)' = Sent(q, r, Pos(r, q)') + Partly(q, o, got'[r])
    BY <1>6, <1>9 DEF Landed
  <2>4. QED
    BY <1>8, <2>2, <2>3, PosForms
<1>10. Shown(r)
  <2>1. HalfDuplex' /\ Closed'
    BY DEF StreamInv, HalfDuplex, Closed
  <2>2. /\ got \in [Ranks -> Nat]
        /\ DOMAIN link = Ranks /\ \A a \in Ranks : DOMAIN link[a] = Ranks
        /\ \A a, b \in Ranks : Dense(link[a][b])
    BY DEF StreamInv, Shapes
  <2>3. QED
    BY <1>6, <2>1, <2>2, ShownEasily DEF Landed
<1>11. \A x \in Ranks \ {r} : Kept(x)
  BY <1>6 DEF Landed, Kept
<1>12. ReadsOn(r)
  BY <1>9 DEF ReadsOn
<1>13. QED
  BY <1>1, <1>9, <1>10, <1>11, <1>12, QuietStep

LEMMA EndSendKeeps ==
  ASSUME StreamInv, NEW r \in Ranks, EndSend(r)
  PROVE  StreamInv' /\ ReadsOn(r)
<1>1. PICK p \in Parts(r) : /\ p.dir = "send" /\ part[r][p] = "open"
                            /\ EndPart(r, p, TRUE, mem[r])
                            /\ UNCHANGED <<setup, calls, got, up, crashed, link>>
  BY DEF EndSend
<1>2. QED
  BY <1>1, SendEnds

LEMMA FailSendKeeps ==
  ASSUME StreamInv, NEW r \in Ranks, FailSend(r)
  PROVE  StreamInv' /\ ReadsOn(r)
<1>1. PICK p \in Parts(r) : /\ p.dir = "send" /\ part[r][p] = "open"
                            /\ EndPart(r, p, FALSE, mem[r])
                            /\ UNCHANGED <<setup, calls, got, up, crashed, link>>
  BY DEF FailSend
<1>2. QED
  BY <1>1, SendEnds

(* A new call begins where the one before ended.                            *)
LEMMA CallKeeps ==
  ASSUME StreamInv, NEW r \in Ranks, Call(r)
  PROVE  StreamInv' /\ ReadsOn(r)
<1> DEFINE code == ProgramOf(setup.work[calls[r] + 1], r)
           K == Len(setup.work)
<1>1. /\ up[r] /\ ~InCall(r) /\ calls[r] < K /\ Sound(r)
      /\ calls' = [calls EXCEPT ![r] = @ + 1] /\ pc' = [pc EXCEPT ![r] = 1]
      /\ part' = [part EXCEPT ![r] = StartOf(code.steps[1])]
      /\ \E m : mem' = [mem EXCEPT ![r] = m]
      /\ UNCHANGED <<setup, got, results, up, crashed, link>>
  BY DEF Call, Sound
<1>2. /\ RankInv(r) /\ RankType(r) /\ DOMAIN part = Ranks /\ DOMAIN mem = Ranks
      /\ pc \in [Ranks -> Nat] /\ results \in [Ranks -> Seq(BOOLEAN)] /\ got \in [Ranks -> Nat]
      /\ DOMAIN link = Ranks /\ \A a \in Ranks : DOMAIN link[a] = Ranks
      /\ \A a, b \in Ranks : Dense(link[a][b])
      /\ HalfDuplex /\ Closed
  BY TypeParts DEF StreamInv, Shapes
<1>3. /\ calls \in [Ranks -> 0 .. K] /\ K \in Nat /\ setup \in Setups
      /\ \A c \in 1 .. K : \A x \in Ranks : WellFormed(CodeOf(setup.topology, setup.work[c], x), x)
      /\ up \in [Ranks -> BOOLEAN] /\ crashed \in 0 .. setup.crashes
  BY SetupFacts DEF StreamInv, TypeOK
<1>4. calls[r] + 1 \in 1 .. K /\ calls' \in [Ranks -> 0 .. K] /\ calls'[r] = calls[r] + 1
  BY <1>1, <1>3
<1>5. /\ WellFormed(code, r) /\ Len(code.steps) \in Nat \ {0} /\ DOMAIN code.steps = 1 .. Len(code.steps)
  BY <1>3, <1>4 DEF ProgramOf, WellFormed
<1>6. 1 \in DOMAIN code.steps
  BY <1>5
<1> DEFINE first == code.steps[1]
<1>7. \A p \in first.parts : p.dir \in {"send", "recv"} /\ Len(p.slots) \in Nat \ {0}
  BY <1>5, <1>6 DEF WellFormed
<1>8. part[r] = <<>> /\ Parts(r) = {} /\ got[r] = 0
  BY <1>1, <1>2, EmptyParts DEF RankInv, Parts
<1>9. Code(r)' = code
  BY <1>1, <1>4 DEF Code, ProgramOf
<1> HIDE DEF first, code
<1>10. /\ part'[r] = StartOf(first) /\ pc'[r] = 1 /\ pc' \in [Ranks -> Nat] /\ DOMAIN part' = Ranks
       /\ \A x \in Ranks \ {r} : Kept(x)
  BY <1>1, <1>2, <1>3 DEF Kept, first
<1>11. /\ Parts(r)' = first.parts /\ InCall(r)' /\ \A p \in first.parts : part'[r][p] = "todo"
  BY <1>10 DEF Parts, InCall, StartOf
<1>12. RankType(r)'
  <2>1. Len(results'[r]) = calls'[r] - 1
    <3>1. Len(results[r]) = calls[r] - 0 /\ calls[r] \in Nat
      BY <1>1, <1>2, <1>3 DEF RankType
    <3> DEFINE n == Len(results[r])
    <3>2. n = calls[r] - 0
      BY <3>1
    <3> HIDE DEF n
    <3>3. calls'[r] = calls[r] + 1 /\ results' = results
      BY <1>1, <1>4
    <3>4. calls'[r] - 1 = n
      BY ONLY <3>1, <3>2, <3>3
    <3>5. QED
      BY <3>3, <3>4 DEF n
  <2>2. first = Code(r)'.steps[pc'[r]] /\ pc'[r] \in DOMAIN Code(r)'.steps
    BY <1>6, <1>9, <1>10 DEF first
  <2>3. \A p \in first.parts : part'[r][p] \in {"todo", "open", "done", "failed"}
    BY <1>11
  <2>4. QED
    BY <1>11, <2>1, <2>2, <2>3 DEF RankType
<1>13. RankInv(r)'
  <2>1. \A p \in first.parts : "todo" \in States(p)
    BY DEF States
  <2>2. got'[r] = 0 /\ \A p \in first.parts : 0 < Len(p.slots)
    BY <1>1, <1>7, <1>8
  <2>3. calls'[r] > 0 /\ (\A i \in DOMAIN results'[r] : results'[r][i]) /\ up'[r]
    BY <1>1, <1>4 DEF Sound
  <2>4. QED
    BY <1>11, <2>1, <2>2, <2>3 DEF RankInv
<1>14. ASSUME NEW q \in Ranks \ {r} PROVE Pos(r, q)' = Pos(r, q) /\ Read(r, q)' = Read(r, q)
  <2> DEFINE d == Len(StoryUpto[setup][r][q][calls[r]])
             v == JoinedUpto(Talk(code, q))
  <2>1. ~\E p \in first.parts : p.peer = q /\ Through(p, part'[r][p])
    BY <1>11 DEF Through
  <2>2. calls'[r] - 1 = calls[r] /\ pc'[r] - 1 = 0
    BY <1>3, <1>4, <1>10
  <2>3. Pos(r, q)' = d + Len(v[0]) + 0
    BY <1>1, <1>9, <1>11, <2>1, <2>2 DEF Pos
  <2>4. Len(v[0]) = 0
    <3>1. Talk(code, q) \in Seq(Seq(Message))
      BY <1>5, TalkFacts
    <3>2. v[0] = <<>>
      BY <3>1, JoinedFacts
    <3>3. QED
      BY <3>2
  <2>5. Pos(r, q) = d
    BY <1>1, PosForms
  <2>6. d \in Nat
    <3>1. Pos(r, q) \in Nat
      BY <1>1, PosType
    <3>2. QED
      BY <2>5, <3>1
  <2>7. Pos(r, q)' = Pos(r, q)
    <3> HIDE DEF d, v
    <3>1. QED
      BY <2>3, <2>4, <2>5, <2>6
  <2>8. Read(r, q)' = Sent(q, r, Pos(r, q)') + 0
    BY <1>1, <1>8 DEF Read, Sent
  <2>9. Read(r, q) = Sent(q, r, Pos(r, q)) + 0
    BY <1>8 DEF Read
  <2>10. QED
    BY <2>7, <2>8, <2>9
<1>15. Shown(r)
  <2>1. HalfDuplex' /\ Closed' /\ DOMAIN mem' = Ranks
    BY <1>1, <1>2 DEF HalfDuplex, Closed
  <2>2. \A a, b \in Ranks : Dense(link[a][b])'
    <3>1. link' = link /\ \A a, b \in Ranks : Dense(link[a][b])
      BY <1>1, <1>2
    <3>2. QED
      BY <3>1 DEF Dense
  <2>3. Shapes'
    BY <1>1, <1>2, <1>10, <2>1, <2>2 DEF Shapes
  <2>4. QED
    BY <1>1, <1>3, <1>4, <1>12, <1>13, <2>1, <2>3 DEF Shown
<1>16. ReadsOn(r)
  BY <1>1, <1>14 DEF ReadsOn
<1>17. QED
  BY <1>1, <1>10, <1>14, <1>15, <1>16, QuietStep

LEMMA JoinDense ==
  ASSUME NEW s, NEW t, Dense(s), Dense(t)
  PROVE  Dense(s \o t)
<1> DEFINE V == {s[i] : i \in DOMAIN s}
           W == {t[i] : i \in DOMAIN t}
<1>1. s \in Seq(V) /\ t \in Seq(W)
  BY DEF Dense
<1> HIDE DEF V, W
<1>2. s \in Seq(V \cup W) /\ t \in Seq(V \cup W)
  BY <1>1
<1>3. s \o t \in Seq(V \cup W)
  BY <1>2
<1>4. QED
  BY <1>3, DenseSeq

(* A Send hands its chunks to the stream: nothing is in flight the other    *)
(* way, and the peer is not past a message it has yet to send.              *)
LEMMA BeginSendKeeps ==
  ASSUME StreamInv, NEW r \in Ranks, BeginSend(r)
  PROVE  StreamInv' /\ ReadsOn(r)
<1>1. PICK p \in Parts(r) :
        /\ p.dir = "send" /\ part[r][p] = "todo"
        /\ part' = [part EXCEPT ![r][p] = "open"]
        /\ link' = [link EXCEPT ![r][p.peer] =
             IF up[p.peer]
             THEN @ \o [i \in 1 .. Len(p.slots) |->
                          [val |-> ValueAt(mem[r], r, p.slots[i]), call |-> calls[r],
                           pos |-> i, of |-> Len(p.slots)]]
             ELSE @]
        /\ UNCHANGED <<setup, calls, pc, got, mem, results, up, crashed>>
  BY DEF BeginSend
<1> DEFINE b == p.peer
           l == Len(p.slots)
           new == [i \in 1 .. l |-> [val |-> ValueAt(mem[r], r, p.slots[i]), call |-> calls[r],
                                     pos |-> i, of |-> l]]
           o == [part[r] EXCEPT ![p] = "open"]
<1>2. /\ up[r] /\ InCall(r) /\ Sound(r) /\ b \in Ranks \ {r} /\ l \in Nat \ {0}
      /\ \A x, y \in Parts(r) : x.peer = y.peer => x = y
      /\ Paired /\ setup \in Setups
  BY InStep, StepFacts, SetupFacts
<1>3. /\ RankInv(r) /\ RankType(r) /\ DOMAIN part = Ranks /\ DOMAIN mem = Ranks
      /\ pc \in [Ranks -> Nat] /\ results \in [Ranks -> Seq(BOOLEAN)] /\ got \in [Ranks -> Nat]
      /\ DOMAIN link = Ranks /\ \A x \in Ranks : DOMAIN link[x] = Ranks
      /\ \A x, y \in Ranks : Dense(link[x][y])
      /\ HalfDuplex /\ Closed
  BY TypeParts DEF StreamInv, Shapes
<1>4. link[b][r] = <<>>
  BY <1>1, OtherWayEmpty
<1>5. /\ DOMAIN o = Parts(r) /\ o[p] = "open" /\ \A x \in Parts(r) : x # p => o[x] = part[r][x]
  BY DEF Parts
<1>6. /\ part'[r] = o /\ DOMAIN part' = Ranks /\ \A x \in Ranks \ {r} : part'[x] = part[x]
  BY <1>1, <1>3
<1>7. /\ DOMAIN link' = Ranks /\ \A x \in Ranks : DOMAIN link'[x] = Ranks
      /\ \A x, y \in Ranks : ~(x = r /\ y = b) => link'[x][y] = link[x][y]
      /\ up[b] => link'[r][b] = link[r][b] \o new
      /\ ~up[b] => link'[r][b] = link[r][b]
  BY <1>1, <1>2, <1>3
<1>8. new \in Seq({new[i] : i \in 1 .. l}) /\ Len(new) = l
      /\ \A i \in 1 .. l : new[i].call = calls[r] /\ new[i].pos = i /\ new[i].of = l
  <2>1. l \in Nat
    BY <1>2
  <2> HIDE DEF l
  <2>2. DOMAIN new = 1 .. l
    OBVIOUS
  <2>3. \A i \in 1 .. l : new[i].call = calls[r] /\ new[i].pos = i /\ new[i].of = l
    OBVIOUS
  <2>4. new = [i \in 1 .. l |-> new[i]]
    OBVIOUS
  <2> HIDE DEF new
  <2>5. new \in Seq({new[i] : i \in 1 .. l}) /\ Len(new) = l
    BY <2>1, <2>2, <2>4
  <2>6. QED
    BY <2>3, <2>5
<1> HIDE DEF new, o, l, b
<1>9. \A x \in Ranks \ {r} : Kept(x)
  BY <1>1, <1>6 DEF Kept
<1>10. Parts(r)' = Parts(r) /\ Code(r)' = Code(r) /\ (InCall(r)' <=> InCall(r)) /\ (Sound(r)' <=> Sound(r))
  BY <1>1, <1>5, <1>6 DEF Parts, Code, ProgramOf, InCall, Sound
<1>11. RankType(r)'
  BY <1>1, <1>3, <1>5, <1>6, <1>10 DEF RankType
<1>12. \A x \in Parts(r) : x.dir = "recv" => o[x] = part[r][x]
  BY <1>1, <1>5
<1>13. RankInv(r)'
  <2>1. \A x \in Parts(r) : o[x] \in States(x)
    BY <1>1, <1>3, <1>5 DEF RankInv, States
  <2>2. QED
    BY <1>1, <1>2, <1>3, <1>6, <1>10, <1>12, <2>1 DEF RankInv
<1>14. ASSUME NEW q
       PROVE  /\ Pos(r, q)' = Base(r, q) + Beyond(q, o)
              /\ Read(r, q)' = Sent(q, r, Pos(r, q)') + Partly(q, part[r], got[r])
  <2>1. Pos(r, q)' = Base(r, q) + Beyond(q, o)
    <3>1. InCall(r)' /\ UNCHANGED <<setup, calls, pc>>
      BY <1>1, <1>2, <1>10
    <3>2. QED
      BY <1>5, <1>6, <1>10, <3>1 DEF Pos, Base, Beyond
  <2>2. Read(r, q)' = Sent(q, r, Pos(r, q)') + Partly(q, o, got[r])
    BY <1>1, <1>5, <1>6, <1>10 DEF Read, Sent, Partly
  <2>3. Partly(q, o, got[r]) = Partly(q, part[r], got[r])
    BY <1>5, <1>12 DEF Partly, Parts
  <2>4. QED
    BY <2>1, <2>2, <2>3
<1>15. ASSUME NEW q \in Ranks \ {r}, q # b
       PROVE  Pos(r, q)' = Pos(r, q) /\ Read(r, q)' = Read(r, q)
  <2>1. Beyond(q, o) = Beyond(q, part[r])
    BY <1>5, <1>15 DEF Beyond, Parts, b
  <2>2. Pos(r, q)' = Pos(r, q)
    BY <1>2, <1>14, <2>1, PosForms
  <2>3. QED
    BY <1>14, <2>2, PosForms
<1>16. /\ Base(r, b) \in Nat /\ Base(r, b) + 1 \in 1 .. Len(Messages[setup][r][b])
       /\ Messages[setup][r][b][Base(r, b) + 1] = [dir |-> "send", len |-> l, call |-> calls[r]]
  <2>1. /\ Base(r, b) \in Nat
        /\ \A x \in Parts(r) : x.peer = b =>
             /\ Base(r, b) + 1 \in 1 .. Len(Messages[setup][r][b])
             /\ Messages[setup][r][b][Base(r, b) + 1] =
                  [dir |-> x.dir, len |-> Len(x.slots), call |-> calls[r]]
    BY <1>2, BaseFacts
  <2>2. p.peer = b /\ p.dir = "send" /\ Len(p.slots) = l
    BY <1>1 DEF b, l
  <2>3. QED
    BY <2>1, <2>2
<1>17. Pos(r, b) = Base(r, b) /\ Pos(r, b)' = Base(r, b) + 1
  <2>1. \A x \in Parts(r) : x.peer = b => x = p
    BY <1>2 DEF b
  <2>2. Beyond(b, part[r]) = 0
    BY <1>1, <2>1 DEF Beyond, Through, Parts
  <2>3. Beyond(b, o) = 1
    BY <1>1, <1>5 DEF Beyond, Through, b
  <2>4. QED
    BY <1>2, <1>14, <1>16, <2>2, <2>3, PosForms
<1>18. Read(r, b)' = Read(r, b)
  <2> DEFINE Q == Base(r, b)
             j == Q + 1
             M == Messages[setup][b][r]
  <2>1. Sides(Messages[setup][r][b], M) /\ Len(Messages[setup][r][b]) = Len(M)
    BY <1>2, SidesFacts DEF Sides
  <2>2. j \in 1 .. Len(M) /\ Messages[setup][r][b][j].dir = "send"
    BY <1>16, <2>1
  <2>3. M[j].dir # "send"
    BY <2>1, <2>2 DEF Sides
  <2>4. SendsOf(M, SendsUpto[setup][b][r], SentChunks[setup][b][r])
    BY <1>2, SendsFacts
  <2>5. j - 1 = Q
    BY <1>16
  <2>6. Pos(r, b)' = j /\ Pos(r, b) = Q
    BY <1>17
  <2> HIDE DEF M, j, Q
  <2>7. Len(SendsUpto[setup][b][r][j]) = Len(SendsUpto[setup][b][r][Q])
    BY <2>2, <2>3, <2>4, <2>5 DEF SendsOf
  <2>8. Sent(b, r, Pos(r, b)') = Sent(b, r, Pos(r, b))
    BY <2>6, <2>7 DEF Sent
  <2>9. QED
    BY <1>14, <2>8, PosForms
<1>19. ASSUME NEW q \in Ranks \ {r}
       PROVE  /\ (Sound(q)' <=> Sound(q))
              /\ Pos(q, r)' = Pos(q, r) /\ Read(q, r)' = Read(q, r)
  BY <1>1, <1>9, KeptRank
<1>20. ASSUME NEW q \in Ranks \ {r} PROVE PairInv(q, r)'
  <2>1. PairInv(q, r) /\ link'[q][r] = link[q][r] /\ setup' = setup
    BY <1>1, <1>2, <1>7 DEF StreamInv
  <2>2. CASE q # b
    BY <1>15, <1>19, <2>1, <2>2, QuietPair
  <2>3. CASE q = b
    <3>1. Flow(setup, b, r, Read(r, b), Pos(r, b), link[b][r], Sound(b), Pos(b, r))
      BY <2>1, <2>3, PairForm
    <3>2. Pos(r, b) \in Nat /\ Pos(r, b)' = Pos(r, b) + 1
      BY <1>16, <1>17
    <3>3. Flow(setup, b, r, Read(r, b), Pos(r, b)', link[b][r], Sound(b), Pos(b, r))
      <4>1. \A m \in (Pos(r, b)' + 1) .. Len(Messages[setup][b][r]) :
               m \in (Pos(r, b) + 1) .. Len(Messages[setup][b][r])
        BY <3>2
      <4>2. QED
        BY <3>1, <4>1 DEF Flow
    <3>4. Flow(setup, b, r, Read(r, b), Pos(r, b)', link[b][r], Sound(b)', Pos(b, r))
      BY <1>19, <2>3, <3>3, FlowQuiet
    <3>5. QED
      BY <1>18, <1>19, <2>1, <2>3, <3>4, PairFormNext
  <2>4. QED
    BY <2>2, <2>3
<1>21. ASSUME NEW q \in Ranks \ {r}, Sound(q) PROVE PairInv(r, q)'
  <2>1. PairInv(r, q) /\ setup' = setup
    BY <1>1, <1>21 DEF StreamInv
  <2>2. CASE q # b
    <3>1. link'[r][q] = link[r][q]
      BY <1>7, <2>2
    <3>2. QED
      BY <1>10, <1>15, <1>19, <2>1, <2>2, <3>1, QuietPair
  <2>3. CASE q = b
    <3> DEFINE R == Read(b, r)
               P == Pos(b, r)
               Q == Base(r, b)
               ln == link[r][b]
    <3>1. link'[r][b] = ln \o new
      BY <1>7, <1>21, <2>3 DEF Sound
    <3>2. Flow(setup, r, b, R, P, ln, TRUE, Q)
      BY <1>2, <1>17, <2>1, <2>3, PairForm
    <3>3. R \in Nat /\ P \in Nat /\ Q \in Nat
      BY <1>2, <1>16, <1>21, <2>3, PosType
    <3>4. ln \in Seq({ln[i] : i \in DOMAIN ln})
      BY <1>2, <1>3 DEF Dense
    <3>5. \A m \in (P + 1) .. Q : Messages[setup][r][b][m].dir # "recv"
      BY <1>2, <1>17, <1>21, <2>3, NothingBetween
    <3>6. /\ Q + 1 <= Len(Messages[setup][r][b])
          /\ Messages[setup][r][b][Q + 1] = [dir |-> "send", len |-> Len(new), call |-> calls[r]]
          /\ \A i \in 1 .. Len(new) :
               new[i].call = calls[r] /\ new[i].pos = i /\ new[i].of = Len(new)
      BY <1>8, <1>16
    <3> HIDE DEF R, P, Q, ln
    <3>7. Flow(setup, r, b, R, P, ln \o new, TRUE, Q + 1)
      BY <1>2, <1>8, <3>2, <3>3, <3>4, <3>5, <3>6, FlowSend
    <3>8. Flow(setup, r, b, R, P, ln \o new, Sound(r)', Q + 1)
      BY <1>2, <1>10, <3>7 DEF Flow
    <3>9. R = Read(b, r)' /\ P = Pos(b, r)' /\ Q + 1 = Pos(r, b)'
      BY <1>2, <1>17, <1>19 DEF R, P, Q
    <3>10. QED
      BY <2>1, <2>3, <3>1, <3>8, <3>9, PairFormNext
  <2>4. QED
    BY <2>2, <2>3
<1>22. Shown(r)
  <2>1. \A x, y \in Ranks : Dense(link'[x][y])
    <3>1. Dense(new)
      BY <1>8, DenseSeq
    <3>2. up[b] => Dense(link[r][b] \o new)
      BY <1>2, <1>3, <3>1, JoinDense
    <3>3. QED
      BY <1>2, <1>3, <1>7, <3>2
  <2>2. HalfDuplex'
    <3>1. SUFFICES ASSUME NEW x \in Ranks, NEW y \in Ranks, x # y
                   PROVE  link'[x][y] = <<>> \/ link'[y][x] = <<>>
      BY DEF HalfDuplex
    <3>2. CASE (x = r /\ y = b) \/ (x = b /\ y = r)
      BY <1>2, <1>4, <1>7, <3>2
    <3>3. CASE ~(x = r /\ y = b) /\ ~(x = b /\ y = r)
      <4>1. link'[x][y] = link[x][y] /\ link'[y][x] = link[y][x]
        BY <1>7, <3>3
      <4>2. QED
        BY <1>3, <3>1, <4>1 DEF HalfDuplex
    <3>4. QED
      BY <3>2, <3>3
  <2>3. \A x, y \in Ranks \ {r} : link'[x][y] = link[x][y]
    BY <1>7
  <2>4. Closed'
    <3>1. SUFFICES ASSUME NEW x \in Ranks, NEW y \in Ranks, x = y \/ ~up[y]
                   PROVE  link'[x][y] = <<>>
      BY <1>1 DEF Closed
    <3>2. link'[x][y] = link[x][y]
      BY <1>2, <1>7, <3>1
    <3>3. QED
      BY <1>3, <3>1, <3>2 DEF Closed
  <2>5. QED
    BY <1>1, <1>3, <1>6, <1>7, <1>11, <1>13, <2>1, <2>2, <2>3, <2>4, ShownEasily
<1>23. ReadsOn(r)
  BY <1>2, <1>7, <1>15, <1>18 DEF ReadsOn
<1>24. QED
  BY <1>9, <1>20, <1>21, <1>22, <1>23, Assemble

LEMMA TailDense ==
  ASSUME NEW s, Dense(s), s # <<>>
  PROVE  Dense(Tail(s))
<1> DEFINE V == {s[i] : i \in DOMAIN s}
<1>1. s \in Seq(V)
  BY DEF Dense
<1> HIDE DEF V
<1>2. Tail(s) \in Seq(V)
  BY <1>1
<1>3. QED
  BY <1>2, DenseSeq

(* The one Recv of a step, and what it has read.                            *)
LEMMA RecvFacts ==
  ASSUME StreamInv, NEW r \in Ranks, NEW p \in Parts(r), p.dir = "recv", part[r][p] = "todo"
  PROVE  /\ up[r] /\ InCall(r) /\ Sound(r) /\ p.peer \in Ranks \ {r}
         /\ Len(p.slots) \in Nat \ {0} /\ got[r] \in Nat /\ got[r] < Len(p.slots)
         /\ \A x \in Parts(r) : x.dir = "recv" \/ x.peer = p.peer => x = p
         /\ Pos(r, p.peer) = Base(r, p.peer) /\ Base(r, p.peer) \in Nat
         /\ Read(r, p.peer) = Sent(p.peer, r, Base(r, p.peer)) + got[r]
         /\ Sent(p.peer, r, Base(r, p.peer)) \in Nat
         /\ Sent(p.peer, r, Base(r, p.peer) + 1)
              = Sent(p.peer, r, Base(r, p.peer)) + Len(p.slots)
         /\ Sent(r, p.peer, Base(r, p.peer) + 1) = Sent(r, p.peer, Base(r, p.peer))
         /\ \A i \in 1 .. Len(p.slots) :
              SentChunks[setup][p.peer][r][Sent(p.peer, r, Base(r, p.peer)) + i]
                = [call |-> calls[r], pos |-> i, of |-> Len(p.slots)]
<1> DEFINE a == p.peer
           l == Len(p.slots)
           B == Base(r, a)
           j == B + 1
           M == Messages[setup][a][r]
           T == Messages[setup][r][a]
<1>1. /\ up[r] /\ InCall(r) /\ Sound(r) /\ a \in Ranks \ {r} /\ l \in Nat \ {0}
      /\ \A x \in Parts(r) : x.dir = "recv" \/ x.peer = a => x = p
      /\ Paired /\ setup \in Setups
  BY InStep, StepFacts, SetupFacts
<1>2. got[r] \in Nat /\ got[r] < l
  BY DEF StreamInv, Shapes, RankInv
<1>3. B \in Nat /\ j \in 1 .. Len(T) /\ T[j] = [dir |-> "recv", len |-> l, call |-> calls[r]]
  <2>1. /\ Base(r, a) \in Nat
        /\ \A x \in Parts(r) : x.peer = a =>
             /\ Base(r, a) + 1 \in 1 .. Len(T)
             /\ T[Base(r, a) + 1] = [dir |-> x.dir, len |-> Len(x.slots), call |-> calls[r]]
    BY <1>1, BaseFacts
  <2>2. QED
    BY <2>1
<1>4. Pos(r, a) = B
  <2>1. Beyond(a, part[r]) = 0
    BY <1>1 DEF Beyond, Through, Parts
  <2>2. QED
    BY <1>1, <1>3, <2>1, PosForms
<1>5. Read(r, a) = Sent(a, r, B) + got[r]
  <2>1. Partly(a, part[r], got[r]) = got[r]
    BY DEF Partly, Parts
  <2>2. QED
    BY <1>4, <2>1, PosForms
<1>6. /\ j \in 1 .. Len(M) /\ M[j].dir = "send" /\ M[j].len = l /\ T[j].dir = "recv"
      /\ M[j].call = calls[r]
  <2>1. Sides(T, M)
    BY <1>1, SidesFacts
  <2>2. /\ Len(T) = Len(M) /\ T[j].len = M[j].len /\ T[j].dir # M[j].dir
        /\ T[j].call = M[j].call
    BY <1>3, <2>1 DEF Sides
  <2>3. SendsOf(M, SendsUpto[setup][a][r], SentChunks[setup][a][r])
    BY <1>1, SendsFacts
  <2>4. T[j].dir = "recv" /\ T[j].len = l /\ T[j].call = calls[r]
    BY <1>3
  <2>5. j \in 1 .. Len(M)
    BY <1>3, <2>2
  <2> HIDE DEF M, j, T
  <2>6. M[j].dir \in {"send", "recv"}
    BY <2>3, <2>5 DEF SendsOf
  <2>7. QED
    BY <2>2, <2>4, <2>5, <2>6
<1>7. j - 1 = B /\ B \in 0 .. Len(M)
  <2>1. j \in 1 .. Len(M) /\ Len(M) \in Nat
    BY <1>1, <1>6, SendsTypes
  <2> HIDE DEF M, B
  <2>2. QED
    BY <1>3, <2>1
<1>8. Sent(a, r, j) = Sent(a, r, B) + l /\ Sent(a, r, B) \in Nat
  <2> DEFINE u == SendsUpto[setup][a][r]
  <2>1. SendsOf(M, u, SentChunks[setup][a][r])
    BY <1>1, SendsFacts
  <2> HIDE DEF M, u, B, j
  <2>2. Len(u[j]) = Len(u[B]) + l /\ Len(u[B]) \in Nat
    BY <1>6, <1>7, <2>1 DEF SendsOf
  <2>3. QED
    BY <2>2 DEF Sent, u
<1>9. Sent(r, a, j) = Sent(r, a, B)
  <2> DEFINE u == SendsUpto[setup][r][a]
  <2>1. SendsOf(T, u, SentChunks[setup][r][a])
    BY <1>1, SendsFacts
  <2>2. j \in 1 .. Len(T)
    BY <1>3
  <2> HIDE DEF T, u, B, j
  <2>3. Len(u[j]) = Len(u[B])
    BY <1>6, <1>7, <2>1, <2>2 DEF SendsOf
  <2>4. QED
    BY <2>3 DEF Sent, u
<1>10. ASSUME NEW i \in 1 .. l
       PROVE  SentChunks[setup][a][r][Sent(a, r, B) + i] = [call |-> calls[r], pos |-> i, of |-> l]
  <2> DEFINE u == SendsUpto[setup][a][r]
             U == SentChunks[setup][a][r]
  <2>1. SendsOf(M, u, U)
    BY <1>1, SendsFacts
  <2> HIDE DEF M, u, U, B, j, l
  <2>2. U[Len(u[B]) + i] = [call |-> calls[r], pos |-> i, of |-> l]
    BY <1>6, <1>7, <2>1 DEF SendsOf
  <2>3. QED
    BY <2>2 DEF Sent, u, U
<1>11. QED
  BY <1>1, <1>2, <1>3, <1>4, <1>5, <1>8, <1>9, <1>10

(* A Recv reads a chunk, which ends the message or does not.                *)
LEMMA RecvStep ==
  ASSUME StreamInv, NEW r \in Ranks, NEW a \in Ranks \ {r}, Sound(r), Shown(r), link[a][r] # <<>>,
         link' = [link EXCEPT ![a][r] = Tail(@)],
         \A x \in Ranks \ {r} : Kept(x),
         Sound(r)' =>
           /\ \A q \in Ranks \ {r} : q # a => Pos(r, q)' = Pos(r, q) /\ Read(r, q)' = Read(r, q)
           /\ Pos(r, a)' \in {Pos(r, a), Pos(r, a) + 1}
           /\ Read(r, a)' = Read(r, a) + 1
           /\ Sent(r, a, Pos(r, a)') = Sent(r, a, Pos(r, a))
  PROVE  StreamInv'
<1>1. setup' = setup
  BY DEF Shown
<1>2. ASSUME NEW q \in Ranks \ {r}
      PROVE  /\ (Sound(q)' <=> Sound(q))
             /\ Pos(q, r)' = Pos(q, r) /\ Read(q, r)' = Read(q, r)
  BY <1>1, KeptRank
<1>3. /\ DOMAIN link = Ranks /\ \A x \in Ranks : DOMAIN link[x] = Ranks
      /\ Dense(link[a][r])
  BY DEF StreamInv, Shapes
<1>4. /\ link'[a][r] = Tail(link[a][r])
      /\ \A x, y \in Ranks : ~(x = a /\ y = r) => link'[x][y] = link[x][y]
  BY <1>3
<1>5. ASSUME NEW q \in Ranks \ {r}, Sound(q) PROVE PairInv(r, q)'
  <2>1. PairInv(r, q) /\ link'[r][q] = link[r][q]
    BY <1>4, <1>5 DEF StreamInv
  <2>2. Sound(r)' => Len(SendsUpto[setup][r][q][Pos(r, q)']) = Len(SendsUpto[setup][r][q][Pos(r, q)])
    BY DEF Sent
  <2>3. QED
    BY <1>1, <1>2, <2>1, <2>2, QuietPair
<1>6. ASSUME Sound(r)', NEW q \in Ranks \ {r} PROVE PairInv(q, r)'
  <2>1. PairInv(q, r)
    BY DEF StreamInv
  <2>2. CASE q # a
    <3>1. link'[q][r] = link[q][r]
      BY <1>4, <2>2
    <3>2. QED
      BY <1>1, <1>2, <1>6, <2>1, <2>2, <3>1, QuietPair
  <2>3. CASE q = a
    <3> DEFINE R == Read(r, a)
               P == Pos(r, a)
               P2 == Pos(r, a)'
               ln == link[a][r]
    <3>1. Flow(setup, a, r, R, P, ln, Sound(a), Pos(a, r))
      BY <2>1, <2>3, PairForm
    <3>2. R \in Nat /\ P \in Nat /\ P2 \in {P, P + 1}
      BY <1>6, PosType
    <3>3. ln \in Seq({ln[i] : i \in DOMAIN ln}) /\ ln # <<>>
      BY <1>3 DEF Dense
    <3> HIDE DEF R, P, P2, ln
    <3>4. Flow(setup, a, r, R + 1, P2, Tail(ln), Sound(a), Pos(a, r))
      BY <3>1, <3>2, <3>3, FlowRead
    <3>5. Flow(setup, a, r, R + 1, P2, Tail(ln), Sound(a)', Pos(a, r))
      BY <1>2, <3>4, FlowQuiet
    <3>6. Flow(setup', a, r, Read(r, a)', Pos(r, a)', link'[a][r], Sound(a)', Pos(a, r)')
      BY <1>1, <1>2, <1>4, <1>6, <3>5 DEF R, P2, ln
    <3>7. QED
      BY <2>3, <3>6, PairFormNext
  <2>4. QED
    BY <2>2, <2>3
<1>7. QED
  BY <1>5, <1>6, Assemble

LEMMA RecvChunkKeeps ==
  ASSUME StreamInv, NEW r \in Ranks, RecvChunk(r)
  PROVE  StreamInv' /\ ReadsOn(r)
<1>1. PICK p \in Parts(r) :
        /\ p.dir = "recv" /\ part[r][p] = "todo" /\ link[p.peer][r] # <<>>
        /\ link' = [link EXCEPT ![p.peer][r] = Tail(@)]
        /\ \E m : IF got[r] + 1 < Len(p.slots)
                  THEN /\ got' = [got EXCEPT ![r] = @ + 1]
                       /\ mem' = [mem EXCEPT ![r] = m]
                       /\ UNCHANGED <<pc, part, results>>
                  ELSE /\ got' = [got EXCEPT ![r] = 0]
                       /\ EndPart(r, p, TRUE, m)
        /\ UNCHANGED <<setup, calls, up, crashed>>
  BY DEF RecvChunk
<1> DEFINE a == p.peer
           l == Len(p.slots)
           g == got[r]
           B == Base(r, a)
           S == Sent(a, r, B)
           o == Outcome(r, p, TRUE)
<1>2. /\ up[r] /\ InCall(r) /\ Sound(r) /\ a \in Ranks \ {r}
      /\ l \in Nat \ {0} /\ g \in Nat /\ g < l
      /\ \A x \in Parts(r) : x.dir = "recv" \/ x.peer = a => x = p
      /\ Pos(r, a) = B /\ B \in Nat /\ Read(r, a) = S + g /\ S \in Nat
      /\ Sent(a, r, B + 1) = S + l
      /\ Sent(r, a, B + 1) = Sent(r, a, B)
  BY <1>1, RecvFacts
<1>3. /\ RankInv(r) /\ RankType(r) /\ DOMAIN part = Ranks /\ DOMAIN mem = Ranks
      /\ pc \in [Ranks -> Nat] /\ results \in [Ranks -> Seq(BOOLEAN)] /\ got \in [Ranks -> Nat]
      /\ DOMAIN link = Ranks /\ \A x \in Ranks : DOMAIN link[x] = Ranks
      /\ \A x, y \in Ranks : Dense(link[x][y])
      /\ HalfDuplex /\ Closed
  BY TypeParts DEF StreamInv, Shapes
<1>4. /\ DOMAIN link' = Ranks /\ \A x \in Ranks : DOMAIN link'[x] = Ranks
      /\ link'[a][r] = Tail(link[a][r])
      /\ \A x, y \in Ranks : ~(x = a /\ y = r) => link'[x][y] = link[x][y]
  BY <1>1, <1>2, <1>3
<1>5. \A x, y \in Ranks : Dense(link'[x][y])
  <2>1. Dense(Tail(link[a][r]))
    BY <1>1, <1>2, <1>3, TailDense
  <2>2. QED
    BY <1>3, <1>4, <2>1
<1>6. HalfDuplex'
  <2>1. SUFFICES ASSUME NEW x \in Ranks, NEW y \in Ranks, x # y
                 PROVE  link'[x][y] = <<>> \/ link'[y][x] = <<>>
    BY DEF HalfDuplex
  <2>2. link[x][y] = <<>> \/ link[y][x] = <<>>
    BY <1>3, <2>1 DEF HalfDuplex
  <2>3. CASE (x = a /\ y = r) \/ (x = r /\ y = a)
    <3>1. link[r][a] = <<>>
      BY <1>1, <2>2, <2>3
    <3>2. link'[r][a] = link[r][a]
      BY <1>2, <1>4
    <3>3. QED
      BY <2>3, <3>1, <3>2
  <2>4. CASE ~(x = a /\ y = r) /\ ~(x = r /\ y = a)
    BY <1>4, <2>2, <2>4
  <2>5. QED
    BY <2>3, <2>4
<1>7. /\ \A x, y \in Ranks \ {r} : link'[x][y] = link[x][y]
      /\ Closed'
  <2>1. ASSUME NEW x \in Ranks, NEW y \in Ranks, x = y \/ ~up[y]
        PROVE  link'[x][y] = <<>>
    <3>1. link'[x][y] = link[x][y]
      BY <1>2, <1>4, <2>1
    <3>2. QED
      BY <1>3, <2>1, <3>1 DEF Closed
  <2>2. QED
    BY <1>1, <1>4, <2>1 DEF Closed
<1> HIDE DEF a, l, g, B, S, o
<1>8. CASE g + 1 < l
  <2>1. /\ got' = [got EXCEPT ![r] = @ + 1] /\ pc' = pc /\ part' = part /\ results' = results
        /\ DOMAIN mem' = Ranks
    <3>1. PICK m : /\ got' = [got EXCEPT ![r] = @ + 1] /\ mem' = [mem EXCEPT ![r] = m]
                   /\ UNCHANGED <<pc, part, results>>
      BY <1>1, <1>8 DEF g, l
    <3>2. QED
      BY <1>3, <3>1
  <2>2. got'[r] = g + 1 /\ got' \in [Ranks -> Nat] /\ \A x \in Ranks \ {r} : got'[x] = got[x]
    BY <1>2, <1>3, <2>1 DEF g
  <2>3. \A x \in Ranks \ {r} : Kept(x)
    BY <1>1, <2>1, <2>2 DEF Kept
  <2>4. Parts(r)' = Parts(r) /\ Code(r)' = Code(r) /\ (InCall(r)' <=> InCall(r)) /\ Sound(r)'
    BY <1>1, <1>2, <2>1 DEF Parts, Code, ProgramOf, InCall, Sound
  <2>5. RankType(r)'
    BY <1>1, <1>3, <2>1, <2>4 DEF RankType
  <2>6. RankInv(r)'
    <3>1. \A x \in Parts(r) : x.dir = "recv" => g + 1 < Len(x.slots)
      BY <1>2, <1>8 DEF l
    <3>2. ~\A x \in Parts(r) : x.dir = "recv" => part[r][x] # "todo"
      BY <1>1
    <3>3. QED
      BY <1>1, <1>2, <1>3, <2>1, <2>2, <2>4, <3>1, <3>2 DEF RankInv
  <2>7. ASSUME NEW q PROVE Pos(r, q)' = Pos(r, q)
    BY <1>1, <2>1, <2>4 DEF Pos
  <2>8. ASSUME NEW q
        PROVE  Read(r, q)' = Sent(q, r, Pos(r, q)) + Partly(q, part[r], g + 1)
    BY <1>1, <2>1, <2>2, <2>4, <2>7 DEF Read, Sent, Partly, Parts
  <2>9. ASSUME NEW q \in Ranks \ {r}, q # a PROVE Read(r, q)' = Read(r, q)
    <3>1. Partly(q, part[r], g + 1) = 0 /\ Partly(q, part[r], got[r]) = 0
      BY <1>2, <2>9 DEF Partly, Parts, a
    <3>2. QED
      BY <2>8, <3>1, PosForms
  <2>10. Read(r, a)' = Read(r, a) + 1
    <3>1. Partly(a, part[r], g + 1) = g + 1
      BY <1>1 DEF Partly, Parts, a
    <3>2. Read(r, a)' = S + (g + 1)
      BY <1>2, <2>8, <3>1 DEF S
    <3>3. QED
      BY <1>2, <3>2
  <2>11. Shown(r)
    BY <1>1, <1>3, <1>4, <1>5, <1>6, <1>7, <2>1, <2>2, <2>5, <2>6, ShownEasily
  <2>12. link[a][r] # <<>> /\ link' = [link EXCEPT ![a][r] = Tail(@)]
    BY <1>1 DEF a
  <2>13. /\ \A q \in Ranks \ {r} : q # a => Pos(r, q)' = Pos(r, q) /\ Read(r, q)' = Read(r, q)
         /\ Pos(r, a)' \in {Pos(r, a), Pos(r, a) + 1}
         /\ Read(r, a)' = Read(r, a) + 1
         /\ Sent(r, a, Pos(r, a)') = Sent(r, a, Pos(r, a))
    BY <2>7, <2>9, <2>10
  <2>14. ReadsOn(r)
    BY <1>1, <1>2, <1>4, <2>9, <2>10 DEF ReadsOn, a
  <2>15. QED
    BY <1>2, <2>3, <2>11, <2>12, <2>13, <2>14, RecvStep
<1>9. CASE ~(g + 1 < l)
  <2>1. got' = [got EXCEPT ![r] = 0] /\ \E m : EndPart(r, p, TRUE, m)
    BY <1>1, <1>9 DEF g, l
  <2>2. got'[r] = 0 /\ got' \in [Ranks -> Nat] /\ \A x \in Ranks \ {r} : got'[x] = got[x]
    BY <1>3, <2>1
  <2>3. DOMAIN o = Parts(r) /\ o[p] = "done" /\ \A x \in Parts(r) : x # p => o[x] = part[r][x]
    BY DEF Outcome, Parts, o
  <2>4. \A x \in Parts(r) : x.dir = "recv" => o[x] = "done"
    BY <1>2, <2>3
  <2>5. GotFits(o, got'[r])
    BY <2>2, <2>3, <2>4 DEF GotFits
  <2>6. Landed(r, o) /\ DOMAIN mem' = Ranks
    BY <1>1, <2>1, <2>5, Lands DEF o
  <2>7. \A x \in Ranks \ {r} : Kept(x)
    BY <1>1, <2>2, <2>6 DEF Kept, Landed
  <2>8. Shown(r)
    BY <1>1, <1>3, <1>4, <1>5, <1>6, <1>7, <2>2, <2>6, ShownEasily DEF Landed
  <2>9. ASSUME NEW q PROVE Partly(q, o, got'[r]) = 0
    BY <2>2 DEF Partly
  <2>10. ASSUME Sound(r)', NEW q \in Ranks \ {r}, q # a
         PROVE  Pos(r, q)' = Pos(r, q) /\ Read(r, q)' = Read(r, q)
    <3>1. Beyond(q, o) = Beyond(q, part[r])
      BY <2>3, <2>10 DEF Beyond, Parts, a
    <3>2. Pos(r, q)' = Pos(r, q)
      BY <1>2, <2>6, <2>10, <3>1, PosForms DEF Landed
    <3>3. Partly(q, part[r], got[r]) = 0
      BY <1>2, <2>10 DEF Partly, Parts, a
    <3>4. QED
      BY <2>6, <2>9, <2>10, <3>2, <3>3, PosForms DEF Landed
  <2>11. ASSUME Sound(r)' PROVE Pos(r, a)' = B + 1 /\ Read(r, a)' = Read(r, a) + 1
    <3>1. Beyond(a, o) = 1
      BY <1>1, <2>3 DEF Beyond, Through, a
    <3>2. Pos(r, a)' = B + 1
      BY <1>2, <2>6, <2>11, <3>1 DEF Landed, B
    <3>3. Read(r, a)' = Sent(a, r, B + 1) + 0
      BY <1>2, <2>6, <2>9, <2>11, <3>2 DEF Landed
    <3>4. l = g + 1
      BY <1>2, <1>9
    <3>5. QED
      BY <1>2, <3>2, <3>3, <3>4
  <2>12. link[a][r] # <<>> /\ link' = [link EXCEPT ![a][r] = Tail(@)]
    BY <1>1 DEF a
  <2>13. Sound(r)' =>
           /\ \A q \in Ranks \ {r} : q # a => Pos(r, q)' = Pos(r, q) /\ Read(r, q)' = Read(r, q)
           /\ Pos(r, a)' \in {Pos(r, a), Pos(r, a) + 1}
           /\ Read(r, a)' = Read(r, a) + 1
           /\ Sent(r, a, Pos(r, a)') = Sent(r, a, Pos(r, a))
    BY <1>2, <2>10, <2>11
  <2>14. ReadsOn(r)
    BY <1>1, <1>2, <1>4, <2>10, <2>11 DEF ReadsOn, a
  <2>15. QED
    BY <1>2, <2>7, <2>8, <2>12, <2>13, <2>14, RecvStep
<1>10. QED
  BY <1>8, <1>9

(* A Recv from a rank that is gone, whose stream is read to the end.        *)
LEMMA FailRecvKeeps ==
  ASSUME StreamInv, NEW r \in Ranks, FailRecv(r)
  PROVE  StreamInv' /\ ReadsOn(r)
<1>1. PICK p \in Parts(r) :
        /\ p.dir = "recv" /\ part[r][p] = "todo"
        /\ ~up[p.peer] /\ link[p.peer][r] = <<>>
        /\ got' = [got EXCEPT ![r] = 0]
        /\ EndPart(r, p, FALSE, mem[r])
        /\ UNCHANGED <<setup, calls, up, crashed, link>>
  BY DEF FailRecv
<1> DEFINE a == p.peer
           g == got[r]
           B == Base(r, a)
           S == Sent(a, r, B)
           o == Outcome(r, p, FALSE)
<1>2. /\ up[r] /\ InCall(r) /\ Sound(r) /\ a \in Ranks \ {r} /\ g \in Nat
      /\ \A x \in Parts(r) : x.dir = "recv" \/ x.peer = a => x = p
      /\ Pos(r, a) = B /\ B \in Nat /\ Read(r, a) = S + g /\ S \in Nat
  BY <1>1, RecvFacts
<1>3. /\ got \in [Ranks -> Nat] /\ HalfDuplex /\ Closed
      /\ DOMAIN link = Ranks /\ \A x \in Ranks : DOMAIN link[x] = Ranks
      /\ \A x, y \in Ranks : Dense(link[x][y])
  BY DEF StreamInv, Shapes
<1> HIDE DEF a, g, B, S, o
<1>4. got'[r] = 0 /\ got' \in [Ranks -> Nat] /\ \A x \in Ranks \ {r} : got'[x] = got[x]
  BY <1>1, <1>3
<1>5. DOMAIN o = Parts(r) /\ o[p] = "failed" /\ \A x \in Parts(r) : x # p => o[x] = part[r][x]
  BY DEF Outcome, Parts, o
<1>6. \A x \in Parts(r) : x.dir = "recv" => o[x] = "failed"
  BY <1>2, <1>5
<1>7. GotFits(o, got'[r])
  BY <1>4, <1>5, <1>6 DEF GotFits
<1>8. Landed(r, o) /\ DOMAIN mem' = Ranks
  BY <1>1, <1>7, Lands DEF o
<1>9. \A x \in Ranks \ {r} : Kept(x)
  BY <1>1, <1>4, <1>8 DEF Kept, Landed
<1>10. HalfDuplex' /\ Closed'
  BY <1>1, <1>3 DEF HalfDuplex, Closed
<1>11. Shown(r)
  BY <1>1, <1>3, <1>4, <1>8, <1>10, ShownEasily DEF Landed
<1>12. ASSUME NEW q PROVE Partly(q, o, got'[r]) = 0 /\ Beyond(q, o) = Beyond(q, part[r])
  <2>1. Partly(q, o, got'[r]) = 0
    BY <1>4 DEF Partly
  <2>2. \A x \in Parts(r) : Through(x, o[x]) <=> Through(x, part[r][x])
    BY <1>1, <1>5 DEF Through
  <2>3. QED
    BY <1>5, <2>1, <2>2 DEF Beyond, Parts
<1>13. ASSUME Sound(r)', NEW q \in Ranks \ {r}
       PROVE  Pos(r, q)' = Pos(r, q) /\ Read(r, q)' = Sent(q, r, Pos(r, q)) + 0
  <2>1. Pos(r, q)' = Pos(r, q)
    BY <1>2, <1>8, <1>12, <1>13, PosForms DEF Landed
  <2>2. QED
    BY <1>8, <1>12, <1>13, <2>1 DEF Landed
<1>14. ASSUME NEW q \in Ranks \ {r}
       PROVE  /\ (Sound(q)' <=> Sound(q))
              /\ Pos(q, r)' = Pos(q, r) /\ Read(q, r)' = Read(q, r)
  BY <1>1, <1>9, KeptRank
<1>15. ASSUME NEW q \in Ranks \ {r}, Sound(q) PROVE PairInv(r, q)'
  <2>1. PairInv(r, q)
    BY <1>15 DEF StreamInv
  <2>2. QED
    BY <1>1, <1>2, <1>13, <1>14, <2>1, QuietPair
<1>16. ASSUME Sound(r)', NEW q \in Ranks \ {r} PROVE PairInv(q, r)'
  <2>1. PairInv(q, r)
    BY <1>2 DEF StreamInv
  <2>2. CASE q # a
    <3>1. Partly(q, part[r], got[r]) = 0
      BY <1>2, <2>2 DEF Partly, Parts, a
    <3>2. Read(r, q)' = Read(r, q) /\ Pos(r, q)' = Pos(r, q)
      BY <1>13, <1>16, <3>1, PosForms
    <3>3. QED
      BY <1>1, <1>14, <2>1, <3>2, QuietPair
  <2>3. CASE q = a
    <3> DEFINE R == Read(r, a)
               P == Pos(r, a)
    <3>1. Flow(setup, a, r, R, P, <<>>, Sound(a), Pos(a, r)) /\ ~Sound(a)
      BY <1>1, <2>1, <2>3, PairForm DEF a, Sound
    <3>2. Read(r, a)' = S /\ P = Pos(r, a)' /\ R = S + g
      BY <1>2, <1>13, <1>16, <2>3 DEF S
    <3>3. Paired /\ setup \in Setups /\ P \in Nat
      BY <1>2, SetupFacts
    <3>4. /\ Len(SentChunks[setup][a][r]) \in Nat
          /\ Len(Messages[setup][a][r]) \in Nat
          /\ \A m \in 0 .. Len(Messages[setup][a][r]) : Len(SendsUpto[setup][a][r][m]) \in Nat
      BY <1>2, <3>3, SendsTypes
    <3>5. Len(<<>>) = 0
      OBVIOUS
    <3> HIDE DEF R, P
    <3>6. Flow(setup, a, r, S, P, <<>>, Sound(a)', Pos(a, r))
      <4> DEFINE U == Len(SentChunks[setup][a][r])
                 M == Messages[setup][a][r]
                 F(m) == Len(SendsUpto[setup][a][r][m])
      <4>1. /\ R + 0 <= U
            /\ \A m \in (P + 1) .. Len(M) : M[m].dir = "recv" => R + 0 <= F(m)
        BY <3>1, <3>5 DEF Flow
      <4>2. S <= R /\ R \in Nat /\ S + 0 = S /\ R + 0 = R
        BY <1>2, <3>2
      <4> HIDE DEF U, M, F
      <4>3. U \in Nat /\ \A m \in 0 .. Len(M) : F(m) \in Nat
        BY <3>4 DEF U, M, F
      <4>4. S + 0 <= U
        BY <1>2, <4>1, <4>2, <4>3
      <4>5. ASSUME NEW m \in (P + 1) .. Len(M), M[m].dir = "recv" PROVE S + 0 <= F(m)
        <5>1. R <= F(m) /\ F(m) \in Nat
          BY <3>3, <3>4, <4>1, <4>2, <4>3, <4>5 DEF M
        <5>2. QED
          BY <1>2, <4>2, <5>1
      <4>6. ~Sound(a)'
        BY <1>2, <1>14, <3>1
      <4>7. QED
        BY <3>5, <4>4, <4>5, <4>6 DEF Flow, U, M, F
    <3>7. QED
      BY <1>1, <1>14, <2>3, <3>2, <3>6, PairFormNext DEF a
  <2>4. QED
    BY <2>2, <2>3
<1>17. ReadsOn(r)
  <2>1. ASSUME Sound(r)', NEW q \in Ranks \ {r}, q # a PROVE Read(r, q)' = Read(r, q)
    <3>1. Partly(q, part[r], got[r]) = 0
      BY <1>2, <2>1 DEF Partly, Parts, a
    <3>2. QED
      BY <1>13, <2>1, <3>1, PosForms
  <2>2. link' = link /\ link'[a][r] = <<>>
    BY <1>1 DEF a
  <2>3. QED
    BY <2>1, <2>2 DEF ReadsOn
<1>18. QED
  BY <1>9, <1>11, <1>15, <1>16, <1>17, Assemble

LEMMA DenseSize ==
  ASSUME NEW s, Dense(s)
  PROVE  Len(s) \in Nat
<1> DEFINE V == {s[i] : i \in DOMAIN s}
<1>1. s \in Seq(V)
  BY DEF Dense
<1> HIDE DEF V
<1>2. QED
  BY <1>1

LEMMA CutDense ==
  ASSUME NEW s, Dense(s), NEW k \in 0 .. Len(s)
  PROVE  Dense(SubSeq(s, 1, k)) /\ Len(s) \in Nat
<1> DEFINE V == {s[i] : i \in DOMAIN s}
<1>1. s \in Seq(V)
  BY DEF Dense
<1> HIDE DEF V
<1>2. Len(s) \in Nat /\ SubSeq(s, 1, k) \in Seq(V)
  BY <1>1
<1>3. Dense(SubSeq(s, 1, k))
  BY <1>2, DenseSeq
<1>4. QED
  BY <1>2, <1>3

(* The sockets of a rank that goes close.                                   *)
LEMMA GoneKeeps ==
  ASSUME StreamInv, NEW r \in Ranks, up[r], Gone(r), crashed' \in 0 .. setup.crashes
  PROVE  StreamInv'
<1>1. /\ up' = [up EXCEPT ![r] = FALSE] /\ part' = [part EXCEPT ![r] = <<>>]
      /\ got' = [got EXCEPT ![r] = 0] /\ CloseLinks(r)
      /\ UNCHANGED <<setup, calls, pc, mem, results>>
  BY DEF Gone
<1>2. PICK kept \in [Ranks -> UNION {0 .. Len(link[r][b]) : b \in Ranks}] :
        /\ \A b \in Ranks : kept[b] <= Len(link[r][b])
        /\ link' = [a \in Ranks |-> [b \in Ranks |->
                      IF a = r THEN SubSeq(link[r][b], 1, kept[b])
                      ELSE IF b = r THEN <<>> ELSE link[a][b]]]
  BY <1>1 DEF CloseLinks
<1>3. /\ RankInv(r) /\ RankType(r) /\ DOMAIN part = Ranks /\ DOMAIN mem = Ranks
      /\ pc \in [Ranks -> Nat] /\ results \in [Ranks -> Seq(BOOLEAN)] /\ got \in [Ranks -> Nat]
      /\ up \in [Ranks -> BOOLEAN] /\ calls \in [Ranks -> 0 .. Len(setup.work)]
      /\ \A x, y \in Ranks : Dense(link[x][y])
      /\ HalfDuplex /\ Closed
  BY TypeParts DEF StreamInv, Shapes
<1>4. \A b \in Ranks : kept[b] \in 0 .. Len(link[r][b]) /\ link[r][b] \in Seq({link[r][b][i] : i \in DOMAIN link[r][b]})
  <2>1. SUFFICES ASSUME NEW b \in Ranks
                 PROVE  kept[b] \in 0 .. Len(link[r][b])
                        /\ link[r][b] \in Seq({link[r][b][i] : i \in DOMAIN link[r][b]})
    OBVIOUS
  <2>2. link[r][b] \in Seq({link[r][b][i] : i \in DOMAIN link[r][b]})
    BY <1>3 DEF Dense
  <2>3. kept[b] \in Nat
    <3>1. kept[b] \in UNION {0 .. Len(link[r][c]) : c \in Ranks}
      BY <1>2
    <3>2. PICK c \in Ranks : kept[b] \in 0 .. Len(link[r][c])
      BY <3>1
    <3>3. QED
      BY <3>2
  <2> DEFINE n == Len(link[r][b])
  <2>4. n \in Nat
    BY <1>3, DenseSize
  <2>5. kept[b] <= n
    BY <1>2
  <2> HIDE DEF n
  <2>6. kept[b] \in 0 .. n
    BY <2>3, <2>4, <2>5
  <2>7. QED
    BY <2>2, <2>6 DEF n
<1>5. /\ DOMAIN link' = Ranks /\ \A x \in Ranks : DOMAIN link'[x] = Ranks
      /\ \A b \in Ranks : link'[r][b] = SubSeq(link[r][b], 1, kept[b])
      /\ \A x \in Ranks \ {r} : link'[x][r] = <<>>
      /\ \A x, y \in Ranks \ {r} : link'[x][y] = link[x][y]
  BY <1>2
<1>6. \A x, y \in Ranks : Dense(link'[x][y])
  <2>1. ASSUME NEW b \in Ranks PROVE Dense(link'[r][b])
    <3>1. Dense(link[r][b]) /\ kept[b] \in 0 .. Len(link[r][b])
      BY <1>3, <1>4
    <3>2. Dense(SubSeq(link[r][b], 1, kept[b]))
      BY <3>1, CutDense
    <3>3. QED
      BY <1>5, <3>2
  <2>2. Dense(<<>>)
    <3>1. <<>> \in Seq({})
      OBVIOUS
    <3>2. QED
      BY <3>1, DenseSeq
  <2>3. QED
    BY <1>3, <1>5, <2>1, <2>2
<1>7. HalfDuplex'
  <2>1. SUFFICES ASSUME NEW x \in Ranks, NEW y \in Ranks, x # y
                 PROVE  link'[x][y] = <<>> \/ link'[y][x] = <<>>
    BY DEF HalfDuplex
  <2>2. CASE x = r \/ y = r
    BY <1>5, <2>1, <2>2
  <2>3. CASE x # r /\ y # r
    <3>1. link[x][y] = <<>> \/ link[y][x] = <<>>
      BY <1>3, <2>1 DEF HalfDuplex
    <3>2. link'[x][y] = link[x][y] /\ link'[y][x] = link[y][x]
      BY <1>5, <2>3
    <3>3. QED
      BY <3>1, <3>2
  <2>4. QED
    BY <2>2, <2>3
<1>8. /\ part'[r] = <<>> /\ ~up'[r] /\ got'[r] = 0 /\ Parts(r)' = {}
      /\ up' \in [Ranks -> BOOLEAN] /\ got' \in [Ranks -> Nat] /\ DOMAIN part' = Ranks
      /\ \A x \in Ranks \ {r} : Kept(x)
  <2>1. part'[r] = <<>> /\ ~up'[r] /\ got'[r] = 0
    BY <1>1, <1>3
  <2>2. Parts(r)' = {}
    BY <2>1, EmptyParts DEF Parts
  <2>3. up' \in [Ranks -> BOOLEAN] /\ got' \in [Ranks -> Nat] /\ DOMAIN part' = Ranks
    BY <1>1, <1>3
  <2>4. \A x \in Ranks \ {r} : Kept(x)
    BY <1>1, <1>3 DEF Kept
  <2>5. QED
    BY <2>1, <2>2, <2>3, <2>4
<1>9. (InCall(r)' <=> InCall(r)) /\ Code(r)' = Code(r) /\ ~Sound(r)'
  BY <1>1, <1>8 DEF InCall, Code, ProgramOf, Sound
<1>10. RankType(r)'
  BY <1>1, <1>3, <1>8, <1>9 DEF RankType
<1>11. RankInv(r)'
  BY <1>1, <1>3, <1>8, <1>9 DEF RankInv
<1>12. Shown(r)
  <2>1. \A x, y \in Ranks : Dense(link[x][y])'
    BY <1>6 DEF Dense
  <2>2. Shapes'
    BY <1>1, <1>3, <1>5, <1>8, <2>1 DEF Shapes
  <2>3. Closed'
    <3>1. SUFFICES ASSUME NEW x \in Ranks, NEW y \in Ranks, x = y \/ ~up'[y]
                   PROVE  link'[x][y] = <<>>
      BY DEF Closed
    <3>2. CASE y = r /\ x # r
      BY <1>5, <3>2
    <3>3. CASE y # r /\ x # r
      <4>1. link[x][y] = <<>>
        BY <1>3, <1>8, <3>1, <3>3 DEF Closed, Kept
      <4>2. QED
        BY <1>5, <3>3, <4>1
    <3>4. CASE x = r
      <4>1. link[r][y] = <<>>
        BY <1>3, <1>8, <3>1, <3>4 DEF Closed, Kept
      <4>2. Len(<<>>) = 0
        OBVIOUS
      <4>3. kept[y] = 0
        <5>1. kept[y] \in 0 .. Len(link[r][y])
          BY <1>4
        <5>2. kept[y] \in 0 .. 0
          BY <4>1, <4>2, <5>1
        <5>3. QED
          BY <5>2
      <4>4. SubSeq(<<>>, 1, 0) = <<>>
        OBVIOUS
      <4>5. QED
        BY <1>5, <3>4, <4>1, <4>3, <4>4
    <3>5. QED
      BY <3>2, <3>3, <3>4
  <2>4. QED
    BY <1>1, <1>3, <1>5, <1>7, <1>8, <1>10, <1>11, <2>2, <2>3 DEF Shown
<1>13. ASSUME NEW q \in Ranks \ {r}, Sound(q) PROVE PairInv(r, q)'
  <2> DEFINE R == Read(q, r)
             P == Pos(q, r)
             ln == link[r][q]
             k == kept[q]
  <2>1. Flow(setup, r, q, R, P, ln, Sound(r), Pos(r, q))
    BY <1>13, PairForm DEF StreamInv
  <2>2. R \in Nat /\ P \in Nat
    BY <1>13, PosType
  <2>3. ln \in Seq({ln[i] : i \in DOMAIN ln}) /\ k \in 0 .. Len(ln)
    BY <1>4
  <2>4. Paired /\ setup \in Setups /\ setup' = setup
    BY <1>1, SetupFacts
  <2>5. Read(q, r)' = R /\ Pos(q, r)' = P
    BY <1>8, <2>4, KeptRank
  <2> HIDE DEF R, P, ln, k
  <2>6. Flow(setup, r, q, R, P, SubSeq(ln, 1, k), FALSE, Pos(r, q)')
    BY <2>1, <2>2, <2>3, <2>4, FlowLost
  <2>7. Flow(setup, r, q, R, P, SubSeq(ln, 1, k), Sound(r)', Pos(r, q)')
    BY <1>9, <2>6 DEF Flow
  <2>8. QED
    BY <1>5, <2>4, <2>5, <2>7, PairFormNext DEF ln, k
<1>14. QED
  BY <1>8, <1>9, <1>12, <1>13, Assemble

-----------------------------------------------------------------------------
LEMMA InitStreams ==
  ASSUME Paired, Init
  PROVE  StreamInv
<1>1. /\ setup \in Setups /\ calls = [r \in Ranks |-> 0] /\ pc = [r \in Ranks |-> 0]
      /\ part = [r \in Ranks |-> <<>>] /\ got = [r \in Ranks |-> 0]
      /\ DOMAIN mem = Ranks /\ results = [r \in Ranks |-> <<>>] /\ up = [r \in Ranks |-> TRUE]
      /\ crashed = 0 /\ link = [a \in Ranks |-> [b \in Ranks |-> <<>>]]
  BY DEF Init
<1>2. Len(setup.work) \in Nat /\ setup.crashes \in Nat
  BY <1>1, CodeFacts, SetupsAssumption
<1>3. DOMAIN <<>> = {} /\ Len(<<>>) = 0 /\ <<>> \in Seq(BOOLEAN)
  OBVIOUS
<1>4. \A r \in Ranks : ~InCall(r) /\ Parts(r) = {} /\ calls[r] = 0 /\ results[r] = <<>> /\ got[r] = 0
  BY <1>1, <1>3 DEF InCall, Parts
<1>5. TypeOK
  <2>1. \A r \in Ranks : RankType(r)
    BY <1>3, <1>4 DEF RankType
  <2>2. calls \in [Ranks -> 0 .. Len(setup.work)] /\ up \in [Ranks -> BOOLEAN]
        /\ crashed \in 0 .. setup.crashes
    BY <1>1, <1>2
  <2>3. QED
    BY <1>1, <2>1, <2>2, TypeParts
<1>6. Shapes
  <2>1. Dense(<<>>)
    <3>1. <<>> \in Seq({})
      OBVIOUS
    <3>2. QED
      BY <3>1, DenseSeq
  <2>2. QED
    BY <1>1, <1>3, <2>1 DEF Shapes
<1>7. \A r \in Ranks : RankInv(r)
  <2>1. \A r \in Ranks : part[r] = <<>>
    BY <1>1
  <2>2. QED
    BY <1>4, <2>1 DEF RankInv
<1>8. ASSUME NEW a \in Ranks, NEW b \in Ranks, a # b PROVE PairInv(a, b)
  <2>1. Len(StoryUpto[setup][b][a][0]) = 0 /\ Len(StoryUpto[setup][a][b][0]) = 0
    BY <1>1, <1>3, StoryFacts
  <2>2. Pos(a, b) = 0 /\ Pos(b, a) = 0
    BY <1>4, <2>1, PosForms
  <2> DEFINE M == Messages[setup][a][b]
             u == SendsUpto[setup][a][b]
             U == SentChunks[setup][a][b]
  <2>3. SendsOf(M, u, U)
    BY <1>1, SendsFacts
  <2>4. link[a][b] = <<>>
    BY <1>1
  <2>5. Read(b, a) = Sent(a, b, 0) + 0
    BY <1>4, <2>2 DEF Read
  <2> HIDE DEF M, u, U
  <2>6. Len(u[0]) = 0 /\ Len(U) \in Nat /\ \A m \in 1 .. Len(M) : Len(u[m]) \in Nat
    BY <2>3 DEF SendsOf
  <2>7. Read(b, a) = 0
    BY <2>5, <2>6 DEF Sent, u
  <2>8. Flow(setup, a, b, 0, 0, <<>>, Sound(a), 0)
    <3>1. 0 + 0 <= Len(U)
      BY <2>6
    <3>2. \A m \in (0 + 1) .. Len(M) : 0 + 0 <= Len(u[m])
      BY <2>6
    <3>3. Len(u[0]) = 0 + 0
      BY <2>6
    <3>4. 1 .. 0 = {}
      OBVIOUS
    <3>5. QED
      BY <1>3, <3>1, <3>2, <3>3, <3>4 DEF Flow, M, u, U
  <2>9. QED
    BY <2>2, <2>4, <2>7, <2>8, PairForm
<1>9. HalfDuplex /\ Closed
  BY <1>1 DEF HalfDuplex, Closed
<1>10. QED
  BY <1>5, <1>6, <1>7, <1>8, <1>9 DEF StreamInv

LEMMA StutterKeeps ==
  ASSUME StreamInv, UNCHANGED vars
  PROVE  StreamInv'
<1>1. UNCHANGED <<setup, calls, pc, part, got, mem, results, up, crashed, link>>
  BY DEF vars
<1>2. PICK r \in Ranks : TRUE
  BY WorldSizeAssumption DEF Ranks
<1>3. \A x \in Ranks : Kept(x)
  BY <1>1 DEF Kept
<1>4. Shown(r)
  <2>1. RankType(r) /\ RankInv(r)
    BY TypeParts DEF StreamInv
  <2>2. RankType(r)' /\ RankInv(r)'
    BY <1>1, <1>3, <2>1, KeptRank
  <2>3. HalfDuplex' /\ Closed'
    BY <1>1 DEF StreamInv, HalfDuplex, Closed
  <2>4. /\ pc \in [Ranks -> Nat] /\ got \in [Ranks -> Nat]
        /\ DOMAIN part = Ranks /\ DOMAIN mem = Ranks /\ results \in [Ranks -> Seq(BOOLEAN)]
        /\ DOMAIN link = Ranks /\ \A a \in Ranks : DOMAIN link[a] = Ranks
        /\ \A a, b \in Ranks : Dense(link[a][b])
    BY DEF StreamInv, Shapes
  <2>5. QED
    BY <1>1, <2>2, <2>3, <2>4, ShownEasily
<1>5. Sound(r)' => /\ Sound(r)
                   /\ \A q \in Ranks \ {r} : Pos(r, q)' = Pos(r, q) /\ Read(r, q)' = Read(r, q)
  BY <1>1, <1>3, KeptRank
<1>6. QED
  BY <1>1, <1>3, <1>4, <1>5, QuietStep

LEMMA NextKeeps ==
  ASSUME StreamInv, [Next]_vars
  PROVE  StreamInv'
<1>1. ASSUME Next PROVE StreamInv'
  <2>1. PICK r \in Ranks : RankStep(r) \/ Crash(r) \/ BrokenPipe(r)
    BY <1>1 DEF Next
  <2>2. crashed \in 0 .. setup.crashes /\ setup.crashes \in Nat
    BY SetupsAssumption DEF StreamInv, TypeOK
  <2>3. CASE Call(r)
    BY <2>3, CallKeeps
  <2>4. CASE BeginSend(r)
    BY <2>4, BeginSendKeeps
  <2>5. CASE EndSend(r)
    BY <2>5, EndSendKeeps
  <2>6. CASE FailSend(r)
    BY <2>6, FailSendKeeps
  <2>7. CASE RecvChunk(r)
    BY <2>7, RecvChunkKeeps
  <2>8. CASE FailRecv(r)
    BY <2>8, FailRecvKeeps
  <2>9. CASE Finalize(r)
    BY <2>2, <2>9, GoneKeeps DEF Finalize
  <2>10. CASE Crash(r)
    BY <2>2, <2>10, GoneKeeps DEF Crash
  <2>11. CASE BrokenPipe(r)
    BY <2>2, <2>11, GoneKeeps DEF BrokenPipe
  <2>12. QED
    BY <2>1, <2>3, <2>4, <2>5, <2>6, <2>7, <2>8, <2>9, <2>10, <2>11 DEF RankStep
<1>2. QED
  BY <1>1, StutterKeeps

(* The chunk a Recv reads next is meant for it.                             *)
LEMMA HeadMatches == ASSUME StreamInv PROVE RecvMatchesSend
<1>1. SUFFICES ASSUME NEW r \in Ranks, NEW p \in Parts(r),
                      p.dir = "recv", part[r][p] = "todo", link[p.peer][r] # <<>>
               PROVE  LET unit == Head(link[p.peer][r])
                      IN  /\ unit.call = calls[r]
                          /\ unit.of = Len(p.slots)
                          /\ unit.pos = got[r] + 1
  BY DEF RecvMatchesSend
<1> DEFINE a == p.peer
           l == Len(p.slots)
           g == got[r]
           S == Sent(a, r, Base(r, a))
           ln == link[a][r]
           U == SentChunks[setup][a][r]
<1>2. /\ Sound(r) /\ a \in Ranks \ {r} /\ l \in Nat \ {0} /\ g \in Nat /\ g < l
      /\ Read(r, a) = S + g /\ S \in Nat
      /\ \A i \in 1 .. l : U[S + i] = [call |-> calls[r], pos |-> i, of |-> l]
  BY <1>1, RecvFacts
<1>3. Flow(setup, a, r, Read(r, a), Pos(r, a), ln, Sound(a), Pos(a, r)) /\ Dense(ln)
  BY <1>1, <1>2, PairForm DEF StreamInv, Shapes
<1>4. ln \in Seq({ln[i] : i \in DOMAIN ln}) /\ ln # <<>>
  BY <1>1, <1>3 DEF Dense
<1> HIDE DEF l, g, S, ln, U
<1>5. 1 \in 1 .. Len(ln) /\ Head(ln) = ln[1]
  BY <1>4
<1>6. [call |-> ln[1].call, pos |-> ln[1].pos, of |-> ln[1].of] = U[Read(r, a) + 1]
  BY <1>3, <1>5 DEF Flow, U
<1>7. Read(r, a) + 1 = S + (g + 1) /\ g + 1 \in 1 .. l
  BY <1>2
<1>8. U[Read(r, a) + 1] = [call |-> calls[r], pos |-> g + 1, of |-> l]
  BY <1>2, <1>7
<1>9. ln[1].call = calls[r] /\ ln[1].pos = g + 1 /\ ln[1].of = l
  BY <1>6, <1>8
<1>10. QED
  BY <1>5, <1>9 DEF ln, g, l

-----------------------------------------------------------------------------
(* Barrier: what a rank has been told when it comes to a step.               *)
(* The one transport call of each step of a Barrier.                        *)
BarrierLen(r) == IF OnRing THEN 4 ELSE IF r = 0 THEN 2 * (N - 1) ELSE 2
RingBarrierPart(r, k) ==
  IF r = 0 <=> k \in {1, 3} THEN SendPart(Next1(r), Ins(1)) ELSE RecvPart(Prev1(r), Ins(1))
MeshBarrierPart(r, k) ==
  IF r = 0 THEN IF k < N THEN RecvPart(k, Ins(1)) ELSE SendPart(k - (N - 1), Ins(1))
  ELSE IF k = 1 THEN SendPart(0, Ins(1)) ELSE RecvPart(0, Ins(1))
BarrierPart(r, k) == IF OnRing THEN RingBarrierPart(r, k) ELSE MeshBarrierPart(r, k)

LEMMA RingBarrierSteps ==
  ASSUME NEW r \in Ranks
  PROVE  /\ Len(RingBarrier(r).steps) = 4
         /\ \A k \in 1 .. 4 : RingBarrier(r).steps[k].parts = {RingBarrierPart(r, k)}
<1> DEFINE x == Send(Next1(r), Ins(1))
           y == Recv(Prev1(r), Ins(1))
           s == RingBarrier(r).steps
<1>1. s = IF r = 0 THEN <<x, y, x, y>> ELSE <<y, x, y, x>>
  BY DEF RingBarrier, Program
<1>2. x.parts = {SendPart(Next1(r), Ins(1))} /\ y.parts = {RecvPart(Prev1(r), Ins(1))}
  BY DEF Send, Recv, Step
<1> HIDE DEF x, y, s
<1>3. CASE r = 0
  <2>1. Len(s) = 4 /\ s[1] = x /\ s[2] = y /\ s[3] = x /\ s[4] = y
    BY <1>1, <1>3
  <2>2. ASSUME NEW k \in 1 .. 4 PROVE s[k].parts = {RingBarrierPart(r, k)}
    BY <1>2, <1>3, <2>1 DEF RingBarrierPart
  <2>3. QED
    BY <2>1, <2>2 DEF s
<1>4. CASE r # 0
  <2>1. Len(s) = 4 /\ s[1] = y /\ s[2] = x /\ s[3] = y /\ s[4] = x
    BY <1>1, <1>4
  <2>2. ASSUME NEW k \in 1 .. 4 PROVE s[k].parts = {RingBarrierPart(r, k)}
    BY <1>2, <1>4, <2>1 DEF RingBarrierPart
  <2>3. QED
    BY <2>1, <2>2 DEF s
<1>5. QED
  BY <1>3, <1>4

LEMMA MeshBarrierSteps ==
  ASSUME NEW r \in Ranks
  PROVE  LET n == IF r = 0 THEN 2 * (N - 1) ELSE 2
         IN  /\ Len(MeshBarrier(r).steps) = n
             /\ \A k \in 1 .. n : MeshBarrier(r).steps[k].parts = {MeshBarrierPart(r, k)}
<1> DEFINE hear(p) == Recv(p, Ins(1))
           answer(p) == Send(p, Ins(1))
           s == MeshBarrier(r).steps
           n == N - 1
           x == [i \in 1 .. n |-> hear(i)]
           y == [i \in 1 .. n |-> answer(i)]
<1>1. N \in Nat /\ N >= 2 /\ n \in Nat
  BY WorldSizeAssumption
<1>2. \A p : hear(p).parts = {RecvPart(p, Ins(1))} /\ answer(p).parts = {SendPart(p, Ins(1))}
  BY DEF Send, Recv, Step
<1>3. CASE r = 0
  <2>1. \A i \in 1 .. n : Peers(0)[i] = i
    BY <1>1 DEF Peers
  <2> DEFINE H == [i \in 1 .. n |-> <<hear(Peers(0)[i])>>]
             A == [i \in 1 .. n |-> <<answer(Peers(0)[i])>>]
  <2>2. s = Joined(H) \o Joined(A)
    BY <1>3 DEF MeshBarrier, Program, EachPeer
  <2> HIDE DEF hear, answer, s, n
  <2>3. H = [i \in 1 .. n |-> <<x[i]>>] /\ A = [i \in 1 .. n |-> <<y[i]>>]
    BY <2>1
  <2> DEFINE X == {hear(i) : i \in 1 .. n} \cup {answer(i) : i \in 1 .. n}
  <2>4. x \in [1 .. n -> X] /\ y \in [1 .. n -> X]
    OBVIOUS
  <2>5. (\A i \in 1 .. n : x[i] = hear(i)) /\ (\A i \in 1 .. n : y[i] = answer(i))
    OBVIOUS
  <2> HIDE DEF H, A, x, y, X
  <2>6. Joined(H) = x /\ Joined(A) = y
    BY <1>1, <2>3, <2>4, JoinedOnes
  <2>7. x \in Seq(X) /\ y \in Seq(X) /\ Len(x) = n /\ Len(y) = n
    BY <1>1, <2>4
  <2>8. Len(s) = n + n /\ \A k \in 1 .. n + n : s[k] = IF k <= n THEN x[k] ELSE y[k - n]
    <3>1. s = x \o y
      BY <2>2, <2>6
    <3> HIDE DEF X
    <3>2. /\ Len(x \o y) = Len(x) + Len(y)
          /\ \A k \in 1 .. (Len(x) + Len(y)) :
               (x \o y)[k] = IF k <= Len(x) THEN x[k] ELSE y[k - Len(x)]
      BY <2>7, ConcatProperties
    <3>3. QED
      BY <2>7, <3>1, <3>2
  <2>9. n + n = 2 * (N - 1) /\ \A k \in Nat : k <= n <=> k < N
    BY <1>1 DEF n
  <2>10. ASSUME NEW k \in 1 .. n + n PROVE s[k].parts = {MeshBarrierPart(r, k)}
    <3>1. CASE k <= n
      <4>1. k \in 1 .. n /\ k < N
        BY <1>1, <2>9, <3>1
      <4>2. s[k] = hear(k)
        BY <2>5, <2>8, <3>1, <4>1
      <4>3. QED
        BY <1>2, <1>3, <4>1, <4>2 DEF MeshBarrierPart
    <3>2. CASE ~(k <= n)
      <4>1. k - n \in 1 .. n /\ ~(k < N)
        BY <1>1, <2>9, <3>2
      <4>2. s[k] = answer(k - n)
        BY <2>5, <2>8, <3>2, <4>1
      <4>3. QED
        BY <1>2, <1>3, <4>1, <4>2 DEF MeshBarrierPart, n
    <3>3. QED
      BY <3>1, <3>2
  <2>11. QED
    BY <1>3, <2>8, <2>9, <2>10 DEF s
<1>4. CASE r # 0
  <2>1. s = <<answer(0)>> \o <<hear(0)>>
    BY <1>4 DEF MeshBarrier, Program
  <2>2. Len(s) = 2 /\ s[1] = answer(0) /\ s[2] = hear(0)
    BY <2>1
  <2> HIDE DEF s, hear, answer
  <2>3. ASSUME NEW k \in 1 .. 2 PROVE s[k].parts = {MeshBarrierPart(r, k)}
    BY <1>2, <1>4, <2>2 DEF MeshBarrierPart
  <2>4. QED
    BY <1>4, <2>2, <2>3 DEF s
<1>5. QED
  BY <1>3, <1>4

(* A rank in a Barrier.                                                     *)
LEMMA BarrierStep ==
  ASSUME StreamInv, NEW r \in Ranks, up[r], InCall(r), IsBarrier(calls[r])
  PROVE  /\ calls[r] \in 1 .. Len(setup.work) /\ Len(Code(r).steps) = BarrierLen(r)
         /\ pc[r] \in 1 .. BarrierLen(r) /\ Parts(r) = {BarrierPart(r, pc[r])}
<1> DEFINE c == setup.work[calls[r]]
           t == setup.topology
<1>1. /\ calls[r] \in 1 .. Len(setup.work) /\ Code(r) = CodeOf(t, c, r)
      /\ pc[r] \in 1 .. Len(Code(r).steps) /\ Parts(r) = Code(r).steps[pc[r]].parts
  BY StepFacts DEF StepOf
<1>2. c \in Calls /\ c.op = "Barrier"
  <2>1. Paired /\ setup \in Setups
    BY SetupFacts
  <2>2. QED
    BY <1>1, <2>1, CodeFacts DEF IsBarrier
<1> HIDE DEF c
<1>3. CASE t = "ring"
  <2>1. Code(r) = RingBarrier(r)
    BY <1>1, <1>2, <1>3 DEF CodeOf, RingCode, RingProgram
  <2>2. QED
    BY <1>1, <1>3, <2>1, RingBarrierSteps DEF BarrierLen, BarrierPart, OnRing
<1>4. CASE t # "ring"
  <2>1. Code(r) = MeshBarrier(r)
    BY <1>1, <1>2, <1>4 DEF CodeOf, MeshCode, MeshProgram
  <2>2. QED
    BY <1>1, <1>4, <2>1, MeshBarrierSteps DEF BarrierLen, BarrierPart, OnRing
<1>5. QED
  BY <1>3, <1>4

(* What a token tells the rank that reads it at step k.                     *)
Hears(r, k) ==
  IF OnRing THEN IF r # 0 /\ k = 3 THEN Ranks ELSE 0 .. Prev1(r)
  ELSE IF r = 0 THEN {k} ELSE Ranks

LEMMA HeardGrows ==
  ASSUME NEW r \in Ranks, NEW k \in 1 .. BarrierLen(r)
  PROVE  LET p == BarrierPart(r, k)
         IN  /\ BarrierLen(r) \in Nat
             /\ p.dir = "send" =>
                  /\ k < BarrierLen(r) => Heard(r, k + 1) \subseteq Heard(r, k)
                  /\ k = BarrierLen(r) => Ranks \subseteq Heard(r, k)
             /\ p.dir = "recv" =>
                  /\ k < BarrierLen(r) => Heard(r, k + 1) \subseteq Heard(r, k) \cup Hears(r, k)
                  /\ k = BarrierLen(r) => Ranks \subseteq Heard(r, k) \cup Hears(r, k)
             /\ p.dir \in {"send", "recv"} /\ Len(p.slots) = 1
<1> DEFINE p == BarrierPart(r, k)
<1>1. /\ N \in Nat /\ N >= 2 /\ Ranks = 0 .. (N - 1) /\ r \in 0 .. (N - 1)
      /\ Prev1(r) = IF r = 0 THEN N - 1 ELSE r - 1
  BY RingFacts
<1>2. BarrierLen(r) \in Nat
  BY <1>1 DEF BarrierLen
<1>3. /\ \A q, s : SendPart(q, s).dir = "send" /\ SendPart(q, s).slots = s
      /\ \A q, s : RecvPart(q, s).dir = "recv" /\ RecvPart(q, s).slots = s
      /\ Len(Ins(1)) = 1
  BY SlotsLen DEF SendPart, RecvPart
<1>4. p.dir \in {"send", "recv"} /\ Len(p.slots) = 1
  BY <1>3 DEF BarrierPart, RingBarrierPart, MeshBarrierPart
<1>5. ASSUME p.dir = "send"
      PROVE  /\ k < BarrierLen(r) => Heard(r, k + 1) \subseteq Heard(r, k)
             /\ k = BarrierLen(r) => Ranks \subseteq Heard(r, k)
  <2>1. CASE OnRing
    <3>1. BarrierLen(r) = 4 /\ k \in 1 .. 4 /\ (r = 0 <=> k \in {1, 3})
      BY <1>3, <1>5, <2>1 DEF BarrierLen, BarrierPart, RingBarrierPart
    <3>2. QED
      BY <1>1, <2>1, <3>1 DEF Heard
  <2>2. CASE ~OnRing /\ r = 0
    <3>1. BarrierLen(r) = 2 * (N - 1) /\ ~(k < N)
      BY <1>3, <1>5, <2>2 DEF BarrierLen, BarrierPart, MeshBarrierPart
    <3>2. QED
      BY <1>1, <2>2, <3>1 DEF Heard
  <2>3. CASE ~OnRing /\ r # 0
    <3>1. BarrierLen(r) = 2 /\ k = 1
      BY <1>3, <1>5, <2>3 DEF BarrierLen, BarrierPart, MeshBarrierPart
    <3>2. QED
      BY <1>1, <2>3, <3>1 DEF Heard
  <2>4. QED
    BY <2>1, <2>2, <2>3
<1>6. ASSUME p.dir = "recv"
      PROVE  /\ k < BarrierLen(r) => Heard(r, k + 1) \subseteq Heard(r, k) \cup Hears(r, k)
             /\ k = BarrierLen(r) => Ranks \subseteq Heard(r, k) \cup Hears(r, k)
  <2>1. CASE OnRing
    <3>1. BarrierLen(r) = 4 /\ k \in 1 .. 4 /\ ~(r = 0 <=> k \in {1, 3})
      BY <1>3, <1>6, <2>1 DEF BarrierLen, BarrierPart, RingBarrierPart
    <3>2. QED
      BY <1>1, <2>1, <3>1 DEF Heard, Hears
  <2>2. CASE ~OnRing /\ r = 0
    <3>1. BarrierLen(r) = 2 * (N - 1) /\ k < N
      BY <1>3, <1>6, <2>2 DEF BarrierLen, BarrierPart, MeshBarrierPart
    <3>2. QED
      BY <1>1, <2>2, <3>1 DEF Heard, Hears
  <2>3. CASE ~OnRing /\ r # 0
    <3>1. BarrierLen(r) = 2 /\ k = 2
      BY <1>3, <1>6, <2>3 DEF BarrierLen, BarrierPart, MeshBarrierPart
    <3>2. QED
      BY <1>1, <2>3, <3>1 DEF Heard, Hears
  <2>4. QED
    BY <2>1, <2>2, <2>3
<1>7. QED
  BY <1>2, <1>4, <1>5, <1>6

-----------------------------------------------------------------------------
(* A step of r: who has entered what, who has sent and received what        *)
(* stays so.                                                                *)
Onward(r) ==
  /\ setup' = setup /\ calls'[r] >= calls[r]
  /\ \A x \in Ranks \ {r} : Kept(x)
  /\ Sound(r)' => Sound(r)
  /\ \A c \in Nat : Begun(r, c) => Begun(r, c)'

LEMMA OnwardKeeps ==
  ASSUME StreamInv, StreamInv', NEW r \in Ranks, Onward(r)
  PROVE  /\ setup' = setup /\ Len(setup.work) \in Nat
         /\ \A x \in Ranks : calls[x] \in 0 .. Len(setup.work) /\ calls'[x] \in 0 .. Len(setup.work)
         /\ \A x \in Ranks : calls'[x] >= calls[x]
         /\ \A S \in SUBSET Ranks : \A c \in Nat : Entered(S, c) => Entered(S, c)'
         /\ \A x \in Ranks : \A c \in Nat : Begun(x, c) => Begun(x, c)'
         /\ \A x \in Ranks \ {r} : \A c : Past(x, c)' <=> Past(x, c)
         /\ \A x \in Ranks \ {r} : Sound(x)' <=> Sound(x)
         /\ \A c : IsBarrier(c)' <=> IsBarrier(c)
         /\ OnRing' <=> OnRing
         /\ \A x, k : Heard(x, k)' = Heard(x, k)
<1>1. /\ setup' = setup /\ calls'[r] >= calls[r] /\ \A x \in Ranks \ {r} : Kept(x)
      /\ \A c \in Nat : Begun(r, c) => Begun(r, c)'
  BY DEF Onward
<1>2. /\ Len(setup.work) \in Nat
      /\ \A x \in Ranks : calls[x] \in 0 .. Len(setup.work) /\ calls'[x] \in 0 .. Len(setup.work)
  BY <1>1, SetupFacts DEF StreamInv, TypeOK
<1>3. ASSUME NEW x \in Ranks PROVE calls'[x] >= calls[x]
  BY <1>1, <1>2 DEF Kept
<1>4. ASSUME NEW S \in SUBSET Ranks, NEW c \in Nat, Entered(S, c) PROVE Entered(S, c)'
  BY <1>2, <1>3, <1>4 DEF Entered
<1>5. ASSUME NEW x \in Ranks \ {r}
      PROVE  /\ \A c : Begun(x, c)' <=> Begun(x, c)
             /\ \A c : Past(x, c)' <=> Past(x, c)
             /\ Sound(x)' <=> Sound(x)
  BY <1>1 DEF Kept, Begun, Past, Sound, InCall, Parts
<1>6. /\ \A c : IsBarrier(c)' <=> IsBarrier(c)
      /\ OnRing' <=> OnRing
      /\ \A x, k : Heard(x, k)' = Heard(x, k)
  BY <1>1 DEF IsBarrier, OnRing, Heard
<1>7. QED
  BY <1>1, <1>2, <1>3, <1>4, <1>5, <1>6

(* A token stays what it tells while it waits, d of those before it having  *)
(* been read.                                                               *)
PastWhy(a, b, d) ==
  \A c \in 1 .. Len(setup.work) :
    OnRing /\ b = Next1(a) /\ IsBarrier(c) /\ Past(b, c)' =>
      Past(b, c) \/ Entered(Ranks, c) \/ (d = 1 /\ link[a][b][1].call = c)

LEMMA TokenKept ==
  ASSUME StreamInv, StreamInv', NEW r \in Ranks, Onward(r),
         NEW a \in Ranks, NEW b \in Ranks, TokensInv(a, b),
         NEW d \in {0, 1}, NEW j \in Nat \ {0}, j + d <= Len(link[a][b]),
         \A i \in 1 .. j : link'[a][b][i] = link[a][b][i + d],
         PastWhy(a, b, d)
  PROVE  TokenInv(a, b, j)'
<1> DEFINE work == Len(setup.work)
<1>0. PICK c : c = link[a][b][j + d].call
  OBVIOUS
<1>1. /\ setup' = setup /\ work \in Nat
      /\ \A x \in Ranks : calls[x] \in 0 .. work /\ calls'[x] \in 0 .. work
      /\ \A x \in Ranks : calls'[x] >= calls[x]
      /\ \A S \in SUBSET Ranks : \A k \in Nat : Entered(S, k) => Entered(S, k)'
      /\ \A x \in Ranks : \A k \in Nat : Begun(x, k) => Begun(x, k)'
      /\ \A k : IsBarrier(k)' <=> IsBarrier(k)
      /\ OnRing' <=> OnRing
  BY OnwardKeeps
<1>2. Len(link[a][b]) \in Nat
  BY DenseSize DEF StreamInv, Shapes
<1>3. j + d \in 1 .. Len(link[a][b])
  BY <1>2
<1>4. TokenInv(a, b, j + d)
  BY <1>3 DEF TokensInv
<1>5. c \in 1 .. calls[a] /\ (IsBarrier(c) => TokenTells(a, b, j + d, c))
  BY <1>0, <1>4 DEF TokenInv
<1>6. link'[a][b][j].call = c
  BY <1>0
<1> HIDE DEF work
<1>7. c \in Nat /\ c \in 1 .. work /\ c \in 1 .. calls'[a]
  BY <1>1, <1>5
<1>8. ASSUME IsBarrier(c) PROVE TokenTells(a, b, j, c)'
  <2>1. TokenTells(a, b, j + d, c)
    BY <1>5, <1>8
  <2>2. CASE OnRing
    <3>1. SUFFICES ASSUME b = Next1(a)
                   PROVE  /\ Begun(a, c)' /\ Entered(0 .. a, c)'
                          /\ Past(b, c)' \/ (\E i \in 1 .. (j - 1) : link'[a][b][i].call = c)
                               => Entered(Ranks, c)'
      BY <1>1, <2>2 DEF TokenTells
    <3>2. /\ Begun(a, c) /\ Entered(0 .. a, c)
          /\ Past(b, c) \/ (\E i \in 1 .. (j + d - 1) : link[a][b][i].call = c)
               => Entered(Ranks, c)
      BY <2>1, <2>2, <3>1 DEF TokenTells
    <3>3. 0 .. a \in SUBSET Ranks /\ Ranks \in SUBSET Ranks
      <4>1. N \in Nat /\ Ranks = 0 .. (N - 1) /\ a \in 0 .. (N - 1)
        BY WorldSizeAssumption DEF Ranks
      <4>2. QED
        BY <4>1
    <3>4. ASSUME Past(b, c)' PROVE Entered(Ranks, c)
      <4>1. Past(b, c) \/ Entered(Ranks, c) \/ (d = 1 /\ link[a][b][1].call = c)
        BY <1>7, <1>8, <2>2, <3>1, <3>4 DEF PastWhy, work
      <4>2. d = 1 => 1 \in 1 .. (j + d - 1)
        OBVIOUS
      <4>3. QED
        BY <3>2, <4>1, <4>2
    <3>5. ASSUME NEW i \in 1 .. (j - 1), link'[a][b][i].call = c PROVE Entered(Ranks, c)
      <4>1. i + d \in 1 .. (j + d - 1) /\ i \in 1 .. j
        OBVIOUS
      <4>2. link[a][b][i + d].call = c
        BY <3>5, <4>1
      <4>3. QED
        BY <3>2, <4>1, <4>2
    <3>6. QED
      BY <1>1, <1>7, <3>2, <3>3, <3>4, <3>5
  <2>3. CASE ~OnRing
    <3>1. a = 0 => Entered(Ranks, c)
      BY <2>1, <2>3 DEF TokenTells
    <3>2. a = 0 => Entered(Ranks, c)'
      BY <1>1, <1>7, <3>1
    <3>3. QED
      BY <1>1, <2>3, <3>2 DEF TokenTells
  <2>4. QED
    BY <2>2, <2>3
<1>9. QED
  BY <1>1, <1>6, <1>7, <1>8 DEF TokenInv

LEMMA TokensKept ==
  ASSUME StreamInv, StreamInv', NEW r \in Ranks, Onward(r),
         NEW a \in Ranks, NEW b \in Ranks, TokensInv(a, b),
         NEW d \in {0, 1}, Len(link'[a][b]) + d <= Len(link[a][b]),
         \A i \in 1 .. Len(link'[a][b]) : link'[a][b][i] = link[a][b][i + d],
         PastWhy(a, b, d)
  PROVE  TokensInv(a, b)'
<1>1. Len(link'[a][b]) \in Nat /\ Len(link[a][b]) \in Nat
  <2>1. Dense(link[a][b]) /\ Dense(link[a][b])'
    BY DEF StreamInv, Shapes
  <2>2. Dense(link'[a][b])
    BY <2>1 DEF Dense
  <2>3. QED
    BY <2>1, <2>2, DenseSize
<1>2. SUFFICES ASSUME NEW j \in 1 .. Len(link'[a][b]) PROVE TokenInv(a, b, j)'
  BY DEF TokensInv
<1>3. j \in Nat \ {0} /\ j + d <= Len(link[a][b]) /\ 1 .. j \subseteq 1 .. Len(link'[a][b])
  BY <1>1
<1>4. QED
  BY <1>3, TokenKept

(* A stream left alone, or cut short.                                       *)
LEMMA TokensCut ==
  ASSUME StreamInv, StreamInv', NEW r \in Ranks, Onward(r),
         NEW a \in Ranks, NEW b \in Ranks, TokensInv(a, b),
         Len(link'[a][b]) <= Len(link[a][b]),
         \A i \in 1 .. Len(link'[a][b]) : link'[a][b][i] = link[a][b][i],
         PastWhy(a, b, 0)
  PROVE  TokensInv(a, b)'
<1>1. Len(link'[a][b]) \in Nat /\ Len(link[a][b]) \in Nat
  <2>1. Dense(link[a][b]) /\ Dense(link[a][b])'
    BY DEF StreamInv, Shapes
  <2>2. Dense(link'[a][b])
    BY <2>1 DEF Dense
  <2>3. QED
    BY <2>1, <2>2, DenseSize
<1>2. Len(link'[a][b]) + 0 <= Len(link[a][b])
  BY <1>1
<1>3. \A i \in 1 .. Len(link'[a][b]) : link'[a][b][i] = link[a][b][i + 0]
  <2>1. \A i \in 1 .. Len(link'[a][b]) : i + 0 = i
    BY <1>1
  <2>2. QED
    BY <2>1
<1>4. QED
  BY <1>2, <1>3, TokensKept

LEMMA TokensSame ==
  ASSUME StreamInv, StreamInv', NEW r \in Ranks, Onward(r),
         NEW a \in Ranks, NEW b \in Ranks, TokensInv(a, b), link'[a][b] = link[a][b],
         PastWhy(a, b, 0)
  PROVE  TokensInv(a, b)'
<1>1. Len(link[a][b]) \in Nat
  BY DenseSize DEF StreamInv, Shapes
<1>2. Len(link'[a][b]) <= Len(link[a][b])
  BY <1>1
<1>3. QED
  BY <1>2, TokensCut

(* A Barrier that r has been told the end of has been entered by all.       *)
Sure(r) == \A i \in DOMAIN results'[r] : IsBarrier(i) /\ results'[r][i] => Entered(Ranks, i)'

LEMMA SafeForm ==
  BarrierSafe <=> \A r \in Ranks : \A i \in DOMAIN results[r] :
                    IsBarrier(i) /\ results[r][i] => Entered(Ranks, i)
BY DEF BarrierSafe, IsBarrier, Entered

LEMMA SureSame ==
  ASSUME IInv, StreamInv', NEW r \in Ranks, Onward(r), results'[r] = results[r]
  PROVE  Sure(r)
<1>1. results[r] \in Seq(BOOLEAN) /\ StreamInv /\ BarrierSafe
  BY DEF IInv, StreamInv, Shapes
<1>2. SUFFICES ASSUME NEW i \in DOMAIN results[r], IsBarrier(i), results[r][i]
               PROVE  Entered(Ranks, i)'
  BY DEF Sure
<1>3. Entered(Ranks, i) /\ i \in Nat
  BY <1>1, <1>2, SafeForm
<1>4. QED
  BY <1>1, <1>3, OnwardKeeps

LEMMA SureMore ==
  ASSUME IInv, StreamInv', NEW r \in Ranks, Onward(r), InCall(r), NEW ok \in BOOLEAN,
         results'[r] = Append(results[r], ok),
         IsBarrier(calls[r]) /\ ok => Entered(Ranks, calls[r])
  PROVE  Sure(r)
<1> DEFINE s == results[r]
           n == Len(s)
<1>1. s \in Seq(BOOLEAN) /\ StreamInv /\ BarrierSafe /\ RankType(r)
  BY TypeParts DEF IInv, StreamInv, Shapes
<1>2. n = calls[r] - 1 /\ calls[r] \in Nat
  BY <1>1, SetupFacts DEF RankType
<1>3. ASSUME NEW i \in DOMAIN results'[r], IsBarrier(i), results'[r][i] PROVE Entered(Ranks, i)'
  <2>1. i \in 1 .. (n + 1) /\ n \in Nat /\ (i <= n => results'[r][i] = s[i])
        /\ (i = n + 1 => results'[r][i] = ok)
    <3>1. results'[r] = Append(s, ok) /\ i \in DOMAIN results'[r]
      BY <1>3
    <3> HIDE DEF s
    <3>2. QED
      BY <1>1, <3>1
  <2>2. CASE i <= n
    <3>1. i \in DOMAIN s /\ s[i]
      BY <1>1, <1>3, <2>1, <2>2
    <3>2. Entered(Ranks, i)
      BY <1>1, <1>3, <3>1, SafeForm
    <3>3. QED
      BY <1>1, <2>1, <3>2, OnwardKeeps
  <2>3. CASE i = n + 1
    <3> HIDE DEF n
    <3>1. i = calls[r]
      BY <1>2, <2>1, <2>3
    <3>2. Entered(Ranks, i) /\ i \in Nat
      BY <1>2, <1>3, <2>1, <2>3, <3>1
    <3>3. QED
      BY <1>1, <3>2, OnwardKeeps
  <2>4. QED
    BY <2>1, <2>2, <2>3
<1>4. QED
  BY <1>3 DEF Sure

(* What a step of r has to show.                                            *)
LEMMA KnowsAssemble ==
  ASSUME IInv, StreamInv', NEW r \in Ranks, Onward(r), KnowsInv(r)', LapInv(r)', Sure(r),
         \A x \in Ranks \ {r} : Sound(x) => TokensInv(r, x)',
         Sound(r)' => \A x \in Ranks \ {r} : TokensInv(x, r)',
         \A a, b \in Ranks \ {r} : link'[a][b] = link[a][b]
  PROVE  IInv'
<1>1. /\ StreamInv /\ BarrierSafe /\ \A x \in Ranks : KnowsInv(x) /\ LapInv(x)
      /\ \A a, b \in Ranks : a # b /\ Sound(b) => TokensInv(a, b)
  BY DEF IInv
<1>2. /\ setup' = setup /\ Len(setup.work) \in Nat
      /\ \A x \in Ranks : calls[x] \in 0 .. Len(setup.work) /\ calls'[x] \in 0 .. Len(setup.work)
      /\ \A S \in SUBSET Ranks : \A c \in Nat : Entered(S, c) => Entered(S, c)'
      /\ \A x \in Ranks : \A c \in Nat : Begun(x, c) => Begun(x, c)'
      /\ \A x \in Ranks \ {r} : \A c : Past(x, c)' <=> Past(x, c)
      /\ \A x \in Ranks \ {r} : Sound(x)' <=> Sound(x)
      /\ \A c : IsBarrier(c)' <=> IsBarrier(c)
      /\ OnRing' <=> OnRing
      /\ \A x, k : Heard(x, k)' = Heard(x, k)
  BY <1>1, OnwardKeeps
<1>3. ASSUME NEW x \in Ranks \ {r} PROVE KnowsInv(x)' /\ LapInv(x)'
  <2>1. calls'[x] = calls[x] /\ pc'[x] = pc[x] /\ (InCall(x)' <=> InCall(x))
    BY DEF Onward, Kept, InCall
  <2>2. KnowsInv(x)'
    <3>1. SUFFICES ASSUME InCall(x)', IsBarrier(calls[x])'
                   PROVE  Entered(Heard(x, pc[x]), calls[x])'
      BY DEF KnowsInv
    <3>2. PICK c : c = calls[x]
      OBVIOUS
    <3>3. PICK S : S = Heard(x, pc[x])
      OBVIOUS
    <3>4. IsBarrier(c)'
      BY <2>1, <3>1, <3>2 DEF IsBarrier
    <3>5. Entered(S, c)
      BY <1>1, <1>2, <2>1, <3>1, <3>2, <3>3, <3>4 DEF KnowsInv
    <3>6. S \in SUBSET Ranks
      <4>1. N \in Nat /\ Ranks = 0 .. (N - 1) /\ x \in 0 .. (N - 1)
        BY WorldSizeAssumption DEF Ranks
      <4>2. QED
        BY <3>3, <4>1 DEF Heard
    <3>7. Entered(S, c)'
      BY <1>2, <3>2, <3>5, <3>6
    <3>8. S = Heard(x, pc[x])' /\ c = calls[x]'
      BY <2>1, <3>2, <3>3, <1>2 DEF Heard, OnRing
    <3>9. QED
      BY <3>7, <3>8 DEF Entered
  <2>3. LapInv(x)'
    <3>1. SUFFICES ASSUME OnRing', Sound(x)', NEW c \in 1 .. Len(setup.work), IsBarrier(c)', Past(x, c)'
                   PROVE  Begun(Prev1(x), c)'
      BY <1>2 DEF LapInv
    <3>2. Begun(Prev1(x), c)
      BY <1>1, <1>2, <3>1 DEF LapInv
    <3>3. Prev1(x) \in Ranks /\ c \in Nat
      BY RingFacts
    <3>4. QED
      BY <1>2, <3>2, <3>3
  <2>4. QED
    BY <2>2, <2>3
<1>4. ASSUME NEW a \in Ranks, NEW b \in Ranks, a # b, Sound(b)' PROVE TokensInv(a, b)'
  <2>1. CASE b = r
    BY <1>4, <2>1
  <2>2. CASE b # r /\ a = r
    BY <1>2, <1>4, <2>2
  <2>3. CASE b # r /\ a # r
    <3>1. TokensInv(a, b) /\ link'[a][b] = link[a][b]
      BY <1>1, <1>2, <1>4, <2>3
    <3>2. PastWhy(a, b, 0)
      BY <1>2, <2>3 DEF PastWhy
    <3>3. QED
      BY <1>1, <3>1, <3>2, TokensSame
  <2>4. QED
    BY <2>1, <2>2, <2>3
<1>5. BarrierSafe'
  <2>1. SUFFICES ASSUME NEW x \in Ranks, NEW i \in DOMAIN results'[x],
                        setup'.work[i].op = "Barrier", results'[x][i]
                 PROVE  \A q \in Ranks : calls'[q] >= i
    BY DEF BarrierSafe
  <2>2. IsBarrier(i)
    BY <1>2, <2>1 DEF IsBarrier
  <2>3. CASE x = r
    BY <2>1, <2>2, <2>3 DEF Sure, Entered
  <2>4. CASE x # r
    <3>1. results'[x] = results[x] /\ results[x] \in Seq(BOOLEAN)
      BY <1>1, <2>4 DEF Onward, Kept, StreamInv, Shapes
    <3>2. Entered(Ranks, i) /\ i \in Nat
      BY <1>1, <2>1, <2>2, <3>1, SafeForm
    <3>3. Entered(Ranks, i)'
      BY <1>2, <3>2
    <3>4. QED
      BY <3>3 DEF Entered
  <2>5. QED
    BY <2>3, <2>4
<1>6. QED
  BY <1>3, <1>4, <1>5 DEF IInv

(* A step of r that reads nothing.                                          *)
PastQuiet(r) ==
  OnRing /\ Sound(r)' =>
    \A c \in 1 .. Len(setup.work) : IsBarrier(c) /\ Past(r, c)' => Past(r, c)

LEMMA LapQuiet ==
  ASSUME IInv, StreamInv', NEW r \in Ranks, Onward(r), PastQuiet(r)
  PROVE  LapInv(r)'
<1>1. /\ StreamInv /\ LapInv(r)
  BY DEF IInv
<1>2. /\ setup' = setup
      /\ \A x \in Ranks : \A c \in Nat : Begun(x, c) => Begun(x, c)'
      /\ \A c : IsBarrier(c)' <=> IsBarrier(c)
      /\ OnRing' <=> OnRing
      /\ Sound(r)' => Sound(r)
  BY <1>1, OnwardKeeps DEF Onward
<1>3. SUFFICES ASSUME OnRing', Sound(r)', NEW c \in 1 .. Len(setup.work), IsBarrier(c)', Past(r, c)'
               PROVE  Begun(Prev1(r), c)'
  BY <1>2 DEF LapInv
<1>4. Past(r, c)
  BY <1>2, <1>3 DEF PastQuiet
<1>5. Begun(Prev1(r), c)
  BY <1>1, <1>2, <1>3, <1>4 DEF LapInv
<1>6. Prev1(r) \in Ranks /\ c \in Nat
  BY RingFacts
<1>7. QED
  BY <1>2, <1>5, <1>6

LEMMA QuietKnows ==
  ASSUME IInv, StreamInv', NEW r \in Ranks, Onward(r), KnowsInv(r)', PastQuiet(r), Sure(r),
         \A x \in Ranks \ {r} : /\ Len(link'[r][x]) <= Len(link[r][x])
                                /\ \A i \in 1 .. Len(link'[r][x]) : link'[r][x][i] = link[r][x][i],
         Sound(r)' => \A x \in Ranks \ {r} : link'[x][r] = link[x][r],
         \A a, b \in Ranks \ {r} : link'[a][b] = link[a][b]
  PROVE  IInv'
<1>1. /\ StreamInv /\ LapInv(r)
      /\ \A a, b \in Ranks : a # b /\ Sound(b) => TokensInv(a, b)
  BY DEF IInv
<1>2. /\ setup' = setup
      /\ \A x \in Ranks : \A c \in Nat : Begun(x, c) => Begun(x, c)'
      /\ \A x \in Ranks \ {r} : \A c : Past(x, c)' <=> Past(x, c)
      /\ \A c : IsBarrier(c)' <=> IsBarrier(c)
      /\ OnRing' <=> OnRing
      /\ Sound(r)' => Sound(r)
  BY <1>1, OnwardKeeps DEF Onward
<1>3. LapInv(r)'
  BY LapQuiet
<1>4. ASSUME NEW x \in Ranks \ {r}, Sound(x) PROVE TokensInv(r, x)'
  <2>1. TokensInv(r, x)
    BY <1>1, <1>4
  <2>2. PastWhy(r, x, 0)
    BY <1>2 DEF PastWhy
  <2>3. QED
    BY <1>1, <2>1, <2>2, TokensCut
<1>5. ASSUME Sound(r)', NEW x \in Ranks \ {r} PROVE TokensInv(x, r)'
  <2>1. TokensInv(x, r) /\ link'[x][r] = link[x][r]
    BY <1>1, <1>2, <1>5
  <2>2. PastWhy(x, r, 0)
    BY <1>5 DEF PastWhy, PastQuiet
  <2>3. QED
    BY <1>1, <2>1, <2>2, TokensSame
<1>6. QED
  BY <1>3, <1>4, <1>5, KnowsAssemble

(* The end of a transport call, as far as others can tell.                  *)
Goes(r) ==
  \/ /\ pc'[r] = pc[r] /\ results'[r] = results[r] /\ Parts(r)' = Parts(r)
     /\ \A q \in Parts(r) : part[r][q] # "todo" => part'[r][q] # "todo"
  \/ pc'[r] = pc[r] + 1 /\ results'[r] = results[r]
  \/ pc'[r] = 0 /\ \E b \in BOOLEAN : results'[r] = Append(results[r], b)

LEMMA EndGoes ==
  ASSUME StreamInv, NEW r \in Ranks, NEW p \in Parts(r), NEW ok \in BOOLEAN, NEW m,
         EndPart(r, p, ok, m)
  PROVE  /\ Goes(r)
         /\ \A x \in Ranks \ {r} : pc'[x] = pc[x] /\ part'[x] = part[x] /\ results'[x] = results[x]
<1> DEFINE o == Outcome(r, p, ok)
<1>1. Stays(r, o) \/ Fails(r, o) \/ Moves(r, o) \/ Returns(r, o)
  BY EndCases
<1>2. /\ pc \in [Ranks -> Nat] /\ DOMAIN part = Ranks /\ results \in [Ranks -> Seq(BOOLEAN)]
  BY DEF StreamInv, Shapes
<1>3. DOMAIN o = Parts(r) /\ o[p] # "todo" /\ \A q \in Parts(r) : q # p => o[q] = part[r][q]
  BY DEF Outcome, Parts
<1> HIDE DEF o
<1>4. CASE Stays(r, o)
  <2>1. part'[r] = o /\ pc' = pc /\ results' = results
        /\ \A x \in Ranks \ {r} : part'[x] = part[x]
    BY <1>2, <1>4 DEF Stays
  <2>2. QED
    BY <1>3, <2>1 DEF Goes, Parts
<1>5. CASE Fails(r, o)
  BY <1>2, <1>5 DEF Fails, Goes
<1>6. CASE Moves(r, o)
  BY <1>2, <1>6 DEF Moves, Goes
<1>7. CASE Returns(r, o)
  BY <1>2, <1>7 DEF Returns, Goes
<1>8. QED
  BY <1>1, <1>4, <1>5, <1>6, <1>7

LEMMA GoesOnward ==
  ASSUME StreamInv, NEW r \in Ranks, up[r], InCall(r), Goes(r),
         UNCHANGED <<setup, calls, up>>, \A x \in Ranks \ {r} : Kept(x)
  PROVE  Onward(r)
<1>1. Sound(r) /\ pc[r] \in Nat /\ calls[r] \in Nat
  BY StepFacts, SetupFacts DEF StreamInv, Shapes
<1>2. ASSUME NEW c \in Nat, Begun(r, c) PROVE Begun(r, c)'
  <2> DEFINE first == IF r = 0 THEN 1 ELSE 2
  <2>1. CASE calls[r] > c
    BY <2>1 DEF Begun
  <2>2. CASE calls[r] = c
    <3>1. pc[r] > first \/ (pc[r] = first /\ \E p \in Parts(r) : part[r][p] # "todo")
      BY <1>1, <1>2, <2>2 DEF Begun
    <3>2. first \in {1, 2}
      OBVIOUS
    <3> HIDE DEF first
    <3>3. \/ pc'[r] = 0 \/ pc'[r] > first
          \/ pc'[r] = first /\ \E p \in Parts(r)' : part'[r][p] # "todo"
      BY <1>1, <3>1, <3>2 DEF Goes
    <3>4. calls'[r] = c
      BY <2>2
    <3>5. QED
      BY <3>3, <3>4 DEF Begun, InCall, first
  <2>3. QED
    BY <1>1, <1>2, <2>1, <2>2 DEF Begun
<1>3. QED
  BY <1>1, <1>2 DEF Onward

(* A transport call of a Barrier is the whole step.                         *)
Forth(r) ==
  /\ pc[r] \in 1 .. BarrierLen(r) /\ pc[r] < BarrierLen(r)
  /\ pc'[r] = pc[r] + 1 /\ results'[r] = results[r]
Back(r, ok) ==
  /\ pc[r] \in 1 .. BarrierLen(r)
  /\ ok => pc[r] = BarrierLen(r)
  /\ pc'[r] = 0 /\ results'[r] = Append(results[r], ok)

LEMMA BarrierEnds ==
  ASSUME StreamInv, NEW r \in Ranks, IsBarrier(calls[r]), NEW p \in Parts(r), NEW ok \in BOOLEAN,
         NEW m, EndPart(r, p, ok, m)
  PROVE  (ok /\ Forth(r)) \/ Back(r, ok)
<1> DEFINE o == Outcome(r, p, ok)
           P == BarrierPart(r, pc[r])
<1>1. Stays(r, o) \/ Fails(r, o) \/ Moves(r, o) \/ Returns(r, o)
  BY EndCases
<1>2. /\ pc \in [Ranks -> Nat] /\ DOMAIN part = Ranks /\ results \in [Ranks -> Seq(BOOLEAN)]
  BY DEF StreamInv, Shapes
<1>3. up[r] /\ InCall(r)
  BY InStep
<1>4. /\ Len(Code(r).steps) = BarrierLen(r) /\ pc[r] \in 1 .. BarrierLen(r) /\ Parts(r) = {P}
  BY <1>3, BarrierStep
<1> HIDE DEF P
<1>5. DOMAIN o = {p} /\ o[p] = IF ok THEN "done" ELSE "failed"
  BY <1>4 DEF Outcome, Parts
<1> HIDE DEF o
<1>6. Settled(o) /\ Failed(o) = IF ok THEN {} ELSE {p}
  BY <1>5 DEF Settled, Failed
<1>7. StepFails(DOMAIN o, Failed(o)) <=> ~ok
  BY <1>5, <1>6 DEF StepFails
<1>8. CASE Stays(r, o)
  BY <1>6, <1>8 DEF Stays
<1>9. CASE Fails(r, o)
  <2>1. pc'[r] = 0 /\ results'[r] = Append(results[r], FALSE)
    BY <1>2, <1>9 DEF Fails
  <2>2. CASE ok
    <3>1. FALSE
      BY <1>7, <1>9, <2>2 DEF Fails
    <3>2. QED
      BY <3>1
  <2>3. CASE ~ok
    BY <1>4, <2>1, <2>3 DEF Back
  <2>4. QED
    BY <2>2, <2>3
<1>10. CASE Moves(r, o)
  <2>1. pc'[r] = pc[r] + 1 /\ results'[r] = results[r] /\ ok /\ pc[r] # BarrierLen(r)
    BY <1>2, <1>4, <1>7, <1>10 DEF Moves
  <2>2. BarrierLen(r) \in Nat
    BY <1>4, HeardGrows
  <2>3. pc[r] < BarrierLen(r)
    BY <1>4, <2>1, <2>2
  <2>4. QED
    BY <1>4, <2>1, <2>3 DEF Forth
<1>11. CASE Returns(r, o)
  <2>1. pc'[r] = 0 /\ results'[r] = Append(results[r], TRUE) /\ ok /\ pc[r] = BarrierLen(r)
    BY <1>2, <1>4, <1>7, <1>11 DEF Returns
  <2>2. QED
    BY <1>4, <2>1 DEF Back
<1>12. QED
  BY <1>1, <1>8, <1>9, <1>10, <1>11

LEMMA BackSound ==
  ASSUME StreamInv, NEW r \in Ranks, NEW ok \in BOOLEAN, Back(r, ok), Sound(r)'
  PROVE  ok
<1> DEFINE s == results[r]
           t == results'[r]
<1>1. s \in Seq(BOOLEAN) /\ t = Append(s, ok)
  BY DEF StreamInv, Shapes, Back
<1>2. \A i \in DOMAIN t : t[i]
  BY DEF Sound
<1> HIDE DEF s, t
<1>3. Len(s) + 1 \in DOMAIN t /\ t[Len(s) + 1] = ok
  BY <1>1
<1>4. QED
  BY <1>2, <1>3

(* r steps on in a call that is no Barrier.                                 *)
LEMMA OtherCall ==
  ASSUME IInv, StreamInv', NEW r \in Ranks, up[r], InCall(r), ~IsBarrier(calls[r]), Goes(r),
         UNCHANGED <<setup, calls, up>>, \A x \in Ranks \ {r} : Kept(x)
  PROVE  /\ Onward(r) /\ KnowsInv(r)' /\ Sure(r)
         /\ \A c \in 1 .. Len(setup.work) : IsBarrier(c) /\ Past(r, c)' => Past(r, c)
<1>1. StreamInv /\ Onward(r) /\ calls[r] \in Nat
  BY GoesOnward, SetupFacts DEF IInv
<1>2. KnowsInv(r)'
  BY DEF KnowsInv, IsBarrier
<1>3. ASSUME NEW c \in 1 .. Len(setup.work), IsBarrier(c), Past(r, c)' PROVE Past(r, c)
  BY <1>3 DEF Past
<1>4. Sure(r)
  <2>1. CASE results'[r] = results[r]
    BY <1>1, <2>1, SureSame
  <2>2. CASE \E b \in BOOLEAN : results'[r] = Append(results[r], b)
    BY <1>1, <2>2, SureMore
  <2>3. QED
    BY <2>1, <2>2 DEF Goes
<1>5. QED
  BY <1>1, <1>2, <1>3, <1>4

(* r knows more once its step ends.                                         *)
LEMMA ForthKnows ==
  ASSUME StreamInv, StreamInv', NEW r \in Ranks, Onward(r), calls' = calls, Forth(r),
         Entered(Heard(r, pc[r] + 1), calls[r])
  PROVE  KnowsInv(r)'
<1>1. PICK c : c = calls[r]
  OBVIOUS
<1>2. PICK k : k = pc[r] + 1
  OBVIOUS
<1>3. PICK S : S = Heard(r, k)
  OBVIOUS
<1>4. Entered(S, c) /\ c \in Nat
  BY <1>1, <1>2, <1>3, SetupFacts
<1>5. Entered(S, c)'
  BY <1>4 DEF Entered
<1>6. Heard(r, pc[r])' = S /\ calls[r]' = c
  <2>1. setup' = setup
    BY DEF Onward
  <2>2. pc'[r] = k
    BY <1>2 DEF Forth
  <2>3. QED
    BY <1>1, <1>3, <2>1, <2>2 DEF Heard, OnRing
<1>7. QED
  BY <1>5, <1>6 DEF KnowsInv, Entered

(* The end of a transport call that has read nothing.                       *)
LEMMA EndQuiet ==
  ASSUME IInv, StreamInv', NEW r \in Ranks, NEW p \in Parts(r), NEW ok \in BOOLEAN, NEW m,
         p.dir = "send" \/ ~ok, EndPart(r, p, ok, m),
         UNCHANGED <<setup, calls, up, link>>, \A x \in Ranks \ {r} : got'[x] = got[x]
  PROVE  IInv'
<1> DEFINE c == calls[r]
           k == pc[r]
           P == BarrierPart(r, k)
<1>1. StreamInv /\ KnowsInv(r) /\ up[r] /\ InCall(r)
  BY InStep DEF IInv
<1>2. Goes(r) /\ \A x \in Ranks \ {r} : Kept(x)
  BY <1>1, EndGoes DEF Kept
<1>3. Onward(r) /\ c \in Nat
  BY <1>1, <1>2, GoesOnward, SetupFacts
<1>4. ASSUME KnowsInv(r)', PastQuiet(r), Sure(r) PROVE IInv'
  <2>1. \A x \in Ranks : Len(link[r][x]) \in Nat
    BY <1>1, DenseSize DEF StreamInv, Shapes
  <2>2. \A x \in Ranks \ {r} : Len(link'[r][x]) <= Len(link[r][x])
    BY <2>1
  <2>3. QED
    BY <1>3, <1>4, <2>2, QuietKnows
<1>5. CASE ~IsBarrier(c)
  <2>1. KnowsInv(r)' /\ Sure(r) /\ PastQuiet(r)
    BY <1>1, <1>2, <1>5, OtherCall DEF PastQuiet
  <2>2. QED
    BY <1>4, <2>1
<1>6. CASE IsBarrier(c)
  <2>1. (ok /\ Forth(r)) \/ Back(r, ok)
    BY <1>1, <1>6, BarrierEnds
  <2>2. p = P /\ Entered(Heard(r, k), c) /\ k \in 1 .. BarrierLen(r)
    BY <1>1, <1>6, BarrierStep DEF KnowsInv
  <2>3. /\ BarrierLen(r) \in Nat
        /\ P.dir = "send" =>
             /\ k < BarrierLen(r) => Heard(r, k + 1) \subseteq Heard(r, k)
             /\ k = BarrierLen(r) => Ranks \subseteq Heard(r, k)
    BY <2>2, HeardGrows
  <2>4. ASSUME OnRing, p.dir = "send" PROVE k \in 1 .. 4 /\ BarrierLen(r) = 4 /\ (r = 0 <=> k \in {1, 3})
    <3>1. \A q, s : RecvPart(q, s).dir = "recv"
      BY DEF RecvPart
    <3>2. QED
      BY <2>2, <2>4, <3>1 DEF BarrierLen, BarrierPart, RingBarrierPart
  <2> HIDE DEF P, c, k
  <2>5. CASE ok /\ Forth(r)
    <3>1. p.dir = "send" /\ k < BarrierLen(r) /\ pc'[r] = k + 1 /\ results'[r] = results[r]
      BY <2>5 DEF Forth, k
    <3>2. Entered(Heard(r, k + 1), c)
      BY <2>2, <2>3, <3>1 DEF Entered
    <3>3. KnowsInv(r)'
      BY <1>1, <1>3, <2>5, <3>2, ForthKnows DEF c, k
    <3>4. PastQuiet(r)
      <4>1. SUFFICES ASSUME OnRing, NEW d \in 1 .. Len(setup.work), Past(r, d)'
                     PROVE  Past(r, d)
        BY DEF PastQuiet
      <4>2. CASE d = c
        <5>1. k + 1 > IF r = 0 THEN 2 ELSE 1
          BY <1>3, <2>4, <3>1, <4>1, <4>2 DEF Past, InCall, c
        <5>2. k > IF r = 0 THEN 2 ELSE 1
          BY <2>4, <3>1, <4>1, <5>1
        <5>3. QED
          BY <1>1, <4>2, <5>2 DEF Past, c, k
      <4>3. CASE d # c
        BY <4>1, <4>3 DEF Past, c
      <4>4. QED
        BY <4>2, <4>3
    <3>5. Sure(r)
      BY <1>3, <3>1, SureSame
    <3>6. QED
      BY <1>4, <3>3, <3>4, <3>5
  <2>6. CASE Back(r, ok)
    <3>1. (ok => k = BarrierLen(r)) /\ pc'[r] = 0 /\ results'[r] = Append(results[r], ok)
      BY <2>6 DEF Back, k
    <3>2. KnowsInv(r)'
      BY <3>1 DEF KnowsInv, InCall
    <3>3. PastQuiet(r)
      <4>1. SUFFICES ASSUME OnRing, Sound(r)', NEW d \in 1 .. Len(setup.work), Past(r, d)'
                     PROVE  Past(r, d)
        BY DEF PastQuiet
      <4>2. ok
        BY <1>1, <2>6, <4>1, BackSound
      <4>3. CASE d = c
        <5>1. k = 4
          BY <2>4, <3>1, <4>1, <4>2
        <5>2. QED
          BY <1>1, <4>3, <5>1 DEF Past, c, k
      <4>4. CASE d # c
        BY <4>1, <4>4 DEF Past, c
      <4>5. QED
        BY <4>3, <4>4
    <3>4. Sure(r)
      <4>1. ok => Entered(Ranks, c)
        BY <2>2, <2>3, <3>1 DEF Entered
      <4>2. QED
        BY <1>1, <1>3, <3>1, <4>1, SureMore DEF c
    <3>5. QED
      BY <1>4, <3>2, <3>3, <3>4
  <2>7. QED
    BY <2>1, <2>5, <2>6
<1>7. QED
  BY <1>5, <1>6

(* A token that reaches a rank in a Barrier.                                *)
LEMMA TokenTold ==
  ASSUME IInv, NEW r \in Ranks, NEW p \in Parts(r), p.dir = "recv", part[r][p] = "todo",
         link[p.peer][r] # <<>>, IsBarrier(calls[r])
  PROVE  /\ p = BarrierPart(r, pc[r]) /\ Entered(Hears(r, pc[r]), calls[r])
         /\ OnRing => p.peer = Prev1(r) /\ Begun(Prev1(r), calls[r])
<1> DEFINE c == calls[r]
           k == pc[r]
           a == p.peer
           ln == link[a][r]
<1>1. /\ StreamInv /\ RecvMatchesSend
      /\ \A x, y \in Ranks : x # y /\ Sound(y) => TokensInv(x, y)
  BY HeadMatches DEF IInv
<1>2. up[r] /\ InCall(r) /\ Sound(r) /\ a \in Ranks \ {r}
  BY <1>1, RecvFacts
<1>3. p = BarrierPart(r, k) /\ k \in 1 .. BarrierLen(r)
  BY <1>1, <1>2, BarrierStep
<1>4. 1 \in 1 .. Len(ln) /\ ln[1].call = c
  <2>1. Dense(ln)
    BY <1>1, <1>2 DEF StreamInv, Shapes
  <2>2. ln \in Seq({ln[i] : i \in DOMAIN ln}) /\ ln # <<>>
    BY <2>1 DEF Dense
  <2>3. Head(ln).call = c
    BY <1>1 DEF RecvMatchesSend
  <2> HIDE DEF ln
  <2>4. QED
    BY <2>2, <2>3
<1>5. TokenInv(a, r, 1)
  BY <1>1, <1>2, <1>4 DEF TokensInv
<1>6. c \in 1 .. calls[a] /\ TokenTells(a, r, 1, c)
  BY <1>4, <1>5 DEF TokenInv
<1>7. /\ \A q, s : SendPart(q, s).dir = "send" /\ RecvPart(q, s).peer = q
  BY DEF SendPart, RecvPart
<1>8. CASE OnRing
  <2>1. a = Prev1(r) /\ r = Next1(a)
    <3>1. a = Prev1(r)
      BY <1>3, <1>7, <1>8 DEF BarrierPart, RingBarrierPart
    <3>2. QED
      BY <3>1, RingFacts
  <2>2. /\ Begun(a, c) /\ Entered(0 .. a, c)
        /\ Past(r, c) => Entered(Ranks, c)
    BY <1>6, <1>8, <2>1 DEF TokenTells
  <2>3. r # 0 /\ k = 3 => Past(r, c)
    BY DEF Past
  <2>4. QED
    BY <1>3, <1>8, <2>1, <2>2, <2>3 DEF Hears
<1>9. CASE ~OnRing
  <2>1. CASE r = 0
    <3>1. a = k
      BY <1>3, <1>7, <1>9, <2>1 DEF BarrierPart, MeshBarrierPart
    <3>2. calls[k] >= c
      <4>1. calls[a] \in Nat
        BY <1>1, <1>2, SetupFacts
      <4>2. QED
        BY <1>6, <3>1, <4>1
    <3>3. QED
      BY <1>3, <1>9, <2>1, <3>2 DEF Hears, Entered
  <2>2. CASE r # 0
    <3>1. a = 0
      BY <1>3, <1>7, <1>9, <2>2 DEF BarrierPart, MeshBarrierPart
    <3>2. Entered(Ranks, c)
      BY <1>6, <1>9, <3>1 DEF TokenTells
    <3>3. QED
      BY <1>3, <1>9, <2>2, <3>2 DEF Hears
  <2>3. QED
    BY <2>1, <2>2
<1>10. QED
  BY <1>8, <1>9

LEMMA RecvChunkKnows ==
  ASSUME IInv, StreamInv', NEW r \in Ranks, RecvChunk(r)
  PROVE  IInv'
<1>1. PICK p \in Parts(r) :
        /\ p.dir = "recv" /\ part[r][p] = "todo" /\ link[p.peer][r] # <<>>
        /\ link' = [link EXCEPT ![p.peer][r] = Tail(@)]
        /\ \E m : IF got[r] + 1 < Len(p.slots)
                  THEN /\ got' = [got EXCEPT ![r] = @ + 1]
                       /\ UNCHANGED <<pc, part, results>>
                  ELSE /\ got' = [got EXCEPT ![r] = 0]
                       /\ EndPart(r, p, TRUE, m)
        /\ UNCHANGED <<setup, calls, up, crashed>>
  BY DEF RecvChunk
<1> DEFINE a == p.peer
           c == calls[r]
           k == pc[r]
           work == Len(setup.work)
<1>2. /\ StreamInv /\ KnowsInv(r) /\ LapInv(r) /\ RecvMatchesSend
      /\ \A x, y \in Ranks : x # y /\ Sound(y) => TokensInv(x, y)
  BY HeadMatches DEF IInv
<1>3. /\ up[r] /\ InCall(r) /\ Sound(r) /\ a \in Ranks \ {r}
      /\ Len(p.slots) \in Nat \ {0} /\ got[r] \in Nat /\ got[r] < Len(p.slots)
  BY <1>1, <1>2, RecvFacts
<1>4. /\ got \in [Ranks -> Nat] /\ DOMAIN link = Ranks /\ \A x \in Ranks : DOMAIN link[x] = Ranks
      /\ pc \in [Ranks -> Nat] /\ \A x, y \in Ranks : Dense(link[x][y])
  BY <1>2 DEF StreamInv, Shapes
<1>5. /\ link'[a][r] = Tail(link[a][r])
      /\ \A x, y \in Ranks : ~(x = a /\ y = r) => link'[x][y] = link[x][y]
      /\ \A x \in Ranks \ {r} : got'[x] = got[x]
  BY <1>1, <1>3, <1>4
<1>6. Goes(r) /\ \A x \in Ranks \ {r} : Kept(x)
  <2>1. CASE got[r] + 1 < Len(p.slots)
    BY <1>1, <1>5, <2>1 DEF Goes, Kept, Parts
  <2>2. CASE ~(got[r] + 1 < Len(p.slots))
    BY <1>1, <1>2, <1>5, <2>2, EndGoes DEF Kept
  <2>3. QED
    BY <2>1, <2>2
<1>7. Onward(r) /\ c \in Nat
  BY <1>1, <1>2, <1>3, <1>6, GoesOnward, SetupFacts
<1>8. /\ \A x \in Ranks : \A d \in Nat : Begun(x, d) => Begun(x, d)'
      /\ \A x \in Ranks \ {r} : \A d : Past(x, d)' <=> Past(x, d)
      /\ \A d : IsBarrier(d)' <=> IsBarrier(d)
      /\ OnRing' <=> OnRing
  BY <1>2, <1>7, OnwardKeeps
<1>9. \A d : Past(r, d)' => Past(r, d) \/ d = c
  BY <1>1 DEF Past
<1>10. ASSUME IsBarrier(c)
       PROVE  /\ p = BarrierPart(r, k) /\ Entered(Hears(r, k), c)
              /\ OnRing => a = Prev1(r) /\ Begun(Prev1(r), c)
  BY <1>1, <1>10, TokenTold
<1>11. KnowsInv(r)' /\ Sure(r)
  <2>1. CASE ~IsBarrier(c)
    BY <1>1, <1>3, <1>6, <2>1, OtherCall
  <2>2. CASE IsBarrier(c)
    <3>1. Entered(Heard(r, k), c) /\ k \in 1 .. BarrierLen(r)
      BY <1>2, <1>3, <2>2, BarrierStep DEF KnowsInv
    <3>2. /\ k < BarrierLen(r) => Heard(r, k + 1) \subseteq Heard(r, k) \cup Hears(r, k)
          /\ k = BarrierLen(r) => Ranks \subseteq Heard(r, k) \cup Hears(r, k)
          /\ Len(p.slots) = 1
      BY <1>1, <1>10, <2>2, <3>1, HeardGrows
    <3>3. PICK m : EndPart(r, p, TRUE, m)
      <4>1. ~(got[r] + 1 < Len(p.slots))
        BY <1>3, <3>2
      <4>2. QED
        BY <1>1, <4>1
    <3>4. Forth(r) \/ Back(r, TRUE)
      BY <1>2, <2>2, <3>3, BarrierEnds
    <3> HIDE DEF c, k
    <3>5. CASE Forth(r)
      <4>1. k < BarrierLen(r) /\ results'[r] = results[r]
        BY <3>5 DEF Forth, k
      <4>2. Entered(Heard(r, k + 1), c)
        BY <1>10, <2>2, <3>1, <3>2, <4>1 DEF Entered
      <4>3. KnowsInv(r)'
        BY <1>1, <1>2, <1>7, <3>5, <4>2, ForthKnows DEF c, k
      <4>4. QED
        BY <1>7, <4>1, <4>3, SureSame
    <3>6. CASE Back(r, TRUE)
      <4>1. k = BarrierLen(r) /\ pc'[r] = 0 /\ results'[r] = Append(results[r], TRUE)
        BY <3>6 DEF Back, k
      <4>2. KnowsInv(r)'
        BY <4>1 DEF KnowsInv, InCall
      <4>3. Entered(Ranks, c)
        BY <1>10, <2>2, <3>1, <3>2, <4>1 DEF Entered
      <4>4. QED
        BY <1>3, <1>7, <4>1, <4>2, <4>3, SureMore DEF c
    <3>7. QED
      BY <3>4, <3>5, <3>6
  <2>3. QED
    BY <2>1, <2>2
<1>12. LapInv(r)'
  <2>1. SUFFICES ASSUME OnRing', NEW d \in 1 .. work, IsBarrier(d)', Past(r, d)'
                 PROVE  Begun(Prev1(r), d)'
    BY <1>1 DEF LapInv
  <2>2. Begun(Prev1(r), d)
    <3>1. CASE Past(r, d)
      BY <1>2, <1>3, <1>8, <2>1, <3>1 DEF LapInv
    <3>2. CASE d = c
      BY <1>8, <1>10, <2>1, <3>2
    <3>3. QED
      BY <1>9, <2>1, <3>1, <3>2
  <2>3. Prev1(r) \in Ranks /\ d \in Nat
    BY RingFacts
  <2>4. QED
    BY <1>8, <2>2, <2>3
<1>13. ASSUME NEW x \in Ranks \ {r}, Sound(x) PROVE TokensInv(r, x)'
  <2>1. TokensInv(r, x) /\ link'[r][x] = link[r][x]
    BY <1>2, <1>5, <1>13
  <2>2. PastWhy(r, x, 0)
    BY <1>8 DEF PastWhy
  <2>3. QED
    BY <1>2, <1>7, <2>1, <2>2, TokensSame
<1>14. ASSUME NEW x \in Ranks \ {r} PROVE TokensInv(x, r)'
  <2>1. TokensInv(x, r)
    BY <1>2, <1>3, <1>14
  <2>2. CASE x # a
    <3>1. PastWhy(x, r, 0)
      <4>1. SUFFICES ASSUME NEW d \in 1 .. work, OnRing, r = Next1(x), IsBarrier(d), Past(r, d)'
                     PROVE  Past(r, d)
        BY DEF PastWhy
      <4>2. x = Prev1(r)
        BY <4>1, RingFacts
      <4>3. d # c
        BY <1>10, <2>2, <4>1, <4>2
      <4>4. QED
        BY <1>9, <4>1, <4>3
    <3>2. link'[x][r] = link[x][r]
      BY <1>5, <2>2
    <3>3. QED
      BY <1>2, <1>7, <2>1, <3>1, <3>2, TokensSame
  <2>3. CASE x = a
    <3> DEFINE ln == link[a][r]
    <3>1. ln \in Seq({ln[i] : i \in DOMAIN ln}) /\ ln # <<>> /\ Head(ln).call = c
      BY <1>1, <1>2, <1>3, <1>4 DEF RecvMatchesSend, Dense
    <3>2. link'[a][r] = Tail(ln)
      BY <1>5
    <3> HIDE DEF ln
    <3>3. /\ Len(Tail(ln)) + 1 <= Len(ln) /\ ln[1].call = c
          /\ \A i \in 1 .. Len(Tail(ln)) : Tail(ln)[i] = ln[i + 1]
      BY <3>1
    <3>4. PastWhy(a, r, 1)
      BY <1>9, <3>3 DEF PastWhy, ln
    <3>5. /\ Len(link'[a][r]) + 1 <= Len(link[a][r])
          /\ \A i \in 1 .. Len(link'[a][r]) : link'[a][r][i] = link[a][r][i + 1]
      BY <3>2, <3>3 DEF ln
    <3>6. QED
      BY <1>2, <1>3, <1>7, <2>1, <2>3, <3>4, <3>5, TokensKept
  <2>4. QED
    BY <2>2, <2>3
<1>15. \A x, y \in Ranks \ {r} : link'[x][y] = link[x][y]
  BY <1>5
<1>16. QED
  BY <1>7, <1>11, <1>12, <1>13, <1>14, <1>15, KnowsAssemble

LEMMA EndSendKnows ==
  ASSUME IInv, StreamInv', NEW r \in Ranks, EndSend(r) \/ FailSend(r)
  PROVE  IInv'
<1>1. PICK p \in Parts(r), ok \in BOOLEAN :
        /\ p.dir = "send" /\ EndPart(r, p, ok, mem[r])
        /\ UNCHANGED <<setup, calls, got, up, crashed, link>>
  BY DEF EndSend, FailSend
<1>2. QED
  BY <1>1, EndQuiet

LEMMA FailRecvKnows ==
  ASSUME IInv, StreamInv', NEW r \in Ranks, FailRecv(r)
  PROVE  IInv'
<1>1. PICK p \in Parts(r) :
        /\ EndPart(r, p, FALSE, mem[r]) /\ got' = [got EXCEPT ![r] = 0]
        /\ UNCHANGED <<setup, calls, up, crashed, link>>
  BY DEF FailRecv
<1>2. \A x \in Ranks \ {r} : got'[x] = got[x]
  BY <1>1 DEF IInv, StreamInv, Shapes
<1>3. QED
  BY <1>1, <1>2, EndQuiet

LEMMA CallKnows ==
  ASSUME IInv, StreamInv', NEW r \in Ranks, Call(r)
  PROVE  IInv'
<1>1. /\ up[r] /\ ~InCall(r) /\ \A i \in DOMAIN results[r] : results[r][i]
      /\ calls' = [calls EXCEPT ![r] = @ + 1] /\ pc' = [pc EXCEPT ![r] = 1]
      /\ \E s : part' = [part EXCEPT ![r] = s]
      /\ UNCHANGED <<setup, got, results, up, crashed, link>>
  BY DEF Call
<1>2. /\ StreamInv /\ calls \in [Ranks -> 0 .. Len(setup.work)] /\ Len(setup.work) \in Nat
      /\ pc \in [Ranks -> Nat] /\ DOMAIN part = Ranks /\ up \in [Ranks -> BOOLEAN]
  BY SetupFacts DEF IInv, StreamInv, TypeOK, Shapes
<1>3. calls'[r] = calls[r] + 1 /\ pc'[r] = 1 /\ calls[r] \in Nat
  BY <1>1, <1>2
<1>4. \A x \in Ranks \ {r} : Kept(x)
  BY <1>1, <1>2 DEF Kept
<1>5. Onward(r)
  <2>1. Sound(r)
    BY <1>1 DEF Sound
  <2>2. ASSUME NEW c \in Nat, Begun(r, c) PROVE Begun(r, c)'
    <3>1. calls[r] >= c
      BY <1>3, <2>2 DEF Begun
    <3>2. calls'[r] > c
      BY <1>3, <3>1
    <3>3. QED
      BY <3>2 DEF Begun
  <2>3. QED
    BY <1>1, <1>3, <1>4, <2>1, <2>2 DEF Onward
<1>6. KnowsInv(r)'
  <2>1. Heard(r, 1) = {r}
    <3>1. Ranks = 0 .. (N - 1) /\ N \in Nat /\ N >= 2 /\ r \in 0 .. (N - 1)
      BY WorldSizeAssumption DEF Ranks
    <3>2. QED
      BY <3>1 DEF Heard
  <2>2. Heard(r, pc[r])' = {r}
    BY <1>1, <1>3, <2>1 DEF Heard, OnRing
  <2>3. Entered({r}, calls[r])'
    BY <1>3 DEF Entered
  <2>4. QED
    BY <2>2, <2>3 DEF KnowsInv, Entered
<1>7. PastQuiet(r)
  <2>1. SUFFICES ASSUME NEW c \in 1 .. Len(setup.work), Past(r, c)' PROVE Past(r, c)
    BY DEF PastQuiet
  <2>2. calls'[r] > c
    BY <1>3, <2>1 DEF Past, InCall
  <2>3. calls[r] > c \/ calls[r] = c
    BY <1>3, <2>2
  <2>4. QED
    BY <1>1, <2>3 DEF Past
<1>8. Sure(r)
  BY <1>1, <1>5, SureSame
<1>9. \A x \in Ranks : Len(link[r][x]) \in Nat
  BY <1>2, DenseSize DEF StreamInv, Shapes
<1>10. QED
  BY <1>1, <1>5, <1>6, <1>7, <1>8, <1>9, QuietKnows

LEMMA GoneKnows ==
  ASSUME IInv, StreamInv', NEW r \in Ranks, Gone(r)
  PROVE  IInv'
<1>1. /\ up' = [up EXCEPT ![r] = FALSE] /\ part' = [part EXCEPT ![r] = <<>>]
      /\ got' = [got EXCEPT ![r] = 0] /\ CloseLinks(r)
      /\ UNCHANGED <<setup, calls, pc, mem, results>>
  BY DEF Gone
<1>2. PICK kept \in [Ranks -> UNION {0 .. Len(link[r][b]) : b \in Ranks}] :
        /\ \A b \in Ranks : kept[b] <= Len(link[r][b])
        /\ link' = [a \in Ranks |-> [b \in Ranks |->
                      IF a = r THEN SubSeq(link[r][b], 1, kept[b])
                      ELSE IF b = r THEN <<>> ELSE link[a][b]]]
  BY <1>1 DEF CloseLinks
<1>3. /\ StreamInv /\ calls \in [Ranks -> 0 .. Len(setup.work)] /\ KnowsInv(r)
      /\ up \in [Ranks -> BOOLEAN] /\ DOMAIN part = Ranks /\ got \in [Ranks -> Nat]
      /\ \A x, y \in Ranks : Dense(link[x][y])
  BY DEF IInv, StreamInv, TypeOK, Shapes
<1>4. ~up'[r] /\ ~Sound(r)' /\ \A x \in Ranks \ {r} : Kept(x)
  BY <1>1, <1>3 DEF Kept, Sound
<1>5. Onward(r)
  <2>1. calls'[r] >= calls[r]
    <3>1. calls'[r] = calls[r] /\ calls[r] \in Nat
      BY <1>1, <1>3, SetupFacts
    <3>2. QED
      BY <3>1
  <2>2. \A c \in Nat : Begun(r, c) => Begun(r, c)'
    BY <1>1, <1>4 DEF Begun
  <2>3. QED
    BY <1>1, <1>4, <2>1, <2>2 DEF Onward
<1>6. KnowsInv(r)'
  BY <1>1, <1>3 DEF KnowsInv, InCall, IsBarrier, Entered, Heard, OnRing
<1>7. PastQuiet(r) /\ Sure(r)
  BY <1>1, <1>4, <1>5, SureSame DEF PastQuiet
<1>8. ASSUME NEW b \in Ranks
      PROVE  /\ Len(link'[r][b]) <= Len(link[r][b])
             /\ \A i \in 1 .. Len(link'[r][b]) : link'[r][b][i] = link[r][b][i]
  <2> DEFINE ln == link[r][b]
             n == Len(ln)
             m == kept[b]
  <2>1. ln \in Seq({ln[i] : i \in DOMAIN ln})
    BY <1>3 DEF Dense
  <2>2. link'[r][b] = SubSeq(ln, 1, m) /\ m <= n
    BY <1>2
  <2>3. m \in Nat
    <3>1. m \in UNION {0 .. Len(link[r][c]) : c \in Ranks}
      BY <1>2
    <3>2. PICK c \in Ranks : m \in 0 .. Len(link[r][c])
      BY <3>1
    <3>3. QED
      BY <3>2
  <2> HIDE DEF ln, m
  <2>4. /\ Len(SubSeq(ln, 1, m)) = m
        /\ \A i \in 1 .. m : SubSeq(ln, 1, m)[i] = ln[i]
    BY <2>1, <2>2, <2>3
  <2>5. QED
    BY <2>2, <2>4 DEF ln
<1>9. \A a, b \in Ranks \ {r} : link'[a][b] = link[a][b]
  BY <1>2
<1>10. QED
  BY <1>4, <1>5, <1>6, <1>7, <1>8, <1>9, QuietKnows

LEMMA StutterKnows ==
  ASSUME IInv, StreamInv', UNCHANGED vars
  PROVE  IInv'
<1>1. UNCHANGED <<setup, calls, pc, part, got, mem, results, up, crashed, link>>
  BY DEF vars
<1>2. PICK r \in Ranks : TRUE
  BY WorldSizeAssumption DEF Ranks
<1>3. StreamInv /\ KnowsInv(r) /\ calls[r] \in Nat /\ \A x \in Ranks : Len(link[r][x]) \in Nat
  BY SetupFacts, DenseSize DEF IInv, StreamInv, Shapes
<1>4. Onward(r)
  <2>1. \A c \in Nat : Begun(r, c) => Begun(r, c)'
    BY <1>1 DEF Begun, InCall, Parts
  <2>2. (Sound(r)' => Sound(r)) /\ \A x \in Ranks \ {r} : Kept(x)
    BY <1>1 DEF Sound, Kept
  <2>3. calls'[r] >= calls[r]
    BY <1>1, <1>3
  <2>4. QED
    BY <1>1, <2>1, <2>2, <2>3 DEF Onward
<1>5. KnowsInv(r)'
  BY <1>1, <1>3 DEF KnowsInv, InCall, IsBarrier, Entered, Heard, OnRing
<1>6. PastQuiet(r)
  BY <1>1 DEF PastQuiet, Past, InCall
<1>7. Sure(r)
  BY <1>1, <1>4, SureSame
<1>8. QED
  BY <1>1, <1>3, <1>4, <1>5, <1>6, <1>7, QuietKnows

LEMMA InitKnows ==
  ASSUME Init, StreamInv
  PROVE  IInv
<1>1. /\ calls = [r \in Ranks |-> 0] /\ pc = [r \in Ranks |-> 0]
      /\ results = [r \in Ranks |-> <<>>] /\ link = [a \in Ranks |-> [b \in Ranks |-> <<>>]]
  BY DEF Init
<1>2. DOMAIN <<>> = {} /\ Len(<<>>) = 0
  OBVIOUS
<1>3. \A r \in Ranks : KnowsInv(r)
  BY <1>1 DEF KnowsInv, InCall
<1>4. \A r \in Ranks : LapInv(r)
  <2>1. Len(setup.work) \in Nat
    BY SetupFacts
  <2>2. \A r \in Ranks : \A c \in 1 .. Len(setup.work) : ~Past(r, c)
    BY <1>1, <2>1 DEF Past
  <2>3. QED
    BY <2>2 DEF LapInv
<1>5. \A a, b \in Ranks : TokensInv(a, b)
  BY <1>1, <1>2 DEF TokensInv
<1>6. BarrierSafe
  BY <1>1, <1>2 DEF BarrierSafe
<1>7. QED
  BY <1>3, <1>4, <1>5, <1>6 DEF IInv

(* A rank that sends a token knows what the token tells.                    *)
LEMMA TokenSent ==
  ASSUME IInv, NEW r \in Ranks, NEW b \in Ranks \ {r}, Sound(b), NEW p \in Parts(r),
         p.dir = "send", part[r][p] = "todo", IsBarrier(calls[r])
  PROVE  /\ ~OnRing /\ r = 0 => Entered(Ranks, calls[r])
         /\ OnRing /\ b = Next1(r) =>
              /\ pc[r] >= IF r = 0 THEN 1 ELSE 2
              /\ Entered(0 .. r, calls[r])
              /\ \/ Entered(Ranks, calls[r])
                 \/ /\ ~Past(b, calls[r])
                    /\ \A i \in 1 .. Len(link[r][b]) : link[r][b][i].call # calls[r]
<1> DEFINE c == calls[r]
           k == pc[r]
<1>1. /\ StreamInv /\ KnowsInv(r) /\ LapInv(b) /\ TokensInv(r, b) /\ up[r] /\ InCall(r)
  BY InStep DEF IInv
<1>2. /\ c \in 1 .. Len(setup.work) /\ k \in 1 .. BarrierLen(r) /\ Parts(r) = {BarrierPart(r, k)}
      /\ p = BarrierPart(r, k) /\ Entered(Heard(r, k), c)
  BY <1>1, BarrierStep DEF KnowsInv
<1>3. /\ N \in Nat /\ N >= 2 /\ Ranks = 0 .. (N - 1) /\ r \in 0 .. (N - 1)
  BY WorldSizeAssumption DEF Ranks
<1>4. \A q, s : RecvPart(q, s).dir = "recv"
  BY DEF RecvPart
<1>5. ASSUME ~OnRing, r = 0 PROVE Entered(Ranks, c)
  <2>1. ~(k < N)
    BY <1>2, <1>4, <1>5 DEF BarrierPart, MeshBarrierPart
  <2>2. k \in Nat
    BY <1>1 DEF StreamInv, Shapes
  <2>3. Ranks \subseteq Heard(r, k)
    BY <1>3, <1>5, <2>1, <2>2 DEF Heard
  <2>4. QED
    BY <1>2, <2>3 DEF Entered
<1>6. ASSUME OnRing, b = Next1(r)
      PROVE  /\ k >= IF r = 0 THEN 1 ELSE 2
             /\ Entered(0 .. r, c)
             /\ \/ Entered(Ranks, c)
                \/ ~Past(b, c) /\ \A i \in 1 .. Len(link[r][b]) : link[r][b][i].call # c
  <2>1. k \in 1 .. 4 /\ (r = 0 <=> k \in {1, 3})
    BY <1>2, <1>4, <1>6 DEF BarrierLen, BarrierPart, RingBarrierPart
  <2>2. 0 .. r \subseteq Heard(r, k)
    BY <1>3, <1>6, <2>1 DEF Heard
  <2>3. Entered(0 .. r, c)
    BY <1>2, <2>2 DEF Entered
  <2>4. CASE k >= 3
    <3>1. Heard(r, k) = Ranks
      BY <1>3, <1>6, <2>1, <2>4 DEF Heard
    <3>2. QED
      BY <1>2, <2>1, <2>3, <3>1
  <2>5. CASE ~(k >= 3)
    <3>1. k = IF r = 0 THEN 1 ELSE 2
      BY <2>1, <2>5
    <3>2. ~Begun(r, c)
      <4>1. \A q \in Parts(r) : part[r][q] = "todo"
        BY <1>2
      <4>2. QED
        BY <1>1, <1>2, <3>1, <4>1, SetupFacts DEF Begun
    <3>3. ~Past(b, c)
      <4>1. Prev1(b) = r
        BY <1>6, RingFacts
      <4>2. QED
        BY <1>1, <1>2, <1>6, <3>2, <4>1 DEF LapInv
    <3>4. ASSUME NEW i \in 1 .. Len(link[r][b]), link[r][b][i].call = c PROVE FALSE
      <4>1. TokenInv(r, b, i)
        BY <1>1 DEF TokensInv
      <4>2. TokenTells(r, b, i, c)
        BY <3>4, <4>1 DEF TokenInv
      <4>3. Begun(r, c)
        BY <1>6, <4>2 DEF TokenTells
      <4>4. QED
        BY <3>2, <4>3
    <3>5. QED
      BY <2>1, <2>3, <3>1, <3>3, <3>4
  <2>6. QED
    BY <2>4, <2>5
<1>7. QED
  BY <1>5, <1>6

LEMMA BeginSendKnows ==
  ASSUME IInv, StreamInv', NEW r \in Ranks, BeginSend(r)
  PROVE  IInv'
<1>1. PICK p \in Parts(r) :
        /\ up[r] /\ p.dir = "send" /\ part[r][p] = "todo"
        /\ part' = [part EXCEPT ![r][p] = "open"]
        /\ link' = [link EXCEPT ![r][p.peer] =
             IF up[p.peer]
             THEN @ \o [i \in 1 .. Len(p.slots) |->
                          [val |-> ValueAt(mem[r], r, p.slots[i]), call |-> calls[r],
                           pos |-> i, of |-> Len(p.slots)]]
             ELSE @]
        /\ UNCHANGED <<setup, calls, pc, got, mem, results, up, crashed>>
  BY DEF BeginSend
<1> DEFINE c == calls[r]
           b == p.peer
           l == Len(p.slots)
           new == [i \in 1 .. l |-> [val |-> ValueAt(mem[r], r, p.slots[i]), call |-> c,
                                     pos |-> i, of |-> l]]
           ln == link[r][b]
<1>2. /\ StreamInv /\ KnowsInv(r) /\ InCall(r)
      /\ \A x, y \in Ranks : x # y /\ Sound(y) => TokensInv(x, y)
  BY InStep DEF IInv
<1>3. /\ b \in Ranks \ {r} /\ l \in Nat \ {0} /\ c \in 1 .. Len(setup.work) /\ c \in Nat
  BY <1>1, <1>2, StepFacts, SetupFacts
<1>4. /\ DOMAIN link = Ranks /\ \A x \in Ranks : DOMAIN link[x] = Ranks
      /\ DOMAIN part = Ranks /\ \A x, y \in Ranks : Dense(link[x][y])
  BY <1>2 DEF StreamInv, Shapes
<1>5. /\ \A x, y \in Ranks : ~(x = r /\ y = b) => link'[x][y] = link[x][y]
      /\ link'[r][b] = IF up[b] THEN ln \o new ELSE ln
  BY <1>1, <1>3, <1>4
<1>6. /\ part'[r] = [part[r] EXCEPT ![p] = "open"] /\ \A x \in Ranks \ {r} : part'[x] = part[x]
  BY <1>1, <1>4
<1>7. Parts(r)' = Parts(r) /\ part'[r][p] = "open"
      /\ \A q \in Parts(r) : q # p => part'[r][q] = part[r][q]
  BY <1>6 DEF Parts
<1>8. Goes(r) /\ \A x \in Ranks \ {r} : Kept(x)
  BY <1>1, <1>6, <1>7 DEF Goes, Kept
<1>9. Onward(r)
  BY <1>1, <1>2, <1>8, GoesOnward
<1>10. /\ \A S \in SUBSET Ranks : \A d \in Nat : Entered(S, d) => Entered(S, d)'
       /\ \A x \in Ranks \ {r} : \A d : Past(x, d)' <=> Past(x, d)
       /\ \A d : IsBarrier(d)' <=> IsBarrier(d)
       /\ OnRing' <=> OnRing
  BY <1>2, <1>9, OnwardKeeps
<1>11. KnowsInv(r)'
  BY <1>1, <1>2 DEF KnowsInv, InCall, IsBarrier, Entered, Heard, OnRing
<1>12. PastQuiet(r)
  BY <1>1 DEF PastQuiet, Past, InCall
<1>13. Sure(r) /\ LapInv(r)'
  BY <1>1, <1>9, <1>12, SureSame, LapQuiet
<1>14. ASSUME Sound(r)', NEW x \in Ranks \ {r} PROVE TokensInv(x, r)'
  <2>1. Sound(r) /\ TokensInv(x, r) /\ link'[x][r] = link[x][r]
    BY <1>2, <1>5, <1>9, <1>14 DEF Onward
  <2>2. PastWhy(x, r, 0)
    BY <1>12, <1>14 DEF PastWhy, PastQuiet
  <2>3. QED
    BY <1>2, <1>9, <2>1, <2>2, TokensSame
<1>15. ASSUME NEW x \in Ranks \ {r}, Sound(x) PROVE TokensInv(r, x)'
  <2>1. TokensInv(r, x)
    BY <1>2, <1>15
  <2>2. PastWhy(r, x, 0)
    BY <1>10 DEF PastWhy
  <2>3. CASE x # b \/ ~up[b]
    <3>1. link'[r][x] = link[r][x]
      BY <1>5, <2>3
    <3>2. QED
      BY <1>2, <1>9, <2>1, <2>2, <3>1, TokensSame
  <2>4. CASE x = b /\ up[b]
    <3> DEFINE L == Len(ln)
               X == {ln[i] : i \in DOMAIN ln} \cup {new[i] : i \in 1 .. l}
    <3>1. ln \in Seq(X) /\ new \in Seq(X) /\ Len(new) = l
      <4>1. ln \in Seq({ln[i] : i \in DOMAIN ln})
        BY <1>3, <1>4 DEF Dense
      <4> DEFINE u(i) == [val |-> ValueAt(mem[r], r, p.slots[i]), call |-> c, pos |-> i, of |-> l]
      <4>2. new = [i \in 1 .. l |-> u(i)]
        OBVIOUS
      <4>5. l \in Nat
        BY <1>3
      <4> HIDE DEF ln, new, u, l
      <4>6. new \in Seq({new[i] : i \in 1 .. l}) /\ Len(new) = l
        BY <4>2, <4>5
      <4>3. QED
        BY <4>1, <4>6
    <3>2. \A i \in 1 .. l : new[i].call = c
      OBVIOUS
    <3>3. link'[r][b] = ln \o new
      BY <1>5, <2>4
    <3> HIDE DEF ln, new, X, l
    <3>4. /\ Len(link'[r][b]) = L + l /\ L \in Nat
          /\ \A i \in 1 .. (L + l) : link'[r][b][i] = IF i <= L THEN ln[i] ELSE new[i - L]
      <4>1. Len(ln) \in Nat
        BY <3>1
      <4>2. /\ Len(ln \o new) = Len(ln) + Len(new)
            /\ \A i \in 1 .. (Len(ln) + Len(new)) :
                 (ln \o new)[i] = IF i <= Len(ln) THEN ln[i] ELSE new[i - Len(ln)]
        BY <3>1, ConcatProperties
      <4>3. QED
        BY <3>1, <3>3, <4>1, <4>2
    <3>5. SUFFICES ASSUME NEW j \in 1 .. (L + l) PROVE TokenInv(r, b, j)'
      BY <2>4, <3>4 DEF TokensInv
    <3>6. j \in Nat \ {0} /\ l \in Nat \ {0}
      BY <1>3, <3>4 DEF l
    <3> HIDE DEF L
    <3>7. CASE j <= L
      <4>1. j + 0 <= Len(link[r][b])
        BY <3>4, <3>6, <3>7 DEF L, ln
      <4>2. ASSUME NEW i \in 1 .. j PROVE link'[r][b][i] = link[r][b][i + 0]
        <5>1. i \in 1 .. (L + l) /\ i <= L /\ i + 0 = i
          BY <3>4, <3>6, <3>7
        <5>2. QED
          BY <3>4, <5>1 DEF ln
      <4>3. QED
        BY <1>2, <1>3, <1>9, <2>1, <2>2, <2>4, <3>6, <4>1, <4>2, TokenKept
    <3>8. CASE ~(j <= L)
      <4>1. PICK d : d = c
        OBVIOUS
      <4>2. link'[r][b][j].call = d
        <5>1. j - L \in 1 .. l
          BY <3>4, <3>6, <3>8
        <5>2. QED
          BY <3>2, <3>4, <3>8, <4>1, <5>1
      <4>3. calls'[r] = d /\ d \in Nat /\ d \in 1 .. calls'[r]
        BY <1>1, <1>3, <4>1
      <4>4. ASSUME IsBarrier(d) PROVE TokenTells(r, b, j, d)'
        <5>1. /\ ~OnRing /\ r = 0 => Entered(Ranks, d)
              /\ OnRing /\ b = Next1(r) =>
                   /\ pc[r] >= IF r = 0 THEN 1 ELSE 2
                   /\ Entered(0 .. r, d)
                   /\ \/ Entered(Ranks, d)
                      \/ ~Past(b, d) /\ \A i \in 1 .. Len(link[r][b]) : link[r][b][i].call # d
          BY <1>1, <1>3, <1>15, <2>4, <4>1, <4>4, TokenSent
        <5>2. l = 1
          <6>1. pc[r] \in 1 .. BarrierLen(r) /\ p = BarrierPart(r, pc[r])
            BY <1>1, <1>2, <4>1, <4>4, BarrierStep
          <6>2. QED
            BY <6>1, HeardGrows DEF l
        <5>3. j = L + 1
          BY <3>4, <3>6, <3>8, <5>2
        <5>4. \A i \in 1 .. (j - 1) : i \in 1 .. Len(link[r][b]) /\ link'[r][b][i] = link[r][b][i]
          <6>1. j - 1 = L
            BY <3>4, <5>3
          <6>2. ASSUME NEW i \in 1 .. L
                PROVE  i \in 1 .. Len(link[r][b]) /\ link'[r][b][i] = link[r][b][i]
            <7>1. i \in 1 .. (L + l) /\ i <= L
              BY <3>4, <3>6
            <7>2. QED
              BY <3>4, <7>1 DEF L, ln
          <6>3. QED
            BY <6>1, <6>2
        <5>5. 0 .. r \in SUBSET Ranks /\ Ranks \in SUBSET Ranks
          <6>1. N \in Nat /\ Ranks = 0 .. (N - 1) /\ r \in 0 .. (N - 1)
            BY WorldSizeAssumption DEF Ranks
          <6>2. QED
            BY <6>1
        <5>6. CASE OnRing
          <6>1. SUFFICES ASSUME b = Next1(r)
                         PROVE  /\ Begun(r, d)' /\ Entered(0 .. r, d)'
                                /\ Past(b, d)' \/ (\E i \in 1 .. (j - 1) : link'[r][b][i].call = d)
                                     => Entered(Ranks, d)'
            <7> HIDE DEF b
            <7>1. QED
              BY <1>10, <5>6 DEF TokenTells
          <6>2. Begun(r, d)'
            <7>1. pc[r] \in Nat
              BY <1>2 DEF StreamInv, Shapes
            <7>2. pc[r] >= IF r = 0 THEN 1 ELSE 2
              BY <5>1, <5>6, <6>1
            <7>3. \E q \in Parts(r)' : part'[r][q] # "todo"
              BY <1>7
            <7>4. QED
              BY <1>1, <4>3, <7>1, <7>2, <7>3 DEF Begun
          <6>3. Entered(0 .. r, d)'
            BY <1>10, <4>3, <5>1, <5>5, <5>6, <6>1
          <6>4. ASSUME Past(b, d)' \/ (\E i \in 1 .. (j - 1) : link'[r][b][i].call = d)
                PROVE  Entered(Ranks, d)
            BY <1>3, <1>10, <5>1, <5>4, <5>6, <6>1, <6>4
          <6>5. QED
            BY <1>10, <4>3, <5>5, <6>2, <6>3, <6>4
        <5>7. CASE ~OnRing
          BY <1>10, <4>3, <5>1, <5>5, <5>7 DEF TokenTells
        <5>8. QED
          BY <5>6, <5>7
      <4>5. QED
        BY <1>10, <4>2, <4>3, <4>4 DEF TokenInv
    <3>9. QED
      BY <3>6, <3>7, <3>8, <3>4
  <2>5. QED
    BY <2>3, <2>4
<1>16. \A x, y \in Ranks \ {r} : link'[x][y] = link[x][y]
  BY <1>5
<1>17. QED
  BY <1>9, <1>11, <1>13, <1>14, <1>15, <1>16, KnowsAssemble

LEMMA NextKnows ==
  ASSUME IInv, [Next]_vars
  PROVE  IInv'
<1>1. StreamInv'
  BY NextKeeps DEF IInv
<1>2. ASSUME Next PROVE IInv'
  <2>1. PICK r \in Ranks : RankStep(r) \/ Crash(r) \/ BrokenPipe(r)
    BY <1>2 DEF Next
  <2>2. CASE Call(r)
    BY <1>1, <2>2, CallKnows
  <2>3. CASE BeginSend(r)
    BY <1>1, <2>3, BeginSendKnows
  <2>4. CASE EndSend(r) \/ FailSend(r)
    BY <1>1, <2>4, EndSendKnows
  <2>5. CASE RecvChunk(r)
    BY <1>1, <2>5, RecvChunkKnows
  <2>6. CASE FailRecv(r)
    BY <1>1, <2>6, FailRecvKnows
  <2>7. CASE Finalize(r) \/ Crash(r) \/ BrokenPipe(r)
    BY <1>1, <2>7, GoneKnows DEF Finalize, Crash, BrokenPipe
  <2>8. QED
    BY <2>1, <2>2, <2>3, <2>4, <2>5, <2>6, <2>7 DEF RankStep
<1>3. QED
  BY <1>1, <1>2, StutterKnows

-----------------------------------------------------------------------------
(* The streams of a running communicator hold what their readers are to     *)
(* read next, and a token of a Barrier tells the truth, whatever the number *)
(* of ranks, the calls, the buffers and the crashes: the calls pair up.     *)
THEOREM PairedInvariance == Spec => []IInv
<1>1. Init => IInv
  BY ProgramsPair, InitStreams, InitKnows
<1>2. IInv /\ [Next]_vars => IInv'
  BY NextKnows
<1>3. QED
  BY <1>1, <1>2, PTL DEF Spec

(* A Barrier that returns true at one rank has been entered by all.         *)
THEOREM BarrierSafeCorrect == Spec => []BarrierSafe
<1>1. IInv => BarrierSafe
  BY DEF IInv
<1>2. QED
  BY <1>1, PairedInvariance, PTL

(* What a Recv reads next is the chunk of the Send it is meant for.         *)
THEOREM RecvMatchesSendCorrect == Spec => []RecvMatchesSend
<1>1. IInv => RecvMatchesSend
  BY HeadMatches DEF IInv
<1>2. QED
  BY <1>1, PairedInvariance, PTL

(* Two ranks never have data in flight towards each other at once.          *)
THEOREM HalfDuplexCorrect == Spec => []HalfDuplex
<1>1. IInv => HalfDuplex
  BY DEF IInv, StreamInv
<1>2. QED
  BY <1>1, PairedInvariance, PTL

(* A rank whose calls have all returned true is sent nothing more.          *)
THEOREM NothingUnreadCorrect == Spec => []NothingUnread
<1>1. StreamInv => NothingUnread
  <2>1. SUFFICES ASSUME StreamInv, NEW r \in Ranks, Returned(r),
                        \A i \in DOMAIN results[r] : results[r][i],
                        NEW q \in Ranks, up[q]
                 PROVE  link[q][r] = <<>>
    BY DEF NothingUnread
  <2>2. CASE q = r \/ ~up[r]
    BY <2>1, <2>2 DEF StreamInv, Closed
  <2>3. CASE q # r /\ up[r]
    <3> DEFINE ln == link[q][r]
               R == Read(r, q)
               U == SentChunks[setup][q][r]
    <3>1. Sound(r) /\ ~InCall(r) /\ calls[r] = Len(setup.work)
      BY <2>1, <2>3 DEF Sound, Returned
    <3>2. Flow(setup, q, r, R, Pos(r, q), ln, Sound(q), Pos(q, r)) /\ Dense(ln)
      BY <2>1, <2>3, <3>1, PairForm DEF StreamInv, Shapes
    <3>3. Paired /\ setup \in Setups
      BY <2>1, SetupFacts
    <3>4. Pos(r, q) = Len(Messages[setup][q][r])
      <4>1. Pos(r, q) = Len(StoryUpto[setup][r][q][Len(setup.work)])
        BY <3>1, PosForms
      <4>2. Messages[setup][r][q] = StoryUpto[setup][r][q][Len(setup.work)]
        BY <3>3, StoryFacts
      <4>3. Len(Messages[setup][q][r]) = Len(Messages[setup][r][q])
        BY <2>1, <2>3, <3>1, PosType
      <4>4. QED
        BY <4>1, <4>2, <4>3
    <3>5. Parts(r) = {}
      BY <2>1, <3>1, EmptyParts DEF StreamInv, RankInv, Parts
    <3>6. R = Sent(q, r, Pos(r, q)) + 0
      BY <3>5 DEF Read
    <3>7. Sent(q, r, Pos(r, q)) = Len(U) /\ Len(U) \in Nat
      BY <3>3, <3>4, SendsTypes DEF Sent
    <3>8. ln \in Seq({ln[i] : i \in DOMAIN ln})
      BY <3>2 DEF Dense
    <3>9. R + Len(ln) <= Len(U)
      BY <3>2 DEF Flow
    <3> HIDE DEF ln, R, U
    <3>10. Len(ln) \in Nat
      BY <3>8
    <3>11. Len(ln) = 0
      BY <3>6, <3>7, <3>9, <3>10
    <3>12. QED
      BY <3>8, <3>11 DEF ln
  <2>4. QED
    BY <2>2, <2>3
<1>2. IInv => StreamInv
  BY DEF IInv
<1>3. QED
  BY <1>1, <1>2, PairedInvariance, PTL

(* Ranks, calls, memory and streams hold what their declarations say.       *)
THEOREM CollectivesTypeCorrect == Spec => []TypeOK
<1>1. IInv => TypeOK
  BY DEF IInv, StreamInv
<1>2. QED
  BY <1>1, PairedInvariance, PTL
-----------------------------------------------------------------------------
(* What a and b call on the connection between them in all their calls, if  *)
(* a chunk of call c has bytes[c] bytes.                                    *)
Conn == INSTANCE TwoEnds

Between(s, a, b, bytes) ==
  [e \in Conn!Ends |->
     LET msgs == IF e = "A" THEN Messages[s][a][b] ELSE Messages[s][b][a]
     IN  [k \in 1 .. Len(msgs) |-> Conn!Lone(msgs[k].dir, msgs[k].len * bytes[msgs[k].call])]]

LEMMA LoneFacts ==
  ASSUME NEW op \in Conn!Ops, NEW size \in Nat \ {0}
  PROVE  LET x == Conn!Lone(op, size)
         IN  /\ x \in Conn!Steps /\ x.send + x.recv > 0
             /\ x.send = IF op = "send" THEN size ELSE 0
             /\ x.recv = IF op = "recv" THEN size ELSE 0
<1> DEFINE x == Conn!Lone(op, size)
<1>1. x = [o \in {"send", "recv"} |-> IF o = op THEN size ELSE 0]
  BY DEF Conn!Lone, Conn!Ops
<1>2. x \in [{"send", "recv"} -> Nat]
  BY <1>1
<1>3. x.send = IF op = "send" THEN size ELSE 0
  BY <1>1
<1>4. x.recv = IF op = "recv" THEN size ELSE 0
  BY <1>1
<1>5. op = "send" \/ op = "recv"
  BY DEF Conn!Ops
<1> HIDE DEF x
<1>6. x.send + x.recv > 0
  BY <1>3, <1>4, <1>5
<1>7. QED
  BY <1>2, <1>3, <1>4, <1>6 DEF x, Conn!Steps, Conn!Ops

LEMMA SizePositive == \A x, y \in Nat \ {0} : x * y \in Nat \ {0}
OBVIOUS

(* Over each connection the collectives only ever take turns: in the order  *)
(* of its calls one rank sends what the other receives, as many bytes, and  *)
(* neither sends while it is sent to.  That is what TransportRdma::Send and *)
(* Recv, which share one completion queue, need of their callers (TakesTurns*)
(* of TransportProofs), whatever the sizes of the vectors.                  *)
THEOREM CollectivesTakeTurns ==
  ASSUME NEW s \in Setups, NEW a \in Ranks, NEW b \in Ranks, a # b,
         NEW bytes \in [Nat -> Nat \ {0}]
  PROVE  /\ Conn!IsProgram(Between(s, a, b, bytes))
         /\ Conn!InTurns(Between(s, a, b, bytes))
<1> DEFINE p == Between(s, a, b, bytes)
           x == Messages[s][a][b]
           y == Messages[s][b][a]
           Size(m) == m.len * bytes[m.call]
           Half(u) == [k \in 1 .. Len(u) |-> Conn!Lone(u[k].dir, Size(u[k]))]
<1>1. x \in Seq(Told) /\ y \in Seq(Told) /\ Sides(x, y)
  BY ProgramsPair, StoryFacts, SidesFacts
<1>2. /\ Conn!Ends = {"A", "B"}
      /\ Conn!Other("A") = "B" /\ Conn!Other("B") = "A"
  BY DEF Conn!Ends, Conn!Other
<1>3. /\ p = [e \in {"A", "B"} |-> IF e = "A" THEN Half(x) ELSE Half(y)]
  BY <1>2 DEF Between
<1> HIDE DEF x, y, Size
<1>4. ASSUME NEW u \in Seq(Told)
      PROVE  /\ Half(u) \in Seq(Conn!Steps) /\ Len(Half(u)) = Len(u) /\ Len(u) \in Nat
             /\ \A k \in 1 .. Len(u) : /\ u[k] \in Told /\ Size(u[k]) \in Nat \ {0}
                                       /\ Half(u)[k] = Conn!Lone(u[k].dir, Size(u[k]))
  <2>1. Len(u) \in Nat /\ \A k \in 1 .. Len(u) : u[k] \in Told
    BY <1>4, ElementOfSeq
  <2>2. ASSUME NEW m \in Told PROVE Size(m) \in Nat \ {0} /\ m.dir \in Conn!Ops
    <3>1. m.len \in Nat \ {0} /\ bytes[m.call] \in Nat \ {0} /\ m.dir \in {"send", "recv"}
      BY DEF Told
    <3>2. QED
      BY <3>1, SizePositive DEF Size, Conn!Ops
  <2>3. \A k \in 1 .. Len(u) : Conn!Lone(u[k].dir, Size(u[k])) \in Conn!Steps
    BY <2>1, <2>2, LoneFacts
  <2>4. Half(u) \in Seq(Conn!Steps) /\ Len(Half(u)) = Len(u)
    BY <2>1, <2>3
  <2>5. ASSUME NEW k \in 1 .. Len(u)
        PROVE  /\ u[k] \in Told /\ Size(u[k]) \in Nat \ {0}
               /\ Half(u)[k] = Conn!Lone(u[k].dir, Size(u[k]))
    BY <2>1, <2>2
  <2>6. QED
    BY <2>1, <2>4, <2>5
<1> HIDE DEF Half
<1>5. p["A"] = Half(x) /\ p["B"] = Half(y) /\ p \in [{"A", "B"} -> Seq(Conn!Steps)]
  BY <1>1, <1>3, <1>4
<1> HIDE DEF p
<1>6. ASSUME NEW u \in Seq(Told), NEW k \in 1 .. Len(u)
      PROVE  /\ Half(u)[k].send + Half(u)[k].recv > 0
             /\ Half(u)[k].send = IF u[k].dir = "send" THEN Size(u[k]) ELSE 0
             /\ Half(u)[k].recv = IF u[k].dir = "recv" THEN Size(u[k]) ELSE 0
  <2>1. u[k].dir \in Conn!Ops
    BY <1>4 DEF Told, Conn!Ops
  <2>2. Half(u)[k] = Conn!Lone(u[k].dir, Size(u[k])) /\ Size(u[k]) \in Nat \ {0}
    BY <1>4
  <2> DEFINE d == u[k].dir
             z == Size(u[k])
             w == Half(u)[k]
  <2>3. d \in Conn!Ops /\ z \in Nat \ {0} /\ w = Conn!Lone(d, z)
    BY <2>1, <2>2
  <2> HIDE DEF d, z, w
  <2>4. /\ w.send + w.recv > 0
        /\ w.send = IF d = "send" THEN z ELSE 0
        /\ w.recv = IF d = "recv" THEN z ELSE 0
    BY <2>3, LoneFacts
  <2>5. QED
    BY <2>4 DEF d, z, w
<1>7. Conn!IsProgram(p)
  <2>1. \A u \in Seq(Told) : DOMAIN Half(u) = 1 .. Len(u)
    BY <1>4
  <2>2. QED
    BY <1>1, <1>2, <1>5, <1>6, <2>1 DEF Conn!IsProgram
<1>8. /\ Len(x) = Len(y) /\ Len(x) \in Nat
      /\ \A k \in 1 .. Len(x) : /\ Size(x[k]) = Size(y[k]) /\ x[k].dir # y[k].dir
                                /\ x[k].dir \in {"send", "recv"} /\ y[k].dir \in {"send", "recv"}
  BY <1>1, <1>4 DEF Sides, Size, Told
<1>9. ASSUME NEW k \in 1 .. Len(x)
      PROVE  /\ Half(x)[k].send = Half(y)[k].recv /\ Half(y)[k].send = Half(x)[k].recv
             /\ Half(x)[k].send = 0 \/ Half(x)[k].recv = 0
             /\ Half(y)[k].send = 0 \/ Half(y)[k].recv = 0
  <2>1. k \in 1 .. Len(y)
    BY <1>8
  <2>2. /\ Half(x)[k].send = IF x[k].dir = "send" THEN Size(x[k]) ELSE 0
        /\ Half(x)[k].recv = IF x[k].dir = "recv" THEN Size(x[k]) ELSE 0
    BY <1>1, <1>6
  <2>3. /\ Half(y)[k].send = IF y[k].dir = "send" THEN Size(y[k]) ELSE 0
        /\ Half(y)[k].recv = IF y[k].dir = "recv" THEN Size(y[k]) ELSE 0
    BY <1>1, <1>6, <2>1
  <2>4. QED
    BY <1>8, <2>2, <2>3
<1>10. Conn!InTurns(p)
  <2>1. Len(p["A"]) = Len(x) /\ Len(p["B"]) = Len(x)
    BY <1>1, <1>4, <1>5, <1>8
  <2>2. ASSUME NEW e \in Conn!Ends, NEW i \in 1 .. Len(p[e])
        PROVE  /\ p[e][i].send = p[Conn!Other(e)][i].recv
               /\ p[e][i].send = 0 \/ p[e][i].recv = 0
    <3>1. i \in 1 .. Len(x) /\ (e = "A" \/ e = "B")
      BY <1>2, <2>1
    <3>2. CASE e = "A"
      <4>1. p[e] = Half(x) /\ p[Conn!Other(e)] = Half(y)
        BY <1>2, <1>5, <3>2
      <4>2. QED
        BY <1>9, <3>1, <4>1
    <3>3. CASE e = "B"
      <4>1. p[e] = Half(y) /\ p[Conn!Other(e)] = Half(x)
        BY <1>2, <1>5, <3>3
      <4>2. QED
        BY <1>9, <3>1, <4>1
    <3>4. QED
      BY <3>1, <3>2, <3>3
  <2>3. QED
    BY <2>1, <2>2 DEF Conn!InTurns
<1>11. QED
  BY <1>7, <1>10 DEF p
=============================================================================
