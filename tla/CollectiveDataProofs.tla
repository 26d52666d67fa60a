------------------------ MODULE CollectiveDataProofs ------------------------
(* That every collective that returns true has computed what it promises,   *)
(* for any number of ranks, calls, buffers and crashes.  Three parts: what  *)
(* a program does when it runs by itself (Delivered), what the streams and  *)
(* the memories of a running communicator hold (DataInv), and the theorem.  *)
EXTENDS CollectivesProofs, CollectiveData

-----------------------------------------------------------------------------
(* A program by itself, step after step.                                    *)
Unrolled(g, n, code, r, L) ==
  /\ g = [k \in 0 .. n |-> g[k]]
  /\ g[0] = Start(code, r)
  /\ \A k \in 1 .. n : g[k] = After(code.steps[k], r, L, g[k - 1])

LEMMA UnrolledExists ==
  ASSUME NEW code, NEW r, NEW L, NEW n \in Nat
  PROVE  \E g : Unrolled(g, n, code, r, L)
<1> DEFINE S == {k \in Nat : \E g : Unrolled(g, k, code, r, L)}
           start == Start(code, r)
<1>1. 0 \in S
  <2> DEFINE g == [i \in 0 .. 0 |-> start]
  <2>1. g[0] = start /\ g = [i \in 0 .. 0 |-> g[i]]
    OBVIOUS
  <2> HIDE DEF g
  <2>2. Unrolled(g, 0, code, r, L)
    BY <2>1 DEF Unrolled
  <2>3. QED
    BY <2>2
<1>2. ASSUME NEW k \in Nat, k \in S PROVE k + 1 \in S
  <2>1. PICK g : Unrolled(g, k, code, r, L)
    BY <1>2
  <2> DEFINE v == After(code.steps[k + 1], r, L, g[k])
             h == [i \in 0 .. (k + 1) |-> IF i = k + 1 THEN v ELSE g[i]]
  <2>2. h = [i \in 0 .. (k + 1) |-> h[i]] /\ h[0] = start
    <3> HIDE DEF v
    <3>1. QED
      BY <2>1 DEF Unrolled
  <2>3. ASSUME NEW i \in 1 .. (k + 1) PROVE h[i] = After(code.steps[i], r, L, h[i - 1])
    <3>1. CASE i = k + 1
      <4>1. h[k + 1] = v /\ h[k] = g[k] /\ i - 1 = k
        <5> HIDE DEF v
        <5>1. QED
          BY <3>1
      <4>2. QED
        BY <3>1, <4>1
    <3>2. CASE i # k + 1
      <4>1. i \in 1 .. k /\ i - 1 \in 0 .. (k + 1) /\ i - 1 # k + 1
        BY <3>2
      <4>2. h[i] = g[i] /\ h[i - 1] = g[i - 1]
        <5> HIDE DEF v
        <5>1. QED
          BY <3>2, <4>1
      <4>3. QED
        BY <2>1, <4>1, <4>2 DEF Unrolled
    <3>3. QED
      BY <3>1, <3>2
  <2> HIDE DEF h
  <2>4. Unrolled(h, k + 1, code, r, L)
    BY <2>2, <2>3 DEF Unrolled
  <2>5. QED
    BY <2>4
<1>3. Nat \subseteq S
  <2> HIDE DEF S
  <2>1. QED
    BY <1>1, <1>2, NatSteps
<1>4. QED
  BY <1>3

LEMMA AtFacts ==
  ASSUME NEW code, NEW r, NEW L, Len(code.steps) \in Nat
  PROVE  Unrolled(At(code, r, L), Len(code.steps), code, r, L)
<1> DEFINE n == Len(code.steps)
           start == Start(code, r)
           A(k, before) == After(code.steps[k], r, L, before)
           F(f) == [k \in 0 .. n |-> IF k = 0 THEN start ELSE A(k, f[k - 1])]
           u == At(code, r, L)
<1>1. u = CHOOSE f : f = F(f)
  BY DEF At
<1>2. PICK g : Unrolled(g, n, code, r, L)
  <2> HIDE DEF n
  <2>1. QED
    BY UnrolledExists DEF n
<1>3. g = [k \in 0 .. n |-> g[k]] /\ g[0] = start /\ \A k \in 1 .. n : g[k] = A(k, g[k - 1])
  BY <1>2 DEF Unrolled
<1> HIDE DEF n, start, A, u
<1>4. g = F(g)
  <2>1. n \in Nat
    BY DEF n
  <2>2. \A k \in 0 .. n : g[k] = F(g)[k]
    <3> TAKE k \in 0 .. n
    <3>1. k = 0 \/ k \in 1 .. n
      BY <2>1
    <3>2. F(g)[k] = IF k = 0 THEN start ELSE A(k, g[k - 1])
      OBVIOUS
    <3>3. QED
      BY <1>3, <3>1, <3>2
  <2>3. QED
    BY <1>3, <2>2
<1> HIDE DEF F
<1>5. u = F(u)
  BY <1>1, <1>4
<1>6. u = [k \in 0 .. n |-> IF k = 0 THEN start ELSE A(k, u[k - 1])]
  BY <1>5 DEF F
<1> DEFINE h == [k \in 0 .. n |-> IF k = 0 THEN start ELSE A(k, u[k - 1])]
<1>7. n \in Nat
  BY DEF n
<1>8. h = [k \in 0 .. n |-> h[k]] /\ h[0] = start /\ \A k \in 1 .. n : h[k] = A(k, u[k - 1])
  BY <1>7
<1>9. u = h
  BY <1>6
<1> HIDE DEF h
<1>10. u = [k \in 0 .. n |-> u[k]] /\ u[0] = start /\ \A k \in 1 .. n : u[k] = A(k, u[k - 1])
  BY <1>8, <1>9
<1>11. QED
  BY <1>10 DEF Unrolled, n, start, A, u

-----------------------------------------------------------------------------
(* Memories: what a Recv, a memcpy and a reduction leave in a slot.         *)
IsMem(m) == m = [s \in Written |-> m[s]]
Unique(pairs) == \A c, d \in pairs : c[1] = d[1] => c = d
Distinct(slots, n) == \A i, j \in 1 .. n : slots[i] = slots[j] => i = j

LEMMA MemShapes ==
  /\ \A m, r, copies : IsMem(Copy(m, r, copies))
  /\ \A m, folds : IsMem(Fold(m, folds))
  /\ \A m, r, p, L, g, n : IsMem(Filled(m, r, p, L, g, n))
  /\ \A m : IsMem([s \in Written |-> m])
<1>1. ASSUME NEW m, NEW r, NEW copies PROVE IsMem(Copy(m, r, copies))
  BY DEF IsMem, Copy
<1>2. ASSUME NEW m, NEW folds PROVE IsMem(Fold(m, folds))
  BY DEF IsMem, Fold
<1>3. ASSUME NEW m, NEW r, NEW p, NEW L, NEW g, NEW n PROVE IsMem(Filled(m, r, p, L, g, n))
  BY DEF IsMem, Filled
<1>4. ASSUME NEW m PROVE IsMem([s \in Written |-> m])
  BY DEF IsMem
<1>5. QED
  BY <1>1, <1>2, <1>3, <1>4

LEMMA SameMem ==
  ASSUME NEW m, NEW w, IsMem(m), IsMem(w), \A s \in Written : m[s] = w[s]
  PROVE  m = w
BY DEF IsMem

LEMMA CopyAt ==
  ASSUME NEW m, NEW r, NEW copies, NEW s \in Written
  PROVE  /\ (\A c \in copies : c[1] # s) => Copy(m, r, copies)[s] = m[s]
         /\ \A c \in copies : c[1] = s /\ Unique(copies) =>
              Copy(m, r, copies)[s] = ValueAt(m, r, c[2])
<1> DEFINE V(x) == ValueAt(m, r, x)
<1>1. Copy(m, r, copies)[s] = IF \E c \in copies : c[1] = s
                              THEN V((CHOOSE c \in copies : c[1] = s)[2]) ELSE m[s]
  BY DEF Copy
<1> HIDE DEF V
<1>2. ASSUME NEW c \in copies, c[1] = s, Unique(copies) PROVE Copy(m, r, copies)[s] = V(c[2])
  <2>1. (CHOOSE d \in copies : d[1] = s) = c
    BY <1>2 DEF Unique
  <2>2. QED
    BY <1>1, <1>2, <2>1
<1>3. QED
  BY <1>1, <1>2 DEF V

LEMMA FoldAt ==
  ASSUME NEW m, NEW folds, NEW s \in Written
  PROVE  /\ (\A f \in folds : f[1] # s) => Fold(m, folds)[s] = m[s]
         /\ \A f \in folds : f[1] = s /\ Unique(folds) => Fold(m, folds)[s] = m[s] (+) m[f[2]]
<1> DEFINE V(x) == m[s] (+) m[x]
<1>1. Fold(m, folds)[s] = IF \E f \in folds : f[1] = s
                          THEN V((CHOOSE f \in folds : f[1] = s)[2]) ELSE m[s]
  BY DEF Fold
<1> HIDE DEF V
<1>2. ASSUME NEW f \in folds, f[1] = s, Unique(folds) PROVE Fold(m, folds)[s] = V(f[2])
  <2>1. (CHOOSE d \in folds : d[1] = s) = f
    BY <1>2 DEF Unique
  <2>2. QED
    BY <1>1, <1>2, <2>1
<1>3. QED
  BY <1>1, <1>2 DEF V

LEMMA FilledAt ==
  ASSUME NEW m, NEW r, NEW p, NEW L, NEW g, NEW n, NEW s \in Written
  PROVE  /\ (\A i \in 1 .. n : p.slots[i] # s) => Filled(m, r, p, L, g, n)[s] = m[s]
         /\ \A i \in 1 .. n : p.slots[i] = s /\ Distinct(p.slots, n) =>
              Filled(m, r, p, L, g, n)[s] = L[p.peer][r][g + i]
<1> DEFINE V(i) == L[p.peer][r][g + i]
<1>1. Filled(m, r, p, L, g, n)[s] = IF \E i \in 1 .. n : p.slots[i] = s
                                    THEN V(CHOOSE i \in 1 .. n : p.slots[i] = s) ELSE m[s]
  BY DEF Filled
<1> HIDE DEF V
<1>2. ASSUME NEW i \in 1 .. n, p.slots[i] = s, Distinct(p.slots, n)
      PROVE  Filled(m, r, p, L, g, n)[s] = V(i)
  <2>1. (CHOOSE j \in 1 .. n : p.slots[j] = s) = i
    BY <1>2 DEF Distinct
  <2>2. QED
    BY <1>1, <1>2, <2>1
<1>3. QED
  BY <1>1, <1>2 DEF V

LEMMA NothingDone ==
  ASSUME NEW m, IsMem(m)
  PROVE  /\ \A r : Copy(m, r, {}) = m
         /\ Fold(m, {}) = m
         /\ \A r, p, L, g : Filled(m, r, p, L, g, 0) = m
<1>1. ASSUME NEW r PROVE Copy(m, r, {}) = m
  <2>1. \A s \in Written : Copy(m, r, {})[s] = m[s]
    BY CopyAt
  <2>2. QED
    BY <2>1, MemShapes, SameMem
<1>2. Fold(m, {}) = m
  <2>1. \A s \in Written : Fold(m, {})[s] = m[s]
    BY FoldAt
  <2>2. QED
    BY <2>1, MemShapes, SameMem
<1>3. ASSUME NEW r, NEW p, NEW L, NEW g PROVE Filled(m, r, p, L, g, 0) = m
  <2>1. \A s \in Written : Filled(m, r, p, L, g, 0)[s] = m[s]
    BY FilledAt
  <2>2. QED
    BY <2>1, MemShapes, SameMem
<1>4. QED
  BY <1>1, <1>2, <1>3

(* What a step sends to a rank and receives from it.                        *)
LEMMA AmountFacts ==
  ASSUME NEW Q, NEW x, Good(x, Q), NEW q
  PROVE  /\ \A p \in x.parts : p.peer = q => Amount(x, q, p.dir) = Len(p.slots)
         /\ \A d : (\A p \in x.parts : p.peer = q => p.dir # d) => Amount(x, q, d) = 0
         /\ \A d : Amount(x, q, d) \in Nat
<1>1. ASSUME NEW p \in x.parts, p.peer = q PROVE Amount(x, q, p.dir) = Len(p.slots)
  <2>1. (CHOOSE y \in x.parts : y.peer = q /\ y.dir = p.dir) = p
    BY <1>1 DEF Good
  <2>2. QED
    BY <1>1, <2>1 DEF Amount
<1>2. ASSUME NEW d, \A p \in x.parts : p.peer = q => p.dir # d PROVE Amount(x, q, d) = 0
  BY <1>2 DEF Amount
<1>3. ASSUME NEW d PROVE Amount(x, q, d) \in Nat
  <2>1. CASE \E p \in x.parts : p.peer = q /\ p.dir = d
    <3>1. PICK p \in x.parts : p.peer = q /\ p.dir = d
      BY <2>1
    <3>2. Amount(x, q, d) = Len(p.slots) /\ Len(p.slots) \in Nat
      BY <1>1, <3>1 DEF Good
    <3>3. QED
      BY <3>2
  <2>2. CASE ~\E p \in x.parts : p.peer = q /\ p.dir = d
    BY <1>2, <2>2
  <2>3. QED
    BY <2>1, <2>2
<1>4. QED
  BY <1>1, <1>2, <1>3

-----------------------------------------------------------------------------
(* How much a program has sent and got is where it stands in its messages.  *)
LEMMA StepsGood ==
  ASSUME NEW code, NEW r, WellFormed(code, r)
  PROVE  /\ Len(code.steps) \in Nat \ {0}
         /\ \A k \in 1 .. Len(code.steps) : Good(code.steps[k], Ranks \ {r})
BY DEF WellFormed, Good

LEMMA StoryLens ==
  ASSUME Paired, NEW s \in Setups, NEW a \in Ranks, NEW b \in Ranks \ {a}, NEW c \in 0 .. Len(s.work)
  PROVE  Len(StoryUpto[s][a][b][c]) = Len(StoryUpto[s][b][a][c])
<1> DEFINE W == Len(s.work)
           x(k) == Len(StoryUpto[s][a][b][k])
           y(k) == Len(StoryUpto[s][b][a][k])
           S == {k \in Nat : k <= W => x(k) = y(k)}
<1>1. W \in Nat
  BY CodeFacts
<1>2. 0 \in S
  BY StoryFacts
<1>3. ASSUME NEW k \in Nat, k \in S PROVE k + 1 \in S
  <2>1. SUFFICES ASSUME k + 1 <= W PROVE x(k + 1) = y(k + 1)
    OBVIOUS
  <2>2. PICK d \in 1 .. W : d = k + 1 /\ d - 1 = k /\ k <= W
    BY <1>1, <2>1
  <2> DEFINE f == CodeOf(s.topology, s.work[d], a)
             g == CodeOf(s.topology, s.work[d], b)
             u == JoinedUpto(Talk(f, b))
             v == JoinedUpto(Talk(g, a))
  <2>3. WellFormed(f, a) /\ WellFormed(g, b) /\ Mirror(Joined(Talk(f, b)), Joined(Talk(g, a)))
    BY CodeFacts
  <2>4. /\ Joined(Talk(f, b)) = u[Len(f.steps)] /\ Joined(Talk(g, a)) = v[Len(g.steps)]
    BY <2>3, TalkFacts, JoinedType
  <2>5. /\ StoryOf(StoryUpto[s][a][b], Messages[s][a][b], f, u, b, d)
        /\ StoryOf(StoryUpto[s][b][a], Messages[s][b][a], g, v, a, d)
    BY StoryFacts
  <2>6. x(d) = x(d - 1) + Len(u[Len(f.steps)]) /\ y(d) = y(d - 1) + Len(v[Len(g.steps)])
    BY <2>5 DEF StoryOf
  <2>7. Len(u[Len(f.steps)]) = Len(v[Len(g.steps)])
    BY <2>3, <2>4 DEF Mirror
  <2>8. x(k) = y(k)
    BY <1>3, <2>2
  <2> HIDE DEF x, y, u, v, f, g
  <2>9. QED
    BY <2>2, <2>6, <2>7, <2>8
<1>4. Nat \subseteq S
  <2> HIDE DEF S
  <2>1. QED
    BY <1>2, <1>3, NatSteps
<1>5. QED
  BY <1>1, <1>4

(* Where r stands after k steps of call c in its messages with q.           *)
Place(s, c, r, q, k) ==
  Len(StoryUpto[s][r][q][c - 1])
  + Len(JoinedUpto(Talk(CodeOf(s.topology, s.work[c], r), q))[k])
Counted(s, c, r, q, at, k) ==
  LET to(m) == Len(SendsUpto[s][r][q][m])
      fro(m)  == Len(SendsUpto[s][q][r][m])
  IN  /\ at.sent[q] \in Nat /\ to(Place(s, c, r, q, k)) = to(Place(s, c, r, q, 0)) + at.sent[q]
      /\ at.got[q] \in Nat /\ fro(Place(s, c, r, q, k)) = fro(Place(s, c, r, q, 0)) + at.got[q]

(* One step further.                                                        *)
LEMMA CountsStep ==
  ASSUME Paired, NEW s \in Setups, NEW c \in 1 .. Len(s.work), NEW r \in Ranks, NEW q \in Ranks \ {r},
         NEW L, NEW k \in 1 .. Len(CodeOf(s.topology, s.work[c], r).steps), NEW before,
         Counted(s, c, r, q, before, k - 1)
  PROVE  Counted(s, c, r, q, After(CodeOf(s.topology, s.work[c], r).steps[k], r, L, before), k)
<1> DEFINE code == CodeOf(s.topology, s.work[c], r)
           x == code.steps[k]
           to(m) == Len(SendsUpto[s][r][q][m])
           fro(m)  == Len(SendsUpto[s][q][r][m])
           u == JoinedUpto(Talk(code, q))
           base == Len(StoryUpto[s][r][q][c - 1])
           P == Place(s, c, r, q, k - 1)
           R == Place(s, c, r, q, k)
           Z == Place(s, c, r, q, 0)
           y == After(x, r, L, before)
           M == Messages[s][r][q]
           W == Messages[s][q][r]
<1>1. WellFormed(code, r) /\ Good(x, Ranks \ {r}) /\ Len(code.steps) \in Nat \ {0}
  BY CodeFacts, StepsGood
<1>2. StoryOf(StoryUpto[s][r][q], M, code, u, q, c)
  BY StoryFacts
<1>3. base \in Nat /\ P = base + Len(u[k - 1]) /\ R = base + Len(u[k])
  <2>1. c - 1 \in 0 .. Len(s.work)
    BY CodeFacts
  <2>2. base \in Nat
    BY <2>1, StoryFacts
  <2>3. QED
    BY <2>2 DEF Place
<1>4. y.sent[q] = before.sent[q] + Amount(x, q, "send") /\ y.got[q] = before.got[q] + Amount(x, q, "recv")
  BY DEF After
<1>5. /\ before.sent[q] \in Nat /\ to(P) = to(Z) + before.sent[q]
      /\ before.got[q] \in Nat /\ fro(P) = fro(Z) + before.got[q]
  BY DEF Counted
<1>6. /\ Len(M) \in Nat /\ Len(W) \in Nat /\ \A m \in 0 .. Len(M) : to(m) \in Nat
      /\ \A m \in 0 .. Len(W) : fro(m) \in Nat
      /\ Len(M) = Len(W) /\ \A m \in 1 .. Len(M) : M[m].len = W[m].len /\ M[m].dir # W[m].dir
  <2>1. Sides(M, W)
    BY SidesFacts
  <2>2. QED
    BY <2>1, SendsTypes DEF Sides
<1>7. /\ Amount(x, q, "send") \in Nat /\ Amount(x, q, "recv") \in Nat
      /\ \A p \in x.parts : p.peer = q => Amount(x, q, p.dir) = Len(p.slots)
      /\ \A d : (\A p \in x.parts : p.peer = q => p.dir # d) => Amount(x, q, d) = 0
  BY <1>1, AmountFacts
<1>8. to(Z) \in Nat /\ fro(Z) \in Nat
  <2>1. Len(u[0]) = 0
    BY <1>2 DEF StoryOf
  <2>2. Z = base
    BY <1>3, <2>1 DEF Place
  <2>3. base <= Len(M)
    <3>1. c - 1 \in 0 .. Len(s.work)
      BY CodeFacts
    <3>2. QED
      BY <3>1, StoryFacts
  <2>4. base \in 0 .. Len(M) /\ base \in 0 .. Len(W)
    <3> HIDE DEF base, M, W
    <3>1. QED
      BY <1>3, <1>6, <2>3
  <2> HIDE DEF base, M, W, Z
  <2>5. QED
    BY <1>6, <2>2, <2>4
<1>9. CASE \A p \in x.parts : p.peer # q
  <2>1. Len(u[k]) = Len(u[k - 1])
    BY <1>2, <1>9 DEF StoryOf
  <2>2. Amount(x, q, "send") = 0 /\ Amount(x, q, "recv") = 0
    BY <1>7, <1>9
  <2>3. R = P
    BY <1>3, <2>1
  <2>4. QED
    BY <1>4, <1>5, <1>8, <2>2, <2>3 DEF Counted
<1>10. CASE \E p \in x.parts : p.peer = q
  <2>1. PICK p \in x.parts : p.peer = q
    BY <1>10
  <2>2. p.dir \in {"send", "recv"} /\ Len(p.slots) \in Nat \ {0} /\ \A o \in x.parts : o.peer = q => o = p
    BY <1>1, <2>1 DEF Good
  <2>3. /\ Len(u[k]) = Len(u[k - 1]) + 1 /\ base + Len(u[k - 1]) + 1 \in 1 .. Len(M)
        /\ M[base + Len(u[k - 1]) + 1] = [dir |-> p.dir, len |-> Len(p.slots), call |-> c]
        /\ Len(u[k - 1]) \in Nat
    <3>1. k - 1 \in 0 .. Len(code.steps)
      BY <1>1
    <3> HIDE DEF u, M
    <3>2. Len(u[k - 1]) \in Nat
      BY <1>2, <3>1 DEF StoryOf
    <3>3. QED
      BY <1>2, <2>1, <3>2 DEF StoryOf
  <2> HIDE DEF code, x, u, base, P, R, y, M, W, Z
  <2>4. R = P + 1 /\ P \in Nat /\ R \in 1 .. Len(M) /\ R = base + Len(u[k - 1]) + 1 /\ R - 1 = P
    <3> DEFINE v == Len(u[k - 1])
    <3>1. v \in Nat /\ base \in Nat /\ P = base + v /\ R = base + (v + 1) /\ base + v + 1 \in 1 .. Len(M)
      BY <1>3, <2>3
    <3> HIDE DEF v
    <3>2. QED
      BY <3>1 DEF v
  <2>5. M[R].dir = p.dir /\ M[R].len = Len(p.slots) /\ W[R].len = Len(p.slots) /\ W[R].dir # p.dir
    BY <1>6, <2>3, <2>4
  <2>6. /\ to(P) \in Nat /\ to(R) \in Nat
        /\ M[R].dir = "send" => to(R) = to(P) + M[R].len
        /\ M[R].dir = "recv" => to(R) = to(P)
    <3>1. SendsOf(M, SendsUpto[s][r][q], SentChunks[s][r][q])
      BY SendsFacts DEF M
    <3>2. R \in 0 .. Len(M) /\ P \in 0 .. Len(M)
      BY <1>6, <2>4
    <3>3. QED
      BY <2>4, <3>1, <3>2 DEF SendsOf
  <2>7. /\ fro(P) \in Nat /\ fro(R) \in Nat /\ W[R].dir \in {"send", "recv"}
        /\ W[R].dir = "send" => fro(R) = fro(P) + W[R].len
        /\ W[R].dir = "recv" => fro(R) = fro(P)
    <3>1. R \in 1 .. Len(W)
      BY <1>6, <2>4
    <3>2. QED
      <4>1. SendsOf(W, SendsUpto[s][q][r], SentChunks[s][q][r])
        BY SendsFacts DEF W
      <4>2. R \in 0 .. Len(W) /\ P \in 0 .. Len(W)
        BY <1>6, <2>4
      <4>3. QED
        BY <2>4, <3>1, <4>1, <4>2 DEF SendsOf
  <2> HIDE DEF to, fro
  <2>8. CASE p.dir = "send"
    <3>1. Amount(x, q, "send") = Len(p.slots) /\ Amount(x, q, "recv") = 0
      BY <1>7, <2>1, <2>2, <2>8
    <3>2. to(R) = to(P) + Len(p.slots) /\ fro(R) = fro(P)
      BY <2>5, <2>6, <2>7, <2>8
    <3>3. /\ y.sent[q] \in Nat /\ to(R) = to(Z) + y.sent[q]
          /\ y.got[q] \in Nat /\ fro(R) = fro(Z) + y.got[q]
      <4> DEFINE bs == before.sent[q]
                 bg == before.got[q]
                 ys == y.sent[q]
                 yg == y.got[q]
                 l  == Len(p.slots)
                 oz == to(Z)
                 iz == fro(Z)
      <4>1. /\ oz \in Nat /\ iz \in Nat /\ l \in Nat /\ bs \in Nat /\ bg \in Nat
            /\ ys = bs + Amount(x, q, "send") /\ yg = bg + Amount(x, q, "recv")
            /\ to(P) = oz + bs /\ fro(P) = iz + bg
        BY <1>4, <1>5, <1>8, <2>2
      <4> HIDE DEF bs, bg, ys, yg, l, oz, iz
      <4>2. ys \in Nat /\ yg \in Nat /\ to(R) = oz + ys /\ fro(R) = iz + yg
        BY <3>1, <3>2, <4>1 DEF l
      <4>3. QED
        BY <4>2 DEF ys, yg, oz, iz
    <3>4. QED
      BY <3>3 DEF Counted, to, fro, R, Z, y, x, code
  <2>9. CASE p.dir = "recv"
    <3>1. Amount(x, q, "recv") = Len(p.slots) /\ Amount(x, q, "send") = 0
      BY <1>7, <2>1, <2>2, <2>9
    <3>2. fro(R) = fro(P) + Len(p.slots) /\ to(R) = to(P)
      BY <2>5, <2>6, <2>7, <2>9
    <3>3. /\ y.sent[q] \in Nat /\ to(R) = to(Z) + y.sent[q]
          /\ y.got[q] \in Nat /\ fro(R) = fro(Z) + y.got[q]
      <4> DEFINE bs == before.sent[q]
                 bg == before.got[q]
                 ys == y.sent[q]
                 yg == y.got[q]
                 l  == Len(p.slots)
                 oz == to(Z)
                 iz == fro(Z)
      <4>1. /\ oz \in Nat /\ iz \in Nat /\ l \in Nat /\ bs \in Nat /\ bg \in Nat
            /\ ys = bs + Amount(x, q, "send") /\ yg = bg + Amount(x, q, "recv")
            /\ to(P) = oz + bs /\ fro(P) = iz + bg
        BY <1>4, <1>5, <1>8, <2>2
      <4> HIDE DEF bs, bg, ys, yg, l, oz, iz
      <4>2. ys = bs /\ yg = bg + l
        BY <3>1, <4>1 DEF l
      <4>3. to(R) = oz + ys
        BY <3>2, <4>1, <4>2
      <4>4. fro(R) = iz + yg
        <5>1. fro(R) = fro(P) + l
          BY <3>2 DEF l
        <5>2. fro(P) = iz + bg /\ yg = bg + l /\ iz \in Nat /\ bg \in Nat /\ l \in Nat
          BY <4>1, <4>2
        <5>3. fro(R) = (iz + bg) + l
          BY <5>1, <5>2
        <5>4. QED
          BY ONLY <5>2, <5>3
      <4>5. ys \in Nat /\ yg \in Nat
        BY <4>1, <4>2
      <4>6. QED
        BY <4>3, <4>4, <4>5 DEF ys, yg, oz, iz
    <3>4. QED
      BY <3>3 DEF Counted, to, fro, R, Z, y, x, code
  <2>10. QED
    BY <2>2, <2>8, <2>9
<1>11. QED
  BY <1>9, <1>10

LEMMA Counts ==
  ASSUME Paired, NEW s \in Setups, NEW c \in 1 .. Len(s.work), NEW r \in Ranks, NEW q \in Ranks \ {r},
         NEW L, NEW k \in 0 .. Len(CodeOf(s.topology, s.work[c], r).steps)
  PROVE  Counted(s, c, r, q, At(CodeOf(s.topology, s.work[c], r), r, L)[k], k)
<1> DEFINE code == CodeOf(s.topology, s.work[c], r)
           n == Len(code.steps)
           at == At(code, r, L)
           S == {j \in Nat : j <= n => Counted(s, c, r, q, at[j], j)}
<1>1. n \in Nat \ {0}
  BY CodeFacts, StepsGood
<1>2. /\ at[0] = Start(code, r)
      /\ \A j \in 1 .. n : at[j] = After(code.steps[j], r, L, at[j - 1])
  BY <1>1, AtFacts DEF Unrolled
<1>3. 0 \in S
  <2>1. at[0].sent[q] = 0 /\ at[0].got[q] = 0
    BY <1>2 DEF Start
  <2> DEFINE P == Place(s, c, r, q, 0)
  <2>2. P \in 0 .. Len(Messages[s][r][q]) /\ P \in 0 .. Len(Messages[s][q][r])
    <3>1. c - 1 \in 0 .. Len(s.work)
      BY CodeFacts
    <3>2. StoryOf(StoryUpto[s][r][q], Messages[s][r][q], code, JoinedUpto(Talk(code, q)), q, c)
      BY StoryFacts
    <3>3. Len(JoinedUpto(Talk(code, q))[0]) = 0
      BY <3>2 DEF StoryOf
    <3> DEFINE b == Len(StoryUpto[s][r][q][c - 1])
    <3>4. b \in Nat /\ b <= Len(Messages[s][r][q])
      BY <3>1, StoryFacts
    <3>5. P = b + 0
      BY <3>3 DEF Place
    <3>6. Len(Messages[s][r][q]) = Len(Messages[s][q][r]) /\ Len(Messages[s][r][q]) \in Nat
      BY SidesFacts, SendsTypes DEF Sides
    <3> HIDE DEF b, P
    <3>7. QED
      BY <3>4, <3>5, <3>6
  <2>3. Len(SendsUpto[s][r][q][P]) \in Nat /\ Len(SendsUpto[s][q][r][P]) \in Nat
    BY <2>2, SendsTypes
  <2> DEFINE o == Len(SendsUpto[s][r][q][P])
             i == Len(SendsUpto[s][q][r][P])
             zero == at[0]
  <2>4. o \in Nat /\ i \in Nat /\ zero.sent[q] = 0 /\ zero.got[q] = 0
    BY <2>1, <2>3
  <2> HIDE DEF o, i, zero
  <2>5. o = o + zero.sent[q] /\ i = i + zero.got[q]
    BY <2>4
  <2>6. Counted(s, c, r, q, zero, 0)
    BY <2>4, <2>5 DEF Counted, o, i, P
  <2>7. QED
    BY <2>6 DEF zero
<1>4. ASSUME NEW j \in Nat, j \in S PROVE j + 1 \in S
  <2>1. SUFFICES ASSUME j + 1 <= n PROVE Counted(s, c, r, q, at[j + 1], j + 1)
    OBVIOUS
  <2>2. PICK i \in 1 .. n : i = j + 1 /\ i - 1 = j /\ j <= n
    BY <1>1, <2>1
  <2>3. Counted(s, c, r, q, at[i - 1], i - 1)
    BY <1>4, <2>2
  <2>4. at[i] = After(code.steps[i], r, L, at[i - 1])
    BY <1>2
  <2> HIDE DEF at
  <2>5. Counted(s, c, r, q, After(code.steps[i], r, L, at[i - 1]), i)
    BY <2>3, CountsStep
  <2>6. QED
    BY <2>2, <2>4, <2>5
<1>5. Nat \subseteq S
  <2> HIDE DEF S
  <2>1. QED
    BY <1>3, <1>4, NatSteps
<1>6. QED
  BY <1>1, <1>5

-----------------------------------------------------------------------------
(* Where rank r is in its call, and what it may take for granted there.     *)
Where(r) == At(Code(r), r, LettersOf(calls[r]))[pc[r] - 1]
Whither(r) == At(Code(r), r, LettersOf(calls[r]))[pc[r]]

LEMMA DeliversCall ==
  ASSUME Delivered, StreamInv, NEW r \in Ranks, NEW c \in 1 .. Len(setup.work)
  PROVE  Delivers(CodeOf(setup.topology, setup.work[c], r), r, LettersOf(c),
                  Promise(setup.topology, setup.work[c], r))
<1>1. Paired /\ setup \in Setups
  BY SetupFacts
<1>2. c \in DOMAIN setup.work
  BY <1>1, CodeFacts
<1>3. DeliveredCall(setup.topology, setup.work[c])
  BY <1>1, <1>2 DEF Delivered
<1>4. QED
  BY <1>3 DEF DeliveredCall, LettersOf

LEMMA AtShapes ==
  ASSUME NEW code, NEW r, NEW L, Len(code.steps) \in Nat, NEW k \in 0 .. Len(code.steps)
  PROVE  IsMem(At(code, r, L)[k].mem)
<1>1. /\ At(code, r, L)[0] = Start(code, r)
      /\ \A j \in 1 .. Len(code.steps) :
           At(code, r, L)[j] = After(code.steps[j], r, L, At(code, r, L)[j - 1])
  BY AtFacts DEF Unrolled
<1>2. CASE k = 0
  BY <1>1, <1>2, MemShapes DEF Start
<1>3. CASE k # 0
  <2>1. PICK j \in 1 .. Len(code.steps) : j = k
    BY <1>3
  <2> DEFINE before == At(code, r, L)[j - 1]
             x == code.steps[j]
  <2>2. At(code, r, L)[j] = After(x, r, L, before)
    BY <1>1
  <2> HIDE DEF before, x
  <2>3. \E m : After(x, r, L, before).mem = Fold(m, x.fold)
    BY DEF After
  <2>4. QED
    BY <2>1, <2>2, <2>3, MemShapes
<1>4. QED
  BY <1>2, <1>3

LEMMA WhereFacts ==
  ASSUME Delivered, StreamInv, NEW r \in Ranks, up[r], InCall(r)
  PROVE  /\ Apart(StepOf(r)) /\ SendsRight(StepOf(r), r, LettersOf(calls[r]), Where(r))
         /\ IsMem(Where(r).mem)
         /\ Whither(r) = After(StepOf(r), r, LettersOf(calls[r]), Where(r))
         /\ pc[r] = Len(Code(r).steps) =>
              LET promise == Promise(setup.topology, setup.work[calls[r]], r)
              IN  \A i \in DOMAIN promise :
                    Copy(Whither(r).mem, r, Code(r).exit)[In(i)] = promise[i]
<1> DEFINE c == calls[r]
           code == Code(r)
           n == Len(code.steps)
           L == LettersOf(c)
           at == At(code, r, L)
           k == pc[r]
           promise == Promise(setup.topology, setup.work[c], r)
<1>1. /\ c \in 1 .. Len(setup.work) /\ code = CodeOf(setup.topology, setup.work[c], r)
      /\ n \in Nat \ {0} /\ k \in 1 .. n
  BY StepFacts
<1>2. Delivers(code, r, L, promise)
  BY <1>1, DeliversCall
<1>3. /\ Apart(code.steps[k]) /\ SendsRight(code.steps[k], r, L, at[k - 1])
      /\ \A i \in DOMAIN promise : Copy(at[n].mem, r, code.exit)[In(i)] = promise[i]
  BY <1>1, <1>2 DEF Delivers
<1>4. k - 1 \in 0 .. n
  BY <1>1
<1>5. IsMem(at[k - 1].mem)
  BY <1>1, <1>4, AtShapes
<1>6. at[k] = After(code.steps[k], r, L, at[k - 1])
  BY <1>1, AtFacts DEF Unrolled
<1>7. QED
  BY <1>3, <1>5, <1>6 DEF Where, Whither, StepOf

LEMMA WhereCounts ==
  ASSUME StreamInv, NEW r \in Ranks, up[r], InCall(r), NEW q \in Ranks \ {r}
  PROVE  /\ Where(r).sent[q] \in Nat /\ Where(r).got[q] \in Nat
         /\ Earlier(r, q, calls[r]) \in Nat /\ Earlier(q, r, calls[r]) \in Nat
         /\ Sent(r, q, Base(r, q)) = Earlier(r, q, calls[r]) + Where(r).sent[q]
         /\ Sent(q, r, Base(r, q)) = Earlier(q, r, calls[r]) + Where(r).got[q]
<1> DEFINE c == calls[r]
           code == Code(r)
           n == Len(code.steps)
           L == LettersOf(c)
           at == At(code, r, L)
           k == pc[r]
<1>1. /\ c \in 1 .. Len(setup.work) /\ code = CodeOf(setup.topology, setup.work[c], r)
      /\ n \in Nat \ {0} /\ k \in 1 .. n /\ Paired /\ setup \in Setups
      /\ WellFormed(code, r)
  BY StepFacts, SetupFacts
<1>2. PICK j \in 0 .. n : j = k - 1
  BY <1>1
<1>3. Counted(setup, c, r, q, at[j], j)
  BY <1>1, Counts
<1>4. Base(r, q) = Place(setup, c, r, q, j)
  BY <1>1, <1>2 DEF Base, Place
<1> DEFINE z == Place(setup, c, r, q, 0)
           u == Len(StoryUpto[setup][r][q][c - 1])
<1>5. c - 1 \in 0 .. Len(setup.work)
  BY <1>1
<1>6. z = u /\ u \in Nat /\ u <= Len(Messages[setup][r][q])
  <2>1. Len(JoinedUpto(Talk(code, q))[0]) = 0
    <3>1. StoryOf(StoryUpto[setup][r][q], Messages[setup][r][q], code, JoinedUpto(Talk(code, q)), q, c)
      BY <1>1, StoryFacts
    <3>2. QED
      BY <3>1 DEF StoryOf
  <2>2. u \in Nat /\ u <= Len(Messages[setup][r][q])
    BY <1>1, <1>5, StoryFacts
  <2> HIDE DEF u
  <2>3. z = u + 0
    BY <1>1, <2>1 DEF Place, u
  <2>4. QED
    BY <2>2, <2>3
<1>7. u = Len(StoryUpto[setup][q][r][c - 1])
  BY <1>1, <1>5, StoryLens
<1>8. Earlier(r, q, c) = Sent(r, q, z) /\ Earlier(q, r, c) = Sent(q, r, z)
  <2> HIDE DEF z
  <2>1. QED
    BY <1>6, <1>7 DEF Earlier
<1>9. Sent(r, q, z) \in Nat /\ Sent(q, r, z) \in Nat
  <2>1. /\ Len(Messages[setup][r][q]) = Len(Messages[setup][q][r])
        /\ Len(Messages[setup][r][q]) \in Nat
    BY <1>1, SidesFacts, SendsTypes DEF Sides
  <2> HIDE DEF z, u
  <2>2. z \in 0 .. Len(Messages[setup][r][q]) /\ z \in 0 .. Len(Messages[setup][q][r])
    BY <1>6, <2>1
  <2>3. QED
    BY <1>1, <2>2, SendsTypes DEF Sent
<1>10. at[j] = Where(r)
  BY <1>2 DEF Where
<1> HIDE DEF z, at, c
<1>11. /\ at[j].sent[q] \in Nat /\ Sent(r, q, Place(setup, c, r, q, j)) = Sent(r, q, z) + at[j].sent[q]
       /\ at[j].got[q] \in Nat /\ Sent(q, r, Place(setup, c, r, q, j)) = Sent(q, r, z) + at[j].got[q]
  BY <1>3 DEF Counted, Sent, z
<1>12. QED
  BY <1>4, <1>8, <1>9, <1>10, <1>11 DEF c

-----------------------------------------------------------------------------
(* What a step of rank r leaves alone.                                      *)

UnitRight(s, u, k, a, b) ==
  u.val = Letters(s.topology, s.work[u.call])[a][b]
            [k - Len(SendsUpto[s][a][b][Len(StoryUpto[s][a][b][u.call - 1])])]
LinkRight(s, ln, R, a, b) == \A j \in 1 .. Len(ln) : UnitRight(s, ln[j], R + j, a, b)
Ended(r) ==
  LastTrue(r) =>
    LET promise == Promise(setup.topology, setup.work[calls[r]], r)
    IN  \A i \in DOMAIN promise : mem[r][In(i)] = promise[i]
Linked == \A a, b \in Ranks : a # b /\ Sound(b) => LinkInv(a, b)

(* LinkInv, of this state and the next, in terms of its parts.              *)
LEMMA LinkForm ==
  /\ \A a, b : LinkInv(a, b) <=> LinkRight(setup, link[a][b], Read(b, a), a, b)
  /\ \A a, b : LinkInv(a, b)' <=> LinkRight(setup', link'[a][b], Read(b, a)', a, b)
<1>1. ASSUME NEW a, NEW b PROVE LinkInv(a, b) <=> LinkRight(setup, link[a][b], Read(b, a), a, b)
  BY Zenon DEF LinkInv, LinkRight, UnitRight, LettersOf, Earlier, Sent
<1>2. ASSUME NEW a, NEW b PROVE LinkInv(a, b)' <=> LinkRight(setup', link'[a][b], Read(b, a)', a, b)
  BY Zenon DEF LinkInv, LinkRight, UnitRight, LettersOf, Earlier, Sent
<1>3. QED
  BY <1>1, <1>2

(* DataInv, in terms of its parts.                                          *)
LEMMA DataForm ==
  /\ DataInv <=> Linked /\ \A r \in Ranks : MemInv(r) /\ Ended(r)
  /\ DataInv' <=> Linked' /\ \A r \in Ranks : MemInv(r)' /\ Ended(r)'
BY DEF DataInv, Linked, Ended, TrueMeansResult

(* A prefix of a stream that holds what it should.                          *)
LEMMA LinkCut ==
  ASSUME NEW s, NEW a, NEW b, NEW R, NEW ln, NEW less, LinkRight(s, ln, R, a, b),
         Len(ln) \in Nat, Len(less) \in Nat, Len(less) <= Len(ln),
         \A i \in 1 .. Len(less) : less[i] = ln[i]
  PROVE  LinkRight(s, less, R, a, b)
<1>1. SUFFICES ASSUME NEW j \in 1 .. Len(less)
               PROVE  UnitRight(s, less[j], R + j, a, b)
  BY DEF LinkRight
<1>2. j \in 1 .. Len(ln) /\ less[j] = ln[j]
  OBVIOUS
<1>3. QED
  BY <1>2 DEF LinkRight

(* And what is left of it once its first unit is read.                      *)
LEMMA LinkTail ==
  ASSUME NEW s, NEW a, NEW b, NEW R \in Nat, NEW ln, Dense(ln), ln # <<>>, LinkRight(s, ln, R, a, b)
  PROVE  LinkRight(s, Tail(ln), R + 1, a, b)
<1> DEFINE W == {ln[i] : i \in DOMAIN ln}
<1>1. ln \in Seq(W)
  BY DEF Dense
<1>2. /\ Len(Tail(ln)) = Len(ln) - 1 /\ Len(ln) \in Nat
      /\ \A j \in 1 .. Len(Tail(ln)) : j + 1 \in 1 .. Len(ln) /\ Tail(ln)[j] = ln[j + 1]
  BY <1>1
<1>3. SUFFICES ASSUME NEW j \in 1 .. Len(Tail(ln))
               PROVE  UnitRight(s, Tail(ln)[j], R + 1 + j, a, b)
  BY DEF LinkRight
<1>4. PICK k \in 1 .. Len(ln) : k = j + 1
  BY <1>2
<1>5. Tail(ln)[j] = ln[k] /\ R + 1 + j = R + k
  BY <1>2, <1>4, j \in Nat
<1>6. UnitRight(s, ln[k], R + k, a, b)
  BY <1>4 DEF LinkRight
<1>7. QED
  BY <1>5, <1>6

(* The streams after a step of r, those out of r apart.                     *)
LEMMA LinksOn ==
  ASSUME StreamInv, NEW r \in Ranks, setup' = setup, \A x \in Ranks \ {r} : Kept(x),
         ReadsOn(r), Sound(r)' => Sound(r), Linked,
         \A a, b \in Ranks \ {r} : link'[a][b] = link[a][b],
         \A q \in Ranks \ {r} : Sound(q) => LinkInv(r, q)'
  PROVE  Linked'
<1>1. SUFFICES ASSUME NEW a \in Ranks, NEW b \in Ranks, a # b, Sound(b)'
               PROVE  LinkInv(a, b)'
  BY DEF Linked
<1>2. CASE b # r
  <2>1. Sound(b) /\ Read(b, a)' = Read(b, a)
    BY <1>1, <1>2, KeptRank
  <2>2. CASE a = r
    BY <1>1, <1>2, <2>1, <2>2
  <2>3. CASE a # r
    <3>1. LinkInv(a, b) /\ link'[a][b] = link[a][b]
      BY <1>1, <1>2, <2>1, <2>3 DEF Linked
    <3>2. QED
      BY <2>1, <3>1, LinkForm
  <2>4. QED
    BY <2>2, <2>3
<1>3. CASE b = r
  <2>1. Sound(r) /\ a \in Ranks \ {r} /\ LinkInv(a, r)
    BY <1>1, <1>3 DEF Linked
  <2>2. \/ link'[a][r] = <<>>
        \/ Read(r, a)' = Read(r, a) /\ link'[a][r] = link[a][r]
        \/ Read(r, a)' = Read(r, a) + 1 /\ link[a][r] # <<>> /\ link'[a][r] = Tail(link[a][r])
    BY <1>1, <1>3, <2>1 DEF ReadsOn
  <2>3. LinkRight(setup, link[a][r], Read(r, a), a, r)
    BY <2>1, LinkForm
  <2>4. CASE link'[a][r] = <<>>
    <3>1. LinkRight(setup', <<>>, Read(r, a)', a, r)
      BY DEF LinkRight
    <3>2. QED
      BY <1>3, <2>4, <3>1, LinkForm
  <2>5. CASE Read(r, a)' = Read(r, a) /\ link'[a][r] = link[a][r]
    BY <1>3, <2>3, <2>5, LinkForm
  <2>6. CASE Read(r, a)' = Read(r, a) + 1 /\ link[a][r] # <<>> /\ link'[a][r] = Tail(link[a][r])
    <3>1. Dense(link[a][r]) /\ Read(r, a) \in Nat
      BY <2>1, PosType DEF StreamInv, Shapes
    <3>2. LinkRight(setup, Tail(link[a][r]), Read(r, a) + 1, a, r)
      BY <2>3, <2>6, <3>1, LinkTail
    <3>3. QED
      BY <1>3, <2>6, <3>2, LinkForm
  <2>7. QED
    BY <2>2, <2>4, <2>5, <2>6
<1>4. QED
  BY <1>2, <1>3

(* What r sends is as it was, or cut short.                                 *)
LEMMA OutKept ==
  ASSUME StreamInv, StreamInv', NEW r \in Ranks, setup' = setup, \A x \in Ranks \ {r} : Kept(x), Linked,
         \A q \in Ranks \ {r} : /\ Len(link'[r][q]) <= Len(link[r][q])
                                /\ \A i \in 1 .. Len(link'[r][q]) : link'[r][q][i] = link[r][q][i]
  PROVE  \A q \in Ranks \ {r} : Sound(q) => LinkInv(r, q)'
<1>1. SUFFICES ASSUME NEW q \in Ranks \ {r}, Sound(q) PROVE LinkInv(r, q)'
  OBVIOUS
<1>2. LinkRight(setup, link[r][q], Read(q, r), r, q)
  BY <1>1, LinkForm DEF Linked
<1>3. Dense(link[r][q]) /\ Dense(link'[r][q])
  BY DEF StreamInv, Shapes
<1>4. Len(link[r][q]) \in Nat /\ Len(link'[r][q]) \in Nat
  BY <1>3, DenseSize
<1>5. LinkRight(setup, link'[r][q], Read(q, r), r, q)
  BY <1>2, <1>4, LinkCut
<1>6. Read(q, r)' = Read(q, r)
  BY KeptRank
<1>7. QED
  BY <1>5, <1>6, LinkForm

(* DataInv after a step of r.                                               *)
LEMMA DataOn ==
  ASSUME DataInv, NEW r \in Ranks, setup' = setup, \A x \in Ranks \ {r} : Kept(x) /\ mem'[x] = mem[x],
         Linked', MemInv(r)', Ended(r)'
  PROVE  DataInv'
<1>1. SUFFICES ASSUME NEW x \in Ranks \ {r} PROVE MemInv(x)' /\ Ended(x)'
  BY DataForm
<1>2. MemInv(x) /\ Ended(x) /\ Kept(x) /\ mem'[x] = mem[x]
  BY DataForm
<1>3. MemInv(x)'
  BY <1>2 DEF MemInv, Kept, InCall, Code, ProgramOf, LettersOf
<1>4. Ended(x)'
  BY <1>2 DEF Ended, Kept, LastTrue, InCall
<1>5. QED
  BY <1>3, <1>4

-----------------------------------------------------------------------------
(* A transport call of rank r ends.                                         *)

(* The memory of r after a step whose transport calls have all succeeded.   *)
LEMMA StepMemory ==
  ASSUME NEW r \in Ranks, NEW L, NEW at, NEW m, NEW o, NEW n, NEW step, Good(step, Ranks \ {r}),
         MemRight(r, L, at, m, o, n), DOMAIN o = step.parts,
         Settled(o), ~StepFails(DOMAIN o, Failed(o))
  PROVE  Fold(Copy(m, r, step.copy), step.fold) = After(step, r, L, at).mem
<1>1. CASE Receives(step)
  <2>1. PICK p \in step.parts : p.dir = "recv" /\ p = RecvOf(step)
    BY <1>1 DEF Receives, RecvOf
  <2>2. o[p] = "done"
    BY <2>1, AllThrough DEF Through
  <2>3. p \in DOMAIN o
    BY <2>1
  <2>4. PICK k : m = Filled(at.mem, r, p, L, at.got[p.peer], k) /\ (o[p] = "done" => k = Len(p.slots))
    BY <2>1, <2>3 DEF MemRight
  <2>5. m = Filled(at.mem, r, p, L, at.got[p.peer], Len(p.slots))
    BY <2>2, <2>4
  <2>6. QED
    BY <1>1, <2>1, <2>5 DEF After
<1>2. CASE ~Receives(step)
  <2>1. \A p \in DOMAIN o : p.dir = "send"
    BY <1>2 DEF Receives, Good
  <2>2. m = at.mem
    BY <2>1 DEF MemRight
  <2>3. QED
    BY <1>2, <2>2 DEF After
<1>3. QED
  BY <1>1, <1>2
StepDone(r, m) == Fold(Copy(m, r, StepOf(r).copy), StepOf(r).fold)

(* What the end of a transport call does to the memory of r.                *)
LEMMA EndMem ==
  ASSUME NEW r \in Ranks, NEW p, NEW ok, NEW m, EndPart(r, p, ok, m), DOMAIN mem = Ranks
  PROVE  LET o == Outcome(r, p, ok)
         IN  /\ \/ Stays(r, o) /\ mem'[r] = m
                \/ Fails(r, o) /\ mem'[r] = m
                \/ Moves(r, o) /\ mem'[r] = StepDone(r, m)
                \/ Returns(r, o) /\ mem'[r] = Copy(StepDone(r, m), r, Code(r).exit)
             /\ \A x \in Ranks \ {r} : mem'[x] = mem[x]
<1> DEFINE o == Outcome(r, p, ok)
<1>1. \A y : mem' = [mem EXCEPT ![r] = y] => mem'[r] = y /\ \A x \in Ranks \ {r} : mem'[x] = mem[x]
  OBVIOUS
<1>2. \/ Stays(r, o) /\ mem' = [mem EXCEPT ![r] = m]
      \/ Fails(r, o) /\ mem' = [mem EXCEPT ![r] = m]
      \/ Moves(r, o) /\ mem' = [mem EXCEPT ![r] = StepDone(r, m)]
      \/ Returns(r, o) /\ mem' = [mem EXCEPT ![r] = Copy(StepDone(r, m), r, Code(r).exit)]
  BY Zenon DEF EndPart, Outcome, Stays, Fails, Moves, Returns, Settled, Failed, StepDone, StepOf
<1>3. QED
  BY <1>1, <1>2

(* The memory of r at the start of a step.                                  *)
LEMMA MemFresh ==
  ASSUME NEW r, NEW L, NEW at, NEW o, IsMem(at.mem),
         \A p \in DOMAIN o : o[p] = "todo" /\ Len(p.slots) \in Nat
  PROVE  MemRight(r, L, at, at.mem, o, 0)
<1>1. \A p \in DOMAIN o : 0 \in 0 .. Len(p.slots)
  OBVIOUS
<1>2. \A p : at.mem = Filled(at.mem, r, p, L, at.got[p.peer], 0)
  BY NothingDone
<1>3. QED
  BY <1>1, <1>2 DEF MemRight

(* MemInv in terms of where r stands.                                       *)
LEMMA MemForm ==
  ASSUME NEW r
  PROVE  /\ MemInv(r) <=>
              (up[r] /\ InCall(r) =>
                 MemRight(r, LettersOf(calls[r]), Where(r), mem[r], part[r], got[r]))
         /\ MemInv(r)' <=>
              (up'[r] /\ pc'[r] > 0 =>
                 MemRight(r, LettersOf(calls[r])', Where(r)', mem'[r], part'[r], got'[r]))
BY DEF MemInv, Where, InCall

LEMMA WhereNext ==
  ASSUME NEW r, setup' = setup, calls' = calls
  PROVE  /\ Code(r)' = Code(r) /\ LettersOf(calls[r])' = LettersOf(calls[r])
         /\ Where(r)' = At(Code(r), r, LettersOf(calls[r]))[pc'[r] - 1]
BY DEF Code, ProgramOf, LettersOf, Where

(* The end of a transport call: the next step starts, or the call returns,  *)
(* with what it should.                                                     *)
LEMMA EndData ==
  ASSUME Delivered, StreamInv, NEW r \in Ranks, NEW p \in Parts(r), NEW ok \in BOOLEAN, NEW m,
         EndPart(r, p, ok, m), UNCHANGED <<setup, calls, up>>,
         GotFits(Outcome(r, p, ok), got'[r]),
         MemRight(r, LettersOf(calls[r]), Where(r), m, Outcome(r, p, ok), got'[r])
  PROVE  /\ MemInv(r)' /\ Ended(r)'
         /\ \A x \in Ranks \ {r} : mem'[x] = mem[x]
<1> DEFINE o == Outcome(r, p, ok)
<1>1. /\ up[r] /\ InCall(r) /\ calls[r] \in Nat /\ pc[r] \in 1 .. Len(Code(r).steps)
      /\ Len(Code(r).steps) \in Nat /\ DOMAIN o = StepOf(r).parts /\ WellFormed(Code(r), r)
      /\ pc \in [Ranks -> Nat] /\ DOMAIN part = Ranks /\ DOMAIN mem = Ranks
      /\ results \in [Ranks -> Seq(BOOLEAN)] /\ Len(results[r]) = calls[r] - 1
  <2>1. up[r] /\ InCall(r)
    BY InStep
  <2>2. Len(results[r]) = calls[r] - 1
    BY <2>1, TypeParts DEF StreamInv, RankType
  <2>3. QED
    BY <2>1, <2>2, StepFacts DEF StreamInv, Shapes, Outcome, Parts
<1>2. /\ SendsRight(StepOf(r), r, LettersOf(calls[r]), Where(r)) /\ IsMem(Where(r).mem)
      /\ Whither(r) = After(StepOf(r), r, LettersOf(calls[r]), Where(r))
  BY <1>1, WhereFacts
<1>3. /\ \/ Stays(r, o) /\ mem'[r] = m
         \/ Fails(r, o) /\ mem'[r] = m
         \/ Moves(r, o) /\ mem'[r] = StepDone(r, m)
         \/ Returns(r, o) /\ mem'[r] = Copy(StepDone(r, m), r, Code(r).exit)
      /\ \A x \in Ranks \ {r} : mem'[x] = mem[x]
  BY <1>1, EndMem
<1>4. GotFits(o, got'[r]) /\ MemRight(r, LettersOf(calls[r]), Where(r), m, o, got'[r])
  OBVIOUS
<1> HIDE DEF o
<1>5. ASSUME Settled(o), ~StepFails(DOMAIN o, Failed(o))
      PROVE  StepDone(r, m) = Whither(r).mem /\ got'[r] = 0
  <2>1. Good(StepOf(r), Ranks \ {r})
    BY <1>1, StepsGood DEF StepOf
  <2>2. StepDone(r, m) = After(StepOf(r), r, LettersOf(calls[r]), Where(r)).mem
    BY <1>1, <1>4, <1>5, <2>1, StepMemory DEF StepDone
  <2>3. got'[r] = 0
    BY <1>4, <1>5 DEF GotFits, Settled
  <2>4. QED
    BY <1>2, <2>2, <2>3
<1>6. CASE Stays(r, o) /\ mem'[r] = m
  <2>1. pc' = pc /\ part'[r] = o
    BY <1>1, <1>6 DEF Stays
  <2>2. Where(r)' = Where(r)
    BY <2>1, WhereNext DEF Where
  <2>3. MemInv(r)'
    BY <1>4, <1>6, <2>1, <2>2, MemForm, WhereNext
  <2>4. InCall(r)'
    BY <1>1, <2>1 DEF InCall
  <2>5. QED
    BY <1>3, <2>3, <2>4 DEF Ended, LastTrue
<1>7. CASE Fails(r, o)
  <2>1. pc'[r] = 0 /\ results'[r] = Append(results[r], FALSE)
    BY <1>1, <1>7 DEF Fails
  <2>2. results'[r][calls[r]] = FALSE
    BY <1>1, <2>1
  <2>3. ~LastTrue(r)'
    BY <2>2 DEF LastTrue
  <2>4. QED
    BY <1>3, <2>1, <2>3, MemForm DEF Ended
<1>8. CASE Moves(r, o) /\ mem'[r] = StepDone(r, m)
  <2>1. pc[r] # Len(Code(r).steps) /\ pc' = [pc EXCEPT ![r] = @ + 1]
        /\ part' = [part EXCEPT ![r] = StartOf(Code(r).steps[pc[r] + 1])]
    BY <1>8 DEF Moves
  <2>2. pc'[r] = pc[r] + 1 /\ part'[r] = StartOf(Code(r).steps[pc[r] + 1])
    BY <1>1, <2>1
  <2>3. PICK k \in 1 .. Len(Code(r).steps) : k = pc[r] + 1
    BY <1>1, <2>1
  <2>4. Good(Code(r).steps[k], Ranks \ {r})
    BY <1>1, StepsGood
  <2>5. \A q \in DOMAIN part'[r] : part'[r][q] = "todo" /\ Len(q.slots) \in Nat
    BY <2>2, <2>3, <2>4 DEF StartOf, Good
  <2>6. pc'[r] - 1 = pc[r]
    BY <1>1, <2>2
  <2>7. Where(r)' = Whither(r)
    BY <2>6, WhereNext DEF Whither
  <2>8. IsMem(Whither(r).mem) /\ mem'[r] = Whither(r).mem /\ got'[r] = 0
    <3>1. Settled(o) /\ ~StepFails(DOMAIN o, Failed(o))
      BY <1>8 DEF Moves
    <3>2. IsMem(Whither(r).mem)
      BY <1>1, AtShapes DEF Whither
    <3>3. QED
      BY <1>5, <1>8, <3>1, <3>2
  <2>9. MemRight(r, LettersOf(calls[r]), Whither(r), mem'[r], part'[r], got'[r])
    BY <2>5, <2>8, MemFresh
  <2>10. MemInv(r)'
    BY <2>7, <2>9, MemForm, WhereNext
  <2>11. InCall(r)'
    BY <1>1, <2>2 DEF InCall
  <2>12. QED
    BY <1>3, <2>10, <2>11 DEF Ended, LastTrue
<1>9. CASE Returns(r, o) /\ mem'[r] = Copy(StepDone(r, m), r, Code(r).exit)
  <2>1. /\ pc[r] = Len(Code(r).steps) /\ pc' = [pc EXCEPT ![r] = 0]
        /\ Settled(o) /\ ~StepFails(DOMAIN o, Failed(o))
    BY <1>9 DEF Returns
  <2>2. pc'[r] = 0
    BY <1>1, <2>1
  <2>3. mem'[r] = Copy(Whither(r).mem, r, Code(r).exit)
    BY <1>5, <1>9, <2>1
  <2>4. LET promise == Promise(setup.topology, setup.work[calls[r]], r)
        IN  \A i \in DOMAIN promise : mem'[r][In(i)] = promise[i]
    BY <1>1, <2>1, <2>3, WhereFacts
  <2>5. Ended(r)'
    BY <2>4 DEF Ended
  <2>6. QED
    BY <1>3, <2>2, <2>5, MemForm
<1>10. QED
  BY <1>3, <1>6, <1>7, <1>8, <1>9

-----------------------------------------------------------------------------
(* The actions, one by one.                                                 *)

(* Where a rank stands in its call, for use with MemRight.                  *)
LEMMA MemNow ==
  ASSUME StreamInv, DataInv, NEW r \in Ranks, up[r], InCall(r)
  PROVE  MemRight(r, LettersOf(calls[r]), Where(r), mem[r], part[r], got[r])
BY DataForm, MemForm

(* The end of a transport call without a new byte.                          *)
LEMMA EndsNoData ==
  ASSUME Delivered, StreamInv, StreamInv', DataInv, NEW r \in Ranks, ReadsOn(r),
         NEW p \in Parts(r), NEW ok \in BOOLEAN, EndPart(r, p, ok, mem[r]),
         p.dir = "send" \/ ~ok, p.dir = "recv" => got'[r] = 0, p.dir = "send" => got'[r] = got[r],
         \A x \in Ranks \ {r} : got'[x] = got[x], UNCHANGED <<setup, calls, up, link>>
  PROVE  DataInv'
<1> DEFINE o == Outcome(r, p, ok)
<1>1. /\ up[r] /\ InCall(r) /\ Sound(r)
      /\ \A x \in Parts(r) : x.dir \in {"send", "recv"}
      /\ \A x, y \in Parts(r) : x.dir = "recv" /\ y.dir = "recv" => x = y
      /\ RankInv(r)
  BY InStep, StepFacts DEF StreamInv
<1>2. /\ DOMAIN o = Parts(r) /\ o[p] = (IF ok THEN "done" ELSE "failed")
      /\ \A x \in Parts(r) : x # p => o[x] = part[r][x]
  BY DEF Outcome, Parts
<1>3. \A x \in Ranks \ {r} : Kept(x)
  BY EndGoes DEF Kept
<1>4. MemRight(r, LettersOf(calls[r]), Where(r), mem[r], part[r], got[r])
  BY <1>1, MemNow
<1> HIDE DEF o
<1>5. GotFits(o, got'[r])
  <2>1. CASE p.dir = "send"
    BY <1>1, <1>2, <2>1 DEF GotFits, RankInv, Parts
  <2>2. CASE p.dir = "recv"
    <3>1. \A x \in DOMAIN o : x.dir = "recv" => o[x] = "failed"
      BY <1>1, <1>2, <2>2
    <3>2. QED
      BY <2>2, <3>1 DEF GotFits
  <2>3. QED
    BY <1>1, <2>1, <2>2
<1>6. MemRight(r, LettersOf(calls[r]), Where(r), mem[r], o, got'[r])
  <2>1. SUFFICES ASSUME NEW x \in Parts(r), x.dir = "recv"
                 PROVE  \E n \in 0 .. Len(x.slots) :
                          /\ mem[r] = Filled(Where(r).mem, r, x, LettersOf(calls[r]), Where(r).got[x.peer], n)
                          /\ o[x] = "todo" => n = got'[r]
                          /\ o[x] = "done" => n = Len(x.slots)
    BY <1>2, <1>4 DEF MemRight, Parts
  <2>2. PICK n \in 0 .. Len(x.slots) :
          /\ mem[r] = Filled(Where(r).mem, r, x, LettersOf(calls[r]), Where(r).got[x.peer], n)
          /\ part[r][x] = "todo" => n = got[r]
          /\ part[r][x] = "done" => n = Len(x.slots)
    BY <1>4, <2>1 DEF MemRight, Parts
  <2>3. CASE p.dir = "send"
    BY <1>2, <2>1, <2>2, <2>3
  <2>4. CASE p.dir = "recv"
    BY <1>1, <1>2, <2>1, <2>2, <2>4
  <2>5. QED
    BY <1>1, <2>3, <2>4
<1>7. /\ MemInv(r)' /\ Ended(r)'
      /\ \A x \in Ranks \ {r} : mem'[x] = mem[x]
  BY <1>5, <1>6, EndData DEF o
<1>8. Linked /\ \A q \in Ranks \ {r} : Sound(q) => LinkInv(r, q)'
  <2>1. Linked
    BY DataForm
  <2>2. \A a, b \in Ranks : Dense(link[a][b])
    BY DEF StreamInv, Shapes
  <2>3. \A q \in Ranks \ {r} : Len(link[r][q]) \in Nat /\ link'[r][q] = link[r][q]
    BY <2>2, DenseSize
  <2>4. \A q \in Ranks \ {r} : Len(link'[r][q]) <= Len(link[r][q])
    BY <2>3
  <2>5. QED
    BY <1>3, <2>1, <2>3, <2>4, OutKept
<1>9. Linked'
  BY <1>1, <1>3, <1>8, LinksOn
<1>10. QED
  BY <1>3, <1>7, <1>9, DataOn

LEMMA EndSendData ==
  ASSUME Delivered, StreamInv, DataInv, NEW r \in Ranks, EndSend(r) \/ FailSend(r)
  PROVE  DataInv'
<1>1. PICK p \in Parts(r), ok \in BOOLEAN :
        /\ p.dir = "send" /\ EndPart(r, p, ok, mem[r])
        /\ UNCHANGED <<setup, calls, got, up, crashed, link>>
  BY DEF EndSend, FailSend
<1>2. StreamInv' /\ ReadsOn(r)
  BY EndSendKeeps, FailSendKeeps
<1>3. QED
  BY <1>1, <1>2, EndsNoData

LEMMA FailRecvData ==
  ASSUME Delivered, StreamInv, DataInv, NEW r \in Ranks, FailRecv(r)
  PROVE  DataInv'
<1>1. PICK p \in Parts(r) :
        /\ p.dir = "recv" /\ EndPart(r, p, FALSE, mem[r]) /\ got' = [got EXCEPT ![r] = 0]
        /\ UNCHANGED <<setup, calls, up, crashed, link>>
  BY DEF FailRecv
<1>2. StreamInv' /\ ReadsOn(r)
  BY FailRecvKeeps
<1>3. got'[r] = 0 /\ \A x \in Ranks \ {r} : got'[x] = got[x]
  BY <1>1 DEF StreamInv, Shapes
<1>4. QED
  BY <1>1, <1>2, <1>3, EndsNoData

(* A crash, a broken pipe, Finalize.                                        *)
LEMMA GoneData ==
  ASSUME StreamInv, StreamInv', DataInv, NEW r \in Ranks, Gone(r)
  PROVE  DataInv'
<1>1. /\ up'[r] = FALSE /\ \A x \in Ranks \ {r} : Kept(x) /\ mem'[x] = mem[x]
      /\ setup' = setup /\ calls' = calls /\ pc' = pc /\ mem' = mem /\ results' = results
  BY DEF Gone, Kept, StreamInv, TypeOK, Shapes
<1>2. PICK kept \in [Ranks -> UNION {0 .. Len(link[r][b]) : b \in Ranks}] :
        /\ \A b \in Ranks : kept[b] <= Len(link[r][b])
        /\ link' = [a \in Ranks |-> [b \in Ranks |->
                      IF a = r THEN SubSeq(link[r][b], 1, kept[b])
                      ELSE IF b = r THEN <<>> ELSE link[a][b]]]
  BY DEF Gone, CloseLinks
<1>3. ASSUME NEW q \in Ranks \ {r}
      PROVE  /\ Len(link'[r][q]) <= Len(link[r][q])
             /\ \A i \in 1 .. Len(link'[r][q]) : link'[r][q][i] = link[r][q][i]
  <2>1. Dense(link[r][q]) /\ link'[r][q] = SubSeq(link[r][q], 1, kept[q])
    BY <1>2 DEF StreamInv, Shapes
  <2>2. Len(link[r][q]) \in Nat /\ kept[q] \in 0 .. Len(link[r][q])
    <3>1. \A b \in Ranks : Len(link[r][b]) \in Nat
      BY DenseSize DEF StreamInv, Shapes
    <3>2. kept[q] \in Nat
      <4>1. PICK b \in Ranks : kept[q] \in 0 .. Len(link[r][b])
        BY <1>2
      <4>2. QED
        BY <3>1, <4>1
    <3>3. kept[q] <= Len(link[r][q]) /\ Len(link[r][q]) \in Nat
      BY <1>2, <3>1
    <3>4. QED
      BY <3>2, <3>3
  <2> DEFINE W == {link[r][q][i] : i \in DOMAIN link[r][q]}
  <2>3. link[r][q] \in Seq(W)
    BY <2>1 DEF Dense
  <2> HIDE DEF W
  <2>4. QED
    BY <2>1, <2>2, <2>3
<1>4. ~Sound(r)'
  BY <1>1 DEF Sound
<1>5. ReadsOn(r) /\ (Sound(r)' => Sound(r))
  BY <1>4 DEF ReadsOn
<1>6. Linked
  BY DataForm
<1>7. \A q \in Ranks \ {r} : Sound(q) => LinkInv(r, q)'
  BY <1>1, <1>3, <1>6, OutKept
<1>8. \A a, b \in Ranks \ {r} : link'[a][b] = link[a][b]
  BY <1>2
<1>9. Linked'
  BY <1>1, <1>5, <1>6, <1>7, <1>8, LinksOn
<1>10. MemInv(r)'
  BY <1>1, MemForm
<1>11. Ended(r)'
  <2>1. Ended(r)
    BY DataForm
  <2>2. QED
    BY <1>1, <2>1 DEF Ended, LastTrue, InCall
<1>12. QED
  BY <1>1, <1>9, <1>10, <1>11, DataOn

(* A call begins.                                                           *)
LEMMA CallData ==
  ASSUME Delivered, StreamInv, StreamInv', DataInv, NEW r \in Ranks, Call(r), ReadsOn(r)
  PROVE  DataInv'
<1> DEFINE code == ProgramOf(setup.work[calls[r] + 1], r)
<1>1. /\ up[r] /\ ~InCall(r) /\ calls' = [calls EXCEPT ![r] = @ + 1]
      /\ pc' = [pc EXCEPT ![r] = 1] /\ part' = [part EXCEPT ![r] = StartOf(code.steps[1])]
      /\ mem' = [mem EXCEPT ![r] = Copy([s \in Written |-> Junk], r, code.entry)]
      /\ UNCHANGED <<setup, got, results, up, crashed, link>>
  BY Zenon DEF Call
<1>2. /\ pc \in [Ranks -> Nat] /\ DOMAIN part = Ranks /\ DOMAIN mem = Ranks
      /\ calls \in [Ranks -> 0 .. Len(setup.work)] /\ Len(setup.work) \in Nat /\ RankInv(r)
      /\ setup \in Setups
  BY SetupFacts DEF StreamInv, Shapes, TypeOK
<1> HIDE DEF code
<1>3. /\ calls'[r] = calls[r] + 1 /\ pc'[r] = 1 /\ part'[r] = StartOf(code.steps[1])
      /\ mem'[r] = Copy([s \in Written |-> Junk], r, code.entry)
      /\ \A x \in Ranks \ {r} : Kept(x) /\ mem'[x] = mem[x]
  BY <1>1, <1>2 DEF Kept
<1>4. Code(r)' = code
  BY <1>1, <1>3 DEF Code, ProgramOf, code
<1>5. calls[r] + 1 \in 1 .. Len(setup.work)
  <2>1. calls'[r] \in 0 .. Len(setup.work)
    BY <1>1 DEF StreamInv, TypeOK
  <2>2. QED
    BY <1>2, <1>3, <2>1
<1>6. code = CodeOf(setup.topology, setup.work[calls[r] + 1], r) /\ WellFormed(code, r)
  BY <1>5, SetupFacts DEF code, ProgramOf
<1>7. Len(code.steps) \in Nat \ {0} /\ 1 \in 1 .. Len(code.steps) /\ Good(code.steps[1], Ranks \ {r})
  <2>1. Len(code.steps) \in Nat \ {0} /\ \A k \in 1 .. Len(code.steps) : Good(code.steps[k], Ranks \ {r})
    BY <1>6, StepsGood
  <2>2. 1 \in 1 .. Len(code.steps)
    BY <2>1
  <2>3. QED
    BY <2>1, <2>2
<1>8. \A x \in DOMAIN part'[r] : part'[r][x] = "todo" /\ Len(x.slots) \in Nat
  BY <1>3, <1>7 DEF StartOf, Good
<1>9. got'[r] = 0
  <2>1. Parts(r) = {}
    BY <1>1, <1>2, EmptyParts DEF RankInv, Parts
  <2>2. QED
    BY <1>1, <1>2, <2>1 DEF RankInv
<1>10. Where(r)' = Start(code, r) /\ mem'[r] = Start(code, r).mem
  <2>1. Unrolled(At(code, r, LettersOf(calls[r])'), Len(code.steps), code, r, LettersOf(calls[r])')
    BY <1>7, AtFacts
  <2>2. At(code, r, LettersOf(calls[r])')[0] = Start(code, r)
    BY <2>1 DEF Unrolled
  <2>3. Where(r)' = At(Code(r)', r, LettersOf(calls[r])')[pc'[r] - 1]
    BY DEF Where
  <2>4. pc'[r] - 1 = 0
    BY <1>3
  <2>5. QED
    BY <1>3, <1>4, <2>2, <2>3, <2>4 DEF Start
<1>11. MemInv(r)'
  <2>1. IsMem(Start(code, r).mem)
    BY MemShapes DEF Start
  <2>2. MemRight(r, LettersOf(calls[r])', Start(code, r), Start(code, r).mem, part'[r], 0)
    BY <1>8, <2>1, MemFresh
  <2>3. QED
    BY <1>9, <1>10, <2>2, MemForm
<1>12. Ended(r)'
  BY <1>3 DEF Ended, LastTrue, InCall
<1>13. Sound(r)' => Sound(r)
  BY <1>1 DEF Sound
<1>14. Linked /\ \A q \in Ranks \ {r} : Sound(q) => LinkInv(r, q)'
  <2>1. Linked
    BY DataForm
  <2>2. \A q \in Ranks \ {r} : Len(link[r][q]) \in Nat /\ link'[r][q] = link[r][q]
    BY <1>1, DenseSize DEF StreamInv, Shapes
  <2>3. \A q \in Ranks \ {r} : Len(link'[r][q]) <= Len(link[r][q])
    BY <2>2
  <2>4. QED
    BY <1>1, <1>3, <2>1, <2>2, <2>3, OutKept
<1>15. Linked'
  BY <1>1, <1>3, <1>13, <1>14, LinksOn
<1>16. QED
  BY <1>1, <1>3, <1>11, <1>12, <1>15, DataOn

(* What a Send hands over is what the letters say: its step's Recv leaves   *)
(* the slots that the Send reads alone.                                     *)
LEMMA SendsValue ==
  ASSUME Delivered, StreamInv, DataInv, NEW r \in Ranks, NEW p \in Parts(r), p.dir = "send",
         NEW i \in 1 .. Len(p.slots)
  PROVE  ValueAt(mem[r], r, p.slots[i])
           = LettersOf(calls[r])[r][p.peer][Where(r).sent[p.peer] + i]
<1> DEFINE at == Where(r)
           x == p.slots[i]
<1>1. /\ up[r] /\ InCall(r) /\ Parts(r) = StepOf(r).parts
      /\ \A y \in Parts(r) : y.dir \in {"send", "recv"} /\ Len(y.slots) \in Nat
  BY InStep, StepFacts
<1>2. Apart(StepOf(r)) /\ SendsRight(StepOf(r), r, LettersOf(calls[r]), at)
  BY <1>1, WhereFacts
<1>3. ValueAt(at.mem, r, x) = LettersOf(calls[r])[r][p.peer][at.sent[p.peer] + i]
  BY <1>1, <1>2 DEF SendsRight
<1>4. MemRight(r, LettersOf(calls[r]), at, mem[r], part[r], got[r])
  BY <1>1, MemNow
<1> HIDE DEF at, x
<1>5. CASE \A y \in Parts(r) : y.dir = "send"
  <2>1. mem[r] = at.mem
    BY <1>4, <1>5 DEF MemRight, Parts
  <2>2. QED
    BY <1>3, <2>1 DEF at, x
<1>6. CASE ~\A y \in Parts(r) : y.dir = "send"
  <2>1. PICK y \in Parts(r) : y.dir = "recv"
    BY <1>1, <1>6
  <2>2. PICK n \in 0 .. Len(y.slots) :
          mem[r] = Filled(at.mem, r, y, LettersOf(calls[r]), at.got[y.peer], n)
    BY <1>4, <2>1 DEF MemRight, Parts
  <2>3. \A j \in 1 .. Len(y.slots) : y.slots[j] # x
    BY <1>1, <1>2, <2>1 DEF Apart, x
  <2>4. \A j \in 1 .. n : y.slots[j] # x
    <3>1. n \in 0 .. Len(y.slots) /\ Len(y.slots) \in Nat
      BY <1>1, <2>1, <2>2
    <3>2. \A j \in 1 .. n : j \in 1 .. Len(y.slots)
      BY <3>1
    <3>3. QED
      BY <2>3, <3>2
  <2>5. ValueAt(mem[r], r, x) = ValueAt(at.mem, r, x)
    BY <2>2, <2>4, FilledAt DEF ValueAt
  <2>6. QED
    BY <1>3, <2>5 DEF at, x
<1>7. QED
  BY <1>5, <1>6

LEMMA LinkMore ==
  ASSUME NEW s, NEW a, NEW b, NEW R, NEW W, NEW ln \in Seq(W), NEW V, NEW new \in Seq(V),
         LinkRight(s, ln, R, a, b),
         \A i \in 1 .. Len(new) : UnitRight(s, new[i], R + (Len(ln) + i), a, b)
  PROVE  LinkRight(s, ln \o new, R, a, b)
<1>1. SUFFICES ASSUME NEW j \in 1 .. Len(ln \o new)
               PROVE  UnitRight(s, (ln \o new)[j], R + j, a, b)
  BY DEF LinkRight
<1>2. Len(ln) \in Nat /\ Len(new) \in Nat /\ Len(ln \o new) = Len(ln) + Len(new)
  OBVIOUS
<1>3. CASE j <= Len(ln)
  <2>1. j \in 1 .. Len(ln) /\ (ln \o new)[j] = ln[j]
    BY <1>2, <1>3
  <2>2. QED
    BY <2>1 DEF LinkRight
<1>4. CASE ~(j <= Len(ln))
  <2> DEFINE m == Len(ln)
             n == Len(new)
  <2>a. m \in Nat /\ n \in Nat /\ j \in 1 .. (m + n) /\ ~(j <= m)
    BY <1>2, <1>4
  <2> HIDE DEF m, n
  <2>b. j - m \in 1 .. n /\ j = m + (j - m)
    BY <2>a
  <2>1. PICK i \in 1 .. Len(new) : j = Len(ln) + i
    BY <2>b DEF m, n
  <2>2. (ln \o new)[j] = new[i]
    BY <1>2, <2>1
  <2>3. QED
    BY <2>1, <2>2
<1>5. QED
  BY <1>3, <1>4

(* A Send hands its chunks to the stream.                                   *)
LEMMA BeginSendData ==
  ASSUME Delivered, StreamInv, StreamInv', DataInv, NEW r \in Ranks, BeginSend(r), ReadsOn(r)
  PROVE  DataInv'
<1>1. PICK p \in Parts(r) :
        /\ p.dir = "send" /\ part[r][p] = "todo"
        /\ part' = [part EXCEPT ![r][p] = "open"]
        /\ link' = [link EXCEPT ![r][p.peer] =
             IF up[p.peer]
             THEN @ \o [i \in 1 .. Len(p.slots) |->
                          [val |-> ValueAt(mem[r], r, p.slots[i]), call |-> calls[r],
                           pos |-> i, of |-> Len(p.slots)]]
             ELSE @]
        /\ UNCHANGED <<setup, calls, pc, got, mem, results, up, crashed>>
  BY DEF BeginSend
<1> DEFINE b == p.peer
           l == Len(p.slots)
           new == [i \in 1 .. l |-> [val |-> ValueAt(mem[r], r, p.slots[i]), call |-> calls[r],
                                     pos |-> i, of |-> l]]
           o == [part[r] EXCEPT ![p] = "open"]
<1>2. /\ up[r] /\ InCall(r) /\ Sound(r) /\ b \in Ranks \ {r} /\ l \in Nat \ {0}
      /\ \A x, y \in Parts(r) : x.peer = y.peer => x = y
      /\ DOMAIN part = Ranks
      /\ DOMAIN link = Ranks /\ \A x \in Ranks : DOMAIN link[x] = Ranks
      /\ \A x, y \in Ranks : Dense(link[x][y])
  BY InStep, StepFacts DEF StreamInv, Shapes
<1>3. /\ DOMAIN o = Parts(r) /\ \A x \in Parts(r) : x # p => o[x] = part[r][x]
  BY DEF Parts
<1>4. part'[r] = o /\ \A x \in Ranks \ {r} : part'[x] = part[x]
  BY <1>1, <1>2
<1>5. /\ \A x, y \in Ranks : ~(x = r /\ y = b) => link'[x][y] = link[x][y]
      /\ up[b] => link'[r][b] = link[r][b] \o new
  BY <1>1, <1>2
<1>6. new \in Seq({new[i] : i \in 1 .. l}) /\ Len(new) = l
  <2>1. l \in Nat
    BY <1>2
  <2> HIDE DEF l
  <2>2. new = [i \in 1 .. l |-> new[i]]
    OBVIOUS
  <2> HIDE DEF new
  <2>3. QED
    BY <2>1, <2>2
<1>7. \A i \in 1 .. l : new[i].val = ValueAt(mem[r], r, p.slots[i]) /\ new[i].call = calls[r]
  OBVIOUS
<1> HIDE DEF new, o, l, b
<1>8. \A x \in Ranks \ {r} : Kept(x) /\ mem'[x] = mem[x]
  BY <1>1, <1>4 DEF Kept
<1>9. MemInv(r)'
  <2>1. MemRight(r, LettersOf(calls[r]), Where(r), mem[r], part[r], got[r])
    BY <1>2, MemNow
  <2>2. \A x \in Parts(r) : x.dir = "recv" => o[x] = part[r][x]
    BY <1>1, <1>3
  <2>3. MemRight(r, LettersOf(calls[r]), Where(r), mem[r], o, got[r])
    BY <1>3, <2>1, <2>2 DEF MemRight, Parts
  <2>4. Where(r)' = Where(r) /\ LettersOf(calls[r])' = LettersOf(calls[r])
    BY <1>1, WhereNext DEF Where
  <2>5. QED
    BY <1>1, <1>4, <2>3, <2>4, MemForm
<1>10. Ended(r)'
  BY <1>1, <1>2 DEF Ended, LastTrue, InCall
<1>11. ASSUME NEW q \in Ranks \ {r}, Sound(q) PROVE LinkInv(r, q)'
  <2> DEFINE R == Read(q, r)
             ln == link[r][q]
  <2>1. LinkRight(setup, ln, R, r, q) /\ Read(q, r)' = R
    BY <1>1, <1>8, <1>11, DataForm, LinkForm, KeptRank DEF Linked
  <2>2. CASE q # b
    <3>1. link'[r][q] = ln
      BY <1>5, <1>11, <2>2
    <3>2. QED
      BY <1>1, <2>1, <3>1, LinkForm
  <2>3. CASE q = b
    <3>1. link'[r][q] = ln \o new
      BY <1>5, <1>11, <2>3 DEF Sound
    <3>2. ln \in Seq({ln[i] : i \in DOMAIN ln}) /\ Len(ln) \in Nat
      BY <1>2, <1>11, DenseSize DEF Dense
    <3> DEFINE E == Earlier(r, q, calls[r])
               w == Where(r).sent[q]
    <3>3. R + Len(ln) = E + w /\ R \in Nat /\ E \in Nat /\ w \in Nat
      <4>1. PairInv(r, q) /\ R \in Nat
        BY <1>2, <1>11, PosType DEF StreamInv
      <4>2. Sent(r, q, Pos(r, q)) = R + Len(ln)
        BY <1>2, <4>1 DEF PairInv
      <4>3. Beyond(q, part[r]) = 0
        BY <1>1, <1>2, <2>3 DEF Beyond, Through, Parts, b
      <4>4. Pos(r, q) = Base(r, q)
        <5>1. Base(r, q) \in Nat
          BY <1>2, <1>11, BaseFacts
        <5>2. Pos(r, q) = Base(r, q) + Beyond(q, part[r])
          BY <1>2, PosForms
        <5>3. QED
          BY <4>3, <5>1, <5>2
      <4>5. Sent(r, q, Base(r, q)) = E + w /\ E \in Nat /\ w \in Nat
        BY <1>2, <1>11, WhereCounts
      <4>6. QED
        BY <4>1, <4>2, <4>4, <4>5
    <3>4. ASSUME NEW i \in 1 .. Len(new) PROVE UnitRight(setup, new[i], R + (Len(ln) + i), r, q)
      <4>1. i \in 1 .. l /\ i \in 1 .. Len(p.slots) /\ i \in Nat
        BY <1>2, <1>6 DEF l
      <4>2. new[i].call = calls[r] /\ new[i].val = LettersOf(calls[r])[r][q][w + i]
        BY <1>1, <1>7, <2>3, <4>1, SendsValue DEF b
      <4> DEFINE z == Len(ln)
      <4>3. R + z = E + w /\ R \in Nat /\ E \in Nat /\ w \in Nat /\ z \in Nat
        BY <3>2, <3>3
      <4>4. E = Len(SendsUpto[setup][r][q][Len(StoryUpto[setup][r][q][new[i].call - 1])])
        BY <4>2 DEF Earlier, Sent
      <4> HIDE DEF R, ln, E, w, z
      <4>5. (R + (z + i)) - E = w + i
        BY ONLY <4>3, <4>1
      <4>6. new[i].val = Letters(setup.topology, setup.work[new[i].call])[r][q][(R + (z + i)) - E]
        BY <4>2, <4>5 DEF LettersOf
      <4>7. UnitRight(setup, new[i], R + (z + i), r, q)
        BY Zenon, <4>4, <4>6 DEF UnitRight
      <4>8. QED
        BY <4>7 DEF z
    <3> HIDE DEF R, ln, E, w
    <3>5. LinkRight(setup, ln \o new, R, r, q)
      BY <1>6, <2>1, <3>2, <3>4, LinkMore
    <3>6. QED
      BY <1>1, <2>1, <3>1, <3>5, LinkForm DEF R, ln
  <2>4. QED
    BY <2>2, <2>3
<1>12. Linked'
  <2>1. Linked /\ (Sound(r)' => Sound(r)) /\ setup' = setup
    BY <1>1, <1>2, DataForm
  <2>2. \A x, y \in Ranks \ {r} : link'[x][y] = link[x][y]
    BY <1>5
  <2>3. QED
    BY <1>8, <1>11, <2>1, <2>2, LinksOn
<1>13. QED
  BY <1>1, <1>8, <1>9, <1>10, <1>12, DataOn

(* One more chunk in the memory.                                            *)
LEMMA FilledOne ==
  ASSUME NEW m, NEW r, NEW p, NEW L, NEW G, NEW l \in Nat, NEW g \in Nat, g < l, Distinct(p.slots, l),
         p.slots[g + 1] \in Written
  PROVE  Filled(m, r, p, L, G, g + 1)
           = [Filled(m, r, p, L, G, g) EXCEPT ![p.slots[g + 1]] = L[p.peer][r][G + (g + 1)]]
<1> DEFINE t == p.slots[g + 1]
           v == L[p.peer][r][G + (g + 1)]
           w == [Filled(m, r, p, L, G, g) EXCEPT ![t] = v]
<1>1. PICK k \in 1 .. (g + 1) : k = g + 1
  OBVIOUS
<1>2. Distinct(p.slots, g + 1) /\ Distinct(p.slots, g)
  BY DEF Distinct
<1>3. DOMAIN Filled(m, r, p, L, G, g) = Written
  BY DEF Filled
<1>4. IsMem(Filled(m, r, p, L, G, g + 1)) /\ IsMem(w)
  <2>1. IsMem(Filled(m, r, p, L, G, g + 1))
    BY MemShapes
  <2>2. w = [s \in Written |-> w[s]]
    BY <1>3
  <2>3. QED
    BY <2>1, <2>2 DEF IsMem
<1>5. /\ w[t] = v /\ \A s \in Written : s # t => w[s] = Filled(m, r, p, L, G, g)[s]
  BY <1>3
<1>6. p.slots[k] = t /\ G + k = G + (g + 1)
  BY <1>1
<1> HIDE DEF t, v, w
<1>7. t \in Written /\ v = L[p.peer][r][G + k]
  BY <1>6 DEF t, v
<1>8. ASSUME NEW s \in Written PROVE Filled(m, r, p, L, G, g + 1)[s] = w[s]
  <2>1. CASE s = t
    <3>1. Filled(m, r, p, L, G, g + 1)[s] = L[p.peer][r][G + k]
      BY <1>2, <1>6, <2>1, FilledAt
    <3>2. QED
      BY <1>5, <1>7, <2>1, <3>1
  <2>2. CASE s # t /\ \E i \in 1 .. g : p.slots[i] = s
    <3>1. PICK i \in 1 .. g : p.slots[i] = s
      BY <2>2
    <3>2. i \in 1 .. (g + 1)
      OBVIOUS
    <3>3. Filled(m, r, p, L, G, g + 1)[s] = L[p.peer][r][G + i]
      BY <1>2, <3>1, <3>2, FilledAt
    <3>4. Filled(m, r, p, L, G, g)[s] = L[p.peer][r][G + i]
      BY <1>2, <3>1, FilledAt
    <3>5. QED
      BY <1>5, <2>2, <3>3, <3>4
  <2>3. CASE s # t /\ ~\E i \in 1 .. g : p.slots[i] = s
    <3>1. \A i \in 1 .. (g + 1) : p.slots[i] # s
      <4>1. SUFFICES ASSUME NEW i \in 1 .. (g + 1) PROVE p.slots[i] # s
        OBVIOUS
      <4>2. i \in 1 .. g \/ i = g + 1
        OBVIOUS
      <4>3. QED
        BY <2>3, <4>2 DEF t
    <3>2. QED
      BY <1>5, <2>3, <3>1, FilledAt
  <2>4. QED
    BY <2>1, <2>2, <2>3
<1>9. Filled(m, r, p, L, G, g + 1) = w
  BY <1>4, <1>8, SameMem
<1>10. QED
  BY <1>9 DEF w, v, t

(* What a Recv reads next is the letter it waits for.                       *)
LEMMA RecvsValue ==
  ASSUME StreamInv, DataInv, NEW r \in Ranks, NEW p \in Parts(r), p.dir = "recv",
         part[r][p] = "todo", link[p.peer][r] # <<>>
  PROVE  Head(link[p.peer][r]).val
           = LettersOf(calls[r])[p.peer][r][Where(r).got[p.peer] + (got[r] + 1)]
<1> DEFINE a == p.peer
           g == got[r]
           u == link[a][r][1]
           E == Earlier(a, r, calls[r])
           w == Where(r).got[a]
           R == Read(r, a)
<1>1. /\ up[r] /\ InCall(r) /\ Sound(r) /\ a \in Ranks \ {r} /\ g \in Nat
      /\ Base(r, a) \in Nat /\ R = Sent(a, r, Base(r, a)) + g
  BY RecvFacts
<1>2. Sent(a, r, Base(r, a)) = E + w /\ E \in Nat /\ w \in Nat
  BY <1>1, WhereCounts
<1>3. Head(link[a][r]) = u /\ 1 \in 1 .. Len(link[a][r])
  <2>1. Dense(link[a][r])
    BY <1>1 DEF StreamInv, Shapes
  <2>2. link[a][r] \in Seq({link[a][r][i] : i \in DOMAIN link[a][r]}) /\ link[a][r] # <<>>
    BY <2>1 DEF Dense
  <2>3. QED
    BY <2>2
<1>4. u.call = calls[r]
  BY <1>3, HeadMatches DEF RecvMatchesSend
<1>5. LinkRight(setup, link[a][r], R, a, r)
  BY <1>1, DataForm, LinkForm DEF Linked
<1>6. UnitRight(setup, u, R + 1, a, r)
  BY <1>3, <1>5 DEF LinkRight
<1>7. E = Len(SendsUpto[setup][a][r][Len(StoryUpto[setup][a][r][u.call - 1])])
  BY <1>4 DEF Earlier, Sent
<1> HIDE DEF a, g, u, E, w, R
<1>8. (R + 1) - E = w + (g + 1)
  BY <1>1, <1>2
<1>9. u.val = Letters(setup.topology, setup.work[u.call])[a][r][w + (g + 1)]
  BY Zenon, <1>6, <1>7, <1>8 DEF UnitRight
<1>10. QED
  BY <1>3, <1>4, <1>9 DEF a, g, u, w, LettersOf

LEMMA RecvChunkData ==
  ASSUME Delivered, StreamInv, StreamInv', DataInv, NEW r \in Ranks, RecvChunk(r), ReadsOn(r)
  PROVE  DataInv'
<1>1. PICK p \in Parts(r) :
        /\ p.dir = "recv" /\ part[r][p] = "todo" /\ link[p.peer][r] # <<>>
        /\ link' = [link EXCEPT ![p.peer][r] = Tail(@)]
        /\ LET m == [mem[r] EXCEPT ![p.slots[got[r] + 1]] = Head(link[p.peer][r]).val]
           IN  IF got[r] + 1 < Len(p.slots)
               THEN /\ got' = [got EXCEPT ![r] = @ + 1]
                    /\ mem' = [mem EXCEPT ![r] = m]
                    /\ UNCHANGED <<pc, part, results>>
               ELSE /\ got' = [got EXCEPT ![r] = 0]
                    /\ EndPart(r, p, TRUE, m)
        /\ UNCHANGED <<setup, calls, up, crashed>>
  BY DEF RecvChunk
<1> DEFINE a == p.peer
           l == Len(p.slots)
           g == got[r]
           L == LettersOf(calls[r])
           at == Where(r)
           G == at.got[a]
           m == [mem[r] EXCEPT ![p.slots[g + 1]] = Head(link[a][r]).val]
           o == Outcome(r, p, TRUE)
<1>2. /\ up[r] /\ InCall(r) /\ Sound(r) /\ a \in Ranks \ {r}
      /\ l \in Nat \ {0} /\ g \in Nat /\ g < l
      /\ \A x \in Parts(r) : x.dir = "recv" => x = p
      /\ DOMAIN part = Ranks /\ DOMAIN mem = Ranks /\ got \in [Ranks -> Nat]
      /\ DOMAIN link = Ranks /\ \A x \in Ranks : DOMAIN link[x] = Ranks
  BY <1>1, RecvFacts DEF StreamInv, Shapes
<1>3. Apart(StepOf(r)) /\ Parts(r) = StepOf(r).parts
  BY <1>2, WhereFacts, StepFacts
<1>4. Distinct(p.slots, l) /\ \A i \in 1 .. l : p.slots[i] \in Written
  BY <1>1, <1>3 DEF Apart, Distinct
<1>5. Head(link[a][r]).val = L[a][r][G + (g + 1)]
  BY <1>1, RecvsValue
<1>6. mem[r] = Filled(at.mem, r, p, L, G, g)
  <2>1. MemRight(r, L, at, mem[r], part[r], g)
    BY <1>2, MemNow
  <2>2. QED
    BY <1>1, <2>1 DEF MemRight, Parts
<1>7. m = Filled(at.mem, r, p, L, G, g + 1)
  <2>1. p.slots[g + 1] \in Written /\ l \in Nat
    BY <1>2, <1>4
  <2>2. m = [Filled(at.mem, r, p, L, G, g) EXCEPT ![p.slots[g + 1]] = L[a][r][G + (g + 1)]]
    BY <1>5, <1>6
  <2>3. l \in Nat /\ g \in Nat /\ g < l /\ Distinct(p.slots, l)
    BY <1>2, <1>4
  <2> HIDE DEF m, g, l, L, at, G
  <2>4. Filled(at.mem, r, p, L, G, g + 1)
          = [Filled(at.mem, r, p, L, G, g) EXCEPT ![p.slots[g + 1]] = L[p.peer][r][G + (g + 1)]]
    BY <2>1, <2>3, FilledOne
  <2>5. QED
    BY <2>2, <2>4
<1>8. \A x, y \in Ranks : y # r => link'[x][y] = link[x][y]
  BY <1>1, <1>2
<1>9. /\ DOMAIN o = Parts(r) /\ o[p] = "done" /\ \A x \in Parts(r) : x # p => o[x] = part[r][x]
  BY DEF Outcome, Parts
<1>10. ASSUME NEW z, z[p] \in {"todo", "done"}, DOMAIN z = Parts(r), NEW k \in Nat,
              z[p] = "todo" => k = g + 1, z[p] = "done" => l = g + 1
       PROVE  MemRight(r, L, at, m, z, k)
  <2>1. ~\A x \in DOMAIN z : x.dir = "send"
    BY <1>1, <1>10
  <2>2. g + 1 \in 0 .. Len(p.slots)
    BY <1>2
  <2> HIDE DEF m, g, L, at, o
  <2>3. SUFFICES ASSUME NEW x \in DOMAIN z, x.dir = "recv"
                 PROVE  \E n \in 0 .. Len(x.slots) :
                          /\ m = Filled(at.mem, r, x, L, at.got[x.peer], n)
                          /\ z[x] = "todo" => n = k
                          /\ z[x] = "done" => n = Len(x.slots)
    BY <2>1 DEF MemRight
  <2>4. x = p
    BY <1>2, <1>10, <2>3
  <2>5. QED
    BY <1>7, <1>10, <2>2, <2>4
<1> HIDE DEF a, l, g, L, at, G, m, o
<1>11. /\ (\A x \in Ranks \ {r} : Kept(x) /\ mem'[x] = mem[x])
       /\ MemInv(r)' /\ Ended(r)' /\ (Sound(r)' => Sound(r))
  <2>1. CASE g + 1 < l
    <3>1. /\ got' = [got EXCEPT ![r] = @ + 1] /\ mem' = [mem EXCEPT ![r] = m]
          /\ UNCHANGED <<pc, part, results>>
      BY <1>1, <2>1 DEF g, l, m, a
    <3>2. got'[r] = g + 1 /\ mem'[r] = m /\ \A x \in Ranks \ {r} : got'[x] = got[x] /\ mem'[x] = mem[x]
      BY <1>2, <3>1 DEF g
    <3>3. \A x \in Ranks \ {r} : Kept(x)
      BY <1>1, <3>1, <3>2 DEF Kept
    <3>4. MemRight(r, L, at, m, part[r], g + 1)
      BY <1>1, <1>2, <1>10 DEF Parts
    <3>5. MemInv(r)'
      <4>1. Where(r)' = Where(r) /\ LettersOf(calls[r])' = LettersOf(calls[r])
        BY <1>1, <3>1, WhereNext DEF Where
      <4>2. QED
        BY <3>1, <3>2, <3>4, <4>1, MemForm DEF L, at
    <3>6. Ended(r)'
      BY <1>2, <3>1 DEF Ended, LastTrue, InCall
    <3>7. QED
      BY <1>2, <3>2, <3>3, <3>5, <3>6
  <2>2. CASE ~(g + 1 < l)
    <3>1. got' = [got EXCEPT ![r] = 0] /\ EndPart(r, p, TRUE, m)
      BY <1>1, <2>2 DEF g, l, m, a
    <3>2. got'[r] = 0 /\ \A x \in Ranks \ {r} : got'[x] = got[x]
      BY <1>2, <3>1
    <3>3. l = g + 1
      BY <1>2, <2>2
    <3>4. MemRight(r, L, at, m, o, got'[r])
      BY <1>9, <1>10, <3>2, <3>3
    <3>5. GotFits(o, got'[r])
      BY <1>2, <1>9, <3>2 DEF GotFits
    <3>6. /\ MemInv(r)' /\ Ended(r)'
          /\ \A x \in Ranks \ {r} : mem'[x] = mem[x]
      BY <1>1, <3>1, <3>4, <3>5, EndData DEF o, L, at
    <3>7. \A x \in Ranks \ {r} : Kept(x)
      BY <1>1, <3>1, <3>2, EndGoes DEF Kept
    <3>8. QED
      BY <1>2, <3>6, <3>7
  <2>3. QED
    BY <2>1, <2>2
<1>12. Linked'
  <2>1. Linked /\ setup' = setup
    BY <1>1, DataForm
  <2>2. \A q \in Ranks \ {r} : Len(link[r][q]) \in Nat /\ link'[r][q] = link[r][q]
    BY <1>8, DenseSize DEF StreamInv, Shapes
  <2>3. \A q \in Ranks \ {r} : Len(link'[r][q]) <= Len(link[r][q])
    BY <2>2
  <2>4. \A q \in Ranks \ {r} : Sound(q) => LinkInv(r, q)'
    BY <1>11, <2>1, <2>2, <2>3, OutKept
  <2>5. QED
    BY <1>8, <1>11, <2>1, <2>4, LinksOn
<1>13. QED
  BY <1>1, <1>11, <1>12, DataOn

LEMMA DataStutters ==
  ASSUME DataInv, UNCHANGED vars
  PROVE  DataInv'
<1>1. Linked /\ \A r \in Ranks : MemInv(r) /\ Ended(r)
  BY DataForm
<1>2. /\ UNCHANGED <<setup, calls, pc, part, got, mem, results, up, link>>
  BY DEF vars
<1>3. Linked'
  <2>1. SUFFICES ASSUME NEW a \in Ranks, NEW b \in Ranks, a # b, Sound(b)' PROVE LinkInv(a, b)'
    BY DEF Linked
  <2>2. Kept(b)
    BY <1>2 DEF Kept
  <2>3. Sound(b) /\ Read(b, a)' = Read(b, a)
    BY <1>2, <2>1, <2>2, KeptRank
  <2>4. LinkInv(a, b)
    BY <1>1, <2>1, <2>3 DEF Linked
  <2>5. QED
    BY <1>2, <2>3, <2>4, LinkForm
<1>4. ASSUME NEW r \in Ranks PROVE MemInv(r)' /\ Ended(r)'
  BY <1>1, <1>2 DEF MemInv, Ended, LastTrue, InCall, Code, ProgramOf, LettersOf
<1>5. QED
  BY <1>3, <1>4, DataForm

LEMMA DataInit ==
  ASSUME Init
  PROVE  DataInv
<1>1. \A r \in Ranks : calls[r] = 0 /\ pc[r] = 0
  BY DEF Init
<1>2. \A a, b \in Ranks : link[a][b] = <<>>
  BY DEF Init
<1>3. \A a, b \in Ranks : LinkInv(a, b)
  BY <1>2 DEF LinkInv
<1>4. \A r \in Ranks : MemInv(r) /\ Ended(r)
  BY <1>1 DEF MemInv, Ended, LastTrue, InCall
<1>5. QED
  BY <1>3, <1>4, DataForm DEF Linked

LEMMA NextData ==
  ASSUME Delivered, StreamInv, DataInv, [Next]_vars
  PROVE  DataInv'
<1>1. StreamInv'
  BY NextKeeps
<1>2. CASE UNCHANGED vars
  BY <1>2, DataStutters
<1>3. CASE Next
  <2>1. PICK r \in Ranks : RankStep(r) \/ Crash(r) \/ BrokenPipe(r)
    BY <1>3 DEF Next
  <2>2. CASE Call(r)
    BY <1>1, <2>2, CallKeeps, CallData
  <2>3. CASE BeginSend(r)
    BY <1>1, <2>3, BeginSendKeeps, BeginSendData
  <2>4. CASE EndSend(r) \/ FailSend(r)
    BY <2>4, EndSendData
  <2>5. CASE RecvChunk(r)
    BY <1>1, <2>5, RecvChunkKeeps, RecvChunkData
  <2>6. CASE FailRecv(r)
    BY <2>6, FailRecvData
  <2>7. CASE Finalize(r) \/ Crash(r) \/ BrokenPipe(r)
    <3>1. Gone(r)
      BY <2>7 DEF Finalize, Crash, BrokenPipe
    <3>2. QED
      BY <1>1, <3>1, GoneData
  <2>8. QED
    BY <2>1, <2>2, <2>3, <2>4, <2>5, <2>6, <2>7 DEF RankStep
<1>4. QED
  BY <1>2, <1>3

(* If every program by itself delivers what its collective promises, then a *)
(* collective that returns true among the others, the crashes and the calls *)
(* before it has put in recv_buf what its name promises.                    *)
LEMMA DataKept == Delivered => (Spec => []DataInv)
<1> SUFFICES ASSUME Delivered PROVE Spec => []DataInv
  OBVIOUS
<1>1. Init => StreamInv /\ DataInv
  BY ProgramsPair, InitStreams, DataInit
<1>2. StreamInv /\ DataInv /\ [Next]_vars => (StreamInv /\ DataInv)'
  BY NextKeeps, NextData
<1>3. QED
  BY <1>1, <1>2, PTL DEF Spec

-----------------------------------------------------------------------------
(* Programs, step by step.  A point of a program is what is known there: of *)
(* some slots the contents, of some peers the chunks sent and got so far.   *)

Point(K, S, G) == [know |-> K, sent |-> S, got |-> G]
Agrees(m, K) == \A s \in DOMAIN K : s \in Written /\ m[s] = K[s]
Tallies(n, S) == (\A q \in Ranks : n[q] \in Nat) /\ \A q \in DOMAIN S : q \in Ranks /\ n[q] = S[q]
Meets(at, P) ==
  IsMem(at.mem) /\ Agrees(at.mem, P.know) /\ Tallies(at.sent, P.sent) /\ Tallies(at.got, P.got)

(* Step x leads from P to Q and sends what the letters say.                 *)
Leads(x, r, L, P, Q) ==
  /\ Apart(x)
  /\ \A at : Meets(at, P) => SendsRight(x, r, L, at) /\ Meets(After(x, r, L, at), Q)
Runs(s, r, L, P, Q) ==
  \E g : /\ g[0] = P /\ g[Len(s)] = Q
         /\ \A k \in 1 .. Len(s) : Leads(s[k], r, L, g[k - 1], g[k])

LEMMA RunsNone ==
  ASSUME NEW r, NEW L, NEW P
  PROVE  Runs(<<>>, r, L, P, P)
<1> DEFINE g == [k \in {0} |-> P]
<1>1. g[0] = P /\ Len(<<>>) = 0 /\ 1 .. 0 = {}
  OBVIOUS
<1>2. QED
  BY <1>1 DEF Runs

(* The points of a row of steps.                                            *)
LEMMA RunsRow ==
  ASSUME NEW r, NEW L, NEW n \in Nat, NEW s, Len(s) = n, NEW g,
         \A k \in 1 .. n : Leads(s[k], r, L, g[k - 1], g[k])
  PROVE  Runs(s, r, L, g[0], g[n])
BY DEF Runs

LEMMA RunsOne ==
  ASSUME NEW r, NEW L, NEW x, NEW P, NEW Q, Leads(x, r, L, P, Q)
  PROVE  Runs(<<x>>, r, L, P, Q)
<1> DEFINE g == [k \in 0 .. 1 |-> IF k = 0 THEN P ELSE Q]
<1>1. g[0] = P /\ g[1] = Q /\ Len(<<x>>) = 1 /\ <<x>>[1] = x
  OBVIOUS
<1> HIDE DEF g
<1>2. ASSUME NEW k \in 1 .. 1 PROVE Leads(<<x>>[k], r, L, g[k - 1], g[k])
  <2>1. k = 1 /\ k - 1 = 0
    OBVIOUS
  <2>2. QED
    BY <1>1, <2>1
<1>3. QED
  BY <1>1, <1>2 DEF Runs

LEMMA RunsConcat ==
  ASSUME NEW r, NEW L, NEW X, NEW s \in Seq(X), NEW t \in Seq(X), NEW P, NEW Q, NEW R,
         Runs(s, r, L, P, Q), Runs(t, r, L, Q, R)
  PROVE  Runs(s \o t, r, L, P, R)
<1>1. PICK g : /\ g[0] = P /\ g[Len(s)] = Q
               /\ \A k \in 1 .. Len(s) : Leads(s[k], r, L, g[k - 1], g[k])
  BY DEF Runs
<1>2. PICK h : /\ h[0] = Q /\ h[Len(t)] = R
               /\ \A k \in 1 .. Len(t) : Leads(t[k], r, L, h[k - 1], h[k])
  BY DEF Runs
<1> DEFINE m == Len(s)
           n == Len(t)
           f == [k \in 0 .. (m + n) |-> IF k <= m THEN g[k] ELSE h[k - m]]
<1>3. m \in Nat /\ n \in Nat /\ Len(s \o t) = m + n
      /\ (\A k \in 1 .. m : (s \o t)[k] = s[k])
      /\ (\A k \in 1 .. n : (s \o t)[m + k] = t[k])
  OBVIOUS
<1> HIDE DEF m, n
<1>4. /\ \A k \in 0 .. m : f[k] = g[k]
      /\ \A k \in 1 .. n : f[m + k] = h[k]
  <2>1. ASSUME NEW k \in 0 .. m PROVE f[k] = g[k]
    BY <1>3
  <2>2. ASSUME NEW k \in 1 .. n PROVE f[m + k] = h[k]
    <3>1. m + k \in 0 .. (m + n) /\ ~(m + k <= m) /\ (m + k) - m = k
      BY <1>3
    <3>2. QED
      BY <3>1
  <2>3. QED
    BY <2>1, <2>2
<1> HIDE DEF f
<1>5. f[m] = Q /\ (\A k \in 0 .. n : f[m + k] = h[k])
  <2>1. f[m] = Q
    BY <1>1, <1>3, <1>4 DEF m
  <2>2. ASSUME NEW k \in 0 .. n PROVE f[m + k] = h[k]
    <3>1. CASE k = 0
      BY <1>2, <1>3, <2>1, <3>1
    <3>2. CASE k # 0
      <4>1. k \in 1 .. n
        BY <1>3, <3>2
      <4>2. QED
        BY <1>4, <4>1
    <3>3. QED
      BY <3>1, <3>2
  <2>3. QED
    BY <2>1, <2>2
<1>6. f[0] = P /\ f[m + n] = R
  <2>1. f[0] = g[0]
    BY <1>3, <1>4
  <2>2. f[m + n] = h[n]
    BY <1>3, <1>5
  <2>3. QED
    BY <1>1, <1>2, <2>1, <2>2 DEF n
<1>7. ASSUME NEW k \in 1 .. (m + n) PROVE Leads((s \o t)[k], r, L, f[k - 1], f[k])
  <2>1. CASE k <= m
    <3>1. k \in 1 .. m /\ k \in 0 .. m /\ k - 1 \in 0 .. m
      BY <1>3, <2>1
    <3>2. Leads(s[k], r, L, g[k - 1], g[k])
      BY <1>1, <3>1 DEF m
    <3>3. QED
      BY <1>3, <1>4, <3>1, <3>2
  <2>2. CASE ~(k <= m)
    <3>1. PICK i \in 1 .. n : k = m + i
      <4>1. k - m \in 1 .. n /\ k = m + (k - m)
        BY <1>3, <2>2
      <4>2. QED
        BY <4>1
    <3>2. i - 1 \in 0 .. n /\ i \in 0 .. n /\ k - 1 = m + (i - 1)
      BY <1>3, <3>1
    <3>3. Leads(t[i], r, L, h[i - 1], h[i])
      BY <1>2, <3>1 DEF n
    <3>4. f[k - 1] = h[i - 1] /\ f[k] = h[i]
      BY <1>5, <3>1, <3>2
    <3>5. QED
      BY <1>3, <3>1, <3>3, <3>4
  <2>3. QED
    BY <2>1, <2>2
<1>8. Len(s \o t) = m + n
  BY <1>3
<1>9. QED
  BY <1>6, <1>7, <1>8 DEF Runs

(* Rounds put end to end.                                                   *)
LEMMA RunsJoined ==
  ASSUME NEW r, NEW L, NEW X, NEW n \in Nat, NEW R \in [1 .. n -> Seq(X)], NEW G,
         \A k \in 1 .. n : Runs(R[k], r, L, G[k - 1], G[k])
  PROVE  Runs(Joined(R), r, L, G[0], G[n])
<1> DEFINE u == JoinedUpto(R)
           S == {k \in Nat : k <= n => Runs(u[k], r, L, G[0], G[k])}
<1>1. R \in Seq(Seq(X)) /\ Len(R) = n
  OBVIOUS
<1>2. u \in [0 .. n -> Seq(X)] /\ u[0] = <<>> /\ \A i \in 1 .. n : u[i] = u[i - 1] \o R[i]
  BY <1>1, JoinedFacts
<1>3. Joined(R) = u[n]
  BY <1>1, JoinedType
<1> HIDE DEF u
<1>4. 0 \in S
  BY <1>2, RunsNone
<1>5. ASSUME NEW k \in Nat, k \in S PROVE k + 1 \in S
  <2>1. SUFFICES ASSUME k + 1 <= n PROVE Runs(u[k + 1], r, L, G[0], G[k + 1])
    OBVIOUS
  <2>2. PICK j \in 1 .. n : j = k + 1 /\ k = j - 1 /\ k \in 0 .. n
    BY <2>1
  <2>3. Runs(u[k], r, L, G[0], G[k])
    BY <1>5, <2>1
  <2>4. Runs(R[j], r, L, G[k], G[j])
    BY <2>2
  <2>5. u[j] = u[k] \o R[j] /\ u[k] \in Seq(X) /\ R[j] \in Seq(X)
    BY <1>2, <2>2
  <2>6. Runs(u[j], r, L, G[0], G[j])
    BY <2>3, <2>4, <2>5, RunsConcat
  <2>7. QED
    BY <2>2, <2>6
<1> HIDE DEF S
<1>6. Nat \subseteq S
  BY <1>4, <1>5, NatSteps
<1>7. n \in S
  BY <1>6
<1>8. QED
  BY <1>3, <1>7 DEF S

(* A program that runs from its start to a point where the promise holds.   *)
LEMMA RunsDeliver ==
  ASSUME NEW r, NEW L, NEW code, Len(code.steps) \in Nat, NEW P, NEW Q, NEW promise,
         Meets(Start(code, r), P), Runs(code.steps, r, L, P, Q),
         \A m : IsMem(m) /\ Agrees(m, Q.know) =>
           \A i \in DOMAIN promise : Copy(m, r, code.exit)[In(i)] = promise[i]
  PROVE  Delivers(code, r, L, promise)
<1> DEFINE n == Len(code.steps)
           at == At(code, r, L)
<1>1. PICK g : /\ g[0] = P /\ g[n] = Q
               /\ \A k \in 1 .. n : Leads(code.steps[k], r, L, g[k - 1], g[k])
  BY DEF Runs
<1>2. /\ at[0] = Start(code, r)
      /\ \A k \in 1 .. n : at[k] = After(code.steps[k], r, L, at[k - 1])
  BY AtFacts DEF Unrolled
<1>3. n \in Nat
  OBVIOUS
<1> HIDE DEF n, at
<1> DEFINE S == {k \in Nat : k <= n => Meets(at[k], g[k])}
<1>4. 0 \in S
  BY <1>1, <1>2
<1>5. ASSUME NEW k \in Nat, k \in S PROVE k + 1 \in S
  <2>1. SUFFICES ASSUME k + 1 <= n PROVE Meets(at[k + 1], g[k + 1])
    OBVIOUS
  <2>2. PICK j \in 1 .. n : j = k + 1 /\ k = j - 1
    BY <1>3, <2>1
  <2>3. Meets(at[k], g[k])
    BY <1>3, <1>5, <2>1
  <2>4. Leads(code.steps[j], r, L, g[k], g[j])
    BY <1>1, <2>2
  <2>5. at[j] = After(code.steps[j], r, L, at[k])
    BY <1>2, <2>2
  <2>6. Meets(at[j], g[j])
    BY <2>3, <2>4, <2>5 DEF Leads
  <2>7. QED
    BY <2>2, <2>6
<1>6. Nat \subseteq S
  <2> HIDE DEF S
  <2>1. QED
    BY <1>4, <1>5, NatSteps
<1>7. \A k \in 0 .. n : Meets(at[k], g[k])
  BY <1>3, <1>6
<1> HIDE DEF S
<1>8. ASSUME NEW k \in 1 .. n
      PROVE  Apart(code.steps[k]) /\ SendsRight(code.steps[k], r, L, at[k - 1])
  <2>1. PICK j \in 0 .. n : j = k - 1
    BY <1>3
  <2>2. Meets(at[j], g[j]) /\ Leads(code.steps[k], r, L, g[j], g[k])
    BY <1>1, <1>7, <2>1
  <2>3. QED
    BY <2>1, <2>2 DEF Leads
<1>9. IsMem(at[n].mem) /\ Agrees(at[n].mem, Q.know)
  <2>1. Meets(at[n], g[n])
    BY <1>3, <1>7
  <2>2. QED
    BY <1>1, <2>1 DEF Meets
<1>10. \A i \in DOMAIN promise : Copy(at[n].mem, r, code.exit)[In(i)] = promise[i]
  BY <1>9
<1>11. QED
  BY <1>8, <1>10 DEF Delivers, n, at

(* The same for a program that copies nothing at its end.                   *)
LEMMA RunsPromise ==
  ASSUME NEW r, NEW L, NEW code, Len(code.steps) \in Nat, code.exit = {}, NEW P, NEW Q, NEW promise,
         Meets(Start(code, r), P), Runs(code.steps, r, L, P, Q),
         \A i \in DOMAIN promise : i \in DOMAIN Q.know /\ Q.know[i] = promise[i]
  PROVE  Delivers(code, r, L, promise)
<1>1. ASSUME NEW m, IsMem(m), Agrees(m, Q.know), NEW i \in DOMAIN promise
      PROVE  Copy(m, r, code.exit)[In(i)] = promise[i]
  <2>1. Copy(m, r, code.exit) = m
    BY <1>1, NothingDone
  <2>2. m[i] = promise[i]
    BY <1>1 DEF Agrees
  <2>3. QED
    BY <2>1, <2>2 DEF In
<1>2. QED
  BY <1>1, RunsDeliver

(* What is known when a program starts.                                     *)
Count(S, q, c) == c \in Nat /\ (q \in DOMAIN S => c = S[q])
Zeros(S) == \A q \in DOMAIN S : q \in Ranks /\ S[q] = 0

LEMMA StartMeets ==
  ASSUME NEW r, NEW code, NEW K, NEW S, NEW G, Zeros(S), Zeros(G), Unique(code.entry),
         \A s \in DOMAIN K :
           /\ s \in Written
           /\ \/ \E c \in code.entry : c[1] = s /\ c[2] \notin Written /\ K[s] = Operand(r, c[2] - 2 * N)
              \/ (\A c \in code.entry : c[1] # s) /\ K[s] = Junk
  PROVE  Meets(Start(code, r), Point(K, S, G))
<1> DEFINE m == [s \in Written |-> Junk]
           at == Start(code, r)
<1>1. /\ at.mem = Copy(m, r, code.entry) /\ IsMem(at.mem)
      /\ at.sent = [q \in Ranks |-> 0] /\ at.got = [q \in Ranks |-> 0]
  BY MemShapes DEF Start
<1>2. Tallies(at.sent, S) /\ Tallies(at.got, G)
  BY <1>1 DEF Tallies, Zeros
<1>3. ASSUME NEW s \in DOMAIN K PROVE at.mem[s] = K[s]
  <2>1. CASE \E c \in code.entry : c[1] = s /\ c[2] \notin Written /\ K[s] = Operand(r, c[2] - 2 * N)
    <3>1. PICK c \in code.entry : c[1] = s /\ c[2] \notin Written /\ K[s] = Operand(r, c[2] - 2 * N)
      BY <2>1
    <3>2. at.mem[s] = ValueAt(m, r, c[2])
      BY <1>1, <3>1, CopyAt
    <3>3. QED
      BY <3>1, <3>2 DEF ValueAt
  <2>2. CASE (\A c \in code.entry : c[1] # s) /\ K[s] = Junk
    BY <1>1, <2>2, CopyAt
  <2>3. QED
    BY <2>1, <2>2
<1> HIDE DEF at
<1>4. Agrees(at.mem, K)
  BY <1>3 DEF Agrees
<1>5. QED
  BY <1>1, <1>2, <1>4 DEF Meets, Point, at

(* How a step leads from a point to the next: it sends what is known, its   *)
(* Recv makes K into M, its copies and reductions M into J.                 *)
Value(K, r, s, v) ==
  IF s \in Written THEN s \in DOMAIN K /\ K[s] = v ELSE Operand(r, s - 2 * N) = v
Offers(x, r, L, K, S) ==
  \A p \in x.parts : p.dir = "send" =>
    \A c : Count(S, p.peer, c) =>
      \A i \in 1 .. Len(p.slots) : Value(K, r, p.slots[i], L[r][p.peer][c + i])
Fills(x, r, L, K, G, M) ==
  \A s \in DOMAIN M :
    /\ s \in Written
    /\ \/ \E p \in x.parts : \E i \in 1 .. Len(p.slots) :
            /\ p.dir = "recv" /\ p.slots[i] = s
            /\ \A c : Count(G, p.peer, c) => M[s] = L[p.peer][r][c + i]
       \/ /\ s \in DOMAIN K /\ M[s] = K[s]
          /\ \A p \in x.parts : p.dir = "recv" => \A i \in 1 .. Len(p.slots) : p.slots[i] # s
Leaves(x, r, M, J) ==
  \A m : IsMem(m) /\ Agrees(m, M) => Agrees(Fold(Copy(m, r, x.copy), x.fold), J)
Adds(x, S, T, d) == \A q \in DOMAIN T : q \in DOMAIN S /\ T[q] = S[q] + Amount(x, q, d)

LEMMA ValueKnown ==
  ASSUME NEW m, NEW K, NEW r, NEW s, NEW v, Agrees(m, K), Value(K, r, s, v)
  PROVE  ValueAt(m, r, s) = v
BY DEF Agrees, Value, ValueAt

LEMMA StepLeads ==
  ASSUME NEW r \in Ranks, NEW L, NEW x, Good(x, Ranks \ {r}), Apart(x),
         NEW K, NEW S, NEW G, NEW M, NEW J, NEW T, NEW H,
         Offers(x, r, L, K, S), Fills(x, r, L, K, G, M), Leaves(x, r, M, J),
         Adds(x, S, T, "send"), Adds(x, G, H, "recv")
  PROVE  Leads(x, r, L, Point(K, S, G), Point(J, T, H))
<1>1. SUFFICES ASSUME NEW at, Meets(at, Point(K, S, G))
               PROVE  SendsRight(x, r, L, at) /\ Meets(After(x, r, L, at), Point(J, T, H))
  BY DEF Leads
<1>2. IsMem(at.mem) /\ Agrees(at.mem, K) /\ Tallies(at.sent, S) /\ Tallies(at.got, G)
  BY <1>1 DEF Meets, Point
<1>3. \A q \in Ranks : Count(S, q, at.sent[q]) /\ Count(G, q, at.got[q])
  BY <1>2 DEF Count, Tallies
<1>4. SendsRight(x, r, L, at)
  <2>1. SUFFICES ASSUME NEW p \in x.parts, p.dir = "send", NEW i \in 1 .. Len(p.slots)
                 PROVE  ValueAt(at.mem, r, p.slots[i]) = L[r][p.peer][at.sent[p.peer] + i]
    BY DEF SendsRight
  <2>2. Count(S, p.peer, at.sent[p.peer])
    BY <1>3 DEF Good
  <2>3. Value(K, r, p.slots[i], L[r][p.peer][at.sent[p.peer] + i])
    BY <2>1, <2>2 DEF Offers
  <2>4. QED
    BY <1>2, <2>3, ValueKnown
<1> DEFINE p0 == RecvOf(x)
           m == IF Receives(x) THEN Filled(at.mem, r, p0, L, at.got[p0.peer], Len(p0.slots)) ELSE at.mem
           to == After(x, r, L, at)
<1>5. /\ to.mem = Fold(Copy(m, r, x.copy), x.fold) /\ IsMem(to.mem)
      /\ to.sent = [q \in Ranks |-> at.sent[q] + Amount(x, q, "send")]
      /\ to.got = [q \in Ranks |-> at.got[q] + Amount(x, q, "recv")]
  BY MemShapes DEF After
<1>6. IsMem(m) /\ Agrees(m, M)
  <2>1. CASE Receives(x)
    <3>1. /\ p0 \in x.parts /\ p0.dir = "recv" /\ p0.peer \in Ranks
          /\ \A p \in x.parts : p.dir = "recv" => p = p0
      BY <2>1 DEF Receives, RecvOf, Good
    <3>2. Distinct(p0.slots, Len(p0.slots))
      BY <3>1 DEF Apart, Distinct
    <3>3. m = Filled(at.mem, r, p0, L, at.got[p0.peer], Len(p0.slots))
      BY <2>1
    <3> HIDE DEF m, p0
    <3>4. SUFFICES ASSUME NEW s \in DOMAIN M PROVE s \in Written /\ m[s] = M[s]
      BY <3>3, MemShapes DEF Agrees
    <3>5. s \in Written
      BY DEF Fills
    <3>6. CASE \E p \in x.parts : \E i \in 1 .. Len(p.slots) :
                 /\ p.dir = "recv" /\ p.slots[i] = s
                 /\ \A c : Count(G, p.peer, c) => M[s] = L[p.peer][r][c + i]
      <4>1. PICK i \in 1 .. Len(p0.slots) :
              /\ p0.slots[i] = s
              /\ \A c : Count(G, p0.peer, c) => M[s] = L[p0.peer][r][c + i]
        BY <3>1, <3>6
      <4>2. M[s] = L[p0.peer][r][at.got[p0.peer] + i]
        BY <1>3, <3>1, <4>1
      <4>3. m[s] = L[p0.peer][r][at.got[p0.peer] + i]
        BY <3>2, <3>3, <3>5, <4>1, FilledAt
      <4>4. QED
        BY <3>5, <4>2, <4>3
    <3>7. CASE /\ s \in DOMAIN K /\ M[s] = K[s]
               /\ \A p \in x.parts : p.dir = "recv" => \A i \in 1 .. Len(p.slots) : p.slots[i] # s
      <4>1. m[s] = at.mem[s]
        BY <3>1, <3>3, <3>5, <3>7, FilledAt
      <4>2. QED
        BY <1>2, <3>5, <3>7, <4>1 DEF Agrees
    <3>8. QED
      BY <3>6, <3>7 DEF Fills
  <2>2. CASE ~Receives(x)
    <3>1. m = at.mem
      BY <2>2
    <3>2. \A s \in DOMAIN M : s \in Written /\ s \in DOMAIN K /\ M[s] = K[s]
      BY <2>2 DEF Fills, Receives
    <3>3. QED
      BY <1>2, <3>1, <3>2 DEF Agrees
  <2>3. QED
    BY <2>1, <2>2
<1> HIDE DEF m, to
<1>7. Agrees(to.mem, J)
  BY <1>5, <1>6 DEF Leaves
<1>8. \A q : Amount(x, q, "send") \in Nat /\ Amount(x, q, "recv") \in Nat
  BY AmountFacts
<1>9. Tallies(to.sent, T)
  <2>1. ASSUME NEW q \in Ranks PROVE to.sent[q] = at.sent[q] + Amount(x, q, "send") /\ to.sent[q] \in Nat
    BY <1>2, <1>5, <1>8 DEF Tallies
  <2>2. ASSUME NEW q \in DOMAIN T PROVE q \in Ranks /\ to.sent[q] = T[q]
    BY <1>2, <2>1 DEF Tallies, Adds
  <2>3. QED
    BY <2>1, <2>2 DEF Tallies
<1>10. Tallies(to.got, H)
  <2>1. ASSUME NEW q \in Ranks PROVE to.got[q] = at.got[q] + Amount(x, q, "recv") /\ to.got[q] \in Nat
    BY <1>2, <1>5, <1>8 DEF Tallies
  <2>2. ASSUME NEW q \in DOMAIN H PROVE q \in Ranks /\ to.got[q] = H[q]
    BY <1>2, <2>1 DEF Tallies, Adds
  <2>3. QED
    BY <2>1, <2>2 DEF Tallies
<1>11. Meets(to, Point(J, T, H))
  BY <1>5, <1>7, <1>9, <1>10 DEF Meets, Point
<1>12. QED
  BY <1>4, <1>11 DEF to

(* A step of one Send, of one Recv, of a Send beside a Recv.                *)
Whole(S) == \A q \in DOMAIN S : S[q] \in Nat
Gains(S, T, p, n) ==
  \A q \in DOMAIN T : q \in DOMAIN S /\ S[q] \in Nat /\ T[q] = S[q] + (IF q = p THEN n ELSE 0)
Gives(slots, r, p, L, K, S) ==
  \A c : Count(S, p, c) => \A i \in 1 .. Len(slots) : Value(K, r, slots[i], L[r][p][c + i])
Takes(slots, r, p, L, K, G, M) ==
  \A s \in DOMAIN M :
    /\ s \in Written
    /\ \/ \E i \in 1 .. Len(slots) :
            slots[i] = s /\ \A c : Count(G, p, c) => M[s] = L[p][r][c + i]
       \/ s \in DOMAIN K /\ M[s] = K[s] /\ \A i \in 1 .. Len(slots) : slots[i] # s
Vacant(slots) ==
  /\ \A i \in 1 .. Len(slots) : slots[i] \in Written
  /\ \A i, j \in 1 .. Len(slots) : slots[i] = slots[j] => i = j

LEMMA LeavesAll ==
  ASSUME NEW r, NEW M, NEW x, x.copy = {}, x.fold = {}
  PROVE  Leaves(x, r, M, M)
BY NothingDone DEF Leaves

LEMMA SendLeads ==
  ASSUME NEW r \in Ranks, NEW L, NEW p \in Ranks \ {r}, NEW slots, Len(slots) \in Nat \ {0},
         NEW x, x.parts = {SendPart(p, slots)},
         NEW K, NEW S, NEW G, NEW J, NEW T, Gives(slots, r, p, L, K, S),
         Leaves(x, r, K, J), Gains(S, T, p, Len(slots)), Whole(G), \A s \in DOMAIN K : s \in Written
  PROVE  Leads(x, r, L, Point(K, S, G), Point(J, T, G))
<1> DEFINE e == SendPart(p, slots)
<1>1. e.dir = "send" /\ e.peer = p /\ e.slots = slots
  BY DEF SendPart
<1> HIDE DEF e
<1>2. x.parts = {e}
  BY DEF e
<1>3. Good(x, Ranks \ {r}) /\ Apart(x)
  BY <1>1, <1>2 DEF Good, Apart
<1>4. Offers(x, r, L, K, S)
  BY <1>1, <1>2 DEF Offers, Gives
<1>5. Fills(x, r, L, K, G, K)
  BY <1>1, <1>2 DEF Fills
<1>6. /\ Amount(x, p, "send") = Len(slots)
      /\ \A q : q # p => Amount(x, q, "send") = 0
      /\ \A q : Amount(x, q, "recv") = 0
  BY <1>1, <1>2, <1>3, AmountFacts
<1>7. Adds(x, S, T, "send") /\ Adds(x, G, G, "recv")
  BY <1>6 DEF Adds, Gains, Whole
<1>8. QED
  BY <1>3, <1>4, <1>5, <1>7, StepLeads

LEMMA RecvLeads ==
  ASSUME NEW r \in Ranks, NEW L, NEW p \in Ranks \ {r}, NEW slots, Len(slots) \in Nat \ {0},
         NEW x, x.parts = {RecvPart(p, slots)}, Vacant(slots),
         NEW K, NEW S, NEW G, NEW M, NEW J, NEW H, Takes(slots, r, p, L, K, G, M),
         Leaves(x, r, M, J), Gains(G, H, p, Len(slots)), Whole(S)
  PROVE  Leads(x, r, L, Point(K, S, G), Point(J, S, H))
<1> DEFINE e == RecvPart(p, slots)
<1>1. e.dir = "recv" /\ e.peer = p /\ e.slots = slots
  BY DEF RecvPart
<1> HIDE DEF e
<1>2. x.parts = {e}
  BY DEF e
<1>3. Good(x, Ranks \ {r})
  BY <1>1, <1>2 DEF Good
<1>4. Apart(x)
  BY <1>1, <1>2 DEF Apart, Vacant
<1>5. Offers(x, r, L, K, S)
  BY <1>1, <1>2 DEF Offers
<1>6. Fills(x, r, L, K, G, M)
  <2>1. \A s \in DOMAIN M :
          /\ s \in Written
          /\ \/ \E i \in 1 .. Len(e.slots) :
                  e.slots[i] = s /\ \A c : Count(G, e.peer, c) => M[s] = L[e.peer][r][c + i]
             \/ s \in DOMAIN K /\ M[s] = K[s] /\ \A i \in 1 .. Len(e.slots) : e.slots[i] # s
    BY <1>1 DEF Takes
  <2>2. ASSUME NEW s \in DOMAIN M, NEW i \in 1 .. Len(e.slots), e.slots[i] = s,
               \A c : Count(G, e.peer, c) => M[s] = L[e.peer][r][c + i]
        PROVE  \E y \in x.parts : \E j \in 1 .. Len(y.slots) :
                 /\ y.dir = "recv" /\ y.slots[j] = s
                 /\ \A c : Count(G, y.peer, c) => M[s] = L[y.peer][r][c + j]
    BY <1>1, <1>2, <2>2
  <2>3. \A y \in x.parts : y = e
    BY <1>2
  <2>4. QED
    BY <2>1, <2>2, <2>3 DEF Fills
<1>7. /\ Amount(x, p, "recv") = Len(slots)
      /\ \A q : q # p => Amount(x, q, "recv") = 0
      /\ \A q : Amount(x, q, "send") = 0
  BY <1>1, <1>2, <1>3, AmountFacts
<1>8. Adds(x, S, S, "send") /\ Adds(x, G, H, "recv")
  BY <1>7 DEF Adds, Gains, Whole
<1>9. QED
  BY <1>3, <1>4, <1>5, <1>6, <1>8, StepLeads

LEMMA BothLead ==
  ASSUME NEW r \in Ranks, NEW L, NEW p \in Ranks \ {r}, NEW slots, Len(slots) \in Nat \ {0},
         NEW q \in Ranks \ {r}, q # p, NEW into, Len(into) \in Nat \ {0}, Vacant(into),
         \A i \in 1 .. Len(into), j \in 1 .. Len(slots) : into[i] # slots[j],
         NEW x, x.parts = {SendPart(p, slots), RecvPart(q, into)},
         NEW K, NEW S, NEW G, NEW M, NEW J, NEW T, NEW H,
         Gives(slots, r, p, L, K, S), Takes(into, r, q, L, K, G, M),
         Leaves(x, r, M, J), Gains(S, T, p, Len(slots)), Gains(G, H, q, Len(into))
  PROVE  Leads(x, r, L, Point(K, S, G), Point(J, T, H))
<1> DEFINE d == SendPart(p, slots)
           e == RecvPart(q, into)
<1>1. /\ d.dir = "send" /\ d.peer = p /\ d.slots = slots
      /\ e.dir = "recv" /\ e.peer = q /\ e.slots = into
  BY DEF SendPart, RecvPart
<1> HIDE DEF d, e
<1>2. x.parts = {d, e}
  BY DEF d, e
<1>3. Good(x, Ranks \ {r})
  BY <1>1, <1>2 DEF Good
<1>4. Apart(x)
  <2>1. SUFFICES ASSUME NEW z \in x.parts, z.dir = "recv"
                 PROVE  /\ \A i \in 1 .. Len(z.slots) : z.slots[i] \in Written
                        /\ \A i, j \in 1 .. Len(z.slots) : z.slots[i] = z.slots[j] => i = j
                        /\ \A w \in x.parts : w.dir = "send" =>
                             \A i \in 1 .. Len(z.slots), j \in 1 .. Len(w.slots) : z.slots[i] # w.slots[j]
    BY DEF Apart
  <2>2. z = e /\ \A w \in x.parts : w.dir = "send" => w = d
    BY <1>1, <1>2, <2>1
  <2>3. QED
    BY <1>1, <2>2 DEF Vacant
<1>5. Offers(x, r, L, K, S)
  BY <1>1, <1>2 DEF Offers, Gives
<1>6. Fills(x, r, L, K, G, M)
  <2>1. SUFFICES ASSUME NEW s \in DOMAIN M
                 PROVE  /\ s \in Written
                        /\ \/ \E i \in 1 .. Len(e.slots) :
                                e.slots[i] = s /\ \A c : Count(G, e.peer, c) => M[s] = L[e.peer][r][c + i]
                           \/ s \in DOMAIN K /\ M[s] = K[s] /\ \A i \in 1 .. Len(e.slots) : e.slots[i] # s
    <3>1. e \in x.parts /\ \A z \in x.parts : z.dir = "recv" => z = e
      BY <1>1, <1>2
    <3>2. QED
      BY <1>1, <2>1, <3>1 DEF Fills
  <2>2. QED
    BY <1>1 DEF Takes
<1>7. /\ Amount(x, p, "send") = Len(slots) /\ Amount(x, q, "recv") = Len(into)
      /\ \A z : z # p => Amount(x, z, "send") = 0
      /\ \A z : z # q => Amount(x, z, "recv") = 0
  BY <1>1, <1>2, <1>3, AmountFacts
<1>8. Adds(x, S, T, "send") /\ Adds(x, G, H, "recv")
  BY <1>7 DEF Adds, Gains
<1>9. QED
  BY <1>3, <1>4, <1>5, <1>6, <1>8, StepLeads

(* Reductions put sets of ranks together.                                   *)
LEMMA ReducedFacts ==
  /\ \A r, i : Operand(r, i) = Reduced({r}, i)
  /\ \A i : AllOperands(i) = Reduced(Ranks, i)
<1>1. ASSUME NEW r, NEW i PROVE Operand(r, i) = Reduced({r}, i)
  <2>1. {r} \X {i} = {<<r, i>>}
    OBVIOUS
  <2>2. QED
    BY <2>1 DEF Operand, Reduced
<1>2. ASSUME NEW i PROVE AllOperands(i) = Reduced(Ranks, i)
  <2>1. Ranks \X {i} = {<<r, i>> : r \in Ranks}
    OBVIOUS
  <2>2. QED
    BY <2>1 DEF AllOperands, Reduced
<1>3. QED
  BY <1>1, <1>2

LEMMA ReducedJoin ==
  ASSUME NEW S, NEW T, S \cap T = {}, NEW i
  PROVE  Reduced(S, i) (+) Reduced(T, i) = Reduced(S \cup T, i)
<1> DEFINE A == S \X {i}
           B == T \X {i}
<1>1. (S \cup T) \X {i} = A \cup B /\ A \cap B = {}
  OBVIOUS
<1>2. Reduced(S, i) = [e \in A |-> 1] /\ Reduced(T, i) = [e \in B |-> 1]
      /\ Reduced(S \cup T, i) = [e \in A \cup B |-> 1]
  BY <1>1 DEF Reduced, SetToBag
<1> HIDE DEF A, B
<1>3. [e \in A |-> 1] (+) [e \in B |-> 1]
        = [e \in A \cup B |-> (IF e \in A THEN 1 ELSE 0) + (IF e \in B THEN 1 ELSE 0)]
  BY DEF (+)
<1>4. \A e \in A \cup B : (IF e \in A THEN 1 ELSE 0) + (IF e \in B THEN 1 ELSE 0) = 1
  BY <1>1
<1>5. QED
  BY <1>2, <1>3, <1>4

(* The slots of a rank.                                                     *)
LEMMA Slots ==
  /\ \A i \in Ranks : /\ In(i) = i /\ In(i) \in Written
                      /\ Tmp(i) = N + i /\ Tmp(i) \in Written
                      /\ Own(i) \notin Written /\ Own(i) - 2 * N = i
  /\ \A i, j \in Ranks : /\ In(i) # Tmp(j) /\ (Tmp(i) = Tmp(j) => i = j)
                         /\ Own(i) # In(j) /\ Own(i) # Tmp(j)
  /\ 0 \in Ranks
BY WorldSizeAssumption DEF In, Tmp, Own, Written, Ranks

LEMMA InsFacts ==
  ASSUME NEW n \in 1 .. N
  PROVE  /\ Len(Ins(n)) = n /\ Len(Tmps(n)) = n /\ n \in Nat \ {0}
         /\ \A i \in 1 .. n : i - 1 \in Ranks /\ Ins(n)[i] = In(i - 1) /\ Tmps(n)[i] = Tmp(i - 1)
         /\ \A i \in 0 .. (n - 1) : i \in Ranks /\ i + 1 \in 1 .. n
         /\ Vacant(Ins(n)) /\ Vacant(Tmps(n))
<1>1. n \in Nat \ {0} /\ n <= N /\ N \in Nat
  BY WorldSizeAssumption
<1>2. Len(Ins(n)) = n /\ Len(Tmps(n)) = n
  BY <1>1 DEF Ins, Tmps
<1>3. /\ \A i \in 1 .. n : i - 1 \in Ranks /\ Ins(n)[i] = In(i - 1) /\ Tmps(n)[i] = Tmp(i - 1)
      /\ \A i \in 0 .. (n - 1) : i \in Ranks /\ i + 1 \in 1 .. n
  BY <1>1 DEF Ins, Tmps, Ranks
<1>4. ASSUME NEW i \in 1 .. n, NEW j \in 1 .. n
      PROVE  /\ Ins(n)[i] \in Written /\ (Ins(n)[i] = Ins(n)[j] => i = j)
             /\ Tmps(n)[i] \in Written /\ (Tmps(n)[i] = Tmps(n)[j] => i = j)
  <2>1. i - 1 \in Ranks /\ j - 1 \in Ranks
    BY <1>3
  <2>2. In(i - 1) = i - 1 /\ In(j - 1) = j - 1 /\ Tmp(i - 1) = N + (i - 1) /\ Tmp(j - 1) = N + (j - 1)
    BY <2>1, Slots
  <2>3. QED
    BY <1>1, <1>3, <2>1, <2>2, Slots
<1>5. QED
  BY <1>1, <1>2, <1>3, <1>4 DEF Vacant

(* Counts of chunks, of one peer or of none.                                *)
Tally(q, n) == [x \in {q} |-> n]
NoTally == [x \in {} |-> 0]

LEMMA TallyFacts ==
  /\ \A q \in Ranks : Zeros(Tally(q, 0))
  /\ \A q, n : n \in Nat => Whole(Tally(q, n))
  /\ \A q, n, c : Count(Tally(q, n), q, c) => c = n /\ c \in Nat
  /\ \A q, n, m, k : n \in Nat /\ k \in Nat /\ m = n + k => Gains(Tally(q, n), Tally(q, m), q, k)
  /\ Zeros(NoTally) /\ Whole(NoTally)
  /\ \A q, c : Count(NoTally, q, c) => c \in Nat
  /\ \A q, k : Gains(NoTally, NoTally, q, k)
<1>1. /\ \A q, n : DOMAIN Tally(q, n) = {q} /\ Tally(q, n)[q] = n
      /\ DOMAIN NoTally = {}
  BY DEF Tally, NoTally
<1>2. ASSUME NEW q, NEW n
      PROVE  /\ q \in Ranks /\ n = 0 => Zeros(Tally(q, n))
             /\ n \in Nat => Whole(Tally(q, n))
  <2> DEFINE t == Tally(q, n)
  <2>1. DOMAIN t = {q} /\ t[q] = n
    BY <1>1
  <2> HIDE DEF t
  <2>2. \A x \in DOMAIN t : x = q /\ t[x] = n
    BY <2>1
  <2>3. (q \in Ranks /\ n = 0 => Zeros(t)) /\ (n \in Nat => Whole(t))
    BY <2>2 DEF Zeros, Whole
  <2>4. QED
    BY <2>3 DEF t
<1>3. /\ \A q, n, c : Count(Tally(q, n), q, c) => c = n /\ c \in Nat
      /\ \A q, c : Count(NoTally, q, c) => c \in Nat
  BY <1>1 DEF Count
<1>4. ASSUME NEW q, NEW n \in Nat, NEW k \in Nat
      PROVE  Gains(Tally(q, n), Tally(q, n + k), q, k)
  <2> DEFINE t == Tally(q, n)
             u == Tally(q, n + k)
  <2>1. DOMAIN t = {q} /\ t[q] = n /\ DOMAIN u = {q} /\ u[q] = n + k
    BY <1>1
  <2> HIDE DEF t, u
  <2>2. \A x \in DOMAIN u : x = q /\ x \in DOMAIN t /\ t[x] = n /\ u[x] = n + k
    BY <2>1
  <2>3. Gains(t, u, q, k)
    BY <2>2 DEF Gains
  <2>4. QED
    BY <2>3 DEF t, u
<1>5. Zeros(NoTally) /\ Whole(NoTally) /\ \A q, k : Gains(NoTally, NoTally, q, k)
  BY <1>1 DEF Zeros, Whole, Gains
<1>6. QED
  BY <1>2, <1>3, <1>4, <1>5

(* Sequences of steps, and how they run.                                    *)
Row(s) == \E X : s \in Seq(X)
Ran(s, r, L, P, Q) == Row(s) /\ Runs(s, r, L, P, Q)

LEMMA RowUnion ==
  ASSUME NEW s, NEW t, Row(s), Row(t)
  PROVE  \E X : s \in Seq(X) /\ t \in Seq(X)
<1>1. PICK X, Y : s \in Seq(X) /\ t \in Seq(Y)
  BY DEF Row
<1> DEFINE Z == X \cup Y
<1>2. s \in Seq(Z)
  <2>1. s \in [1 .. Len(s) -> X] /\ Len(s) \in Nat
    BY <1>1
  <2>2. s \in [1 .. Len(s) -> Z]
    BY <2>1
  <2>3. QED
    BY <2>1, <2>2
<1>3. t \in Seq(Z)
  <2>1. t \in [1 .. Len(t) -> Y] /\ Len(t) \in Nat
    BY <1>1
  <2>2. t \in [1 .. Len(t) -> Z]
    BY <2>1
  <2>3. QED
    BY <2>1, <2>2
<1>4. QED
  BY <1>2, <1>3

LEMMA RanNone ==
  ASSUME NEW r, NEW L, NEW P
  PROVE  Ran(<<>>, r, L, P, P)
<1>1. <<>> \in Seq({})
  OBVIOUS
<1>2. QED
  BY <1>1, RunsNone DEF Ran, Row

LEMMA RanOne ==
  ASSUME NEW r, NEW L, NEW x, NEW P, NEW Q, Leads(x, r, L, P, Q)
  PROVE  Ran(<<x>>, r, L, P, Q)
<1>1. <<x>> \in Seq({x})
  OBVIOUS
<1>2. QED
  BY <1>1, RunsOne DEF Ran, Row

LEMMA RanThen ==
  ASSUME NEW r, NEW L, NEW s, NEW t, NEW P, NEW Q, NEW R, Ran(s, r, L, P, Q), Ran(t, r, L, Q, R)
  PROVE  Ran(s \o t, r, L, P, R)
<1>1. PICK X : s \in Seq(X) /\ t \in Seq(X)
  BY RowUnion DEF Ran
<1>2. s \o t \in Seq(X)
  BY <1>1
<1>3. Runs(s \o t, r, L, P, R)
  BY <1>1, RunsConcat DEF Ran
<1>4. QED
  BY <1>2, <1>3 DEF Ran, Row

LEMMA RanTwo ==
  ASSUME NEW r, NEW L, NEW x, NEW y, NEW P, NEW Q, NEW R, Leads(x, r, L, P, Q), Leads(y, r, L, Q, R)
  PROVE  Ran(<<x, y>>, r, L, P, R)
<1>1. Ran(<<x>> \o <<y>>, r, L, P, R)
  BY RanOne, RanThen
<1>2. <<x>> \o <<y>> = <<x, y>>
  <2> DEFINE X == {x, y}
  <2>1. x \in X /\ y \in X
    OBVIOUS
  <2> HIDE DEF X
  <2>2. <<x>> \in Seq(X) /\ <<y>> \in Seq(X) /\ <<x, y>> \in Seq(X)
    BY <2>1
  <2>3. <<x>> \o <<y>> \in Seq(X) /\ Len(<<x>> \o <<y>>) = 2 /\ Len(<<x, y>>) = 2
    BY <2>2
  <2>4. (<<x>> \o <<y>>)[1] = x /\ (<<x>> \o <<y>>)[2] = y
    BY <2>2
  <2>5. \A i \in 1 .. 2 : (<<x>> \o <<y>>)[i] = <<x, y>>[i]
    BY <2>4
  <2> HIDE DEF X
  <2>6. <<x>> \o <<y>> \in Seq(X) /\ <<x, y>> \in Seq(X) /\ Len(<<x>> \o <<y>>) = Len(<<x, y>>)
    BY <2>2, <2>3
  <2>7. \A i \in 1 .. Len(<<x>> \o <<y>>) : (<<x>> \o <<y>>)[i] = <<x, y>>[i]
    BY <2>3, <2>5
  <2>8. \A s, t \in Seq(X) : Len(s) = Len(t) /\ (\A i \in 1 .. Len(s) : s[i] = t[i]) => s = t
    BY SeqEqual
  <2>9. QED
    BY ONLY <2>6, <2>7, <2>8
<1>3. QED
  BY <1>1, <1>2

LEMMA RanRow ==
  ASSUME NEW r, NEW L, NEW n \in Nat, NEW s, s = [k \in 1 .. n |-> s[k]], NEW g,
         \A k \in 1 .. n : Leads(s[k], r, L, g[k - 1], g[k])
  PROVE  Ran(s, r, L, g[0], g[n])
<1>1. s \in Seq({s[k] : k \in 1 .. n}) /\ Len(s) = n
  OBVIOUS
<1>2. QED
  BY <1>1, RunsRow DEF Ran, Row

LEMMA RanRounds ==
  ASSUME NEW r, NEW L, NEW n \in Nat, NEW R, R = [k \in 1 .. n |-> R[k]], NEW g,
         \A k \in 1 .. n : Ran(R[k], r, L, g[k - 1], g[k])
  PROVE  Ran(Joined(R), r, L, g[0], g[n])
<1> DEFINE X == UNION {Range(R[k]) : k \in 1 .. n}
<1>1. ASSUME NEW k \in 1 .. n PROVE R[k] \in Seq(X)
  <2>1. PICK Y : R[k] \in Seq(Y)
    BY DEF Ran, Row
  <2>2. R[k] \in Seq(Range(R[k]))
    BY <2>1 DEF Range
  <2>3. Range(R[k]) \subseteq X
    OBVIOUS
  <2> HIDE DEF X
  <2>4. R[k] \in [1 .. Len(R[k]) -> X] /\ Len(R[k]) \in Nat
    BY <2>2, <2>3
  <2>5. QED
    BY <2>4
<1> HIDE DEF X
<1>2. R \in [1 .. n -> Seq(X)]
  BY <1>1
<1>3. Runs(Joined(R), r, L, g[0], g[n])
  BY <1>2, RunsJoined DEF Ran
<1>4. R \in Seq(Seq(X))
  BY <1>2
<1>5. Joined(R) \in Seq(X)
  BY <1>4, JoinedType
<1>6. QED
  BY <1>3, <1>5 DEF Ran, Row

LEMMA RanPromise ==
  ASSUME NEW r, NEW L, NEW code, code.exit = {}, NEW P, NEW Q, NEW promise,
         Meets(Start(code, r), P), Ran(code.steps, r, L, P, Q),
         \A i \in DOMAIN promise : i \in DOMAIN Q.know /\ Q.know[i] = promise[i]
  PROVE  Delivers(code, r, L, promise)
<1>1. Len(code.steps) \in Nat
  BY DEF Ran, Row
<1>2. QED
  BY <1>1, RunsPromise DEF Ran

(* What a program's entry makes known, and programs with no copies on exit. *)
Opens(entry, r, K) ==
  \A s \in DOMAIN K :
    /\ s \in Written
    /\ \/ \E c \in entry : c[1] = s /\ c[2] \notin Written /\ K[s] = Operand(r, c[2] - 2 * N)
       \/ (\A c \in entry : c[1] # s) /\ K[s] = Junk
Yields(J, promise) == \A i \in DOMAIN promise : i \in DOMAIN J /\ J[i] = promise[i]

LEMMA ProgramDelivers ==
  ASSUME NEW r, NEW L, NEW entry, NEW steps, NEW K, NEW S, NEW G, NEW J, NEW T, NEW H, NEW promise,
         Unique(entry), Zeros(S), Zeros(G), Opens(entry, r, K),
         Ran(steps, r, L, Point(K, S, G), Point(J, T, H)), Yields(J, promise)
  PROVE  Delivers(Program(entry, steps), r, L, promise)
<1> DEFINE code == Program(entry, steps)
<1>1. code.entry = entry /\ code.steps = steps /\ code.exit = {}
  BY DEF Program
<1> HIDE DEF code
<1>2. Meets(Start(code, r), Point(K, S, G))
  BY <1>1, StartMeets DEF Opens
<1>3. \A i \in DOMAIN promise : i \in DOMAIN Point(J, T, H).know /\ Point(J, T, H).know[i] = promise[i]
  BY DEF Yields, Point
<1>4. Delivers(code, r, L, promise)
  BY <1>1, <1>2, <1>3, RanPromise
<1>5. QED
  BY <1>4 DEF code

LEMMA UniqueOne == \A x : Unique({x}) /\ Unique({})
BY DEF Unique

(* Steps that move one chunk.                                               *)
Puts(K, s, v, M) ==
  \A x \in DOMAIN M : x \in Written /\ \/ x = s /\ M[x] = v
                                       \/ x # s /\ x \in DOMAIN K /\ M[x] = K[x]
Due(S, a, b, L, v) == \A c : Count(S, b, c) => L[a][b][c + 1] = v
Comes(G, a, b, L, v) == \A c : Count(G, a, c) => L[a][b][c + 1] = v
InWritten(K) == \A s \in DOMAIN K : s \in Written

LEMMA OneSlot == \A s : /\ Len(<<s>>) = 1 /\ <<s>>[1] = s /\ 1 \in Nat \ {0}
                        /\ \A i \in 1 .. 1 : i = 1
OBVIOUS

LEMMA SendOne ==
  ASSUME NEW r \in Ranks, NEW L, NEW p \in Ranks \ {r}, NEW s, NEW v,
         NEW x, x.parts = {SendPart(p, <<s>>)},
         NEW K, NEW S, NEW G, NEW J, NEW T, InWritten(K), Value(K, r, s, v), Due(S, r, p, L, v),
         Leaves(x, r, K, J), Gains(S, T, p, 1), Whole(G)
  PROVE  Leads(x, r, L, Point(K, S, G), Point(J, T, G))
<1> DEFINE slots == <<s>>
<1>1. Len(slots) = 1 /\ slots[1] = s /\ Len(slots) \in Nat \ {0} /\ \A i \in 1 .. Len(slots) : i = 1
  OBVIOUS
<1>2. x.parts = {SendPart(p, slots)}
  OBVIOUS
<1> HIDE DEF slots
<1>3. Gives(slots, r, p, L, K, S)
  BY <1>1 DEF Gives, Due
<1>4. Gains(S, T, p, Len(slots))
  BY <1>1
<1>5. QED
  BY <1>1, <1>2, <1>3, <1>4, SendLeads DEF InWritten

LEMMA RecvOne ==
  ASSUME NEW r \in Ranks, NEW L, NEW p \in Ranks \ {r}, NEW s \in Written, NEW v,
         NEW x, x.parts = {RecvPart(p, <<s>>)},
         NEW K, NEW S, NEW G, NEW M, NEW J, NEW H, Puts(K, s, v, M), Comes(G, p, r, L, v),
         Leaves(x, r, M, J), Gains(G, H, p, 1), Whole(S)
  PROVE  Leads(x, r, L, Point(K, S, G), Point(J, S, H))
<1> DEFINE slots == <<s>>
<1>1. Len(slots) = 1 /\ slots[1] = s /\ Len(slots) \in Nat \ {0} /\ \A i \in 1 .. Len(slots) : i = 1
  OBVIOUS
<1>2. x.parts = {RecvPart(p, slots)}
  OBVIOUS
<1> HIDE DEF slots
<1>3. Takes(slots, r, p, L, K, G, M)
  <2> SUFFICES ASSUME NEW y \in DOMAIN M
      PROVE  /\ y \in Written
             /\ \/ \E i \in 1 .. Len(slots) :
                     slots[i] = y /\ \A c : Count(G, p, c) => M[y] = L[p][r][c + i]
                \/ y \in DOMAIN K /\ M[y] = K[y] /\ \A i \in 1 .. Len(slots) : slots[i] # y
    BY DEF Takes
  <2>1. CASE y = s /\ M[y] = v
    <3>1. \A c : Count(G, p, c) => M[y] = L[p][r][c + 1]
      BY <2>1 DEF Comes
    <3>2. 1 \in 1 .. Len(slots)
      BY <1>1
    <3>3. QED
      BY <1>1, <2>1, <3>1, <3>2
  <2>2. CASE y # s /\ y \in DOMAIN K /\ M[y] = K[y]
    BY <1>1, <2>2 DEF Puts
  <2>3. QED
    BY <2>1, <2>2 DEF Puts
<1>4. Gains(G, H, p, Len(slots)) /\ Vacant(slots)
  BY <1>1 DEF Vacant
<1>5. QED
  BY <1>1, <1>2, <1>3, <1>4, RecvLeads

LEMMA BothOne ==
  ASSUME NEW r \in Ranks, NEW L, NEW p \in Ranks \ {r}, NEW s, NEW v,
         NEW q \in Ranks \ {r}, q # p, NEW t \in Written, t # s, NEW w,
         NEW x, x.parts = {SendPart(p, <<s>>), RecvPart(q, <<t>>)},
         NEW K, NEW S, NEW G, NEW M, NEW J, NEW T, NEW H,
         Value(K, r, s, v), Due(S, r, p, L, v), Puts(K, t, w, M), Comes(G, q, r, L, w),
         Leaves(x, r, M, J), Gains(S, T, p, 1), Gains(G, H, q, 1)
  PROVE  Leads(x, r, L, Point(K, S, G), Point(J, T, H))
<1> DEFINE slots == <<s>>
           into == <<t>>
<1>1. Len(slots) = 1 /\ slots[1] = s /\ Len(slots) \in Nat \ {0} /\ \A i \in 1 .. Len(slots) : i = 1
  OBVIOUS
<1>2. Len(into) = 1 /\ into[1] = t /\ Len(into) \in Nat \ {0} /\ \A i \in 1 .. Len(into) : i = 1
  OBVIOUS
<1>3. x.parts = {SendPart(p, slots), RecvPart(q, into)}
  OBVIOUS
<1> HIDE DEF slots, into
<1>4. Gives(slots, r, p, L, K, S)
  BY <1>1 DEF Gives, Due
<1>5. Takes(into, r, q, L, K, G, M)
  <2> SUFFICES ASSUME NEW y \in DOMAIN M
      PROVE  /\ y \in Written
             /\ \/ \E i \in 1 .. Len(into) :
                     into[i] = y /\ \A c : Count(G, q, c) => M[y] = L[q][r][c + i]
                \/ y \in DOMAIN K /\ M[y] = K[y] /\ \A i \in 1 .. Len(into) : into[i] # y
    BY DEF Takes
  <2>1. CASE y = t /\ M[y] = w
    <3>1. \A c : Count(G, q, c) => M[y] = L[q][r][c + 1]
      BY <2>1 DEF Comes
    <3>2. 1 \in 1 .. Len(into)
      BY <1>2
    <3>3. QED
      BY <1>2, <2>1, <3>1, <3>2
  <2>2. CASE y # t /\ y \in DOMAIN K /\ M[y] = K[y]
    BY <1>2, <2>2 DEF Puts
  <2>3. QED
    BY <2>1, <2>2 DEF Puts
<1>6. Gains(S, T, p, Len(slots)) /\ Gains(G, H, q, Len(into)) /\ Vacant(into)
  BY <1>1, <1>2 DEF Vacant
<1>7. \A i \in 1 .. Len(into), j \in 1 .. Len(slots) : into[i] # slots[j]
  BY <1>1, <1>2
<1>8. QED
  BY <1>1, <1>2, <1>3, <1>4, <1>5, <1>6, <1>7, BothLead

LEMMA SureFacts ==
  /\ \A a, b, L, v : (\A j \in Nat : L[a][b][j] = v)
       => Due(NoTally, a, b, L, v) /\ Comes(NoTally, a, b, L, v)
  /\ \A a, b, L, v, n : n \in Nat /\ L[a][b][n + 1] = v
       => Due(Tally(b, n), a, b, L, v) /\ Comes(Tally(a, n), a, b, L, v)
<1>1. ASSUME NEW a, NEW b, NEW L, NEW v, \A j \in Nat : L[a][b][j] = v
      PROVE  Due(NoTally, a, b, L, v) /\ Comes(NoTally, a, b, L, v)
  <2>1. \A c \in Nat : c + 1 \in Nat
    OBVIOUS
  <2>2. QED
    BY <1>1, <2>1, TallyFacts DEF Due, Comes
<1>2. ASSUME NEW a, NEW b, NEW L, NEW v, NEW n, n \in Nat, L[a][b][n + 1] = v
      PROVE  Due(Tally(b, n), a, b, L, v) /\ Comes(Tally(a, n), a, b, L, v)
  BY <1>2, TallyFacts DEF Due, Comes
<1>3. QED
  BY <1>1, <1>2

(* Letters that do not depend on how many chunks came before.               *)
Known(K) == Point(K, NoTally, NoTally)
Same(L, a, b, v) == \A j \in Nat : L[a][b][j] = v

LEMMA SendSame ==
  ASSUME NEW r \in Ranks, NEW L, NEW p \in Ranks \ {r}, NEW s, NEW v,
         NEW x, x.parts = {SendPart(p, <<s>>)}, NEW K, NEW J,
         InWritten(K), Value(K, r, s, v), Same(L, r, p, v), Leaves(x, r, K, J)
  PROVE  Leads(x, r, L, Known(K), Known(J))
<1>1. Due(NoTally, r, p, L, v)
  BY SureFacts DEF Same
<1>2. Gains(NoTally, NoTally, p, 1) /\ Whole(NoTally)
  BY TallyFacts
<1>3. QED
  BY <1>1, <1>2, SendOne DEF Known

LEMMA RecvSame ==
  ASSUME NEW r \in Ranks, NEW L, NEW p \in Ranks \ {r}, NEW s \in Written, NEW v,
         NEW x, x.parts = {RecvPart(p, <<s>>)}, NEW K, NEW M, NEW J,
         Puts(K, s, v, M), Same(L, p, r, v), Leaves(x, r, M, J)
  PROVE  Leads(x, r, L, Known(K), Known(J))
<1>1. Comes(NoTally, p, r, L, v)
  BY SureFacts DEF Same
<1>2. Gains(NoTally, NoTally, p, 1) /\ Whole(NoTally)
  BY TallyFacts
<1>3. QED
  BY <1>1, <1>2, RecvOne DEF Known

LEMMA InsOne == Ins(1) = <<0>> /\ Tmps(1) = <<N>> /\ In(0) = 0 /\ Tmp(0) = N /\ Own(0) = 2 * N
BY WorldSizeAssumption DEF Ins, Tmps, In, Tmp, Own

(* The contents v of the slots of X are known.                              *)
Holds(X, v) == [s \in X |-> v]

LEMMA HoldsFacts ==
  ASSUME NEW X, X \subseteq Written, NEW v
  PROVE  /\ InWritten(Holds(X, v)) /\ DOMAIN Holds(X, v) = X
         /\ \A s \in X : Holds(X, v)[s] = v /\ \A r : Value(Holds(X, v), r, s, v)
         /\ \A s : X \subseteq {s} => \A K : Puts(K, s, v, Holds(X, v))
BY DEF Holds, InWritten, Value, Puts

LEMMA HeldFacts ==
  ASSUME NEW r \in Ranks, NEW L, NEW p \in Ranks \ {r}, NEW v
  PROVE  /\ Same(L, r, p, v) => Leads(Send(p, Ins(1)), r, L, Known(Holds({0}, v)), Known(Holds({0}, v)))
         /\ Same(L, p, r, v) => \A K : Leads(Recv(p, Ins(1)), r, L, Known(K), Known(Holds({0}, v)))
<1> DEFINE J == Holds({0}, v)
<1>1. 0 \in Written /\ {0} \subseteq Written
  BY Slots, InsOne
<1>2. InWritten(J) /\ Value(J, r, 0, v) /\ \A K : Puts(K, 0, v, J)
  BY <1>1, HoldsFacts
<1> HIDE DEF J
<1>3. \A x : x.copy = {} /\ x.fold = {} => Leaves(x, r, J, J)
  BY LeavesAll
<1>4. ASSUME Same(L, r, p, v) PROVE Leads(Send(p, Ins(1)), r, L, Known(J), Known(J))
  <2> DEFINE x == Send(p, Ins(1))
  <2>1. x.parts = {SendPart(p, <<0>>)} /\ x.copy = {} /\ x.fold = {}
    BY InsOne DEF Send, Step
  <2> HIDE DEF x
  <2>2. Leads(x, r, L, Known(J), Known(J))
    BY <1>2, <1>3, <1>4, <2>1, SendSame
  <2>3. QED
    BY <2>2 DEF x
<1>5. ASSUME Same(L, p, r, v), NEW K PROVE Leads(Recv(p, Ins(1)), r, L, Known(K), Known(J))
  <2> DEFINE x == Recv(p, Ins(1))
  <2>1. x.parts = {RecvPart(p, <<0>>)} /\ x.copy = {} /\ x.fold = {}
    BY InsOne DEF Recv, Step
  <2> HIDE DEF x
  <2>2. Leads(x, r, L, Known(K), Known(J))
    BY <1>1, <1>2, <1>3, <1>5, <2>1, RecvSame
  <2>3. QED
    BY <2>2 DEF x
<1>6. QED
  BY <1>4, <1>5 DEF J

(* What is known at the start: r's own operands, and that a slot no copy    *)
(* fills is empty.                                                          *)
LEMMA OpensNothing == ASSUME NEW r, NEW entry PROVE Opens(entry, r, Holds({}, Junk))
BY DEF Opens, Holds

LEMMA OpensOwn ==
  ASSUME NEW r, NEW i \in Ranks, NEW s \in Written
  PROVE  Opens({<<s, Own(i)>>}, r, Holds({s}, Operand(r, i)))
<1>1. <<s, Own(i)>>[1] = s /\ <<s, Own(i)>>[2] = Own(i) /\ Own(i) \notin Written /\ Own(i) - 2 * N = i
  BY Slots
<1>2. QED
  BY <1>1 DEF Opens, Holds

LEMMA RingBroadcastDelivers ==
  ASSUME NEW r \in Ranks, NEW root \in Ranks, NEW L, NEW promise,
         \A a, b \in Ranks : Same(L, a, b, Operand(root, 0)), promise = Holds({0}, Operand(root, 0))
  PROVE  Delivers(RingBroadcast(r, root), r, L, promise)
<1> DEFINE nx == Next1(r)
           pv == Prev1(r)
           v == Operand(root, 0)
           J == Holds({0}, v)
           K == IF r = root THEN J ELSE Holds({}, Junk)
           x == Send(nx, Ins(1))
           y == Recv(pv, Ins(1))
           forward == IF nx = root THEN <<>> ELSE <<x>>
           steps == IF r = root THEN forward ELSE <<y>> \o forward
           entry == {<<In(0), Own(0)>>}
<1>1. nx \in Ranks \ {r} /\ pv \in Ranks \ {r}
  BY RingFacts
<1>2. RingBroadcast(r, root) = Program(entry, steps)
  BY DEF RingBroadcast
<1>3. Leads(x, r, L, Known(J), Known(J)) /\ Leads(y, r, L, Known(K), Known(J))
  BY <1>1, HeldFacts
<1>4. In(0) = 0 /\ 0 \in Written /\ 0 \in Ranks
  BY Slots
<1>5. Unique(entry) /\ Opens(entry, r, K)
  <2>1. CASE r = root
    BY <1>4, <2>1, UniqueOne, OpensOwn
  <2>2. CASE r # root
    BY <2>2, UniqueOne, OpensNothing
  <2>3. QED
    BY <2>1, <2>2
<1>6. Yields(J, promise)
  BY DEF Yields, Holds
<1>7. r = root => K = J
  OBVIOUS
<1> HIDE DEF x, y, J, K, nx
<1>8. Ran(forward, r, L, Known(J), Known(J))
  BY <1>3, RanNone, RanOne
<1> HIDE DEF forward
<1>9. Ran(steps, r, L, Known(K), Known(J))
  <2>1. CASE r = root
    BY <1>7, <1>8, <2>1
  <2>2. CASE r # root
    <3>1. Ran(<<y>>, r, L, Known(K), Known(J))
      BY <1>3, RanOne
    <3>2. QED
      BY <1>8, <2>2, <3>1, RanThen
  <2>3. QED
    BY <2>1, <2>2
<1> HIDE DEF steps, entry
<1>10. Zeros(NoTally)
  BY TallyFacts
<1>11. QED
  BY <1>2, <1>5, <1>6, <1>9, <1>10, ProgramDelivers DEF Known

LEMMA RingBarrierDelivers ==
  ASSUME NEW r \in Ranks, NEW L, NEW promise,
         \A a, b \in Ranks : Same(L, a, b, Junk), promise = Holds({}, Junk)
  PROVE  Delivers(RingBarrier(r), r, L, promise)
<1> DEFINE J == Holds({0}, Junk)
           x == Send(Next1(r), Ins(1))
           y == Recv(Prev1(r), Ins(1))
           steps == IF r = 0 THEN <<x, y, x, y>> ELSE <<y, x, y, x>>
<1>1. Next1(r) \in Ranks \ {r} /\ Prev1(r) \in Ranks \ {r}
  BY RingFacts
<1>2. RingBarrier(r) = Program({}, steps)
  BY DEF RingBarrier
<1>3. Leads(x, r, L, Known(J), Known(J)) /\ Leads(y, r, L, Known(J), Known(J))
  BY <1>1, HeldFacts
<1>4. Unique({}) /\ Opens({}, r, J) /\ Yields(J, promise) /\ Zeros(NoTally)
  <2>1. Opens({}, r, J)
    BY Slots, InsOne DEF Opens, Holds
  <2>2. Yields(J, promise)
    BY DEF Yields, Holds
  <2>3. QED
    BY <2>1, <2>2, UniqueOne, TallyFacts
<1> HIDE DEF x, y, J
<1>5. Ran(Two(x, y), r, L, Known(J), Known(J)) /\ Ran(Two(y, x), r, L, Known(J), Known(J))
  BY <1>3, RanTwo DEF Two
<1>6. steps = IF r = 0 THEN Two(x, y) \o Two(x, y) ELSE Two(y, x) \o Two(y, x)
  <2>1. <<x, y, x, y>> = Two(x, y) \o Two(x, y)
    BY FourSteps
  <2>2. <<y, x, y, x>> = Two(y, x) \o Two(y, x)
    BY FourSteps
  <2>3. QED
    BY <2>1, <2>2
<1> HIDE DEF steps
<1>7. Ran(steps, r, L, Known(J), Known(J))
  BY <1>5, <1>6, RanThen
<1>8. QED
  BY <1>2, <1>4, <1>7, ProgramDelivers DEF Known

-----------------------------------------------------------------------------
(* Full mesh: the ranks whose chunk r has after i rounds.                   *)
Met(r, i) == {r} \cup {Peers(r)[k] : k \in 1 .. i}

LEMMA MetFacts ==
  ASSUME NEW r \in Ranks
  PROVE  /\ Met(r, 0) = {r} /\ Met(r, N - 1) = Ranks
         /\ \A i \in 0 .. (N - 1) : Met(r, i) \subseteq Ranks
         /\ \A i \in 1 .. (N - 1) : /\ Peers(r)[i] \in Ranks \ {r}
                                    /\ Met(r, i) = Met(r, i - 1) \cup {Peers(r)[i]}
                                    /\ Peers(r)[i] \notin Met(r, i - 1)
<1>1. N \in Nat /\ N >= 2 /\ r \in 0 .. (N - 1) /\ 0 \in 0 .. (N - 1)
  BY RingFacts DEF Ranks
<1>2. Met(r, 0) = {r}
  <2>1. 1 .. 0 = {}
    OBVIOUS
  <2>2. QED
    BY <2>1 DEF Met
<1>3. \A i \in 0 .. (N - 1) : Met(r, i) \subseteq Ranks
  BY <1>1, PeersFacts DEF Met
<1>4. Met(r, N - 1) = Ranks
  <2>1. ASSUME NEW p \in Ranks, p # r PROVE p \in Met(r, N - 1)
    <3>1. PeerAt(r, p) \in 1 .. (N - 1) /\ Peers(r)[PeerAt(r, p)] = p
      BY <2>1, PeersFacts
    <3>2. QED
      BY <3>1 DEF Met
  <2>2. r \in Met(r, N - 1)
    BY DEF Met
  <2>3. Met(r, N - 1) \subseteq Ranks
    BY <1>1, <1>3
  <2>4. QED
    BY <2>1, <2>2, <2>3
<1>5. ASSUME NEW i \in 1 .. (N - 1)
      PROVE  /\ Peers(r)[i] \in Ranks \ {r}
             /\ Met(r, i) = Met(r, i - 1) \cup {Peers(r)[i]} /\ Peers(r)[i] \notin Met(r, i - 1)
  <2>1. 1 .. i = (1 .. (i - 1)) \cup {i}
    OBVIOUS
  <2>2. Met(r, i) = Met(r, i - 1) \cup {Peers(r)[i]}
    BY <2>1 DEF Met
  <2>3. Peers(r)[i] \in Ranks \ {r}
    BY PeersFacts
  <2>4. ASSUME NEW k \in 1 .. (i - 1), Peers(r)[k] = Peers(r)[i] PROVE FALSE
    <3>1. k \in 1 .. (N - 1) /\ k # i
      BY <1>1
    <3>2. i = PeerAt(r, Peers(r)[i])
      BY <2>3, PeersFacts
    <3>3. k # PeerAt(r, Peers(r)[i])
      BY <3>1, <3>2
    <3>4. QED
      BY <2>3, <2>4, <3>1, <3>3, PeersFacts
  <2>5. QED
    BY <2>2, <2>3, <2>4 DEF Met
<1>6. QED
  BY <1>2, <1>3, <1>4, <1>5

(* A round per peer, each bringing that peer's chunk.                       *)
LEMMA GatherLap ==
  ASSUME NEW r \in Ranks, NEW L, NEW v, NEW R, R = [i \in 1 .. (N - 1) |-> R[i]],
         \A i \in 1 .. (N - 1) : \A K, M : InWritten(K) /\ Puts(K, Peers(r)[i], v[Peers(r)[i]], M)
           => Ran(R[i], r, L, Known(K), Known(M))
  PROVE  Ran(Joined(R), r, L, Known([s \in {r} |-> v[s]]), Known([s \in Ranks |-> v[s]]))
<1> DEFINE K(i) == [s \in Met(r, i) |-> v[s]]
           g == [i \in 0 .. (N - 1) |-> Known(K(i))]
<1>1. N - 1 \in Nat /\ N \in Nat /\ N >= 2
  BY WorldSizeAssumption
<1>2. ASSUME NEW i \in 1 .. (N - 1) PROVE Ran(R[i], r, L, g[i - 1], g[i])
  <2>1. i - 1 \in 0 .. (N - 1) /\ i \in 0 .. (N - 1)
    BY <1>1
  <2>2. Met(r, i) = Met(r, i - 1) \cup {Peers(r)[i]} /\ Met(r, i) \subseteq Ranks
    BY <2>1, MetFacts
  <2>3. \A s \in Ranks : s \in Written
    BY Slots DEF In
  <2>4. Puts(K(i - 1), Peers(r)[i], v[Peers(r)[i]], K(i)) /\ InWritten(K(i - 1))
    BY <2>2, <2>3 DEF Puts, InWritten
  <2> HIDE DEF K
  <2>5. Ran(R[i], r, L, Known(K(i - 1)), Known(K(i)))
    BY <2>4
  <2>6. QED
    BY <2>1, <2>5
<1> HIDE DEF g
<1>3. Ran(Joined(R), r, L, g[0], g[N - 1])
  BY <1>1, <1>2, RanRounds
<1>4. g[0] = Known(K(0)) /\ g[N - 1] = Known(K(N - 1))
  BY <1>1 DEF g
<1>5. K(0) = [s \in {r} |-> v[s]] /\ K(N - 1) = [s \in Ranks |-> v[s]]
  BY MetFacts
<1>6. QED
  BY <1>3, <1>4, <1>5

(* A round per peer that leaves what is known.                              *)
LEMMA SteadyLap ==
  ASSUME NEW r \in Ranks, NEW L, NEW P, NEW R, R = [i \in 1 .. (N - 1) |-> R[i]],
         \A i \in 1 .. (N - 1) : Ran(R[i], r, L, P, P)
  PROVE  Ran(Joined(R), r, L, P, P)
<1> DEFINE g == [i \in 0 .. (N - 1) |-> P]
<1>1. N - 1 \in Nat /\ N \in Nat /\ N >= 2
  BY WorldSizeAssumption
<1>2. \A i \in 1 .. (N - 1) : Ran(R[i], r, L, g[i - 1], g[i])
  BY <1>1
<1>3. g[0] = P /\ g[N - 1] = P
  BY <1>1
<1> HIDE DEF g
<1>4. Ran(Joined(R), r, L, g[0], g[N - 1])
  BY <1>1, <1>2, RanRounds
<1>5. QED
  BY <1>3, <1>4

LEMMA OwnFacts ==
  ASSUME NEW i \in Ranks, NEW r
  PROVE  /\ Own(i) \notin Written /\ (\A v : v = Operand(r, i) => \A K : Value(K, r, Own(i), v))
         /\ In(i) = i /\ i \in Written /\ {i} \subseteq Written
BY Slots DEF Value, In

LEMMA MeshGatherDelivers ==
  ASSUME NEW r \in Ranks, NEW root \in Ranks, NEW L, NEW promise,
         \A a, b \in Ranks : Same(L, a, b, Operand(a, 0)),
         promise = [i \in IF r = root THEN Ranks ELSE {} |-> Operand(i, 0)]
  PROVE  Delivers(MeshGather(r, root), r, L, promise)
<1>1. Zeros(NoTally) /\ 0 \in Ranks
  BY TallyFacts, Slots
<1>2. CASE r = root
  <2> DEFINE x(p) == Recv(p, <<In(p)>>)
             R == [i \in 1 .. (N - 1) |-> <<x(Peers(r)[i])>>]
             v == [i \in Ranks |-> Operand(i, 0)]
             entry == {<<In(r), Own(0)>>}
             K == [s \in {r} |-> v[s]]
             J == [s \in Ranks |-> v[s]]
  <2>1. MeshGather(r, root) = Program(entry, Joined(R))
    BY <1>2 DEF MeshGather, EachPeer
  <2>2. ASSUME NEW i \in 1 .. (N - 1), NEW A, NEW M, InWritten(A), Puts(A, Peers(r)[i], v[Peers(r)[i]], M)
        PROVE  Ran(R[i], r, L, Known(A), Known(M))
    <3> DEFINE p == Peers(r)[i]
               y == x(p)
    <3>1. p \in Ranks \ {r}
      BY PeersFacts
    <3> HIDE DEF p
    <3>2. y.parts = {RecvPart(p, <<p>>)} /\ y.copy = {} /\ y.fold = {} /\ p \in Written
      BY <3>1, OwnFacts DEF Recv, Step
    <3>3. Same(L, p, r, v[p])
      BY <3>1
    <3>4. Puts(A, p, v[p], M)
      BY <2>2 DEF p
    <3> HIDE DEF x, v
    <3>5. Leads(y, r, L, Known(A), Known(M))
      BY <3>1, <3>2, <3>3, <3>4, LeavesAll, RecvSame
    <3>6. R[i] = <<y>>
      BY DEF p
    <3>7. QED
      BY <3>5, <3>6, RanOne
  <2>3. R = [i \in 1 .. (N - 1) |-> R[i]]
    OBVIOUS
  <2> HIDE DEF R, v
  <2>4. Ran(Joined(R), r, L, Known(K), Known(J))
    BY <2>2, <2>3, GatherLap
  <2>5. Unique(entry) /\ Opens(entry, r, K)
    <3>1. K = Holds({r}, Operand(r, 0)) /\ In(r) = r /\ r \in Written
      BY OwnFacts DEF Holds, v
    <3>2. QED
      BY <1>1, <3>1, UniqueOne, OpensOwn
  <2>6. Yields(J, promise)
    BY <1>2 DEF Yields, v
  <2> HIDE DEF K, J, entry
  <2>7. QED
    BY <1>1, <2>1, <2>4, <2>5, <2>6, ProgramDelivers DEF Known
<1>3. CASE r # root
  <2> DEFINE y == Send(root, <<Own(0)>>)
             K == Holds({}, Junk)
             v == Operand(r, 0)
  <2>1. MeshGather(r, root) = Program({}, <<y>>)
    BY <1>3 DEF MeshGather, EachPeer
  <2>2. y.parts = {SendPart(root, <<Own(0)>>)} /\ y.copy = {} /\ y.fold = {}
    BY DEF Send, Step
  <2>3. InWritten(K) /\ Value(K, r, Own(0), v) /\ Opens({}, r, K) /\ Unique({}) /\ Same(L, r, root, v)
    BY <1>1, OwnFacts, HoldsFacts, OpensNothing, UniqueOne
  <2>4. Yields(K, promise)
    BY <1>3 DEF Yields
  <2> HIDE DEF K, v, y
  <2>5. Leads(y, r, L, Known(K), Known(K))
    BY <1>3, <2>2, <2>3, LeavesAll, SendSame
  <2>6. Ran(<<y>>, r, L, Known(K), Known(K))
    BY <2>5, RanOne
  <2>7. QED
    BY <1>1, <2>1, <2>3, <2>4, <2>6, ProgramDelivers DEF Known
<1>4. QED
  BY <1>2, <1>3

LEMMA MeshScatterDelivers ==
  ASSUME NEW r \in Ranks, NEW root \in Ranks, NEW L, NEW promise,
         \A a, b \in Ranks : Same(L, a, b, Operand(a, b)), promise = Holds({0}, Operand(root, r))
  PROVE  Delivers(MeshScatter(r, root), r, L, promise)
<1> DEFINE J == Holds({0}, Operand(root, r))
<1>1. Zeros(NoTally) /\ 0 \in Ranks
  BY TallyFacts, Slots
<1>2. Yields(J, promise) /\ InWritten(J)
  BY <1>1, OwnFacts, HoldsFacts DEF Yields
<1>3. CASE r = root
  <2> DEFINE x(p) == Send(p, <<Own(p)>>)
             R == [i \in 1 .. (N - 1) |-> <<x(Peers(r)[i])>>]
             entry == {<<In(0), Own(root)>>}
  <2>1. MeshScatter(r, root) = Program(entry, Joined(R))
    BY <1>3 DEF MeshScatter, EachPeer
  <2>2. Unique(entry) /\ Opens(entry, r, J)
    BY <1>1, <1>3, OwnFacts, UniqueOne, OpensOwn
  <2> HIDE DEF J
  <2>3. ASSUME NEW i \in 1 .. (N - 1) PROVE Ran(R[i], r, L, Known(J), Known(J))
    <3> DEFINE p == Peers(r)[i]
               y == x(p)
    <3>1. p \in Ranks \ {r}
      BY PeersFacts
    <3> HIDE DEF p
    <3>2. y.parts = {SendPart(p, <<Own(p)>>)} /\ y.copy = {} /\ y.fold = {}
      BY DEF Send, Step
    <3>3. Same(L, r, p, Operand(r, p)) /\ Value(J, r, Own(p), Operand(r, p))
      BY <3>1, OwnFacts
    <3> HIDE DEF x
    <3>4. Leads(y, r, L, Known(J), Known(J))
      BY <1>2, <3>1, <3>2, <3>3, LeavesAll, SendSame
    <3>5. R[i] = <<y>>
      BY DEF p
    <3>6. QED
      BY <3>4, <3>5, RanOne
  <2>4. R = [i \in 1 .. (N - 1) |-> R[i]]
    OBVIOUS
  <2> HIDE DEF R
  <2>5. Ran(Joined(R), r, L, Known(J), Known(J))
    BY <2>3, <2>4, SteadyLap
  <2> HIDE DEF entry
  <2>6. QED
    BY <1>1, <1>2, <2>1, <2>2, <2>5, ProgramDelivers DEF Known
<1>4. CASE r # root
  <2> DEFINE y == Recv(root, Ins(1))
             K == Holds({}, Junk)
  <2>1. MeshScatter(r, root) = Program({}, <<y>>)
    BY <1>4 DEF MeshScatter, EachPeer
  <2>2. Leads(y, r, L, Known(K), Known(J))
    BY <1>4, HeldFacts
  <2>3. Opens({}, r, K) /\ Unique({})
    BY OpensNothing, UniqueOne
  <2> HIDE DEF y, K, J
  <2>4. Ran(<<y>>, r, L, Known(K), Known(J))
    BY <2>2, RanOne
  <2>5. QED
    BY <1>1, <1>2, <2>1, <2>3, <2>4, ProgramDelivers DEF Known
<1>5. QED
  BY <1>3, <1>4

LEMMA MeshBroadcastDelivers ==
  ASSUME NEW r \in Ranks, NEW root \in Ranks, NEW L, NEW promise,
         \A a, b \in Ranks : Same(L, a, b, Operand(a, 0)), promise = Holds({0}, Operand(root, 0))
  PROVE  Delivers(MeshBroadcast(r, root), r, L, promise)
<1> DEFINE v == Operand(root, 0)
           J == Holds({0}, v)
           entry == {<<In(0), Own(0)>>}
<1>1. Zeros(NoTally) /\ 0 \in Ranks /\ In(0) = 0 /\ 0 \in Written
  BY TallyFacts, Slots
<1>2. Yields(J, promise) /\ InWritten(J) /\ Value(J, r, 0, v) /\ Unique(entry)
  BY <1>1, OwnFacts, HoldsFacts, UniqueOne DEF Yields
<1>3. CASE r = root
  <2> DEFINE slots == Ins(1)
             x == Step({SendPart(p, slots) : p \in Ranks \ {r}}, {}, {})
  <2>1. MeshBroadcast(r, root) = Program(entry, <<x>>)
    BY <1>3 DEF MeshBroadcast
  <2>2. Opens(entry, r, J)
    BY <1>1, <1>3, OpensOwn
  <2>3. Len(slots) = 1 /\ slots[1] = 0 /\ Len(slots) \in Nat \ {0} /\ \A i \in 1 .. Len(slots) : i = 1
    <3>1. slots = <<0>>
      BY InsOne
    <3> HIDE DEF slots
    <3>2. QED
      BY <3>1
  <2>4. x.parts = {SendPart(p, slots) : p \in Ranks \ {r}} /\ x.copy = {} /\ x.fold = {}
    BY DEF Step
  <2> HIDE DEF slots, x, J, v
  <2>5. \A p \in x.parts : /\ p.dir = "send" /\ p.slots = slots /\ p.peer \in Ranks \ {r}
                           /\ p = SendPart(p.peer, slots)
    BY <2>4 DEF SendPart
  <2>6. Good(x, Ranks \ {r}) /\ Apart(x)
    BY <2>3, <2>5 DEF Good, Apart
  <2>7. Offers(x, r, L, J, NoTally)
    <3> SUFFICES ASSUME NEW p \in x.parts, NEW c, Count(NoTally, p.peer, c), NEW i \in 1 .. Len(p.slots)
        PROVE  Value(J, r, p.slots[i], L[r][p.peer][c + i])
      BY DEF Offers
    <3>1. i = 1 /\ p.slots[i] = 0 /\ c + 1 \in Nat
      <4>1. c \in Nat
        BY DEF Count
      <4>2. p.slots = slots
        BY <2>5
      <4>3. i \in 1 .. Len(slots)
        BY <4>2
      <4>4. i = 1
        BY ONLY <2>3, <4>3
      <4>5. p.slots[i] = slots[1]
        BY <4>2, <4>4
      <4>6. QED
        BY <2>3, <4>1, <4>4, <4>5
    <3>2. L[r][p.peer][c + 1] = v
      BY <1>3, <2>5, <3>1 DEF Same, v
    <3>3. QED
      BY <1>2, <3>1, <3>2
  <2>8. Fills(x, r, L, J, NoTally, J)
    BY <1>2, <2>5 DEF Fills, InWritten
  <2>9. Leaves(x, r, J, J)
    BY <2>4, LeavesAll
  <2>10. \A d : Adds(x, NoTally, NoTally, d)
    BY DEF Adds, NoTally
  <2>11. Leads(x, r, L, Known(J), Known(J))
    BY <2>6, <2>7, <2>8, <2>9, <2>10, StepLeads DEF Known
  <2>12. Ran(<<x>>, r, L, Known(J), Known(J))
    BY <2>11, RanOne
  <2> HIDE DEF entry
  <2>13. QED
    BY <1>1, <1>2, <2>1, <2>2, <2>12, ProgramDelivers DEF Known
<1>4. CASE r # root
  <2> DEFINE y == Recv(root, Ins(1))
             K == Holds({}, Junk)
  <2>1. MeshBroadcast(r, root) = Program(entry, <<y>>)
    BY <1>4 DEF MeshBroadcast
  <2>2. Leads(y, r, L, Known(K), Known(J))
    BY <1>4, HeldFacts
  <2>3. Opens(entry, r, K)
    BY OpensNothing
  <2> HIDE DEF y, K, J, entry
  <2>4. Ran(<<y>>, r, L, Known(K), Known(J))
    BY <2>2, RanOne
  <2>5. QED
    BY <1>1, <1>2, <2>1, <2>3, <2>4, ProgramDelivers DEF Known
<1>5. QED
  BY <1>3, <1>4

LEMMA MeshBarrierDelivers ==
  ASSUME NEW r \in Ranks, NEW L, NEW promise,
         \A a, b \in Ranks : Same(L, a, b, Junk), promise = Holds({}, Junk)
  PROVE  Delivers(MeshBarrier(r), r, L, promise)
<1> DEFINE J == Holds({0}, Junk)
           x(p) == Send(p, Ins(1))
           y(p) == Recv(p, Ins(1))
           A == [i \in 1 .. (N - 1) |-> <<y(Peers(r)[i])>>]
           B == [i \in 1 .. (N - 1) |-> <<x(Peers(r)[i])>>]
           steps == IF r = 0 THEN Joined(A) \o Joined(B) ELSE <<x(0)>> \o <<y(0)>>
<1>1. 0 \in Ranks /\ Zeros(NoTally) /\ Unique({})
  BY Slots, TallyFacts, UniqueOne
<1>2. MeshBarrier(r) = Program({}, steps)
  BY DEF MeshBarrier, EachPeer
<1>3. ASSUME NEW p \in Ranks \ {r}
      PROVE  Ran(<<x(p)>>, r, L, Known(J), Known(J)) /\ Ran(<<y(p)>>, r, L, Known(J), Known(J))
  BY HeldFacts, RanOne
<1>4. Opens({}, r, J) /\ Yields(J, promise)
  <2>1. Opens({}, r, J)
    BY Slots, InsOne DEF Opens, Holds
  <2>2. Yields(J, promise)
    BY DEF Yields, Holds
  <2>3. QED
    BY <2>1, <2>2
<1> HIDE DEF x, y, J
<1>5. Ran(Joined(A), r, L, Known(J), Known(J)) /\ Ran(Joined(B), r, L, Known(J), Known(J))
  <2>1. \A i \in 1 .. (N - 1) : Peers(r)[i] \in Ranks \ {r}
    BY PeersFacts
  <2>2. \A i \in 1 .. (N - 1) : Ran(A[i], r, L, Known(J), Known(J)) /\ Ran(B[i], r, L, Known(J), Known(J))
    BY <1>3, <2>1
  <2>3. A = [i \in 1 .. (N - 1) |-> A[i]] /\ B = [i \in 1 .. (N - 1) |-> B[i]]
    OBVIOUS
  <2> HIDE DEF A, B
  <2>4. QED
    BY <2>2, <2>3, SteadyLap
<1> HIDE DEF A, B
<1>6. Ran(steps, r, L, Known(J), Known(J))
  <2>1. CASE r = 0
    BY <1>5, <2>1, RanThen
  <2>2. CASE r # 0
    BY <1>1, <1>3, <2>2, RanThen
  <2>3. QED
    BY <2>1, <2>2
<1> HIDE DEF steps
<1>7. QED
  BY <1>1, <1>2, <1>4, <1>6, ProgramDelivers DEF Known

(* A swap of one chunk each, of an operand for a chunk that is stored.      *)
LEMMA SwapOne ==
  ASSUME NEW r \in Ranks, NEW L, NEW p \in Ranks \ {r}, NEW i \in Ranks, NEW t \in Written, NEW w,
         Same(L, r, p, Operand(r, i)), Same(L, p, r, w), NEW K, NEW M, InWritten(K), Puts(K, t, w, M)
  PROVE  Ran(Swap(r, p, <<Own(i)>>, <<t>>, {}), r, L, Known(K), Known(M))
<1> DEFINE x == Send(p, <<Own(i)>>)
           y == RecvFold(p, <<t>>, {})
           z == Recv(p, <<t>>)
           u == Step({SendPart(p, <<Own(i)>>)}, {}, {})
           v == Operand(r, i)
<1>1. /\ x.parts = {SendPart(p, <<Own(i)>>)} /\ x.copy = {} /\ x.fold = {}
      /\ u.parts = {SendPart(p, <<Own(i)>>)} /\ u.copy = {} /\ u.fold = {}
      /\ y.parts = {RecvPart(p, <<t>>)} /\ y.copy = {} /\ y.fold = {}
      /\ z.parts = {RecvPart(p, <<t>>)} /\ z.copy = {} /\ z.fold = {}
  BY DEF Send, Recv, RecvFold, Step
<1>2. Value(K, r, Own(i), v) /\ Value(M, r, Own(i), v) /\ InWritten(M)
  BY OwnFacts DEF Puts, InWritten
<1>3. Swap(r, p, <<Own(i)>>, <<t>>, {}) = IF r < p THEN <<x, y>> ELSE <<z, u>>
  BY DEF Swap
<1> HIDE DEF x, y, z, u
<1>4. Leads(x, r, L, Known(K), Known(K)) /\ Leads(u, r, L, Known(M), Known(M))
  BY <1>1, <1>2, LeavesAll, SendSame
<1>5. Leads(y, r, L, Known(K), Known(M)) /\ Leads(z, r, L, Known(K), Known(M))
  BY <1>1, LeavesAll, RecvSame
<1>6. Ran(<<x, y>>, r, L, Known(K), Known(M)) /\ Ran(<<z, u>>, r, L, Known(K), Known(M))
  BY <1>4, <1>5, RanTwo
<1>7. QED
  BY <1>3, <1>6

LEMMA MeshAllGatherDelivers ==
  ASSUME NEW r \in Ranks, NEW L, NEW promise,
         \A a, b \in Ranks : Same(L, a, b, Operand(a, 0)),
         promise = [i \in Ranks |-> Operand(i, 0)]
  PROVE  Delivers(MeshAllGather(r), r, L, promise)
<1> DEFINE swap(p) == Swap(r, p, <<Own(0)>>, <<In(p)>>, {})
           R == [i \in 1 .. (N - 1) |-> swap(Peers(r)[i])]
           v == [i \in Ranks |-> Operand(i, 0)]
           entry == {<<In(r), Own(0)>>}
           K == [s \in {r} |-> v[s]]
           J == [s \in Ranks |-> v[s]]
<1>1. Zeros(NoTally) /\ 0 \in Ranks
  BY TallyFacts, Slots
<1>2. MeshAllGather(r) = Program(entry, Joined(R))
  BY DEF MeshAllGather, EachPeer
<1>3. ASSUME NEW i \in 1 .. (N - 1), NEW A, NEW M, InWritten(A), Puts(A, Peers(r)[i], v[Peers(r)[i]], M)
      PROVE  Ran(R[i], r, L, Known(A), Known(M))
  <2> DEFINE p == Peers(r)[i]
  <2>1. p \in Ranks \ {r} /\ R[i] = swap(p)
    BY PeersFacts
  <2>2. Puts(A, p, v[p], M)
    BY <1>3
  <2> HIDE DEF p, R
  <2>3. Same(L, r, p, Operand(r, 0)) /\ Same(L, p, r, v[p]) /\ In(p) = p /\ p \in Written
    BY <2>1, OwnFacts
  <2> HIDE DEF v
  <2>4. Ran(Swap(r, p, <<Own(0)>>, <<p>>, {}), r, L, Known(A), Known(M))
    BY <1>1, <1>3, <2>1, <2>2, <2>3, SwapOne
  <2>5. QED
    BY <2>1, <2>3, <2>4
<1>4. R = [i \in 1 .. (N - 1) |-> R[i]]
  OBVIOUS
<1> HIDE DEF R, v
<1>5. Ran(Joined(R), r, L, Known(K), Known(J))
  BY <1>3, <1>4, GatherLap
<1>6. Unique(entry) /\ Opens(entry, r, K)
  <2>1. K = Holds({r}, Operand(r, 0)) /\ In(r) = r /\ r \in Written
    BY OwnFacts DEF Holds, v
  <2>2. QED
    BY <1>1, <2>1, UniqueOne, OpensOwn
<1>7. Yields(J, promise)
  BY DEF Yields, v
<1> HIDE DEF K, J, entry
<1>8. QED
  BY <1>1, <1>2, <1>5, <1>6, <1>7, ProgramDelivers DEF Known

LEMMA MeshAllToAllDelivers ==
  ASSUME NEW r \in Ranks, NEW L, NEW promise,
         \A a, b \in Ranks : Same(L, a, b, Operand(a, b)),
         promise = [i \in Ranks |-> Operand(i, r)]
  PROVE  Delivers(MeshAllToAll(r), r, L, promise)
<1> DEFINE swap(p) == Swap(r, p, <<Own(p)>>, <<In(p)>>, {})
           R == [i \in 1 .. (N - 1) |-> swap(Peers(r)[i])]
           v == [i \in Ranks |-> Operand(i, r)]
           entry == {<<In(r), Own(r)>>}
           K == [s \in {r} |-> v[s]]
           J == [s \in Ranks |-> v[s]]
<1>1. Zeros(NoTally) /\ 0 \in Ranks
  BY TallyFacts, Slots
<1>2. MeshAllToAll(r) = Program(entry, Joined(R))
  BY DEF MeshAllToAll, EachPeer
<1>3. ASSUME NEW i \in 1 .. (N - 1), NEW A, NEW M, InWritten(A), Puts(A, Peers(r)[i], v[Peers(r)[i]], M)
      PROVE  Ran(R[i], r, L, Known(A), Known(M))
  <2> DEFINE p == Peers(r)[i]
  <2>1. p \in Ranks \ {r} /\ R[i] = swap(p)
    BY PeersFacts
  <2>2. Puts(A, p, v[p], M)
    BY <1>3
  <2> HIDE DEF p, R
  <2>3. Same(L, r, p, Operand(r, p)) /\ Same(L, p, r, v[p]) /\ In(p) = p /\ p \in Written
    BY <2>1, OwnFacts
  <2> HIDE DEF v
  <2>4. Ran(Swap(r, p, <<Own(p)>>, <<p>>, {}), r, L, Known(A), Known(M))
    BY <1>3, <2>1, <2>2, <2>3, SwapOne
  <2>5. QED
    BY <2>1, <2>3, <2>4
<1>4. R = [i \in 1 .. (N - 1) |-> R[i]]
  OBVIOUS
<1> HIDE DEF R, v
<1>5. Ran(Joined(R), r, L, Known(K), Known(J))
  BY <1>3, <1>4, GatherLap
<1>6. Unique(entry) /\ Opens(entry, r, K)
  <2>1. K = Holds({r}, Operand(r, r)) /\ In(r) = r /\ r \in Written
    BY OwnFacts DEF Holds, v
  <2>2. QED
    BY <2>1, UniqueOne, OpensOwn
<1>7. Yields(J, promise)
  BY DEF Yields, v
<1> HIDE DEF K, J, entry
<1>8. QED
  BY <1>1, <1>2, <1>5, <1>6, <1>7, ProgramDelivers DEF Known

-----------------------------------------------------------------------------
(* The copies, or the reductions, at the end of a step.                     *)
Copies(C, r, M, J) ==
  \A s \in DOMAIN J :
    /\ s \in Written
    /\ \/ \E c \in C : c[1] = s /\ Value(M, r, c[2], J[s])
       \/ (\A c \in C : c[1] # s) /\ s \in DOMAIN M /\ J[s] = M[s]
Folds(F, M, J) ==
  \A s \in DOMAIN J :
    /\ s \in Written /\ s \in DOMAIN M
    /\ \/ \E f \in F : f[1] = s /\ f[2] \in DOMAIN M /\ J[s] = M[s] (+) M[f[2]]
       \/ (\A f \in F : f[1] # s) /\ J[s] = M[s]

LEMMA LeavesCopies ==
  ASSUME NEW r, NEW M, NEW J, NEW x, Unique(x.copy), x.fold = {}, Copies(x.copy, r, M, J)
  PROVE  Leaves(x, r, M, J)
<1> SUFFICES ASSUME NEW m, IsMem(m), Agrees(m, M), NEW s \in DOMAIN J
    PROVE  s \in Written /\ Fold(Copy(m, r, x.copy), x.fold)[s] = J[s]
  BY DEF Leaves, Agrees
<1>1. s \in Written
  BY DEF Copies
<1>2. Fold(Copy(m, r, x.copy), x.fold)[s] = Copy(m, r, x.copy)[s]
  BY <1>1 DEF Fold
<1>3. CASE \E c \in x.copy : c[1] = s /\ Value(M, r, c[2], J[s])
  <2>1. PICK c \in x.copy : c[1] = s /\ Value(M, r, c[2], J[s])
    BY <1>3
  <2>2. (CHOOSE d \in x.copy : d[1] = s) = c
    BY <2>1 DEF Unique
  <2>3. Copy(m, r, x.copy)[s] = ValueAt(m, r, c[2])
    BY <1>1, <2>1, <2>2 DEF Copy
  <2>4. ValueAt(m, r, c[2]) = J[s]
    BY <2>1, ValueKnown
  <2>5. QED
    BY <1>1, <1>2, <2>3, <2>4
<1>4. CASE (\A c \in x.copy : c[1] # s) /\ s \in DOMAIN M /\ J[s] = M[s]
  <2>1. Copy(m, r, x.copy)[s] = m[s]
    BY <1>1, <1>4 DEF Copy
  <2>2. m[s] = M[s]
    BY <1>4 DEF Agrees
  <2>3. QED
    BY <1>1, <1>2, <1>4, <2>1, <2>2
<1>5. QED
  BY <1>3, <1>4 DEF Copies

LEMMA LeavesFolds ==
  ASSUME NEW r, NEW M, NEW J, NEW x, x.copy = {}, Unique(x.fold), Folds(x.fold, M, J)
  PROVE  Leaves(x, r, M, J)
<1> SUFFICES ASSUME NEW m, IsMem(m), Agrees(m, M), NEW s \in DOMAIN J
    PROVE  s \in Written /\ Fold(Copy(m, r, x.copy), x.fold)[s] = J[s]
  BY DEF Leaves, Agrees
<1> DEFINE k == Copy(m, r, x.copy)
<1>1. s \in Written /\ s \in DOMAIN M
  BY DEF Folds
<1>2. \A y \in DOMAIN M : y \in Written /\ k[y] = M[y]
  BY DEF Copy, Agrees
<1> HIDE DEF k
<1>3. CASE \E f \in x.fold : f[1] = s /\ f[2] \in DOMAIN M /\ J[s] = M[s] (+) M[f[2]]
  <2>1. PICK f \in x.fold : f[1] = s /\ f[2] \in DOMAIN M /\ J[s] = M[s] (+) M[f[2]]
    BY <1>3
  <2>2. (CHOOSE d \in x.fold : d[1] = s) = f
    BY <2>1 DEF Unique
  <2>3. Fold(k, x.fold)[s] = k[s] (+) k[f[2]]
    BY <1>1, <2>1, <2>2 DEF Fold
  <2>4. k[s] = M[s] /\ k[f[2]] = M[f[2]]
    BY <1>1, <1>2, <2>1
  <2>5. QED
    BY <1>1, <2>1, <2>3, <2>4 DEF k
<1>4. CASE (\A f \in x.fold : f[1] # s) /\ J[s] = M[s]
  <2>1. Fold(k, x.fold)[s] = k[s]
    BY <1>1, <1>4 DEF Fold
  <2>2. QED
    BY <1>1, <1>2, <1>4, <2>1 DEF k
<1>5. QED
  BY <1>3, <1>4 DEF Folds

LEMMA MeshReduceDelivers ==
  ASSUME NEW r \in Ranks, NEW root \in Ranks, NEW L, NEW promise,
         \A a, b \in Ranks : Same(L, a, b, Operand(a, 0)),
         promise = [i \in IF r = root THEN {0} ELSE {} |-> AllOperands(0)]
  PROVE  Delivers(MeshReduce(r, root), r, L, promise)
<1>1. Zeros(NoTally) /\ 0 \in Ranks /\ In(0) = 0 /\ 0 \in Written /\ N \in Written /\ N # 0 /\ Tmp(0) = N
  <2>1. Zeros(NoTally)
    BY TallyFacts
  <2>2. 0 \in Ranks /\ Tmp(0) = N /\ In(0) = 0
    BY Slots, InsOne
  <2>3. 0 \in Written /\ N \in Written /\ N # 0
    BY WorldSizeAssumption DEF Written
  <2>4. QED
    BY <2>1, <2>2, <2>3
<1>2. CASE r = root
  <2> DEFINE x(p) == RecvFold(p, Tmps(1), {<<In(0), Tmp(0)>>})
             R == [i \in 1 .. (N - 1) |-> <<x(Peers(r)[i])>>]
             entry == {<<In(0), Own(0)>>}
             v(i) == Reduced(Met(r, i), 0)
             K(i) == Holds({0}, v(i))
             g == [i \in 0 .. (N - 1) |-> Known(K(i))]
  <2>1. MeshReduce(r, root) = Program(entry, Joined(R))
    BY <1>2 DEF MeshReduce, EachPeer
  <2>2. ASSUME NEW i \in 1 .. (N - 1) PROVE Ran(R[i], r, L, g[i - 1], g[i])
    <3> DEFINE p == Peers(r)[i]
               y == x(p)
               w == Operand(p, 0)
               A == K(i - 1)
               M == [s \in {0, N} |-> IF s = N THEN w ELSE v(i - 1)]
    <3>1. p \in Ranks \ {r} /\ i - 1 \in 0 .. (N - 1) /\ i \in 0 .. (N - 1)
      <4>1. p \in Ranks \ {r}
        BY PeersFacts
      <4>2. i - 1 \in 0 .. (N - 1) /\ i \in 0 .. (N - 1)
        BY WorldSizeAssumption
      <4>3. QED
        BY <4>1, <4>2
    <3>2. v(i - 1) (+) w = v(i)
      <4>1. Met(r, i) = Met(r, i - 1) \cup {p} /\ Met(r, i - 1) \cap {p} = {}
        BY MetFacts
      <4>2. w = Reduced({p}, 0)
        BY ReducedFacts
      <4> HIDE DEF p, w
      <4>3. Reduced(Met(r, i - 1), 0) (+) Reduced({p}, 0) = Reduced(Met(r, i - 1) \cup {p}, 0)
        BY <4>1, ReducedJoin
      <4>4. QED
        BY <4>1, <4>2, <4>3
    <3> HIDE DEF p
    <3>3. y.parts = {RecvPart(p, <<N>>)} /\ y.copy = {} /\ y.fold = {<<0, N>>}
      BY InsOne DEF RecvFold, Step
    <3>4. Same(L, p, r, w)
      BY <3>1
    <3> HIDE DEF v, w, x
    <3>5. Puts(A, N, w, M)
      BY <1>1 DEF Puts, Holds
    <3>6. Folds(y.fold, M, K(i))
      BY <1>1, <3>2, <3>3 DEF Folds, Holds
    <3>7. Unique(y.fold)
      BY <3>3, UniqueOne
    <3> HIDE DEF A, M, K
    <3>8. Leaves(y, r, M, K(i))
      BY <3>3, <3>6, <3>7, LeavesFolds
    <3>9. Leads(y, r, L, Known(A), Known(K(i)))
      BY <1>1, <3>1, <3>3, <3>4, <3>5, <3>8, RecvSame
    <3>10. R[i] = <<y>> /\ g[i - 1] = Known(A) /\ g[i] = Known(K(i))
      BY <3>1 DEF p, A
    <3>11. QED
      BY <3>9, <3>10, RanOne
  <2>3. R = [i \in 1 .. (N - 1) |-> R[i]] /\ N - 1 \in Nat /\ 0 \in 0 .. (N - 1) /\ N - 1 \in 0 .. (N - 1)
    <3>1. R = [i \in 1 .. (N - 1) |-> R[i]]
      OBVIOUS
    <3> HIDE DEF R, g
    <3>2. N - 1 \in Nat /\ 0 \in 0 .. (N - 1) /\ N - 1 \in 0 .. (N - 1)
      BY WorldSizeAssumption
    <3>3. QED
      BY <3>1, <3>2
  <2> HIDE DEF R
  <2>4. Ran(Joined(R), r, L, g[0], g[N - 1])
    <3> HIDE DEF g
    <3>1. QED
      BY <2>2, <2>3, RanRounds
  <2>5. v(0) = Operand(r, 0) /\ v(N - 1) = AllOperands(0)
    BY MetFacts, ReducedFacts
  <2>6. Unique(entry) /\ Opens(entry, r, K(0))
    <3>1. K(0) = Holds({0}, Operand(r, 0))
      BY <2>5
    <3>2. QED
      BY <1>1, <3>1, UniqueOne, OpensOwn
  <2>7. Yields(K(N - 1), promise)
    BY <1>2, <2>5 DEF Yields, Holds
  <2> HIDE DEF K, entry
  <2>8. Ran(Joined(R), r, L, Known(K(0)), Known(K(N - 1)))
    BY <2>3, <2>4
  <2>9. QED
    BY <1>1, <2>1, <2>6, <2>7, <2>8, ProgramDelivers DEF Known
<1>3. CASE r # root
  <2> DEFINE y == Send(root, <<Own(0)>>)
             K == Holds({}, Junk)
             v == Operand(r, 0)
  <2>1. MeshReduce(r, root) = Program({}, <<y>>)
    BY <1>3 DEF MeshReduce, EachPeer
  <2>2. y.parts = {SendPart(root, <<Own(0)>>)} /\ y.copy = {} /\ y.fold = {}
    BY DEF Send, Step
  <2>3. InWritten(K) /\ Value(K, r, Own(0), v) /\ Opens({}, r, K) /\ Unique({}) /\ Same(L, r, root, v)
    BY <1>1, OwnFacts, HoldsFacts, OpensNothing, UniqueOne
  <2>4. Yields(K, promise)
    BY <1>3 DEF Yields
  <2> HIDE DEF K, v, y
  <2>5. Leads(y, r, L, Known(K), Known(K))
    BY <1>3, <2>2, <2>3, LeavesAll, SendSame
  <2>6. Ran(<<y>>, r, L, Known(K), Known(K))
    BY <2>5, RanOne
  <2>7. QED
    BY <1>1, <2>1, <2>3, <2>4, <2>6, ProgramDelivers DEF Known
<1>4. QED
  BY <1>2, <1>3

-----------------------------------------------------------------------------
(* The ring: letters that depend on how many chunks came before.            *)
LEMMA SendTally ==
  ASSUME NEW r \in Ranks, NEW L, NEW p \in Ranks \ {r}, NEW slots, Len(slots) \in Nat \ {0},
         NEW x, x.parts = {SendPart(p, slots)}, NEW n \in Nat, NEW m, m = n + Len(slots),
         NEW K, NEW G, NEW J, InWritten(K), Whole(G),
         \A i \in 1 .. Len(slots) : Value(K, r, slots[i], L[r][p][n + i]), Leaves(x, r, K, J)
  PROVE  Leads(x, r, L, Point(K, Tally(p, n), G), Point(J, Tally(p, m), G))
<1>1. Gives(slots, r, p, L, K, Tally(p, n))
  BY TallyFacts DEF Gives
<1>2. Gains(Tally(p, n), Tally(p, m), p, Len(slots))
  BY TallyFacts
<1>3. QED
  BY <1>1, <1>2, SendLeads DEF InWritten

TakesUp(slots, K, V, M) ==
  \A s \in DOMAIN M :
    /\ s \in Written
    /\ \/ \E i \in 1 .. Len(slots) : slots[i] = s /\ M[s] = V[i]
       \/ s \in DOMAIN K /\ M[s] = K[s] /\ \A i \in 1 .. Len(slots) : slots[i] # s

LEMMA RecvTally ==
  ASSUME NEW r \in Ranks, NEW L, NEW p \in Ranks \ {r}, NEW slots, Len(slots) \in Nat \ {0},
         NEW x, x.parts = {RecvPart(p, slots)}, Vacant(slots),
         NEW n \in Nat, NEW m, m = n + Len(slots), NEW V, NEW K, NEW S, NEW M, NEW J, Whole(S),
         \A i \in 1 .. Len(slots) : V[i] = L[p][r][n + i],
         TakesUp(slots, K, V, M), Leaves(x, r, M, J)
  PROVE  Leads(x, r, L, Point(K, S, Tally(p, n)), Point(J, S, Tally(p, m)))
<1>1. Takes(slots, r, p, L, K, Tally(p, n), M)
  <2> SUFFICES ASSUME NEW s \in DOMAIN M
      PROVE  /\ s \in Written
             /\ \/ \E i \in 1 .. Len(slots) :
                     slots[i] = s /\ \A c : Count(Tally(p, n), p, c) => M[s] = L[p][r][c + i]
                \/ s \in DOMAIN K /\ M[s] = K[s] /\ \A i \in 1 .. Len(slots) : slots[i] # s
    BY DEF Takes
  <2>1. CASE \E i \in 1 .. Len(slots) : slots[i] = s /\ M[s] = V[i]
    <3>1. PICK i \in 1 .. Len(slots) : slots[i] = s /\ M[s] = V[i]
      BY <2>1
    <3>2. \A c : Count(Tally(p, n), p, c) => M[s] = L[p][r][c + i]
      BY <3>1, TallyFacts
    <3>3. QED
      BY <3>1, <3>2 DEF TakesUp
  <2>2. QED
    BY <2>1 DEF TakesUp
<1>2. Gains(Tally(p, n), Tally(p, m), p, Len(slots))
  BY TallyFacts
<1>3. QED
  BY <1>1, <1>2, RecvLeads

LEMMA TurnsFacts ==
  ASSUME NEW r \in Ranks
  PROVE  /\ \A k \in 0 .. N : /\ Ahead(r, k) = IF r + k < N THEN r + k ELSE (r + k) - N
                              /\ Ahead(r, k) \in Ranks
                              /\ Behind(r, k) = IF r - k < 0 THEN (r - k) + N ELSE r - k
                              /\ Behind(r, k) \in Ranks
         /\ \A k \in 1 .. N : Ahead(Next1(r), k - 1) = Ahead(r, k) /\ Behind(Prev1(r), k - 1) = Behind(r, k)
         /\ Ahead(r, 0) = r /\ Behind(r, 0) = r
<1>1. N \in Nat /\ N >= 2 /\ r \in 0 .. (N - 1)
  BY RingFacts DEF Ranks
<1>2. ASSUME NEW q \in 0 .. (N - 1), NEW k \in 0 .. N
      PROVE  /\ Ahead(q, k) = IF q + k < N THEN q + k ELSE (q + k) - N
             /\ Behind(q, k) = IF q - k < 0 THEN (q - k) + N ELSE q - k
  <2>1. q + k \in 0 .. (2 * N - 1) /\ (q - k + N) \in 0 .. (2 * N - 1)
    BY <1>1
  <2>2. (q + k) % N = IF q + k < N THEN q + k ELSE (q + k) - N
    <3> DEFINE z == q + k
    <3>1. z \in 0 .. (2 * N - 1)
      BY <2>1
    <3> HIDE DEF z
    <3>2. z % N = IF z < N THEN z ELSE z - N
      BY <3>1, RoundFacts
    <3>3. QED
      BY <3>2 DEF z
  <2>3. (q - k + N) % N = IF q - k + N < N THEN q - k + N ELSE (q - k + N) - N
    <3> DEFINE z == q - k + N
    <3>1. z \in 0 .. (2 * N - 1)
      BY <2>1
    <3> HIDE DEF z
    <3>2. z % N = IF z < N THEN z ELSE z - N
      BY <3>1, RoundFacts
    <3>3. QED
      BY <3>2 DEF z
  <2>4. QED
    BY ONLY <1>1, <2>2, <2>3 DEF Ahead, Behind
<1>3. ASSUME NEW k \in 0 .. N PROVE Ahead(r, k) \in Ranks /\ Behind(r, k) \in Ranks
  BY <1>1, <1>2 DEF Ranks
<1>4. ASSUME NEW k \in 1 .. N
      PROVE  Ahead(Next1(r), k - 1) = Ahead(r, k) /\ Behind(Prev1(r), k - 1) = Behind(r, k)
  <2>1. Next1(r) \in 0 .. (N - 1) /\ Prev1(r) \in 0 .. (N - 1) /\ k - 1 \in 0 .. N /\ k \in 0 .. N
    BY RingFacts DEF Ranks
  <2>2. Next1(r) = (IF r = N - 1 THEN 0 ELSE r + 1) /\ Prev1(r) = IF r = 0 THEN N - 1 ELSE r - 1
    BY RingFacts
  <2> DEFINE x == Next1(r)
             y == Prev1(r)
             i == k - 1
  <2>3. x \in 0 .. (N - 1) /\ y \in 0 .. (N - 1) /\ i \in 0 .. N /\ i = k - 1
    BY <2>1
  <2>4. x = (IF r = N - 1 THEN 0 ELSE r + 1) /\ y = IF r = 0 THEN N - 1 ELSE r - 1
    BY <2>2
  <2> HIDE DEF x, y, i
  <2>5. Ahead(x, i) = (IF x + i < N THEN x + i ELSE (x + i) - N)
        /\ Ahead(r, k) = IF r + k < N THEN r + k ELSE (r + k) - N
    BY <1>1, <1>2, <2>1, <2>3
  <2>6. Behind(y, i) = (IF y - i < 0 THEN (y - i) + N ELSE y - i)
        /\ Behind(r, k) = IF r - k < 0 THEN (r - k) + N ELSE r - k
    BY <1>1, <1>2, <2>1, <2>3
  <2>7. Ahead(x, i) = Ahead(r, k)
    BY ONLY <1>1, <2>1, <2>3, <2>4, <2>5
  <2>8. Behind(y, i) = Behind(r, k)
    BY ONLY <1>1, <2>1, <2>3, <2>4, <2>6
  <2>9. QED
    BY <2>7, <2>8 DEF x, y, i
<1>5. Ahead(r, 0) = r /\ Behind(r, 0) = r
  <2>1. 0 \in 0 .. N
    BY <1>1
  <2>2. QED
    BY ONLY <1>1, <1>2, <2>1
<1>6. QED
  BY <1>1, <1>2, <1>3, <1>4, <1>5

(* Position and its inverse.                                                *)
LEMMA AheadPosition ==
  ASSUME NEW root \in Ranks
  PROVE  /\ \A q \in Ranks : /\ Position(q, root) \in 0 .. (N - 1) /\ Ahead(root, Position(q, root)) = q
                             /\ (q # root => Position(q, root) \in 1 .. (N - 1))
         /\ \A k \in 0 .. (N - 1) : Position(Ahead(root, k), root) = k
<1>1. N \in Nat /\ N >= 2 /\ root \in 0 .. (N - 1) /\ Ranks = 0 .. (N - 1)
  BY RingFacts DEF Ranks
<1>2. ASSUME NEW q \in Ranks
      PROVE  Position(q, root) = IF q - root < 0 THEN (q - root) + N ELSE q - root
  <2> DEFINE z == q - root + N
  <2>1. z \in 0 .. (2 * N - 1)
    BY <1>1
  <2>2. Position(q, root) = z % N
    BY DEF Position
  <2> HIDE DEF z
  <2>3. z % N = IF z < N THEN z ELSE z - N
    BY <2>1, RoundFacts
  <2>4. q \in Int /\ root \in Int
    BY <1>1
  <2>5. QED
    BY <1>1, <2>2, <2>3, <2>4 DEF z
<1>3. ASSUME NEW k \in 0 .. (N - 1)
      PROVE  Ahead(root, k) \in Ranks /\ Ahead(root, k) = IF root + k < N THEN root + k ELSE (root + k) - N
  <2>1. k \in 0 .. N
    BY <1>1
  <2>2. QED
    BY <2>1, TurnsFacts
<1>4. ASSUME NEW q \in Ranks
      PROVE  /\ Position(q, root) \in 0 .. (N - 1) /\ Ahead(root, Position(q, root)) = q
             /\ (q # root => Position(q, root) \in 1 .. (N - 1))
  <2> DEFINE k == Position(q, root)
  <2>1. k = IF q - root < 0 THEN (q - root) + N ELSE q - root
    BY <1>2
  <2> HIDE DEF k
  <2>2. k \in 0 .. (N - 1)
    BY <1>1, <2>1
  <2>3. Ahead(root, k) = IF root + k < N THEN root + k ELSE (root + k) - N
    BY <1>3, <2>2
  <2>4. Ahead(root, k) = q /\ (q # root => k \in 1 .. (N - 1))
    BY ONLY <1>1, <2>1, <2>2, <2>3
  <2>5. QED
    BY <2>2, <2>4 DEF k
<1>5. ASSUME NEW k \in 0 .. (N - 1) PROVE Position(Ahead(root, k), root) = k
  <2> DEFINE q == Ahead(root, k)
  <2>1. q \in Ranks /\ q = IF root + k < N THEN root + k ELSE (root + k) - N
    BY <1>3
  <2> HIDE DEF q
  <2>2. Position(q, root) = IF q - root < 0 THEN (q - root) + N ELSE q - root
    BY <1>2, <2>1
  <2>3. Position(q, root) = k
    BY ONLY <1>1, <2>1, <2>2
  <2>4. QED
    BY <2>3 DEF q
<1>6. QED
  BY <1>4, <1>5

LEMMA RingGatherDelivers ==
  ASSUME NEW r \in Ranks, NEW root \in Ranks, NEW L, NEW promise,
         \A a, b \in Ranks : \A j \in 1 .. N : L[a][b][j] = Operand(Ahead(a, j - 1), 0),
         promise = [i \in IF r = root THEN Ranks ELSE {} |-> Operand(i, 0)]
  PROVE  Delivers(RingGather(r, root), r, L, promise)
<1> DEFINE nx == Next1(r)
           pv == Prev1(r)
           S == Tally(pv, 0)
           G == Tally(nx, 0)
           held == N - Position(r, root)
<1>1. /\ N \in Nat /\ N >= 2 /\ nx \in Ranks \ {r} /\ pv \in Ranks \ {r}
      /\ nx \in Ranks /\ pv \in Ranks /\ Ranks = 0 .. (N - 1)
  BY RingFacts
<1>2. Zeros(S) /\ Zeros(G) /\ Whole(S) /\ Whole(G)
  BY <1>1, TallyFacts
<1>3. ASSUME NEW j \in 1 .. (N - 1) PROVE L[nx][r][j] = Operand(Ahead(r, j), 0)
  <2>1. j \in 1 .. N
    BY <1>1
  <2>2. Ahead(nx, j - 1) = Ahead(r, j)
    BY <2>1, TurnsFacts
  <2>3. QED
    BY <1>1, <2>1, <2>2
<1>4. Tmp(0) = N /\ 0 \in Ranks /\ In(root) = root /\ root \in Written /\ N \in Written
      /\ (\A i \in Ranks : Tmp(i) = N + i /\ Tmp(i) \in Written)
      /\ \A i \in Ranks : i \in Written /\ In(i) = i
  BY Slots, InsOne DEF In
<1> HIDE DEF S, G, nx, pv
<1>5. CASE r = root
  <2> DEFINE V == [i \in 1 .. (N - 1) |-> Operand(Ahead(r, i), 0)]
             slots == Tmps(N - 1)
             place == {<<In((root + 1 + i) % N), Tmp(i)>> : i \in 0 .. (N - 2)}
             x == RecvCopy(nx, slots, place)
             entry == {<<In(root), Own(0)>>}
             K == Holds({r}, Operand(r, 0))
             M == [s \in {r} \cup {N + i : i \in 0 .. (N - 2)} |->
                     IF s = r THEN Operand(r, 0) ELSE V[s - N + 1]]
             J == [s \in Ranks |-> Operand(s, 0)]
             n == N - 1
  <2>1. RingGather(r, root) = Program(entry, <<x>>)
    BY <1>5 DEF RingGather, nx
  <2>2. Unique(entry) /\ Opens(entry, r, K)
    BY <1>4, <1>5, UniqueOne, OpensOwn
  <2>3. n \in 1 .. N
    BY <1>1
  <2>4. /\ Len(slots) = n /\ n \in Nat \ {0} /\ Vacant(slots)
        /\ \A i \in 1 .. n : i - 1 \in Ranks /\ slots[i] = Tmp(i - 1)
    BY <2>3, InsFacts
  <2>5. \A i \in 1 .. n : V[i] = L[nx][r][0 + i]
    BY <1>3
  <2>18. /\ DOMAIN M = {r} \cup {N + i : i \in 0 .. (N - 2)} /\ M[r] = Operand(r, 0)
         /\ \A i \in 0 .. (N - 2) : N + i \in DOMAIN M /\ M[N + i] = V[i + 1] /\ N + i # r
    <3>1. \A i \in 0 .. (N - 2) : N + i # r /\ (N + i) - N + 1 = i + 1
      BY <1>1
    <3> HIDE DEF V
    <3>2. DOMAIN M = {r} \cup {N + i : i \in 0 .. (N - 2)} /\ M[r] = Operand(r, 0)
      OBVIOUS
    <3>3. ASSUME NEW i \in 0 .. (N - 2) PROVE M[N + i] = V[i + 1]
      <4>1. M[N + i] = V[(N + i) - N + 1]
        BY <3>1
      <4>2. QED
        BY <3>1, <4>1
    <3> HIDE DEF M
    <3> DEFINE D == {N + i : i \in 0 .. (N - 2)}
    <3>6. \A i \in 0 .. (N - 2) : N + i \in D
      OBVIOUS
    <3>7. DOMAIN M = {r} \cup D
      BY <3>2
    <3> HIDE DEF D
    <3>4. \A i \in 0 .. (N - 2) : N + i \in DOMAIN M
      BY <3>6, <3>7
    <3>5. QED
      BY <3>1, <3>2, <3>3, <3>4
  <2>19. DOMAIN K = {r} /\ K[r] = Operand(r, 0)
    BY DEF Holds
  <2>20. \A i \in Ranks : J[i] = Operand(i, 0)
    OBVIOUS
  <2>21. DOMAIN J = Ranks
    OBVIOUS
  <2>22. \A i \in 1 .. n : V[i] = Operand(Ahead(r, i), 0)
    OBVIOUS
  <2> HIDE DEF M, K, V, slots, J
  <2>6. TakesUp(slots, K, V, M)
    <3> SUFFICES ASSUME NEW s \in DOMAIN M
        PROVE  /\ s \in Written
               /\ \/ \E i \in 1 .. Len(slots) : slots[i] = s /\ M[s] = V[i]
                  \/ s \in DOMAIN K /\ M[s] = K[s] /\ \A i \in 1 .. Len(slots) : slots[i] # s
      BY DEF TakesUp
    <3>1. CASE s = r
      <4>1. s \in DOMAIN K /\ M[s] = K[s] /\ s \in Written
        BY <1>4, <2>18, <2>19, <3>1
      <4>2. ASSUME NEW i \in 1 .. Len(slots) PROVE slots[i] # s
        <5>1. slots[i] = N + (i - 1) /\ i \in 1 .. n
          BY <1>4, <2>4
        <5>2. QED
          BY <1>1, <3>1, <5>1
      <4>3. QED
        BY <4>1, <4>2
    <3>2. CASE s # r
      <4>1. PICK i \in 0 .. (N - 2) : s = N + i
        BY <2>18, <3>2
      <4>2. i + 1 \in 1 .. n /\ (i + 1) - 1 = i /\ i \in Ranks
        BY <1>1, <4>1
      <4>6. slots[i + 1] = Tmp(i) /\ Tmp(i) = N + i
        BY <1>4, <2>4, <4>2
      <4>3. slots[i + 1] = s /\ M[s] = V[i + 1]
        BY <2>18, <4>1, <4>6
      <4>4. s \in Written
        BY <1>4, <4>1, <4>2
      <4>5. QED
        BY <2>4, <4>2, <4>3, <4>4
    <3>3. QED
      BY <3>1, <3>2
  <2>7. \A i \in 0 .. (N - 2) : /\ (root + 1 + i) % N = Ahead(root, i + 1) /\ i + 1 \in 1 .. (N - 1)
                                /\ Ahead(root, i + 1) \in Ranks
    <3> SUFFICES ASSUME NEW i \in 0 .. (N - 2)
        PROVE  /\ (root + 1 + i) % N = Ahead(root, i + 1) /\ i + 1 \in 1 .. (N - 1)
               /\ Ahead(root, i + 1) \in Ranks
      OBVIOUS
    <3>1. root + 1 + i = root + (i + 1) /\ i + 1 \in 0 .. N /\ i + 1 \in 1 .. (N - 1)
      BY <1>1
    <3>2. QED
      BY <3>1, TurnsFacts DEF Ahead
  <2>8. Unique(place)
    <3> SUFFICES ASSUME NEW i \in 0 .. (N - 2), NEW k \in 0 .. (N - 2),
                        In((root + 1 + i) % N) = In((root + 1 + k) % N)
        PROVE  i = k
      BY DEF Unique
    <3>1. Ahead(root, i + 1) = Ahead(root, k + 1)
      BY <2>7 DEF In
    <3>2. i + 1 \in 0 .. (N - 1) /\ k + 1 \in 0 .. (N - 1)
      BY <1>1
    <3>3. i + 1 = k + 1
      BY <3>1, <3>2, AheadPosition
    <3>4. QED
      BY <3>3
  <2>9. Copies(place, r, M, J)
    <3> SUFFICES ASSUME NEW s \in Ranks
        PROVE  \/ \E c \in place : c[1] = s /\ Value(M, r, c[2], J[s])
               \/ (\A c \in place : c[1] # s) /\ s \in DOMAIN M /\ J[s] = M[s]
      BY <1>4, <2>21 DEF Copies
    <3>1. CASE s = root
      <4>1. ASSUME NEW i \in 0 .. (N - 2) PROVE In((root + 1 + i) % N) # s
        <5>1. i + 1 \in 0 .. (N - 1) /\ 0 \in 0 .. (N - 1) /\ i + 1 # 0
          BY <1>1
        <5>2. Ahead(root, 0) = root
          BY TurnsFacts
        <5>3. Ahead(root, i + 1) # Ahead(root, 0)
          BY <5>1, AheadPosition
        <5>4. QED
          BY <2>7, <3>1, <5>2, <5>3 DEF In
      <4>2. \A c \in place : c[1] # s
        BY <4>1
      <4>3. s \in DOMAIN M /\ J[s] = M[s]
        BY <1>5, <2>18, <2>20, <3>1
      <4>4. QED
        BY <4>2, <4>3
    <3>2. CASE s # root
      <4> DEFINE i == Position(s, root) - 1
      <4>1. Position(s, root) \in 1 .. (N - 1) /\ Ahead(root, Position(s, root)) = s
        BY <3>2, AheadPosition
      <4>2. i \in 0 .. (N - 2) /\ i + 1 = Position(s, root) /\ i \in Ranks
        BY <1>1, <4>1
      <4> HIDE DEF i
      <4>3. In((root + 1 + i) % N) = s
        BY <2>7, <4>1, <4>2 DEF In
      <4>4. Tmp(i) = N + i /\ Tmp(i) \in Written
        BY <1>4, <4>2
      <4>5. Tmp(i) \in DOMAIN M /\ M[Tmp(i)] = V[i + 1]
        BY <2>18, <4>2, <4>4
      <4>6. V[i + 1] = Operand(s, 0) /\ J[s] = Operand(s, 0)
        <5>1. i + 1 \in 1 .. n
          BY <4>1, <4>2
        <5>2. V[i + 1] = Operand(Ahead(r, i + 1), 0)
          BY <2>22, <5>1
        <5>3. QED
          BY <1>5, <2>20, <4>1, <4>2, <5>2
      <4>7. Value(M, r, Tmp(i), J[s])
        BY <4>4, <4>5, <4>6 DEF Value
      <4>8. <<In((root + 1 + i) % N), Tmp(i)>> \in place
        BY <4>2
      <4> DEFINE c == <<In((root + 1 + i) % N), Tmp(i)>>
      <4>9. c[1] = s /\ c[2] = Tmp(i) /\ c \in place
        BY <4>3, <4>8
      <4> HIDE DEF c, place
      <4>10. QED
        BY <4>7, <4>9
    <3>3. QED
      BY <3>1, <3>2
  <2>10. Yields(J, promise)
    BY <1>5 DEF Yields, J
  <2>11. x.parts = {RecvPart(nx, slots)} /\ x.copy = place /\ x.fold = {}
    BY DEF RecvCopy, Step
  <2> HIDE DEF x, place, slots, K, M, J, V, entry
  <2>12. Leaves(x, r, M, J)
    BY <2>8, <2>9, <2>11, LeavesCopies
  <2> DEFINE z == 0
  <2>13. z \in Nat /\ n = z + Len(slots) /\ n \in Nat /\ \A i \in 1 .. Len(slots) : V[i] = L[nx][r][z + i]
    BY <2>4, <2>5
  <2>14. Tally(nx, z) = G
    BY DEF G
  <2> HIDE DEF z, n
  <2>15. Leads(x, r, L, Point(K, S, Tally(nx, z)), Point(J, S, Tally(nx, n)))
    BY <1>1, <1>2, <2>4, <2>6, <2>11, <2>12, <2>13, RecvTally
  <2>16. Ran(<<x>>, r, L, Point(K, S, G), Point(J, S, Tally(nx, n)))
    BY <2>14, <2>15, RanOne
  <2>17. QED
    BY <1>2, <2>1, <2>2, <2>10, <2>16, ProgramDelivers
<1>6. CASE r # root
  <2> DEFINE rest == [i \in 1 .. (held - 1) |-> Tmp(i)]
             full == Tmps(held)
             x == Recv(nx, rest)
             y == Send(pv, full)
             first == IF held = 1 THEN <<>> ELSE <<x>>
             entry == {<<Tmp(0), Own(0)>>}
             n == held - 1
             K == Holds({N}, Operand(r, 0))
             M == [s \in {N + i : i \in 0 .. n} |-> Operand(Ahead(r, s - N), 0)]
             V == [i \in 1 .. n |-> Operand(Ahead(r, i), 0)]
             H == Tally(nx, n)
  <2>1. RingGather(r, root) = Program(entry, first \o <<y>>)
    BY <1>6 DEF RingGather, nx, pv
  <2>2. held \in 1 .. (N - 1) /\ held \in 1 .. N
    BY <1>1, <1>6, AheadPosition
  <2> HIDE DEF held
  <2>3. Unique(entry) /\ Opens(entry, r, K)
    BY <1>4, UniqueOne, OpensOwn
  <2>4. \A i \in 0 .. n : i \in Ranks /\ i \in 0 .. N /\ (N + i) - N = i /\ N + i \in Written /\ Tmp(i) = N + i
    <3> SUFFICES ASSUME NEW i \in 0 .. n
        PROVE  i \in Ranks /\ i \in 0 .. N /\ (N + i) - N = i /\ N + i \in Written /\ Tmp(i) = N + i
      OBVIOUS
    <3>1. i \in Ranks /\ i \in 0 .. N /\ (N + i) - N = i
      BY <1>1, <2>2
    <3>2. QED
      BY <1>4, <3>1
  <2>5. Ran(first, r, L, Point(K, S, G), Point(M, S, H))
    <3>1. CASE held = 1
      <4>1. n = 0 /\ 0 .. n = {0}
        BY <3>1
      <4>2. K = M
        <5>1. {N + i : i \in 0 .. n} = {N}
          <6> HIDE DEF n
          <6>1. \A i \in 0 .. n : i = 0
            BY <4>1
          <6>2. 0 \in 0 .. n /\ N + 0 = N
            BY <1>1, <4>1
          <6>3. QED
            BY <6>1, <6>2
        <5>2. Ahead(r, N - N) = r
          BY <1>1, TurnsFacts
        <5>3. QED
          BY <5>1, <5>2 DEF Holds
      <4>3. G = H
        BY <4>1 DEF G
      <4> HIDE DEF K, M, H
      <4>4. QED
        BY <3>1, <4>2, <4>3, RanNone
    <3>2. CASE held # 1
      <4> DEFINE z == 0
      <4>1. Len(rest) = n /\ n \in Nat \ {0} /\ \A i \in 1 .. n : rest[i] = Tmp(i) /\ i \in 0 .. n
        BY <2>2, <3>2
      <4>2. \A i \in 1 .. n : rest[i] = N + i /\ rest[i] \in Written
        BY <2>4, <4>1
      <4> HIDE DEF rest, n
      <4>3. Vacant(rest)
        BY <1>1, <4>1, <4>2 DEF Vacant
      <4>4. \A i \in 1 .. n : V[i] = L[nx][r][z + i]
        <5>1. \A i \in 1 .. n : i \in 1 .. (N - 1) /\ z + i = i
          BY <1>1, <2>2 DEF n
        <5>2. QED
          BY <1>3, <5>1
      <4>10. DOMAIN M = {N + i : i \in 0 .. n}
        OBVIOUS
      <4>13. N \in DOMAIN K /\ K[N] = Operand(r, 0)
        BY DEF Holds
      <4>11. \A i \in 0 .. n : M[N + i] = Operand(Ahead(r, i), 0)
        BY <2>4
      <4>12. \A i \in 1 .. n : V[i] = Operand(Ahead(r, i), 0)
        OBVIOUS
      <4> HIDE DEF K, M, V
      <4>5. TakesUp(rest, K, V, M)
        <5> SUFFICES ASSUME NEW s \in DOMAIN M
            PROVE  /\ s \in Written
                   /\ \/ \E k \in 1 .. Len(rest) : rest[k] = s /\ M[s] = V[k]
                      \/ s \in DOMAIN K /\ M[s] = K[s] /\ \A k \in 1 .. Len(rest) : rest[k] # s
          BY DEF TakesUp
        <5>1. PICK i \in 0 .. n : s = N + i
          BY <4>10
        <5>5. M[s] = Operand(Ahead(r, i), 0) /\ s \in Written
          BY <2>4, <4>11, <5>1
        <5>2. CASE i = 0
          <6>1. s = N
            BY <1>1, <5>1, <5>2
          <6>2. M[s] = Operand(r, 0)
            BY <5>2, <5>5, TurnsFacts
          <6>3. ASSUME NEW k \in 1 .. Len(rest) PROVE rest[k] # s
            <7>1. rest[k] = N + k /\ k \in Nat /\ k # 0
              BY <4>1, <4>2
            <7>2. N + k # N
              BY <1>1, <7>1
            <7>3. QED
              BY <6>1, <7>1, <7>2
          <6>4. s \in DOMAIN K /\ M[s] = K[s]
            BY <4>13, <6>1, <6>2
          <6>5. QED
            BY <5>5, <6>3, <6>4
        <5>3. CASE i # 0
          <6>1. i \in 1 .. n
            BY <4>1, <5>3
          <6>2. rest[i] = s /\ M[s] = V[i]
            BY <4>2, <4>12, <5>1, <5>5, <6>1
          <6>3. QED
            BY <4>1, <5>5, <6>1, <6>2
        <5>4. QED
          BY <5>2, <5>3
      <4>6. x.parts = {RecvPart(nx, rest)} /\ x.copy = {} /\ x.fold = {}
        BY DEF Recv, Step
      <4>7. z \in Nat /\ n = z + Len(rest) /\ Tally(nx, z) = G
        BY <4>1 DEF G
      <4> HIDE DEF x, K, V, M, z
      <4>8. Leads(x, r, L, Point(K, S, Tally(nx, z)), Point(M, S, Tally(nx, n)))
        BY <1>1, <1>2, <4>1, <4>3, <4>4, <4>5, <4>6, <4>7, LeavesAll, RecvTally
      <4>9. QED
        BY <3>2, <4>7, <4>8, RanOne
    <3>3. QED
      BY <3>1, <3>2
  <2>6. Leads(y, r, L, Point(M, S, H), Point(M, Tally(pv, held), H))
    <3> DEFINE z == 0
    <3>1. /\ Len(full) = held /\ held \in Nat \ {0}
          /\ \A i \in 1 .. held : i - 1 \in Ranks /\ full[i] = Tmp(i - 1)
      BY <2>2, InsFacts
    <3>2. ASSUME NEW i \in 1 .. held PROVE Value(M, r, full[i], L[r][pv][z + i])
      <4>1. i - 1 \in 0 .. n /\ i \in 1 .. N /\ z + i = i
        BY <1>1, <2>2
      <4>2. full[i] = N + (i - 1) /\ N + (i - 1) \in Written /\ (N + (i - 1)) - N = i - 1
        BY <2>4, <3>1, <4>1
      <4>3. M[N + (i - 1)] = Operand(Ahead(r, i - 1), 0)
        BY <4>1, <4>2
      <4>4. L[r][pv][i] = Operand(Ahead(r, i - 1), 0)
        BY <1>1, <4>1
      <4>5. N + (i - 1) \in DOMAIN M
        BY <4>1
      <4>6. QED
        BY <4>1, <4>2, <4>3, <4>4, <4>5 DEF Value
    <3>3. y.parts = {SendPart(pv, full)} /\ y.copy = {} /\ y.fold = {}
      BY DEF Send, Step
    <3>4. InWritten(M)
      BY <2>4 DEF InWritten
    <3>5. z \in Nat /\ held = z + Len(full) /\ Tally(pv, z) = S /\ n \in Nat
      BY <2>2, <3>1 DEF S
    <3>6. Whole(H)
      BY <3>5, TallyFacts
    <3> HIDE DEF y, M, H, full, z
    <3>7. Leads(y, r, L, Point(M, Tally(pv, z), H), Point(M, Tally(pv, held), H))
      BY <1>1, <3>1, <3>2, <3>3, <3>4, <3>5, <3>6, LeavesAll, SendTally
    <3>8. QED
      BY <3>5, <3>7
  <2>7. Yields(M, promise)
    BY <1>6 DEF Yields
  <2> HIDE DEF first, y, M, K, H, entry
  <2>8. Ran(first \o <<y>>, r, L, Point(K, S, G), Point(M, Tally(pv, held), H))
    BY <2>5, <2>6, RanOne, RanThen
  <2>9. QED
    BY <1>2, <2>1, <2>3, <2>7, <2>8, ProgramDelivers
<1>7. QED
  BY <1>5, <1>6

(* What is enough to know at the start of a row of steps.                   *)
Covers(P, Q) ==
  /\ \A s \in DOMAIN Q.know : s \in DOMAIN P.know /\ Q.know[s] = P.know[s]
  /\ \A q \in DOMAIN Q.sent : q \in DOMAIN P.sent /\ Q.sent[q] = P.sent[q]
  /\ \A q \in DOMAIN Q.got : q \in DOMAIN P.got /\ Q.got[q] = P.got[q]

LEMMA RanCovers ==
  ASSUME NEW s, Len(s) # 0, NEW r, NEW L, NEW P, NEW Q, NEW R, Covers(P, Q), Ran(s, r, L, Q, R)
  PROVE  Ran(s, r, L, P, R)
<1>1. PICK g : /\ g[0] = Q /\ g[Len(s)] = R
               /\ \A k \in 1 .. Len(s) : Leads(s[k], r, L, g[k - 1], g[k])
  BY DEF Ran, Runs
<1>2. Len(s) \in Nat /\ Row(s)
  BY DEF Ran, Row
<1> DEFINE h == [k \in 0 .. Len(s) |-> IF k = 0 THEN P ELSE g[k]]
<1>3. \A at : Meets(at, P) => Meets(at, Q)
  BY DEF Meets, Covers, Agrees, Tallies
<1>4. \A x, y : Leads(x, r, L, Q, y) => Leads(x, r, L, P, y)
  BY <1>3 DEF Leads
<1>5. ASSUME NEW k \in 1 .. Len(s) PROVE Leads(s[k], r, L, h[k - 1], h[k])
  <2>1. Leads(s[k], r, L, g[k - 1], g[k]) /\ k - 1 \in 0 .. Len(s) /\ k \in 0 .. Len(s) /\ k # 0
    BY <1>1, <1>2
  <2>2. CASE k - 1 = 0
    BY <1>1, <1>4, <2>1, <2>2
  <2>3. CASE k - 1 # 0
    BY <2>1, <2>3
  <2>4. QED
    BY <2>2, <2>3
<1>6. h[0] = P /\ h[Len(s)] = R
  BY <1>1, <1>2
<1> HIDE DEF h
<1>7. Runs(s, r, L, P, R)
  BY <1>5, <1>6 DEF Runs
<1>8. QED
  BY <1>2, <1>7 DEF Ran

LEMMA ScatterRootRan ==
  ASSUME NEW root \in Ranks, NEW source, NEW V, NEW L, NEW K, NEW G, InWritten(K), Whole(G),
         \A i \in Ranks \ {root} : Value(K, root, source[i], V[i]),
         \A j \in 1 .. (N - 1) : L[root][Next1(root)][j] = V[Ahead(root, j)]
  PROVE  Ran(RingScatterFrom(root, root, source).steps, root, L,
             Point(K, Tally(Next1(root), 0), G), Point(K, Tally(Next1(root), N - 1), G))
<1> DEFINE nx == Next1(root)
           s == [k \in 1 .. (N - 1) |-> Send(nx, <<source[(root + k) % N]>>)]
           g == [k \in 0 .. (N - 1) |-> Point(K, Tally(nx, k), G)]
<1>1. N \in Nat /\ N >= 2 /\ nx \in Ranks \ {root} /\ nx \in Ranks
  BY RingFacts
<1>2. RingScatterFrom(root, root, source).steps = s
  BY DEF RingScatterFrom, Program
<1> HIDE DEF nx
<1>3. ASSUME NEW k \in 1 .. (N - 1) PROVE Leads(s[k], root, L, g[k - 1], g[k])
  <2> DEFINE q == Ahead(root, k)
             x == Send(nx, <<source[q]>>)
             n == k - 1
  <2>1. k \in 0 .. (N - 1) /\ k \in 0 .. N /\ 0 \in 0 .. (N - 1) /\ k # 0
    BY <1>1
  <2>2. q \in Ranks \ {root}
    <3>1. Position(q, root) = k /\ Position(root, root) = 0
      BY <2>1, AheadPosition, PositionFacts
    <3>2. q \in Ranks
      BY <2>1, TurnsFacts
    <3>3. QED
      BY <2>1, <3>1, <3>2
  <2>3. s[k] = x
    BY DEF Ahead
  <2>4. n \in Nat /\ k = n + 1 /\ g[k - 1] = Point(K, Tally(nx, n), G) /\ g[k] = Point(K, Tally(nx, k), G)
    BY <1>1
  <2>5. L[root][nx][n + 1] = V[q]
    BY <2>4 DEF nx
  <2> HIDE DEF s, g, q, n
  <2>6. Due(Tally(nx, n), root, nx, L, V[q])
    BY <2>4, <2>5, SureFacts
  <2>7. Gains(Tally(nx, n), Tally(nx, k), nx, 1)
    BY <2>4, TallyFacts
  <2>8. x.parts = {SendPart(nx, <<source[q]>>)} /\ x.copy = {} /\ x.fold = {}
    BY DEF Send, Step
  <2>9. Value(K, root, source[q], V[q])
    BY <2>2
  <2> HIDE DEF x
  <2>10. Leads(x, root, L, Point(K, Tally(nx, n), G), Point(K, Tally(nx, k), G))
    BY <1>1, <2>6, <2>7, <2>8, <2>9, LeavesAll, SendOne
  <2>11. QED
    BY <2>3, <2>4, <2>10
<1>4. g[0] = Point(K, Tally(nx, 0), G) /\ g[N - 1] = Point(K, Tally(nx, N - 1), G) /\ N - 1 \in Nat
  BY <1>1
<1>5. s = [k \in 1 .. (N - 1) |-> s[k]]
  OBVIOUS
<1> HIDE DEF s, g
<1>6. Ran(s, root, L, g[0], g[N - 1])
  BY <1>3, <1>4, <1>5, RanRow
<1>7. QED
  BY <1>2, <1>4, <1>6 DEF nx

LEMMA ScatterOtherRan ==
  ASSUME NEW root \in Ranks, NEW r \in Ranks, r # root, NEW source, NEW V, NEW L, NEW K, NEW S, Whole(S),
         Next1(r) # root => S = Tally(Next1(r), 0),
         Next1(r) # root => \A j \in 1 .. (N - 1) : L[r][Next1(r)][j] = V[Ahead(r, j)],
         \A j \in 1 .. (N - 1) : L[Prev1(r)][r][j] = V[Ahead(Prev1(r), j)]
  PROVE  \E T, H : Ran(RingScatterFrom(r, root, source).steps, r, L,
                       Point(K, S, Tally(Prev1(r), 0)), Point(Holds({0}, V[r]), T, H))
<1> DEFINE nx == Next1(r)
           pv == Prev1(r)
           n == N - 1 - Position(r, root)
           first == Recv(pv, Ins(1))
           x == Recv(pv, Tmps(1))
           y == Send(nx, Tmps(1))
           R == [k \in 1 .. n |-> <<x, y>>]
           T(k) == IF n = 0 THEN S ELSE Tally(nx, k)
           J == Holds({0}, V[r])
           g == [k \in 0 .. n |-> Point(J, T(k), Tally(pv, k + 1))]
<1>1. N \in Nat /\ N >= 2 /\ nx \in Ranks \ {r} /\ pv \in Ranks \ {r} /\ nx \in Ranks /\ pv \in Ranks
  BY RingFacts
<1>2. RingScatterFrom(r, root, source).steps = <<first>> \o Joined(R)
  BY DEF RingScatterFrom, Program
<1>3. n \in 0 .. (N - 2) /\ n \in Nat /\ (n # 0 => Next1(r) # root)
  <2>1. Position(r, root) \in 1 .. (N - 1) /\ (Position(r, root) = N - 1 <=> Next1(r) = root)
    BY AheadPosition, PositionFacts
  <2>2. QED
    BY <1>1, <2>1
<1>4. ASSUME NEW k \in 0 .. n PROVE L[pv][r][k + 1] = V[Ahead(r, k)]
  <2>1. k + 1 \in 1 .. (N - 1) /\ k + 1 \in 1 .. N /\ (k + 1) - 1 = k
    BY <1>1, <1>3
  <2>2. L[pv][r][k + 1] = V[Ahead(pv, k + 1)]
    BY <2>1
  <2>3. Ahead(Next1(pv), (k + 1) - 1) = Ahead(pv, k + 1) /\ Next1(pv) = r
    BY <1>1, <2>1, TurnsFacts, RingFacts
  <2>4. QED
    BY <2>1, <2>2, <2>3
<1>5. 0 \in Written /\ N \in Written /\ N # 0 /\ Ins(1) = <<0>> /\ Tmps(1) = <<N>> /\ {0} \subseteq Written
  <2>1. 0 \in Written /\ N \in Written /\ N # 0
    BY WorldSizeAssumption DEF Written
  <2>2. QED
    BY <2>1, InsOne
<1>6. Whole(T(0)) /\ Whole(Tally(pv, 0)) /\ T(0) = S
  BY <1>3, TallyFacts
<1> HIDE DEF nx, pv
<1>7. Leads(first, r, L, Point(K, S, Tally(pv, 0)), g[0])
  <2>1. first.parts = {RecvPart(pv, <<0>>)} /\ first.copy = {} /\ first.fold = {}
    BY <1>5 DEF Recv, Step
  <2> DEFINE z == 0
  <2>2. z \in Nat /\ z + 1 = 1 /\ L[pv][r][z + 1] = V[r]
    BY <1>3, <1>4, TurnsFacts
  <2> HIDE DEF z
  <2>3. Comes(Tally(pv, z), pv, r, L, V[r]) /\ Gains(Tally(pv, z), Tally(pv, 1), pv, 1)
    <3>1. Comes(Tally(pv, z), pv, r, L, V[r])
      BY <2>2, SureFacts
    <3>2. 1 \in Nat /\ 1 = z + 1
      BY <2>2
    <3>3. Gains(Tally(pv, z), Tally(pv, 1), pv, 1)
      BY <2>2, <3>2, TallyFacts
    <3>4. QED
      BY <3>1, <3>3
  <2>4. Puts(K, 0, V[r], J)
    BY <1>5, HoldsFacts
  <2>5. g[0] = Point(J, S, Tally(pv, 1)) /\ Tally(pv, z) = Tally(pv, 0)
    <3>1. 0 \in 0 .. n
      BY <1>3
    <3>2. g[0] = Point(J, T(0), Tally(pv, 0 + 1))
      BY <3>1
    <3> HIDE DEF g, T
    <3>3. QED
      BY <1>6, <3>2 DEF z
  <2> HIDE DEF first, J, g
  <2>6. Leads(first, r, L, Point(K, S, Tally(pv, z)), Point(J, S, Tally(pv, 1)))
    BY <1>1, <1>5, <2>1, <2>3, <2>4, LeavesAll, RecvOne
  <2>7. QED
    BY <2>5, <2>6
<1>8. ASSUME NEW k \in 1 .. n PROVE Ran(R[k], r, L, g[k - 1], g[k])
  <2> DEFINE i == k - 1
             v == V[Ahead(r, k)]
             M == [s \in {0, N} |-> IF s = 0 THEN V[r] ELSE v]
  <2>1. i \in Nat /\ k = i + 1 /\ k \in 0 .. n /\ i \in 0 .. n /\ n # 0 /\ k + 1 \in Nat /\ k \in Nat
        /\ k \in 1 .. (N - 1)
    BY <1>1, <1>3
  <2>2. g[k - 1] = Point(J, Tally(nx, i), Tally(pv, k)) /\ g[k] = Point(J, Tally(nx, k), Tally(pv, k + 1))
    BY <2>1
  <2>3. R[k] = <<x, y>>
    OBVIOUS
  <2>4. L[pv][r][k + 1] = v /\ L[r][nx][i + 1] = v
    <3>1. L[pv][r][k + 1] = v
      BY <1>4, <2>1
    <3>2. L[r][nx][k] = v
      BY <1>3, <2>1 DEF nx
    <3>3. QED
      BY <2>1, <3>1, <3>2
  <2>5. x.parts = {RecvPart(pv, <<N>>)} /\ x.copy = {} /\ x.fold = {}
        /\ y.parts = {SendPart(nx, <<N>>)} /\ y.copy = {} /\ y.fold = {}
    BY <1>5 DEF Recv, Send, Step
  <2>15. DOMAIN M = {0, N} /\ M[0] = V[r] /\ M[N] = v
    BY <1>5
  <2>16. DOMAIN J = {0} /\ J[0] = V[r]
    BY DEF Holds
  <2> HIDE DEF M, J, v
  <2>6. Puts(J, N, v, M) /\ InWritten(M) /\ Value(M, r, N, v)
    BY <1>5, <2>15, <2>16 DEF Puts, InWritten, Value
  <2>7. Leaves(x, r, M, M)
    BY <2>5, LeavesAll
  <2>8. Leaves(y, r, M, J)
    <3>1. Leaves(y, r, M, M)
      BY <2>5, LeavesAll
    <3>2. \A m : Agrees(m, M) => Agrees(m, J)
      BY <1>5, <2>15, <2>16 DEF Agrees
    <3>3. QED
      BY <3>1, <3>2 DEF Leaves
  <2> HIDE DEF R, g, i, v, M, J, x, y, n
  <2>9. Due(Tally(nx, i), r, nx, L, v) /\ Comes(Tally(pv, k), pv, r, L, v)
    BY <2>1, <2>4, SureFacts
  <2>10. Gains(Tally(nx, i), Tally(nx, k), nx, 1) /\ Gains(Tally(pv, k), Tally(pv, k + 1), pv, 1)
    BY <2>1, TallyFacts
  <2>11. Whole(Tally(nx, i)) /\ Whole(Tally(pv, k + 1))
    BY <2>1, TallyFacts
  <2>12. Leads(x, r, L, Point(J, Tally(nx, i), Tally(pv, k)), Point(M, Tally(nx, i), Tally(pv, k + 1)))
    BY <1>1, <1>5, <2>5, <2>6, <2>7, <2>9, <2>10, <2>11, RecvOne
  <2>13. Leads(y, r, L, Point(M, Tally(nx, i), Tally(pv, k + 1)), Point(J, Tally(nx, k), Tally(pv, k + 1)))
    BY <1>1, <2>5, <2>6, <2>8, <2>9, <2>10, <2>11, SendOne
  <2>14. QED
    BY <2>2, <2>3, <2>12, <2>13, RanTwo
<1>9. R = [k \in 1 .. n |-> R[k]]
  OBVIOUS
<1>10. n \in 0 .. n /\ g[n] = Point(J, T(n), Tally(pv, n + 1))
  BY <1>3
<1> HIDE DEF R, g, T, J, n, first, x, y
<1>11. Ran(Joined(R), r, L, g[0], g[n])
  BY <1>3, <1>8, <1>9, RanRounds
<1>12. Ran(<<first>> \o Joined(R), r, L, Point(K, S, Tally(pv, 0)), g[n])
  BY <1>7, <1>11, RanOne, RanThen
<1>13. QED
  BY <1>2, <1>10, <1>12 DEF pv, J

LEMMA RingScatterDelivers ==
  ASSUME NEW r \in Ranks, NEW root \in Ranks, NEW L, NEW promise,
         \A a, b \in Ranks : \A j \in 1 .. N : L[a][b][j] = Operand(root, Ahead(a, j)),
         promise = Holds({0}, Operand(root, r))
  PROVE  Delivers(RingScatter(r, root), r, L, promise)
<1> DEFINE nx == Next1(r)
           pv == Prev1(r)
           source == [i \in Ranks |-> Own(i)]
           V == [i \in Ranks |-> Operand(root, i)]
           code == RingScatterFrom(r, root, source)
           J == Holds({0}, Operand(root, r))
<1>1. N \in Nat /\ N >= 2 /\ nx \in Ranks \ {r} /\ pv \in Ranks \ {r} /\ nx \in Ranks /\ pv \in Ranks
  BY RingFacts
<1>2. 0 \in Ranks /\ 0 \in Written /\ {0} \subseteq Written /\ In(0) = 0
  BY Slots, OwnFacts
<1>3. ASSUME NEW a \in Ranks, NEW b \in Ranks, NEW j \in 1 .. (N - 1) PROVE L[a][b][j] = V[Ahead(a, j)]
  <2>1. j \in 1 .. N /\ j \in 0 .. N
    BY <1>1
  <2>2. Ahead(a, j) \in Ranks
    BY <2>1, TurnsFacts
  <2>3. QED
    BY <2>1, <2>2
<1>4. Yields(J, promise) /\ InWritten(J) /\ RingScatter(r, root) = code
  BY <1>2, HoldsFacts DEF Yields, RingScatter
<1>5. Zeros(Tally(nx, 0)) /\ Zeros(Tally(pv, 0)) /\ Whole(Tally(nx, 0)) /\ Zeros(NoTally) /\ Whole(NoTally)
  BY <1>1, TallyFacts
<1>6. CASE r = root
  <2> DEFINE entry == {<<In(0), source[root]>>}
  <2>1. code = Program(entry, code.steps)
    BY <1>6 DEF RingScatterFrom, Program
  <2>2. Unique(entry) /\ Opens(entry, r, J)
    BY <1>2, <1>6, UniqueOne, OpensOwn
  <2>3. \A i \in Ranks \ {root} : Value(J, root, source[i], V[i])
    BY OwnFacts
  <2>4. \A j \in 1 .. (N - 1) : L[root][Next1(root)][j] = V[Ahead(root, j)]
    BY <1>1, <1>3, <1>6
  <2> HIDE DEF J, source, V, entry
  <2>5. Ran(RingScatterFrom(root, root, source).steps, root, L,
            Point(J, Tally(Next1(root), 0), NoTally), Point(J, Tally(Next1(root), N - 1), NoTally))
    BY <1>4, <1>5, <2>3, <2>4, ScatterRootRan
  <2> DEFINE steps == code.steps
  <2>6. Ran(steps, r, L, Point(J, Tally(nx, 0), NoTally), Point(J, Tally(nx, N - 1), NoTally))
    BY <1>6, <2>5
  <2>7. code = Program(entry, steps)
    BY <2>1
  <2> HIDE DEF steps, nx
  <2>8. Delivers(Program(entry, steps), r, L, promise)
    BY <1>4, <1>5, <2>2, <2>6, ProgramDelivers
  <2>9. QED
    BY <1>4, <2>7, <2>8
<1>7. CASE r # root
  <2> DEFINE K == Holds({}, Junk)
             S == Tally(nx, 0)
             steps == code.steps
  <2>1. code = Program({}, steps)
    BY <1>7 DEF RingScatterFrom, Program
  <2>2. Opens({}, r, K) /\ Unique({})
    BY OpensNothing, UniqueOne
  <2>3. V[r] = Operand(root, r) /\ J = Holds({0}, V[r])
    OBVIOUS
  <2>4. /\ \A j \in 1 .. (N - 1) : L[r][Next1(r)][j] = V[Ahead(r, j)]
        /\ \A j \in 1 .. (N - 1) : L[Prev1(r)][r][j] = V[Ahead(Prev1(r), j)]
    BY <1>1, <1>3
  <2> HIDE DEF J, source, V, K
  <2>5. PICK T, H : Ran(RingScatterFrom(r, root, source).steps, r, L,
                        Point(K, Tally(Next1(r), 0), Tally(Prev1(r), 0)), Point(Holds({0}, V[r]), T, H))
    BY <1>5, <1>7, <2>4, ScatterOtherRan
  <2>6. Ran(steps, r, L, Point(K, S, Tally(pv, 0)), Point(J, T, H))
    BY <2>3, <2>5
  <2> HIDE DEF steps, S, pv
  <2>7. Zeros(S)
    BY <1>5 DEF S
  <2>8. Delivers(Program({}, steps), r, L, promise)
    BY <1>4, <1>5, <2>2, <2>6, <2>7, ProgramDelivers
  <2>9. QED
    BY <1>4, <2>1, <2>8
<1>8. QED
  BY <1>6, <1>7

LEMMA UpstreamFacts ==
  ASSUME NEW r \in Ranks, NEW root \in Ranks
  PROVE  /\ Upstream(root, root) = Ranks
         /\ Next1(r) = root => Upstream(r, root) = {r}
         /\ Next1(r) # root => /\ Upstream(r, root) = Upstream(Next1(r), root) \cup {r}
                               /\ r \notin Upstream(Next1(r), root)
<1>1. /\ N \in Nat /\ \A q \in Ranks : Position(q, root) \in 0 .. (N - 1)
      /\ \A q \in Ranks : Ahead(root, Position(q, root)) = q
  BY RingFacts, AheadPosition
<1>2. \A p, q \in Ranks : Position(p, root) = Position(q, root) => p = q
  BY <1>1
<1>3. Upstream(root, root) = Ranks
  <2>1. Position(root, root) = 0
    BY PositionFacts
  <2>2. QED
    BY <1>1, <2>1 DEF Upstream
<1>4. ASSUME Next1(r) = root PROVE Upstream(r, root) = {r}
  <2>1. Position(r, root) = N - 1
    BY <1>4, PositionFacts
  <2>2. \A q \in Ranks : Position(q, root) >= N - 1 => Position(q, root) = N - 1
    BY <1>1
  <2>3. ASSUME NEW q \in Ranks, Position(q, root) >= N - 1 PROVE q = r
    <3>1. Position(q, root) = N - 1
      BY <2>2, <2>3
    <3>2. QED
      BY <1>2, <2>1, <3>1
  <2>4. Upstream(r, root) = {q \in Ranks : Position(q, root) >= N - 1}
    BY <2>1 DEF Upstream
  <2>5. N - 1 >= N - 1
    BY <1>1
  <2>6. QED
    BY <2>1, <2>3, <2>4, <2>5
<1>5. ASSUME Next1(r) # root
      PROVE  /\ Upstream(r, root) = Upstream(Next1(r), root) \cup {r}
             /\ r \notin Upstream(Next1(r), root)
  <2>1. Position(Next1(r), root) = Position(r, root) + 1
    BY <1>5, PositionFacts
  <2>2. \A q \in Ranks : Position(q, root) >= Position(r, root) <=>
          Position(q, root) >= Position(r, root) + 1 \/ Position(q, root) = Position(r, root)
    BY <1>1
  <2>3. QED
    BY <1>1, <1>2, <2>1, <2>2 DEF Upstream
<1>6. QED
  BY <1>3, <1>4, <1>5

(* The reduction of the first n slots of a rank with what it has received.  *)
LEMMA FoldFirst ==
  ASSUME NEW n \in 1 .. N, NEW M, NEW J, NEW F, F = {<<In(i), Tmp(i)>> : i \in 0 .. (n - 1)},
         DOMAIN J = 0 .. (n - 1),
         \A i \in 0 .. (n - 1) : /\ i \in DOMAIN M /\ Tmp(i) \in DOMAIN M
                                 /\ J[i] = M[i] (+) M[Tmp(i)]
  PROVE  Unique(F) /\ Folds(F, M, J)
<1>1. \A i \in 0 .. (n - 1) : i \in Ranks /\ i \in Written /\ In(i) = i
  BY InsFacts, Slots DEF In
<1>2. Unique(F)
  BY DEF Unique, In
<1>3. ASSUME NEW s \in DOMAIN J
      PROVE  \E f \in F : f[1] = s /\ f[2] \in DOMAIN M /\ J[s] = M[s] (+) M[f[2]]
  <2> DEFINE f == <<In(s), Tmp(s)>>
  <2>1. f \in F /\ f[1] = s /\ f[2] = Tmp(s)
    BY <1>1
  <2> HIDE DEF f
  <2>2. QED
    BY <2>1
<1>4. QED
  BY <1>1, <1>2, <1>3 DEF Folds

LEMMA ReduceRan ==
  ASSUME NEW n \in 1 .. N, NEW r \in Ranks, NEW root \in Ranks, NEW L,
         NEW K, NEW J, K = [i \in 0 .. (n - 1) |-> Operand(r, i)],
         J = [i \in 0 .. (n - 1) |-> Reduced(Upstream(r, root), i)],
         NEW S, NEW T, NEW G, NEW H, Whole(S), Whole(H),
         IF Next1(r) = root THEN H = G
         ELSE /\ \A j \in 1 .. n : L[Next1(r)][r][j] = Reduced(Upstream(Next1(r), root), j - 1)
              /\ Next1(r) \in DOMAIN G /\ G[Next1(r)] = 0 /\ Gains(G, H, Next1(r), n),
         IF r = root THEN T = S
         ELSE /\ \A j \in 1 .. n : L[r][Prev1(r)][j] = Reduced(Upstream(r, root), j - 1)
              /\ Prev1(r) \in DOMAIN S /\ S[Prev1(r)] = 0 /\ Gains(S, T, Prev1(r), n)
  PROVE  Ran(RingReduceOf(n, r, root).steps, r, L, Point(K, S, G), Point(J, T, H))
<1> DEFINE nx == Next1(r)
           pv == Prev1(r)
           theirs == Tmps(n)
           fold == {<<In(i), Tmp(i)>> : i \in 0 .. (n - 1)}
           x == RecvFold(nx, theirs, fold)
           y == Send(pv, Ins(n))
           take == <<x>>
<1>1. N \in Nat /\ N >= 2 /\ nx \in Ranks \ {r} /\ pv \in Ranks \ {r} /\ nx \in Ranks /\ pv \in Ranks
  BY RingFacts
<1>2. RingReduceOf(n, r, root).steps =
        IF r = root THEN take ELSE (IF Position(r, root) = N - 1 THEN <<>> ELSE take) \o <<y>>
  BY DEF RingReduceOf, Program, Tmps
<1>3. (Position(r, root) = N - 1) <=> (nx = root)
  BY PositionFacts
<1>4. /\ Len(theirs) = n /\ n \in Nat \ {0} /\ Vacant(theirs) /\ Len(Ins(n)) = n
      /\ \A i \in 1 .. n : i - 1 \in Ranks /\ theirs[i] = Tmp(i - 1) /\ Ins(n)[i] = In(i - 1)
      /\ \A i \in 0 .. (n - 1) : i \in Ranks /\ i + 1 \in 1 .. n
  BY InsFacts
<1>5. /\ \A i \in 0 .. (n - 1) : /\ i \in Written /\ In(i) = i /\ Tmp(i) \in Written /\ Tmp(i) = N + i
                                 /\ i < N /\ i \in Nat
  BY <1>1, <1>4, Slots DEF In
<1>6. ASSUME nx # root PROVE Leads(x, r, L, Point(K, S, G), Point(J, S, H))
  <2> DEFINE above == Upstream(nx, root)
             V == [i \in 1 .. n |-> Reduced(above, i - 1)]
             D == {N + i : i \in 0 .. (n - 1)}
             M == [s \in (0 .. (n - 1)) \cup D |-> IF s \in D THEN Reduced(above, s - N) ELSE Operand(r, s)]
  <2>1. x.parts = {RecvPart(nx, theirs)} /\ x.copy = {} /\ x.fold = fold
    BY DEF RecvFold, Step
  <2>2. \A i \in 0 .. (n - 1) : i \notin D /\ N + i \in D /\ (N + i) - N = i
    BY <1>1, <1>5
  <2>3. /\ DOMAIN M = (0 .. (n - 1)) \cup D
        /\ \A i \in 0 .. (n - 1) : /\ i \in DOMAIN M /\ M[i] = Operand(r, i)
                                   /\ N + i \in DOMAIN M /\ M[N + i] = Reduced(above, i)
    <3>1. DOMAIN M = (0 .. (n - 1)) \cup D
      OBVIOUS
    <3> HIDE DEF D, above
    <3>2. ASSUME NEW i \in 0 .. (n - 1)
          PROVE  /\ i \in DOMAIN M /\ M[i] = Operand(r, i)
                 /\ N + i \in DOMAIN M /\ M[N + i] = Reduced(above, i)
      <4>1. i \notin D /\ N + i \in D /\ (N + i) - N = i
        BY <2>2
      <4>2. i \in DOMAIN M /\ N + i \in DOMAIN M
        BY <3>1, <4>1
      <4>3. M[i] = Operand(r, i)
        BY <4>1
      <4>4. M[N + i] = Reduced(above, (N + i) - N)
        BY <4>1
      <4>5. QED
        BY <4>1, <4>2, <4>3, <4>4
    <3> HIDE DEF M
    <3>3. QED
      BY <3>1, <3>2
  <2>4. \A s \in D : \E i \in 0 .. (n - 1) : s = N + i
    OBVIOUS
  <2>5. \A i \in 1 .. n : V[i] = Reduced(above, i - 1)
    OBVIOUS
  <2> HIDE DEF D, M, V, above
  <2>6. TakesUp(theirs, K, V, M)
    <3> SUFFICES ASSUME NEW s \in DOMAIN M
        PROVE  /\ s \in Written
               /\ \/ \E i \in 1 .. Len(theirs) : theirs[i] = s /\ M[s] = V[i]
                  \/ s \in DOMAIN K /\ M[s] = K[s] /\ \A i \in 1 .. Len(theirs) : theirs[i] # s
      BY DEF TakesUp
    <3> HIDE DEF theirs
    <3>1. CASE s \in D
      <4>1. PICK i \in 0 .. (n - 1) : s = N + i
        BY <2>4, <3>1
      <4>2. i + 1 \in 1 .. n /\ (i + 1) - 1 = i /\ Tmp(i) = N + i /\ Tmp(i) \in Written
        BY <1>4, <1>5
      <4>3. theirs[i + 1] = s
        BY <1>4, <4>1, <4>2
      <4>4. M[s] = V[i + 1]
        BY <2>3, <2>5, <4>1, <4>2
      <4>5. QED
        BY <1>4, <4>1, <4>2, <4>3, <4>4
    <3>2. CASE s \notin D
      <4>1. s \in 0 .. (n - 1)
        BY <2>3, <3>2
      <4>2. s \in DOMAIN K /\ M[s] = K[s] /\ s \in Written
        BY <1>5, <2>3, <4>1
      <4>3. ASSUME NEW i \in 1 .. Len(theirs) PROVE theirs[i] # s
        <5>1. i - 1 \in 0 .. (n - 1) /\ theirs[i] = Tmp(i - 1)
          BY <1>4
        <5>2. theirs[i] = N + (i - 1)
          BY <1>5, <5>1
        <5>3. QED
          BY <1>1, <1>5, <4>1, <5>1, <5>2
      <4>4. QED
        BY <4>2, <4>3
    <3>3. QED
      BY <3>1, <3>2
  <2>7. ASSUME NEW i \in 0 .. (n - 1) PROVE J[i] = M[i] (+) M[Tmp(i)]
    <3>1. M[i] = Operand(r, i) /\ M[Tmp(i)] = Reduced(above, i)
      BY <1>5, <2>3
    <3>2. Operand(r, i) = Reduced({r}, i)
      BY ReducedFacts
    <3>3. {r} \cap above = {} /\ Upstream(r, root) = {r} \cup above
      BY <1>6, UpstreamFacts DEF above
    <3>4. Reduced({r}, i) (+) Reduced(above, i) = Reduced({r} \cup above, i)
      BY <3>3, ReducedJoin
    <3>5. QED
      BY <3>1, <3>2, <3>3, <3>4
  <2>8. Unique(fold) /\ Folds(fold, M, J)
    <3>1. \A i \in 0 .. (n - 1) : i \in DOMAIN M /\ Tmp(i) \in DOMAIN M /\ J[i] = M[i] (+) M[Tmp(i)]
      BY <1>5, <2>3, <2>7
    <3>2. DOMAIN J = 0 .. (n - 1)
      OBVIOUS
    <3>3. fold = {<<In(i), Tmp(i)>> : i \in 0 .. (n - 1)}
      OBVIOUS
    <3> HIDE DEF fold
    <3>4. QED
      BY ONLY n \in 1 .. N, <3>1, <3>2, <3>3, FoldFirst
  <2>9. Leaves(x, r, M, J)
    <3> HIDE DEF x, fold
    <3>1. QED
      BY <2>1, <2>8, LeavesFolds
  <2>10. Takes(theirs, r, nx, L, K, G, M)
    <3> SUFFICES ASSUME NEW s \in DOMAIN M
        PROVE  /\ s \in Written
               /\ \/ \E i \in 1 .. Len(theirs) :
                       theirs[i] = s /\ \A c : Count(G, nx, c) => M[s] = L[nx][r][c + i]
                  \/ s \in DOMAIN K /\ M[s] = K[s] /\ \A i \in 1 .. Len(theirs) : theirs[i] # s
      BY DEF Takes
    <3>1. CASE \E i \in 1 .. Len(theirs) : theirs[i] = s /\ M[s] = V[i]
      <4>1. PICK i \in 1 .. Len(theirs) : theirs[i] = s /\ M[s] = V[i]
        BY <3>1
      <4>2. ASSUME NEW c, Count(G, nx, c) PROVE M[s] = L[nx][r][c + i]
        <5>1. c = 0 /\ i \in 1 .. n
          BY <1>4, <1>6, <4>2 DEF Count
        <5>2. L[nx][r][i] = Reduced(above, i - 1) /\ c + i = i
          BY <1>6, <5>1 DEF above
        <5>3. QED
          BY <2>5, <4>1, <5>1, <5>2
      <4>3. QED
        BY <2>6, <4>1, <4>2 DEF TakesUp
    <3>2. QED
      BY <2>6, <3>1 DEF TakesUp
  <2>11. Gains(G, H, nx, Len(theirs))
    BY <1>4, <1>6
  <2> HIDE DEF x, theirs, fold, nx
  <2>12. QED
    BY <1>1, <1>4, <2>1, <2>9, <2>10, <2>11, RecvLeads
<1>7. ASSUME r # root PROVE Leads(y, r, L, Point(J, S, H), Point(J, T, H))
  <2> DEFINE slots == Ins(n)
  <2>1. Gives(slots, r, pv, L, J, S)
    <3> SUFFICES ASSUME NEW c, Count(S, pv, c), NEW i \in 1 .. Len(slots)
        PROVE  Value(J, r, slots[i], L[r][pv][c + i])
      BY DEF Gives
    <3>1. c = 0 /\ i \in 1 .. n /\ c + i = i
      BY <1>4, <1>7 DEF Count
    <3>2. slots[i] = i - 1 /\ i - 1 \in 0 .. (n - 1) /\ i - 1 \in Written
      BY <1>4, <1>5, <3>1
    <3>3. L[r][pv][i] = Reduced(Upstream(r, root), i - 1)
      BY <1>7, <3>1
    <3>4. QED
      BY <3>1, <3>2, <3>3 DEF Value
  <2>2. y.parts = {SendPart(pv, slots)} /\ y.copy = {} /\ y.fold = {} /\ Len(slots) = n
    BY <1>4 DEF Send, Step
  <2>3. Gains(S, T, pv, n)
    BY <1>7
  <2>4. \A s \in DOMAIN J : s \in Written
    BY <1>5
  <2> HIDE DEF y, slots, pv
  <2>5. QED
    BY <1>1, <1>4, <2>1, <2>2, <2>3, <2>4, LeavesAll, SendLeads
<1>8. ASSUME nx = root PROVE K = J /\ G = H /\ r # root
  <2>1. Upstream(r, root) = {r}
    BY <1>8, UpstreamFacts
  <2>2. QED
    BY <1>1, <1>8, <2>1, ReducedFacts
<1>9. nx # root => Ran(take, r, L, Point(K, S, G), Point(J, S, H))
  BY <1>6, RanOne
<1>10. r # root => Ran(<<y>>, r, L, Point(J, S, H), Point(J, T, H))
  BY <1>7, RanOne
<1> HIDE DEF x, y, take, nx
<1>11. CASE r = root
  <2>1. nx # root
    BY <1>1, <1>11
  <2>2. QED
    BY <1>2, <1>9, <1>11, <2>1
<1>12. CASE r # root /\ nx # root
  BY <1>2, <1>3, <1>9, <1>10, <1>12, RanThen
<1>13. CASE r # root /\ nx = root
  <2>1. Ran(<<>>, r, L, Point(J, S, H), Point(J, S, H))
    BY RanNone
  <2>2. QED
    BY <1>2, <1>3, <1>8, <1>10, <1>13, <2>1, RanThen
<1>14. QED
  BY <1>11, <1>12, <1>13

(* What the entry of a Reduce of n chunks makes known.                      *)
LEMMA OpensAll ==
  ASSUME NEW n \in 1 .. N, NEW r
  PROVE  LET entry == {<<In(i), Own(i)>> : i \in 0 .. (n - 1)}
         IN  Unique(entry) /\ Opens(entry, r, [i \in 0 .. (n - 1) |-> Operand(r, i)])
<1> DEFINE entry == {<<In(i), Own(i)>> : i \in 0 .. (n - 1)}
           K == [i \in 0 .. (n - 1) |-> Operand(r, i)]
<1>1. \A i \in 0 .. (n - 1) : /\ i \in Ranks /\ i \in Written /\ In(i) = i
                              /\ Own(i) \notin Written /\ Own(i) - 2 * N = i
  BY InsFacts, Slots DEF In
<1>2. Unique(entry)
  BY DEF Unique, In
<1>3. ASSUME NEW s \in DOMAIN K
      PROVE  s \in Written /\ \E c \in entry : c[1] = s /\ c[2] \notin Written /\ K[s] = Operand(r, c[2] - 2 * N)
  <2> DEFINE c == <<In(s), Own(s)>>
  <2>1. c \in entry /\ c[1] = s /\ c[2] = Own(s) /\ K[s] = Operand(r, s)
    BY <1>1
  <2>2. s \in Written /\ Own(s) \notin Written /\ Own(s) - 2 * N = s
    BY <1>1
  <2> HIDE DEF c, entry, K
  <2>3. QED
    BY <2>1, <2>2
<1> HIDE DEF entry, K
<1>4. Opens(entry, r, K)
  BY <1>3 DEF Opens
<1>5. QED
  BY <1>2, <1>4 DEF entry, K

LEMMA RingReduceDelivers ==
  ASSUME NEW r \in Ranks, NEW root \in Ranks, NEW L, NEW promise,
         \A a, b \in Ranks : Same(L, a, b, Reduced(Upstream(a, root), 0)),
         promise = [i \in IF r = root THEN {0} ELSE {} |-> AllOperands(0)]
  PROVE  Delivers(RingReduce(r, root), r, L, promise)
<1> DEFINE nx == Next1(r)
           pv == Prev1(r)
           n == 1
           code == RingReduceOf(n, r, root)
           steps == code.steps
           entry == {<<In(i), Own(i)>> : i \in 0 .. (n - 1)}
           K == [i \in 0 .. (n - 1) |-> Operand(r, i)]
           J == [i \in 0 .. (n - 1) |-> Reduced(Upstream(r, root), i)]
           S == Tally(pv, 0)
           T == IF r = root THEN S ELSE Tally(pv, n)
           G == Tally(nx, 0)
           H == IF nx = root THEN G ELSE Tally(nx, n)
<1>1. N \in Nat /\ N >= 2 /\ nx \in Ranks \ {r} /\ pv \in Ranks \ {r} /\ nx \in Ranks /\ pv \in Ranks
  BY RingFacts
<1>2. n \in 1 .. N /\ n \in Nat /\ \A j \in 1 .. n : j - 1 = 0 /\ j \in Nat
  BY <1>1
<1>3. RingReduce(r, root) = code /\ code = Program(entry, steps)
  BY DEF RingReduce, RingReduceOf, Program
<1>4. Unique(entry) /\ Opens(entry, r, K)
  BY <1>2, OpensAll
<1>5. Yields(J, promise)
  <2>1. J[0] = Reduced(Upstream(r, root), 0) /\ 0 \in DOMAIN J
    BY <1>2
  <2>2. r = root => J[0] = AllOperands(0)
    BY <2>1, UpstreamFacts, ReducedFacts
  <2> HIDE DEF J
  <2>3. QED
    BY <2>1, <2>2 DEF Yields
<1>6. Zeros(S) /\ Zeros(G) /\ Whole(S) /\ Whole(H)
  BY <1>1, <1>2, TallyFacts
<1>7. Gains(S, Tally(pv, n), pv, n) /\ Gains(G, Tally(nx, n), nx, n)
      /\ pv \in DOMAIN S /\ S[pv] = 0 /\ nx \in DOMAIN G /\ G[nx] = 0
  <2>1. 0 \in Nat /\ n = 0 + n
    OBVIOUS
  <2>2. Gains(S, Tally(pv, n), pv, n) /\ Gains(G, Tally(nx, n), nx, n)
    BY <1>2, <2>1, TallyFacts
  <2>3. QED
    BY <2>2 DEF Tally
<1>8. /\ \A j \in 1 .. n : L[nx][r][j] = Reduced(Upstream(nx, root), j - 1)
      /\ \A j \in 1 .. n : L[r][pv][j] = Reduced(Upstream(r, root), j - 1)
  BY <1>1, <1>2 DEF Same
<1>9. K = [i \in 0 .. (n - 1) |-> Operand(r, i)] /\ J = [i \in 0 .. (n - 1) |-> Reduced(Upstream(r, root), i)]
  OBVIOUS
<1>10. (IF nx = root THEN H = G ELSE nx \in DOMAIN G /\ G[nx] = 0 /\ Gains(G, H, nx, n))
       /\ (IF r = root THEN T = S ELSE pv \in DOMAIN S /\ S[pv] = 0 /\ Gains(S, T, pv, n))
  BY <1>7
<1> HIDE DEF n, K, J, S, T, G, H, entry
<1>11. Ran(steps, r, L, Point(K, S, G), Point(J, T, H))
  BY <1>2, <1>6, <1>8, <1>9, <1>10, ReduceRan
<1> HIDE DEF steps, code
<1>12. QED
  BY <1>3, <1>4, <1>5, <1>6, <1>11, ProgramDelivers

LEMMA RingReduceScatterDelivers ==
  ASSUME NEW r \in Ranks, NEW L, NEW promise,
         \A a, b \in Ranks : \A j \in 1 .. N :
           L[a][b][j] = IF a # 0 /\ b = Prev1(a) THEN Reduced(Upstream(a, 0), j - 1)
                                                 ELSE AllOperands(Ahead(a, j)),
         promise = Holds({0}, AllOperands(r))
  PROVE  Delivers(RingReduceScatter(r), r, L, promise)
<1> DEFINE nx == Next1(r)
           pv == Prev1(r)
           reduce == RingReduceOf(N, r, 0)
           source == [i \in Ranks |-> In(i)]
           V == [i \in Ranks |-> AllOperands(i)]
           scatter == RingScatterFrom(r, 0, source)
           entry == {<<In(i), Own(i)>> : i \in 0 .. (N - 1)}
           K == [i \in 0 .. (N - 1) |-> Operand(r, i)]
           J == [i \in 0 .. (N - 1) |-> Reduced(Upstream(r, 0), i)]
           Q == Holds({0}, AllOperands(r))
<1>1. /\ N \in Nat /\ N >= 2 /\ nx \in Ranks \ {r} /\ pv \in Ranks \ {r} /\ nx \in Ranks /\ pv \in Ranks
      /\ Ranks = 0 .. (N - 1) /\ 0 \in Ranks /\ r \in Nat
  <2>1. /\ N \in Nat /\ N >= 2 /\ nx \in Ranks \ {r} /\ pv \in Ranks \ {r} /\ nx \in Ranks /\ pv \in Ranks
        /\ Ranks = 0 .. (N - 1)
    BY RingFacts
  <2> HIDE DEF nx, pv
  <2>2. 0 \in Ranks /\ r \in Nat
    BY <2>1
  <2>3. QED
    BY <2>1, <2>2
<1>2. N \in 1 .. N /\ 0 \in Written /\ {0} \subseteq Written /\ (\A j \in 1 .. (N - 1) : j \in 1 .. N)
  BY <1>1, Slots, InsOne
<1>3. RingReduceScatter(r) = Program(entry, reduce.steps \o scatter.steps)
  BY DEF RingReduceScatter, RingReduceOf, Program
<1>4. Unique(entry) /\ Opens(entry, r, K)
  BY <1>2, OpensAll
<1>5. nx # pv \/ (N = 2 /\ (r = 0 \/ nx = 0))
  <2>1. CASE N >= 3
    BY <2>1, RingFacts
  <2>2. CASE N = 2
    <3>1. r = 0 \/ r = 1
      BY <1>1, <2>2
    <3>2. r = 1 => nx = 0
      BY <2>2, RingFacts
    <3>3. QED
      BY <2>2, <3>1, <3>2
  <2>3. QED
    BY <1>1, <2>1, <2>2
<1>6. Prev1(nx) = r /\ Next1(pv) = r /\ (nx # pv => Prev1(pv) # r)
  <2>1. Prev1(nx) = r /\ Next1(pv) = r
    BY RingFacts
  <2>2. nx # pv => Prev1(pv) # r
    <3>1. Next1(Prev1(pv)) = pv
      BY <1>1, RingFacts
    <3>2. QED
      BY <3>1
  <2>3. QED
    BY <2>1, <2>2
<1>7. nx # 0 => \A j \in 1 .. N : L[nx][r][j] = Reduced(Upstream(nx, 0), j - 1)
  BY <1>1, <1>6
<1>8. r # 0 => \A j \in 1 .. N : L[r][pv][j] = Reduced(Upstream(r, 0), j - 1)
  BY <1>1
<1>9. r # 0 => \A j \in 1 .. N : L[pv][r][j] = AllOperands(Ahead(pv, j))
  <2>1. r # 0 => ~(pv # 0 /\ r = Prev1(pv))
    <3>1. CASE nx # pv
      BY <1>6, <3>1
    <3>2. CASE nx = pv
      BY <1>5, <3>2
    <3>3. QED
      BY <3>1, <3>2
  <2>2. QED
    BY <1>1, <2>1
<1>10. r = 0 \/ nx # 0 => \A j \in 1 .. N : L[r][nx][j] = AllOperands(Ahead(r, j))
  <2>1. r = 0 \/ nx # 0 => ~(r # 0 /\ nx = Prev1(r))
    BY <1>5
  <2>2. QED
    BY <1>1, <2>1
<1>11. \A a \in Ranks : \A j \in 1 .. N : V[Ahead(a, j)] = AllOperands(Ahead(a, j))
  <2>1. \A a \in Ranks : \A j \in 1 .. N : Ahead(a, j) \in Ranks
    <3>1. \A j \in 1 .. N : j \in 0 .. N
      BY <1>1
    <3>2. QED
      BY <3>1, TurnsFacts
  <2>2. QED
    BY <2>1
<1>12. K = [i \in 0 .. (N - 1) |-> Operand(r, i)] /\ J = [i \in 0 .. (N - 1) |-> Reduced(Upstream(r, 0), i)]
  OBVIOUS
<1>13. Yields(Q, promise)
  BY DEF Yields
<1>14. /\ Zeros(Tally(nx, 0)) /\ Whole(Tally(nx, 0)) /\ Whole(Tally(nx, N)) /\ Whole(NoTally)
       /\ Gains(Tally(nx, 0), Tally(nx, N), nx, N)
  <2>1. 0 \in Nat /\ N = 0 + N
    BY <1>1
  <2>2. Gains(Tally(nx, 0), Tally(nx, N), nx, N)
    BY <1>1, <2>1, TallyFacts
  <2>3. QED
    BY <1>1, <2>1, <2>2, TallyFacts
<1>15. CASE r = 0
  <2> DEFINE S == Tally(nx, 0)
             G == Tally(nx, N)
             T == Tally(nx, N - 1)
  <2>1. nx # 0 /\ nx \in DOMAIN S /\ S[nx] = 0
    BY <1>1, <1>15 DEF Tally
  <2>2. (IF nx = 0 THEN G = S
         ELSE /\ \A j \in 1 .. N : L[nx][r][j] = Reduced(Upstream(nx, 0), j - 1)
              /\ nx \in DOMAIN S /\ S[nx] = 0 /\ Gains(S, G, nx, N))
        /\ (IF r = 0 THEN S = S
            ELSE /\ \A j \in 1 .. N : L[r][pv][j] = Reduced(Upstream(r, 0), j - 1)
                 /\ pv \in DOMAIN S /\ S[pv] = 0 /\ Gains(S, S, pv, N))
    BY <1>7, <1>14, <1>15, <2>1
  <2> HIDE DEF S, G
  <2>3. Whole(S) /\ Whole(G) /\ Zeros(S)
    BY <1>14 DEF S, G
  <2>4. Ran(reduce.steps, r, L, Point(K, S, S), Point(J, S, G))
    <3> HIDE DEF K, J
    <3>1. QED
      BY <1>1, <1>2, <1>12, <2>2, <2>3, ReduceRan
  <2>5. /\ DOMAIN J = Ranks /\ InWritten(J)
        /\ \A i \in Ranks : J[i] = AllOperands(i) /\ Value(J, 0, source[i], V[i])
    <3>1. DOMAIN J = Ranks
      BY <1>1
    <3>2. InWritten(J)
      BY <3>1, OwnFacts DEF InWritten
    <3>3. ASSUME NEW i \in Ranks PROVE J[i] = AllOperands(i)
      BY <1>1, <1>15, UpstreamFacts, ReducedFacts
    <3> HIDE DEF J
    <3>4. ASSUME NEW i \in Ranks PROVE Value(J, 0, source[i], V[i])
      <4>1. source[i] = i /\ i \in Written /\ V[i] = AllOperands(i)
        BY OwnFacts
      <4>2. QED
        BY <3>1, <3>3, <4>1 DEF Value
    <3>5. QED
      BY <3>1, <3>2, <3>3, <3>4
  <2>6. \A j \in 1 .. (N - 1) : L[0][Next1(0)][j] = V[Ahead(0, j)]
    BY <1>2, <1>10, <1>11, <1>15
  <2> HIDE DEF J, K, source, V
  <2>7. Ran(RingScatterFrom(0, 0, source).steps, 0, L, Point(J, Tally(Next1(0), 0), G),
            Point(J, Tally(Next1(0), N - 1), G))
    BY <1>1, <2>3, <2>5, <2>6, ScatterRootRan
  <2>8. Ran(scatter.steps, r, L, Point(J, S, G), Point(J, T, G))
    BY <1>15, <2>7 DEF S
  <2>9. Yields(J, promise)
    BY <1>1, <1>15, <2>5 DEF Yields, Holds
  <2> HIDE DEF reduce, scatter, T, entry
  <2>10. Ran(reduce.steps \o scatter.steps, r, L, Point(K, S, S), Point(J, T, G))
    BY <2>4, <2>8, RanThen
  <2>11. QED
    BY <1>3, <1>4, <2>3, <2>9, <2>10, ProgramDelivers
<1>16. CASE r # 0
  <2> DEFINE Z == [q \in {nx, pv} |-> 0]
             T == [q \in {nx, pv} |-> IF q = pv THEN N ELSE 0]
             H == IF nx = 0 THEN Z ELSE [q \in {nx, pv} |-> IF q = nx THEN N ELSE 0]
             S == IF nx = 0 THEN NoTally ELSE Tally(nx, 0)
             G == Tally(pv, 0)
  <2>1. nx \in DOMAIN Z /\ pv \in DOMAIN Z /\ Z[nx] = 0 /\ Z[pv] = 0
    OBVIOUS
  <2>2. Zeros(Z) /\ Whole(Z) /\ Whole(H)
    <3> HIDE DEF nx, pv
    <3>1. Zeros(Z)
      BY <1>1 DEF Zeros
    <3>2. Whole(Z)
      BY DEF Whole
    <3> DEFINE A == [q \in {nx, pv} |-> IF q = nx THEN N ELSE 0]
    <3>3. Whole(A)
      BY <1>1 DEF Whole
    <3> HIDE DEF A, Z
    <3>4. H = IF nx = 0 THEN Z ELSE A
      BY DEF Z, A
    <3> HIDE DEF H
    <3>5. QED
      BY <3>1, <3>2, <3>3, <3>4
  <2>3. Gains(Z, T, pv, N) /\ (nx # 0 => Gains(Z, H, nx, N))
    <3> HIDE DEF nx, pv
    <3>1. \A q \in {nx, pv} : Z[q] = 0 /\ T[q] = 0 + (IF q = pv THEN N ELSE 0)
      BY <1>1
    <3>2. DOMAIN Z = {nx, pv} /\ DOMAIN T = {nx, pv}
      OBVIOUS
    <3> DEFINE A == [q \in {nx, pv} |-> IF q = nx THEN N ELSE 0]
    <3>3. DOMAIN A = {nx, pv} /\ \A q \in {nx, pv} : A[q] = 0 + (IF q = nx THEN N ELSE 0)
      BY <1>1
    <3>4. nx # 0 => H = A
      OBVIOUS
    <3> HIDE DEF A, T, Z, H
    <3>5. Gains(Z, T, pv, N)
      BY <3>1, <3>2 DEF Gains
    <3>6. Gains(Z, A, nx, N)
      BY <3>1, <3>2, <3>3 DEF Gains
    <3>7. QED
      BY <3>4, <3>5, <3>6
  <2>4. (IF nx = 0 THEN H = Z
         ELSE /\ \A j \in 1 .. N : L[nx][r][j] = Reduced(Upstream(nx, 0), j - 1)
              /\ nx \in DOMAIN Z /\ Z[nx] = 0 /\ Gains(Z, H, nx, N))
        /\ (IF r = 0 THEN T = Z
            ELSE /\ \A j \in 1 .. N : L[r][pv][j] = Reduced(Upstream(r, 0), j - 1)
                 /\ pv \in DOMAIN Z /\ Z[pv] = 0 /\ Gains(Z, T, pv, N))
    BY <1>7, <1>8, <1>16, <2>1, <2>3
  <2>5. Covers(Point(J, T, H), Point(J, S, G))
    <3>1. nx # 0 => nx # pv
      BY <1>5, <1>16
    <3>2. \A q \in DOMAIN S : q \in DOMAIN T /\ S[q] = T[q]
      BY <3>1 DEF NoTally, Tally
    <3>3. \A q \in DOMAIN G : q \in DOMAIN H /\ G[q] = H[q]
      BY <3>1 DEF Tally
    <3> HIDE DEF J, T, H, S, G
    <3>4. QED
      BY <3>2, <3>3 DEF Covers, Point
  <2>6. Ran(reduce.steps, r, L, Point(K, Z, Z), Point(J, T, H))
    <3> HIDE DEF K, J, Z, T, H
    <3>1. QED
      BY <1>1, <1>2, <1>12, <2>2, <2>4, ReduceRan
  <2>7. Whole(S) /\ (nx # 0 => S = Tally(nx, 0))
    BY <1>14
  <2>8. /\ nx # 0 => \A j \in 1 .. (N - 1) : L[r][nx][j] = V[Ahead(r, j)]
        /\ \A j \in 1 .. (N - 1) : L[pv][r][j] = V[Ahead(pv, j)]
    <3> HIDE DEF V, pv, nx
    <3>1. \A j \in 1 .. (N - 1) : V[Ahead(r, j)] = AllOperands(Ahead(r, j)) /\ V[Ahead(pv, j)] = AllOperands(Ahead(pv, j))
      BY <1>1, <1>2, <1>11
    <3>2. \A j \in 1 .. (N - 1) : L[pv][r][j] = V[Ahead(pv, j)]
      BY <1>2, <1>9, <1>16, <3>1
    <3>3. nx # 0 => \A j \in 1 .. (N - 1) : L[r][nx][j] = V[Ahead(r, j)]
      BY <1>2, <1>10, <3>1
    <3>4. QED
      BY <3>2, <3>3
  <2>9. V[r] = AllOperands(r)
    OBVIOUS
  <2> HIDE DEF J, K, source, V, S, T, H, Z
  <2>10. PICK A, B : Ran(RingScatterFrom(r, 0, source).steps, r, L,
                         Point(J, S, Tally(Prev1(r), 0)), Point(Holds({0}, V[r]), A, B))
    BY <1>1, <1>16, <2>7, <2>8, ScatterOtherRan
  <2>11. Ran(scatter.steps, r, L, Point(J, S, G), Point(Q, A, B))
    BY <2>9, <2>10
  <2>12. Len(scatter.steps) # 0
    BY <1>1, <1>16, ScatterOther DEF ChainSays
  <2> HIDE DEF reduce, scatter, G, Q, entry
  <2>13. Ran(scatter.steps, r, L, Point(J, T, H), Point(Q, A, B))
    BY <2>5, <2>11, <2>12, RanCovers
  <2>14. Ran(reduce.steps \o scatter.steps, r, L, Point(K, Z, Z), Point(Q, A, B))
    BY <2>6, <2>13, RanThen
  <2>15. QED
    BY <1>3, <1>4, <1>13, <2>2, <2>14, ProgramDelivers
<1>17. QED
  BY <1>15, <1>16

(* r and the k ranks behind it.                                             *)
Trail(r, k) == {Behind(r, i) : i \in 0 .. k}

LEMMA TrailFacts ==
  ASSUME NEW r \in Ranks
  PROVE  /\ Trail(r, 0) = {r} /\ Trail(r, N - 1) = Ranks
         /\ \A k \in 0 .. (N - 1) : Trail(r, k) \subseteq Ranks
         /\ \A k \in 1 .. (N - 1) : /\ Behind(r, k) \in Ranks
                                    /\ Trail(r, k) = Trail(r, k - 1) \cup {Behind(r, k)}
                                    /\ Behind(r, k) \notin Trail(r, k - 1)
                                    /\ Behind(r, k) # Behind(r, k - 1) /\ Behind(r, k - 1) \in Trail(r, k - 1)
                                    /\ Trail(r, k) = Trail(Prev1(r), k - 1) \cup {r}
                                    /\ r \notin Trail(Prev1(r), k - 1)
<1>1. N \in Nat /\ N >= 2 /\ r \in 0 .. (N - 1) /\ Ranks = 0 .. (N - 1) /\ Prev1(r) \in Ranks
  BY RingFacts DEF Ranks
<1>2. \A k \in 0 .. N : /\ Behind(r, k) = IF r - k < 0 THEN (r - k) + N ELSE r - k
                        /\ Behind(r, k) \in Ranks
  BY TurnsFacts
<1>3. \A i, k \in 0 .. (N - 1) : Behind(r, i) = Behind(r, k) => i = k
  <2> SUFFICES ASSUME NEW i \in 0 .. (N - 1), NEW k \in 0 .. (N - 1), Behind(r, i) = Behind(r, k)
      PROVE  i = k
    OBVIOUS
  <2>1. i \in 0 .. N /\ k \in 0 .. N
    BY <1>1
  <2>2. Behind(r, i) = (IF r - i < 0 THEN (r - i) + N ELSE r - i)
        /\ Behind(r, k) = IF r - k < 0 THEN (r - k) + N ELSE r - k
    BY <1>2, <2>1
  <2> DEFINE x == Behind(r, i)
  <2> DEFINE y == Behind(r, k)
  <2>3. x = (IF r - i < 0 THEN (r - i) + N ELSE r - i) /\ y = (IF r - k < 0 THEN (r - k) + N ELSE r - k)
        /\ x = y
    BY <2>2
  <2> HIDE DEF x, y
  <2>4. i \in 0 .. (N - 1) /\ k \in 0 .. (N - 1)
    OBVIOUS
  <2>5. QED
    BY ONLY <1>1, <2>3, <2>4
<1>4. \A k \in 0 .. (N - 1) : Trail(r, k) \subseteq Ranks
  <2> SUFFICES ASSUME NEW k \in 0 .. (N - 1), NEW i \in 0 .. k PROVE Behind(r, i) \in Ranks
    BY DEF Trail
  <2>1. i \in 0 .. N
    BY <1>1
  <2>2. QED
    BY <1>2, <2>1
<1>5. Trail(r, 0) = {r}
  <2>1. 0 .. 0 = {0} /\ Behind(r, 0) = r
    BY TurnsFacts
  <2>2. QED
    BY <2>1 DEF Trail
<1>6. Trail(r, N - 1) = Ranks
  <2>1. ASSUME NEW q \in Ranks PROVE q \in Trail(r, N - 1)
    <3> DEFINE k == IF q <= r THEN r - q ELSE (r - q) + N
    <3>1. k \in 0 .. (N - 1) /\ k \in 0 .. N /\ q = IF r - k < 0 THEN (r - k) + N ELSE r - k
      BY <1>1
    <3> HIDE DEF k
    <3>2. Behind(r, k) = q
      BY <1>2, <3>1
    <3>3. QED
      BY <3>1, <3>2 DEF Trail
  <2>2. N - 1 \in 0 .. (N - 1)
    BY <1>1
  <2>3. QED
    BY <1>4, <2>1, <2>2
<1>7. ASSUME NEW k \in 1 .. (N - 1)
      PROVE  /\ Behind(r, k) \in Ranks
             /\ Trail(r, k) = Trail(r, k - 1) \cup {Behind(r, k)}
             /\ Behind(r, k) \notin Trail(r, k - 1)
             /\ Behind(r, k) # Behind(r, k - 1) /\ Behind(r, k - 1) \in Trail(r, k - 1)
             /\ Trail(r, k) = Trail(Prev1(r), k - 1) \cup {r}
             /\ r \notin Trail(Prev1(r), k - 1)
  <2>1. /\ k \in 0 .. N /\ k \in 0 .. (N - 1) /\ k - 1 \in 0 .. (N - 1) /\ k - 1 # k /\ k - 1 \in 0 .. (k - 1)
        /\ 0 .. k = (0 .. (k - 1)) \cup {k} /\ 0 .. k = {0} \cup (1 .. k)
    BY <1>1
  <2>2. Trail(r, k) = Trail(r, k - 1) \cup {Behind(r, k)}
    BY <2>1 DEF Trail
  <2>3. ASSUME NEW i \in 0 .. (k - 1) PROVE Behind(r, i) # Behind(r, k)
    <3>1. i \in 0 .. (N - 1) /\ i # k
      BY <1>1
    <3>2. QED
      BY <1>3, <2>1, <3>1
  <2>4. \A i \in 0 .. (k - 1) : Behind(Prev1(r), i) = Behind(r, i + 1) /\ i + 1 \in 1 .. k
    <3> SUFFICES ASSUME NEW i \in 0 .. (k - 1)
        PROVE  Behind(Prev1(r), i) = Behind(r, i + 1) /\ i + 1 \in 1 .. k
      OBVIOUS
    <3>1. i + 1 \in 1 .. N /\ (i + 1) - 1 = i /\ i + 1 \in 1 .. k
      BY <1>1
    <3>2. Behind(Prev1(r), (i + 1) - 1) = Behind(r, i + 1)
      BY <3>1, TurnsFacts
    <3>3. QED
      BY <3>1, <3>2
  <2>5. Trail(Prev1(r), k - 1) = {Behind(r, i) : i \in 1 .. k}
    <3>1. ASSUME NEW i \in 1 .. k PROVE \E h \in 0 .. (k - 1) : Behind(r, i) = Behind(Prev1(r), h)
      <4>1. i - 1 \in 0 .. (k - 1) /\ (i - 1) + 1 = i
        BY <1>1
      <4>2. QED
        BY <2>4, <4>1
    <3>2. QED
      BY <2>4, <3>1 DEF Trail
  <2>6. Trail(r, k) = Trail(Prev1(r), k - 1) \cup {Behind(r, 0)}
    BY <2>1, <2>5 DEF Trail
  <2>7. ASSUME NEW i \in 1 .. k PROVE Behind(r, i) # Behind(r, 0)
    <3>1. i \in 0 .. (N - 1) /\ i # 0 /\ 0 \in 0 .. (N - 1)
      BY <1>1
    <3>2. QED
      BY <1>3, <3>1
  <2>8. Behind(r, 0) = r
    BY TurnsFacts
  <2>9. Behind(r, k - 1) \in Trail(r, k - 1)
    BY <2>1 DEF Trail
  <2>10. QED
    BY <1>2, <2>1, <2>2, <2>3, <2>5, <2>6, <2>7, <2>8, <2>9 DEF Trail
<1>8. QED
  BY <1>4, <1>5, <1>6, <1>7

(* Chunk (r - s) mod N and the one behind it, as the rounds of the ring     *)
(* write them.                                                              *)
LEMMA RoundChunks ==
  ASSUME NEW r \in Ranks, NEW k \in 1 .. (N - 1)
  PROVE  /\ (r - (k - 1) + N) % N = Behind(r, k - 1)
         /\ (r - (k - 1) + N - 1) % N = Behind(r, k)
         /\ (r - (k - 1) + 1 + N) % N = Behind(Next1(r), k - 1)
<1>1. N \in Nat /\ N >= 2 /\ r \in 0 .. (N - 1)
  BY RingFacts DEF Ranks
<1>2. (r - (k - 1) + N) % N = Behind(r, k - 1)
  BY DEF Behind
<1>3. (r - (k - 1) + N - 1) % N = Behind(r, k)
  <2>1. r - (k - 1) + N - 1 = r - k + N
    BY <1>1
  <2>2. QED
    BY <2>1 DEF Behind
<1>4. (r - (k - 1) + 1 + N) % N = Behind(Next1(r), k - 1)
  <2>1. CASE k = 1
    <3> DEFINE z == r + 1 + N
    <3>1. r - (k - 1) + 1 + N = z
      BY <1>1, <2>1
    <3>2. Behind(Next1(r), k - 1) = Next1(r) /\ Next1(r) = IF r = N - 1 THEN 0 ELSE r + 1
      BY <2>1, RingFacts, TurnsFacts
    <3>3. z = N + (r + 1) /\ r + 1 \in Nat
      BY <1>1
    <3>4. (N + (r + 1)) % N = (r + 1) % N
      <4> DEFINE y == r + 1
      <4>1. y \in 0 .. N
        BY <1>1
      <4> HIDE DEF y
      <4>2. (N + y) % N = y % N
        BY <1>1, <4>1
      <4>3. QED
        BY <4>2 DEF y
    <3>5. (r + 1) % N = Next1(r)
      BY DEF Next1
    <3> HIDE DEF z
    <3>6. QED
      BY <3>1, <3>2, <3>3, <3>4, <3>5
  <2>2. CASE k # 1
    <3>1. k - 1 \in 1 .. N /\ (k - 1) - 1 = k - 2 /\ k - 2 \in 0 .. N
      BY <1>1, <2>2
    <3>2. r - (k - 1) + 1 + N = r - (k - 2) + N
      BY <1>1
    <3>3. Behind(Prev1(Next1(r)), (k - 1) - 1) = Behind(Next1(r), k - 1) /\ Prev1(Next1(r)) = r
      BY <3>1, RingFacts, TurnsFacts
    <3>4. QED
      BY <3>1, <3>2, <3>3 DEF Behind
  <2>3. QED
    BY <2>1, <2>2
<1>5. QED
  BY <1>2, <1>3, <1>4

LEMMA RingAllGatherDelivers ==
  ASSUME NEW r \in Ranks, NEW L, NEW promise,
         \A a, b \in Ranks : \A j \in 1 .. N : L[a][b][j] = Operand(Behind(a, j - 1), 0),
         promise = [i \in Ranks |-> Operand(i, 0)]
  PROVE  Delivers(RingAllGather(r), r, L, promise)
<1> DEFINE nx == Next1(r)
           pv == Prev1(r)
           send(s) == Send(nx, <<In((r - s + N) % N)>>)
           recv(s) == Recv(pv, <<In((r - s + N - 1) % N)>>)
           turn(s) == IF r % 2 = 0 THEN <<send(s), recv(s)>> ELSE <<recv(s), send(s)>>
           R == [k \in 1 .. (N - 1) |-> turn(k - 1)]
           v == [i \in Ranks |-> Operand(i, 0)]
           K(k) == [s \in Trail(r, k) |-> v[s]]
           g == [k \in 0 .. (N - 1) |-> Point(K(k), Tally(nx, k), Tally(pv, k))]
           entry == {<<In(r), Own(0)>>}
<1>1. /\ N \in Nat /\ N >= 2 /\ N - 1 \in Nat /\ 0 \in Ranks
      /\ nx \in Ranks \ {r} /\ pv \in Ranks \ {r}
  BY RingFacts, WorldSizeAssumption, Slots
<1>2. RingAllGather(r) = Program(entry, Joined(R))
  BY DEF RingAllGather
<1>3. ASSUME NEW k \in 1 .. (N - 1) PROVE Ran(R[k], r, L, g[k - 1], g[k])
  <2> DEFINE b == Behind(r, k - 1)
             c == Behind(r, k)
             A == K(k - 1)
             M == K(k)
  <2>1. /\ k - 1 \in 0 .. (N - 1) /\ k \in 0 .. (N - 1) /\ k \in 1 .. N /\ k - 1 \in Nat
        /\ k \in Nat /\ k = (k - 1) + 1
    BY <1>1
  <2>2. g[k - 1] = Point(A, Tally(nx, k - 1), Tally(pv, k - 1)) /\ g[k] = Point(M, Tally(nx, k), Tally(pv, k))
    BY <2>1
  <2>3. /\ b \in Trail(r, k - 1) /\ c \in Ranks /\ Trail(r, k) = Trail(r, k - 1) \cup {c}
        /\ Trail(r, k) \subseteq Ranks /\ Trail(r, k - 1) \subseteq Ranks /\ c \notin Trail(r, k - 1)
    BY <2>1, TrailFacts
  <2>4. (r - (k - 1) + N) % N = b /\ (r - (k - 1) + N - 1) % N = c
    BY RoundChunks
  <2>5. send(k - 1) = Send(nx, <<b>>) /\ recv(k - 1) = Recv(pv, <<c>>)
    BY <2>4 DEF In
  <2>6. \A s \in Ranks : s \in Written /\ v[s] = Operand(s, 0)
    BY Slots DEF In
  <2>7. L[r][nx][k] = v[b]
    BY <1>1, <2>1, <2>3, <2>6
  <2>8. L[pv][r][k] = v[c]
    <3>1. L[pv][r][k] = Operand(Behind(pv, k - 1), 0)
      BY <1>1, <2>1
    <3>2. Behind(pv, k - 1) = c
      BY <2>1, TurnsFacts
    <3>3. QED
      BY <2>3, <2>6, <3>1, <3>2
  <2>9. /\ InWritten(A) /\ InWritten(M) /\ Value(A, r, b, v[b]) /\ Value(M, r, b, v[b])
        /\ Puts(A, c, v[c], M)
    BY <2>3, <2>6 DEF InWritten, Value, Puts
  <2>10. R[k] = IF r % 2 = 0 THEN <<send(k - 1), recv(k - 1)>> ELSE <<recv(k - 1), send(k - 1)>>
    OBVIOUS
  <2> DEFINE x == send(k - 1)
             y == recv(k - 1)
  <2>11. /\ x.parts = {SendPart(nx, <<b>>)} /\ y.parts = {RecvPart(pv, <<c>>)}
         /\ x.copy = {} /\ x.fold = {} /\ y.copy = {} /\ y.fold = {}
    BY <2>5 DEF Send, Recv, Step
  <2>12. Leaves(x, r, A, A) /\ Leaves(x, r, M, M) /\ Leaves(y, r, M, M)
    <3> HIDE DEF x, y, A, M
    <3>1. QED
      BY <2>11, LeavesAll
  <2>13. Due(Tally(nx, k - 1), r, nx, L, v[b]) /\ Comes(Tally(pv, k - 1), pv, r, L, v[c])
    BY <2>1, <2>7, <2>8, SureFacts
  <2>14. /\ Gains(Tally(nx, k - 1), Tally(nx, k), nx, 1) /\ Gains(Tally(pv, k - 1), Tally(pv, k), pv, 1)
         /\ Whole(Tally(nx, k - 1)) /\ Whole(Tally(nx, k)) /\ Whole(Tally(pv, k - 1)) /\ Whole(Tally(pv, k))
    BY <2>1, TallyFacts
  <2> HIDE DEF x, y, A, M, b, c, v, g, R, nx, pv, send, recv
  <2>15. CASE r % 2 = 0
    <3>1. Leads(x, r, L, Point(A, Tally(nx, k - 1), Tally(pv, k - 1)), Point(A, Tally(nx, k), Tally(pv, k - 1)))
      BY <1>1, <2>9, <2>11, <2>12, <2>13, <2>14, SendOne
    <3>2. Leads(y, r, L, Point(A, Tally(nx, k), Tally(pv, k - 1)), Point(M, Tally(nx, k), Tally(pv, k)))
      BY <1>1, <2>3, <2>6, <2>9, <2>11, <2>12, <2>13, <2>14, RecvOne
    <3>3. R[k] = <<x, y>>
      BY <2>10, <2>15 DEF x, y
    <3>4. QED
      BY <2>2, <3>1, <3>2, <3>3, RanTwo
  <2>16. CASE r % 2 # 0
    <3>1. Leads(y, r, L, Point(A, Tally(nx, k - 1), Tally(pv, k - 1)), Point(M, Tally(nx, k - 1), Tally(pv, k)))
      BY <1>1, <2>3, <2>6, <2>9, <2>11, <2>12, <2>13, <2>14, RecvOne
    <3>2. Leads(x, r, L, Point(M, Tally(nx, k - 1), Tally(pv, k)), Point(M, Tally(nx, k), Tally(pv, k)))
      BY <1>1, <2>9, <2>11, <2>12, <2>13, <2>14, SendOne
    <3>3. R[k] = <<y, x>>
      BY <2>10, <2>16 DEF x, y
    <3>4. QED
      BY <2>2, <3>1, <3>2, <3>3, RanTwo
  <2>17. QED
    BY <2>15, <2>16
<1>4. R = [k \in 1 .. (N - 1) |-> R[k]]
  OBVIOUS
<1>5. /\ g[0] = Point(K(0), Tally(nx, 0), Tally(pv, 0))
      /\ g[N - 1] = Point(K(N - 1), Tally(nx, N - 1), Tally(pv, N - 1))
  BY <1>1
<1> HIDE DEF R, g
<1>6. Ran(Joined(R), r, L, g[0], g[N - 1])
  BY <1>1, <1>3, <1>4, RanRounds
<1>7. Unique(entry) /\ Opens(entry, r, K(0))
  <2>1. K(0) = Holds({r}, Operand(r, 0)) /\ In(r) = r /\ r \in Written
    BY OwnFacts, TrailFacts DEF Holds
  <2>2. entry = {<<r, Own(0)>>} /\ Unique(entry)
    BY <2>1, UniqueOne
  <2>3. Opens({<<r, Own(0)>>}, r, Holds({r}, Operand(r, 0)))
    BY <1>1, <2>1, OpensOwn
  <2> HIDE DEF K, entry
  <2>4. QED
    BY <2>1, <2>2, <2>3
<1>8. Yields(K(N - 1), promise)
  BY TrailFacts DEF Yields
<1>9. Zeros(Tally(nx, 0)) /\ Zeros(Tally(pv, 0))
  BY <1>1, TallyFacts
<1> HIDE DEF K, entry
<1>10. QED
  BY <1>2, <1>5, <1>6, <1>7, <1>8, <1>9, ProgramDelivers

(* What has come into the temporary buffer beside the n chunks of K.        *)
Beside(n, K, V, M) ==
  /\ InWritten(M) /\ TakesUp(Tmps(n), K, V, M)
  /\ \A s \in DOMAIN K : s \in DOMAIN M /\ M[s] = K[s]
  /\ \A i \in 0 .. (n - 1) : Tmp(i) \in DOMAIN M /\ M[Tmp(i)] = V[i + 1]

LEMMA TheirsBeside ==
  ASSUME NEW n \in 1 .. N, NEW K, DOMAIN K \subseteq Ranks, NEW V
  PROVE  \E M : Beside(n, K, V, M)
<1> DEFINE D == {N + i : i \in 0 .. (n - 1)}
           M == [s \in (DOMAIN K) \cup D |-> IF s \in D THEN V[(s - N) + 1] ELSE K[s]]
           theirs == Tmps(n)
<1>1. N \in Nat /\ N >= 2 /\ n \in Nat /\ Ranks = 0 .. (N - 1)
  BY WorldSizeAssumption DEF Ranks
<1>2. /\ Len(theirs) = n
      /\ \A i \in 1 .. n : i - 1 \in Ranks /\ theirs[i] = Tmp(i - 1)
      /\ \A i \in 0 .. (n - 1) : i \in Ranks /\ i + 1 \in 1 .. n
  BY InsFacts
<1>3. /\ \A i \in 0 .. (n - 1) : Tmp(i) \in Written /\ Tmp(i) = N + i /\ i \in Nat
      /\ \A s \in DOMAIN K : s \in Written /\ s < N /\ s \in Nat
  BY <1>1, <1>2, Slots DEF In
<1>4. /\ \A i \in 0 .. (n - 1) : N + i \in D /\ (N + i) - N = i
      /\ \A s \in DOMAIN K : s \notin D
  BY <1>1, <1>3
<1>5. \A s \in D : \E i \in 0 .. (n - 1) : s = N + i
  OBVIOUS
<1>6. DOMAIN M = (DOMAIN K) \cup D
  OBVIOUS
<1> HIDE DEF D
<1>7. \A i \in 0 .. (n - 1) : N + i \in DOMAIN M
  BY <1>4
<1>8. \A s \in DOMAIN K : s \in DOMAIN M /\ M[s] = K[s]
  BY <1>4
<1>9. ASSUME NEW i \in 0 .. (n - 1) PROVE M[N + i] = V[i + 1]
  <2>1. N + i \in D /\ (N + i) - N = i
    BY <1>4
  <2>2. M[N + i] = V[((N + i) - N) + 1]
    BY <2>1
  <2>3. QED
    BY <2>1, <2>2
<1> HIDE DEF M, theirs
<1>10. InWritten(M)
  <2> SUFFICES ASSUME NEW s \in DOMAIN M PROVE s \in Written
    BY DEF InWritten
  <2>1. CASE s \in D
    BY <1>3, <1>5, <2>1
  <2>2. CASE s \notin D
    BY <1>3, <1>6, <2>2
  <2>3. QED
    BY <2>1, <2>2
<1>11. TakesUp(theirs, K, V, M)
  <2> SUFFICES ASSUME NEW s \in DOMAIN M
      PROVE  /\ s \in Written
             /\ \/ \E i \in 1 .. Len(theirs) : theirs[i] = s /\ M[s] = V[i]
                \/ s \in DOMAIN K /\ M[s] = K[s] /\ \A i \in 1 .. Len(theirs) : theirs[i] # s
    BY DEF TakesUp
  <2>0. s \in Written
    BY <1>10 DEF InWritten
  <2>1. CASE s \in D
    <3>1. PICK i \in 0 .. (n - 1) : s = N + i
      BY <1>5, <2>1
    <3>2. i + 1 \in 1 .. n /\ (i + 1) - 1 = i /\ Tmp(i) = N + i
      BY <1>2, <1>3
    <3>3. theirs[i + 1] = s
      BY <1>2, <3>1, <3>2
    <3>4. M[s] = V[i + 1]
      BY <1>9, <3>1
    <3>5. QED
      BY <1>2, <2>0, <3>2, <3>3, <3>4
  <2>2. CASE s \notin D
    <3>1. s \in DOMAIN K
      BY <1>6, <2>2
    <3>2. s \in DOMAIN K /\ M[s] = K[s]
      BY <1>8, <3>1
    <3>3. ASSUME NEW i \in 1 .. Len(theirs) PROVE theirs[i] # s
      <4>1. i - 1 \in 0 .. (n - 1) /\ theirs[i] = Tmp(i - 1)
        BY <1>2
      <4>2. theirs[i] = N + (i - 1)
        BY <1>3, <4>1
      <4>3. QED
        BY <1>1, <1>3, <3>1, <4>1, <4>2
    <3>4. QED
      BY <2>0, <3>2, <3>3
  <2>3. QED
    BY <2>1, <2>2
<1>12. \A i \in 0 .. (n - 1) : Tmp(i) \in DOMAIN M /\ M[Tmp(i)] = V[i + 1]
  BY <1>3, <1>7, <1>9
<1>13. QED
  <2>1. Beside(n, K, V, M)
    BY <1>8, <1>10, <1>11, <1>12 DEF theirs, Beside
  <2>2. QED
    BY <2>1

(* Two ranks that swap n chunks and reduce, whichever of them sends first.  *)
LEMMA SwapRan ==
  ASSUME NEW n \in 1 .. N, NEW r \in Ranks, NEW p \in Ranks \ {r}, NEW L,
         NEW F, F = {<<In(i), Tmp(i)>> : i \in 0 .. (n - 1)},
         NEW K, DOMAIN K = 0 .. (n - 1), NEW V, NEW J, DOMAIN J = 0 .. (n - 1),
         \A i \in 0 .. (n - 1) : J[i] = K[i] (+) V[i + 1],
         NEW S, NEW T, NEW G, NEW H, Whole(S), Whole(T), Whole(G), Whole(H),
         p \in DOMAIN S, S[p] = 0, Gains(S, T, p, n), p \in DOMAIN G, G[p] = 0, Gains(G, H, p, n),
         \A i \in 1 .. n : L[r][p][i] = K[i - 1] /\ L[p][r][i] = V[i]
  PROVE  /\ Ran(<<Send(p, Ins(n)), RecvFold(p, Tmps(n), F)>>, r, L, Point(K, S, G), Point(J, T, H))
         /\ Ran(<<Recv(p, Tmps(n)), Step({SendPart(p, Ins(n))}, {}, F)>>, r, L,
                Point(K, S, G), Point(J, T, H))
<1> DEFINE mine == Ins(n)
           theirs == Tmps(n)
           a == Send(p, mine)
           b == RecvFold(p, theirs, F)
           c == Recv(p, theirs)
           d == Step({SendPart(p, mine)}, {}, F)
<1>1. PICK M : /\ InWritten(M) /\ TakesUp(theirs, K, V, M)
               /\ \A i \in 0 .. (n - 1) : /\ i \in DOMAIN M /\ M[i] = K[i]
                                          /\ Tmp(i) \in DOMAIN M /\ M[Tmp(i)] = V[i + 1]
  <2>1. DOMAIN K \subseteq Ranks
    BY InsFacts
  <2>2. PICK M : Beside(n, K, V, M)
    BY <2>1, TheirsBeside
  <2>3. QED
    BY <2>2 DEF Beside
<1>2. /\ Len(theirs) = n /\ Len(mine) = n /\ n \in Nat \ {0} /\ n \in Nat /\ Vacant(theirs)
      /\ \A i \in 1 .. n : i - 1 \in 0 .. (n - 1) /\ mine[i] = In(i - 1) /\ i - 1 \in Ranks
      /\ \A i \in 0 .. (n - 1) : i \in Ranks
  BY InsFacts
<1>3. \A i \in 1 .. n : mine[i] = i - 1 /\ i - 1 \in Written
  BY <1>2, Slots DEF In
<1>4. Unique(F) /\ Folds(F, M, J)
  <2>1. \A i \in 0 .. (n - 1) : i \in DOMAIN M /\ Tmp(i) \in DOMAIN M /\ J[i] = M[i] (+) M[Tmp(i)]
    BY <1>1
  <2>2. QED
    BY ONLY n \in 1 .. N, F = {<<In(i), Tmp(i)>> : i \in 0 .. (n - 1)}, DOMAIN J = 0 .. (n - 1),
            <2>1, FoldFirst
<1>5. /\ a.parts = {SendPart(p, mine)} /\ a.copy = {} /\ a.fold = {}
      /\ b.parts = {RecvPart(p, theirs)} /\ b.copy = {} /\ b.fold = F
      /\ c.parts = {RecvPart(p, theirs)} /\ c.copy = {} /\ c.fold = {}
      /\ d.parts = {SendPart(p, mine)} /\ d.copy = {} /\ d.fold = F
  BY DEF Send, Recv, RecvFold, Step
<1>6. Gives(mine, r, p, L, K, S) /\ Gives(mine, r, p, L, M, S)
  <2>1. ASSUME NEW e, Count(S, p, e), NEW i \in 1 .. Len(mine)
        PROVE  Value(K, r, mine[i], L[r][p][e + i]) /\ Value(M, r, mine[i], L[r][p][e + i])
    <3>1. e = 0 /\ i \in 1 .. n /\ e + i = i
      BY <1>2, <2>1 DEF Count
    <3>2. mine[i] = i - 1 /\ i - 1 \in 0 .. (n - 1) /\ i - 1 \in Written /\ L[r][p][i] = K[i - 1]
      BY <1>2, <1>3, <3>1
    <3>3. i - 1 \in DOMAIN K /\ i - 1 \in DOMAIN M /\ M[i - 1] = K[i - 1]
      BY <1>1, <3>2
    <3>4. QED
      BY <3>1, <3>2, <3>3 DEF Value
  <2>2. QED
    BY <2>1 DEF Gives
<1>7. Takes(theirs, r, p, L, K, G, M)
  <2> SUFFICES ASSUME NEW s \in DOMAIN M
      PROVE  /\ s \in Written
             /\ \/ \E i \in 1 .. Len(theirs) :
                     theirs[i] = s /\ \A e : Count(G, p, e) => M[s] = L[p][r][e + i]
                \/ s \in DOMAIN K /\ M[s] = K[s] /\ \A i \in 1 .. Len(theirs) : theirs[i] # s
    BY DEF Takes
  <2>1. CASE \E i \in 1 .. Len(theirs) : theirs[i] = s /\ M[s] = V[i]
    <3>1. PICK i \in 1 .. Len(theirs) : theirs[i] = s /\ M[s] = V[i]
      BY <2>1
    <3>2. ASSUME NEW e, Count(G, p, e) PROVE M[s] = L[p][r][e + i]
      <4>1. e = 0 /\ i \in 1 .. n /\ e + i = i
        BY <1>2, <3>2 DEF Count
      <4>2. QED
        BY <3>1, <4>1
    <3>3. QED
      BY <1>1, <3>1, <3>2 DEF TakesUp
  <2>2. QED
    BY <1>1, <2>1 DEF TakesUp
<1>8. InWritten(K)
  BY <1>2, Slots DEF InWritten, In
<1> HIDE DEF a, b, c, d, mine, theirs
<1>9. /\ Leaves(a, r, K, K) /\ Leaves(b, r, M, J) /\ Leaves(c, r, M, M) /\ Leaves(d, r, M, J)
  BY <1>4, <1>5, LeavesAll, LeavesFolds
<1>10. Leads(a, r, L, Point(K, S, G), Point(K, T, G))
  BY <1>2, <1>5, <1>6, <1>8, <1>9, SendLeads DEF InWritten
<1>11. Leads(b, r, L, Point(K, T, G), Point(J, T, H))
  BY <1>2, <1>5, <1>7, <1>9, RecvLeads
<1>12. Leads(c, r, L, Point(K, S, G), Point(M, S, H))
  BY <1>2, <1>5, <1>7, <1>9, RecvLeads
<1>13. Leads(d, r, L, Point(M, S, H), Point(J, T, H))
  <2>1. \A s \in DOMAIN M : s \in Written
    BY <1>1 DEF InWritten
  <2>2. QED
    BY ONLY r \in Ranks, p \in Ranks \ {r}, Gains(S, T, p, n), Whole(H),
            <1>2, <1>5, <1>6, <1>9, <2>1, SendLeads
<1>14. Ran(<<a, b>>, r, L, Point(K, S, G), Point(J, T, H)) /\ Ran(<<c, d>>, r, L, Point(K, S, G), Point(J, T, H))
  BY <1>10, <1>11, <1>12, <1>13, RanTwo
<1>15. QED
  BY <1>14 DEF a, b, c, d, mine, theirs

LEMMA RingAllReduceTwoDelivers ==
  ASSUME N = 2, NEW r \in Ranks, NEW L, NEW promise,
         \A a, b \in Ranks : \A j \in 1 .. N : L[a][b][j] = Operand(a, j - 1),
         promise = [i \in Ranks |-> AllOperands(i)]
  PROVE  Delivers(RingAllReduceTwoRanks(r), r, L, promise)
<1> DEFINE p == 1 - r
           n == 2
           F == {<<In(i), Tmp(i)>> : i \in 0 .. (n - 1)}
           entry == {<<In(i), Own(i)>> : i \in 0 .. (n - 1)}
           K == [i \in 0 .. (n - 1) |-> Operand(r, i)]
           V == [i \in 1 .. n |-> Operand(p, i - 1)]
           J == [i \in 0 .. (n - 1) |-> AllOperands(i)]
           first == <<Send(p, Ins(n)), RecvFold(p, Tmps(n), F)>>
           second == <<Recv(p, Tmps(n)), Step({SendPart(p, Ins(n))}, {}, F)>>
           steps == IF r = 0 THEN first ELSE second
<1>1. /\ n \in 1 .. N /\ n \in Nat /\ 0 \in Nat /\ n = 0 + n /\ p \in Ranks \ {r} /\ p \in Ranks
      /\ Ranks = 0 .. (n - 1) /\ Ranks = {r} \cup {p}
  BY DEF Ranks
<1>2. RingAllReduceTwoRanks(r) = Program(entry, steps)
  <2>1. 0 .. (n - 1) = 0 .. 1
    OBVIOUS
  <2>2. QED
    BY <2>1 DEF RingAllReduceTwoRanks
<1>3. \A i \in 0 .. (n - 1) : J[i] = K[i] (+) V[i + 1]
  <2> SUFFICES ASSUME NEW i \in 0 .. (n - 1) PROVE J[i] = K[i] (+) V[i + 1]
    OBVIOUS
  <2>1. i + 1 \in 1 .. n /\ (i + 1) - 1 = i
    OBVIOUS
  <2>2. J[i] = AllOperands(i) /\ K[i] = Operand(r, i) /\ V[i + 1] = Operand(p, i)
    BY <2>1
  <2>3. Reduced({r}, i) (+) Reduced({p}, i) = Reduced({r} \cup {p}, i)
    BY <1>1, ReducedJoin
  <2> HIDE DEF J, K, V, p
  <2>4. QED
    BY <1>1, <2>2, <2>3, ReducedFacts
<1>4. \A i \in 1 .. n : L[r][p][i] = K[i - 1] /\ L[p][r][i] = V[i]
  <2> SUFFICES ASSUME NEW i \in 1 .. n PROVE L[r][p][i] = K[i - 1] /\ L[p][r][i] = V[i]
    OBVIOUS
  <2>1. i \in 1 .. N /\ i - 1 \in 0 .. (n - 1)
    OBVIOUS
  <2>2. K[i - 1] = Operand(r, i - 1) /\ V[i] = Operand(p, i - 1)
    BY <2>1
  <2> HIDE DEF p, K, V
  <2>3. QED
    BY <1>1, <2>1, <2>2
<1>5. /\ Whole(Tally(p, 0)) /\ Whole(Tally(p, n)) /\ Gains(Tally(p, 0), Tally(p, n), p, n)
      /\ Zeros(Tally(p, 0)) /\ p \in DOMAIN Tally(p, 0) /\ Tally(p, 0)[p] = 0
  <2>1. p \in DOMAIN Tally(p, 0) /\ Tally(p, 0)[p] = 0
    BY DEF Tally
  <2> HIDE DEF p, n
  <2>2. QED
    BY <1>1, <2>1, TallyFacts
<1>6. Unique(entry) /\ Opens(entry, r, K)
  BY <1>1, OpensAll
<1>7. Yields(J, promise)
  BY <1>1 DEF Yields
<1>8. DOMAIN K = 0 .. (n - 1) /\ DOMAIN J = 0 .. (n - 1) /\ F = {<<In(i), Tmp(i)>> : i \in 0 .. (n - 1)}
  OBVIOUS
<1> HIDE DEF p, n, F, entry, K, V, J
<1>9. /\ Ran(first, r, L, Point(K, Tally(p, 0), Tally(p, 0)), Point(J, Tally(p, n), Tally(p, n)))
      /\ Ran(second, r, L, Point(K, Tally(p, 0), Tally(p, 0)), Point(J, Tally(p, n), Tally(p, n)))
  <2> DEFINE Z == Tally(p, 0)
             E == Tally(p, n)
  <2>1. n \in 1 .. N /\ p \in Ranks \ {r}
    BY <1>1
  <2>2. Whole(Z) /\ Whole(E) /\ Gains(Z, E, p, n) /\ p \in DOMAIN Z /\ Z[p] = 0
    BY <1>5
  <2> HIDE DEF Z, E
  <2>3. /\ Ran(<<Send(p, Ins(n)), RecvFold(p, Tmps(n), F)>>, r, L, Point(K, Z, Z), Point(J, E, E))
        /\ Ran(<<Recv(p, Tmps(n)), Step({SendPart(p, Ins(n))}, {}, F)>>, r, L,
               Point(K, Z, Z), Point(J, E, E))
    BY ONLY r \in Ranks, <2>1, <2>2, <1>3, <1>4, <1>8, SwapRan
  <2>4. QED
    BY <2>3 DEF first, second, Z, E
<1> HIDE DEF first, second
<1>10. Ran(steps, r, L, Point(K, Tally(p, 0), Tally(p, 0)), Point(J, Tally(p, n), Tally(p, n)))
  BY <1>9
<1> HIDE DEF steps
<1>11. QED
  BY <1>2, <1>5, <1>6, <1>7, <1>10, ProgramDelivers

(* The reducing rounds of an AllReduce: the chunks behind r's own, one      *)
(* after the other, each with all that the ranks behind r put into it.      *)
LEMMA AllReduceFirstRan ==
  ASSUME N >= 3, NEW r \in Ranks, NEW L,
         \A a, b \in Ranks : \A j \in 1 .. (N - 1) : L[a][b][j] = Reduced(Trail(a, j - 1), Behind(a, j - 1))
  PROVE  Ran([s \in 1 .. (N - 1) |-> RingReduceScatterStep(r, s - 1)], r, L,
             Point([s \in Ranks |-> Operand(r, s)], Tally(Next1(r), 0), Tally(Prev1(r), 0)),
             Point([s \in {Next1(r)} |-> AllOperands(s)], Tally(Next1(r), N - 1), Tally(Prev1(r), N - 1)))
<1> DEFINE nx == Next1(r)
           pv == Prev1(r)
           steps == [s \in 1 .. (N - 1) |-> RingReduceScatterStep(r, s - 1)]
           Y(k) == (Ranks \ Trail(r, k)) \cup {Behind(r, k)}
           K(k) == [s \in Y(k) |-> IF s = Behind(r, k) THEN Reduced(Trail(r, k), s) ELSE Operand(r, s)]
           g == [k \in 0 .. (N - 1) |-> Point(K(k), Tally(nx, k), Tally(pv, k))]
<1>1. /\ N \in Nat /\ N >= 2 /\ N - 1 \in Nat /\ 0 \in Ranks
      /\ nx \in Ranks \ {r} /\ pv \in Ranks \ {r} /\ pv # nx /\ Ranks = 0 .. (N - 1)
  <2>1. N \in Nat /\ N >= 2 /\ N - 1 \in Nat /\ 0 \in Ranks
    BY WorldSizeAssumption, Slots
  <2>2. nx \in Ranks \ {r} /\ pv \in Ranks \ {r} /\ pv # nx /\ Ranks = 0 .. (N - 1)
    BY RingFacts
  <2>3. QED
    BY <2>1, <2>2
<1>2. ASSUME NEW k \in 1 .. (N - 1) PROVE Leads(steps[k], r, L, g[k - 1], g[k])
  <2> DEFINE b == Behind(r, k - 1)
             c == Behind(r, k)
             A == K(k - 1)
             J == K(k)
             w == Reduced(Trail(pv, k - 1), c)
             D == Y(k - 1) \cup {N}
             M == [s \in D |-> IF s = N THEN w ELSE A[s]]
             x == steps[k]
  <2>1. /\ k - 1 \in 0 .. (N - 1) /\ k \in 0 .. (N - 1) /\ k \in 1 .. N /\ k - 1 \in Nat
        /\ k \in Nat /\ k = (k - 1) + 1
    BY <1>1
  <2>2. g[k - 1] = Point(A, Tally(nx, k - 1), Tally(pv, k - 1)) /\ g[k] = Point(J, Tally(nx, k), Tally(pv, k))
    BY <2>1
  <2>3. /\ b \in Trail(r, k - 1) /\ c \in Ranks /\ Trail(r, k) = Trail(r, k - 1) \cup {c} /\ b # c
        /\ Trail(r, k) \subseteq Ranks /\ Trail(r, k - 1) \subseteq Ranks /\ c \notin Trail(r, k - 1)
        /\ Trail(r, k) = Trail(pv, k - 1) \cup {r} /\ r \notin Trail(pv, k - 1)
    BY <2>1, TrailFacts
  <2>4. (r - (k - 1) + N) % N = b /\ (r - (k - 1) + N - 1) % N = c
    BY RoundChunks
  <2>5. \A s \in Ranks : s \in Written /\ s # N
    BY <1>1, Slots DEF In
  <2>6. N \in Written
    BY <1>1, Slots DEF Tmp
  <2>7. x.parts = {SendPart(nx, <<b>>), RecvPart(pv, <<N>>)} /\ x.copy = {} /\ x.fold = {<<c, N>>}
    <3>1. x = Step({SendPart(nx, <<b>>), RecvPart(pv, <<N>>)}, {}, {<<c, N>>})
      BY <2>4, InsOne DEF RingReduceScatterStep, In
    <3> HIDE DEF x
    <3>2. QED
      BY <3>1 DEF Step
  <2>8. L[r][nx][k] = Reduced(Trail(r, k - 1), b)
    BY <1>1
  <2>9. L[pv][r][k] = w
    <3>1. L[pv][r][k] = Reduced(Trail(pv, k - 1), Behind(pv, k - 1))
      BY <1>1
    <3>2. Behind(pv, k - 1) = c
      BY <2>1, TurnsFacts
    <3>3. QED
      BY <3>1, <3>2
  <2>10. /\ \A s \in Y(k - 1) : A[s] = IF s = b THEN Reduced(Trail(r, k - 1), s) ELSE Operand(r, s)
         /\ DOMAIN A = Y(k - 1)
         /\ \A s \in Y(k) : J[s] = IF s = c THEN Reduced(Trail(r, k), s) ELSE Operand(r, s)
         /\ DOMAIN J = Y(k)
    OBVIOUS
  <2>11. /\ \A s \in Y(k) : s \in Y(k - 1) /\ s # b /\ s \in Ranks
         /\ \A s \in Y(k - 1) : s \in Ranks
         /\ b \in Y(k - 1) /\ b \in Ranks /\ c \in Y(k)
    BY <2>3
  <2> HIDE DEF A, J, Y
  <2>12. /\ DOMAIN M = Y(k - 1) \cup {N} /\ M[N] = w
         /\ \A s \in Y(k - 1) : s \in DOMAIN M /\ M[s] = A[s]
    BY <2>5, <2>11
  <2> HIDE DEF D, M, w
  <2>13. Value(A, r, b, Reduced(Trail(r, k - 1), b)) /\ b # N
    BY <2>5, <2>10, <2>11 DEF Value
  <2>14. Puts(A, N, w, M)
    BY <2>5, <2>6, <2>10, <2>11, <2>12 DEF Puts
  <2>15. Operand(r, c) (+) w = Reduced(Trail(r, k), c)
    <3>1. Reduced({r}, c) (+) Reduced(Trail(pv, k - 1), c) = Reduced({r} \cup Trail(pv, k - 1), c)
      BY <2>3, ReducedJoin
    <3>2. {r} \cup Trail(pv, k - 1) = Trail(r, k)
      BY <2>3
    <3>3. QED
      BY <3>1, <3>2, ReducedFacts DEF w
  <2>16. Folds(x.fold, M, J)
    <3> SUFFICES ASSUME NEW s \in DOMAIN J
        PROVE  /\ s \in Written /\ s \in DOMAIN M
               /\ \/ \E f \in x.fold : f[1] = s /\ f[2] \in DOMAIN M /\ J[s] = M[s] (+) M[f[2]]
                  \/ (\A f \in x.fold : f[1] # s) /\ J[s] = M[s]
      BY DEF Folds
    <3>1. /\ s \in Y(k) /\ s \in Written /\ s \in DOMAIN M /\ M[s] = Operand(r, s)
          /\ N \in DOMAIN M /\ M[N] = w
      BY <2>5, <2>10, <2>11, <2>12
    <3>2. CASE s = c
      <4> DEFINE f == <<c, N>>
      <4>1. f \in x.fold /\ f[1] = s /\ f[2] = N
        BY <2>7, <3>2
      <4>2. J[s] = M[s] (+) M[N]
        BY <2>10, <2>15, <3>1, <3>2
      <4> HIDE DEF f
      <4>3. QED
        BY <3>1, <4>1, <4>2
    <3>3. CASE s # c
      <4>1. \A f \in x.fold : f[1] = c
        BY <2>7
      <4>2. QED
        BY <2>10, <3>1, <3>3, <4>1
    <3>4. QED
      BY <3>2, <3>3
  <2> HIDE DEF x
  <2>17. Leaves(x, r, M, J)
    BY <2>7, <2>16, UniqueOne, LeavesFolds
  <2>18. Due(Tally(nx, k - 1), r, nx, L, Reduced(Trail(r, k - 1), b)) /\ Comes(Tally(pv, k - 1), pv, r, L, w)
    BY <2>1, <2>8, <2>9, SureFacts
  <2>19. Gains(Tally(nx, k - 1), Tally(nx, k), nx, 1) /\ Gains(Tally(pv, k - 1), Tally(pv, k), pv, 1)
    BY <2>1, TallyFacts
  <2> HIDE DEF b, c, g, nx, pv
  <2>20. Leads(x, r, L, Point(A, Tally(nx, k - 1), Tally(pv, k - 1)), Point(J, Tally(nx, k), Tally(pv, k)))
    BY <1>1, <2>6, <2>7, <2>13, <2>14, <2>17, <2>18, <2>19, BothOne
  <2>21. QED
    BY <2>2, <2>20 DEF x
<1>3. steps = [k \in 1 .. (N - 1) |-> steps[k]]
  OBVIOUS
<1>4. /\ g[0] = Point(K(0), Tally(nx, 0), Tally(pv, 0))
      /\ g[N - 1] = Point(K(N - 1), Tally(nx, N - 1), Tally(pv, N - 1))
  <2>1. 0 \in 0 .. (N - 1) /\ N - 1 \in 0 .. (N - 1)
    BY <1>1
  <2> HIDE DEF K
  <2>2. QED
    BY <2>1
<1> HIDE DEF steps, g
<1>5. Ran(steps, r, L, g[0], g[N - 1])
  BY <1>1, <1>2, <1>3, RanRow
<1>6. K(0) = [s \in Ranks |-> Operand(r, s)]
  <2>1. Trail(r, 0) = {r} /\ Behind(r, 0) = r
    BY TrailFacts, TurnsFacts
  <2>2. Y(0) = Ranks
    BY <2>1
  <2>3. \A s \in Ranks : (IF s = r THEN Reduced({r}, s) ELSE Operand(r, s)) = Operand(r, s)
    BY ReducedFacts
  <2> HIDE DEF Y
  <2>4. QED
    BY <2>1, <2>2, <2>3
<1>7. K(N - 1) = [s \in {nx} |-> AllOperands(s)]
  <2>1. Trail(r, N - 1) = Ranks
    BY TrailFacts
  <2>2. Behind(r, N - 1) = nx
    <3>1. N - 1 \in 0 .. N
      BY <1>1
    <3>2. Behind(r, N - 1) = IF r - (N - 1) < 0 THEN (r - (N - 1)) + N ELSE r - (N - 1)
      BY <3>1, TurnsFacts
    <3>3. nx = IF r = N - 1 THEN 0 ELSE r + 1
      BY RingFacts
    <3> HIDE DEF nx
    <3>4. QED
      BY <1>1, <3>2, <3>3
  <2>3. Y(N - 1) = {nx}
    BY <2>1, <2>2
  <2> HIDE DEF Y
  <2>4. QED
    BY <2>1, <2>2, <2>3, ReducedFacts
<1> HIDE DEF K, Y
<1>8. QED
  BY <1>4, <1>5, <1>6, <1>7 DEF steps

(* The gathering rounds of an AllReduce: each passes a finished chunk on.   *)
LEMMA AllReduceSecondRan ==
  ASSUME N >= 3, NEW r \in Ranks, NEW L,
         \A a, b \in Ranks : \A j \in 1 .. (N - 1) : L[a][b][(N - 1) + j] = AllOperands(Behind(Next1(a), j - 1))
  PROVE  Ran([s \in 1 .. (N - 1) |-> RingAllGatherStep(r, s - 1)], r, L,
             Point([s \in {Next1(r)} |-> AllOperands(s)], Tally(Next1(r), N - 1), Tally(Prev1(r), N - 1)),
             Point([s \in Ranks |-> AllOperands(s)],
                   Tally(Next1(r), (N - 1) + (N - 1)), Tally(Prev1(r), (N - 1) + (N - 1))))
<1> DEFINE nx == Next1(r)
           pv == Prev1(r)
           steps == [s \in 1 .. (N - 1) |-> RingAllGatherStep(r, s - 1)]
           K(k) == [s \in Trail(nx, k) |-> AllOperands(s)]
           g == [k \in 0 .. (N - 1) |-> Point(K(k), Tally(nx, (N - 1) + k), Tally(pv, (N - 1) + k))]
<1>1. /\ N \in Nat /\ N >= 2 /\ N - 1 \in Nat /\ 0 \in Ranks
      /\ nx \in Ranks \ {r} /\ pv \in Ranks \ {r} /\ pv # nx /\ nx \in Ranks /\ pv \in Ranks
      /\ Prev1(nx) = r /\ Next1(pv) = r
  <2>1. N \in Nat /\ N >= 2 /\ N - 1 \in Nat /\ 0 \in Ranks
    BY WorldSizeAssumption, Slots
  <2>2. nx \in Ranks \ {r} /\ pv \in Ranks \ {r} /\ pv # nx /\ nx \in Ranks /\ pv \in Ranks
        /\ Prev1(nx) = r /\ Next1(pv) = r
    BY RingFacts
  <2>3. QED
    BY <2>1, <2>2
<1>2. ASSUME NEW k \in 1 .. (N - 1) PROVE Leads(steps[k], r, L, g[k - 1], g[k])
  <2> DEFINE b == Behind(nx, k - 1)
             c == Behind(nx, k)
             A == K(k - 1)
             M == K(k)
             n == (N - 1) + (k - 1)
             m == (N - 1) + k
             x == steps[k]
  <2>1. /\ k - 1 \in 0 .. (N - 1) /\ k \in 0 .. (N - 1) /\ k \in 1 .. N
        /\ n \in Nat /\ m \in Nat /\ m = n + 1 /\ n + 1 = (N - 1) + k
    BY <1>1
  <2>2. g[k - 1] = Point(A, Tally(nx, n), Tally(pv, n)) /\ g[k] = Point(M, Tally(nx, m), Tally(pv, m))
    BY <2>1
  <2>3. /\ b \in Trail(nx, k - 1) /\ c \in Ranks /\ Trail(nx, k) = Trail(nx, k - 1) \cup {c}
        /\ Trail(nx, k) \subseteq Ranks /\ Trail(nx, k - 1) \subseteq Ranks /\ c # b
        /\ c \notin Trail(nx, k - 1)
    BY <1>1, <2>1, TrailFacts
  <2>4. Behind(r, k - 1) = c
    BY <1>1, <2>1, TurnsFacts
  <2>5. (r - (k - 1) + 1 + N) % N = b /\ (r - (k - 1) + N) % N = c
    BY <2>4, RoundChunks
  <2>6. \A s \in Ranks : s \in Written
    BY Slots DEF In
  <2>7. x.parts = {SendPart(nx, <<b>>), RecvPart(pv, <<c>>)} /\ x.copy = {} /\ x.fold = {}
    <3>1. x = Step({SendPart(nx, <<b>>), RecvPart(pv, <<c>>)}, {}, {})
      BY <2>5 DEF RingAllGatherStep, In
    <3> HIDE DEF x
    <3>2. QED
      BY <3>1 DEF Step
  <2>8. L[r][nx][n + 1] = AllOperands(b)
    <3>1. L[r][nx][(N - 1) + k] = AllOperands(Behind(nx, k - 1))
      BY <1>1
    <3>2. QED
      BY <2>1, <3>1
  <2>9. L[pv][r][n + 1] = AllOperands(c)
    <3>1. L[pv][r][(N - 1) + k] = AllOperands(Behind(Next1(pv), k - 1))
      BY <1>1
    <3>2. QED
      BY <1>1, <2>1, <2>4, <3>1
  <2>10. Value(A, r, b, AllOperands(b)) /\ Puts(A, c, AllOperands(c), M)
    BY <2>3, <2>6 DEF Value, Puts
  <2> HIDE DEF x, A, M
  <2>11. Leaves(x, r, M, M)
    BY <2>7, LeavesAll
  <2> HIDE DEF n, m
  <2>12. Due(Tally(nx, n), r, nx, L, AllOperands(b)) /\ Comes(Tally(pv, n), pv, r, L, AllOperands(c))
    BY <2>1, <2>8, <2>9, SureFacts
  <2>13. Gains(Tally(nx, n), Tally(nx, m), nx, 1) /\ Gains(Tally(pv, n), Tally(pv, m), pv, 1)
    BY <2>1, TallyFacts
  <2>14. c \in Written
    BY <2>3, <2>6
  <2> HIDE DEF b, c, g, nx, pv
  <2>15. Leads(x, r, L, Point(A, Tally(nx, n), Tally(pv, n)), Point(M, Tally(nx, m), Tally(pv, m)))
    BY <1>1, <2>3, <2>7, <2>10, <2>11, <2>12, <2>13, <2>14, BothOne
  <2>16. QED
    BY <2>2, <2>15 DEF x
<1>3. steps = [k \in 1 .. (N - 1) |-> steps[k]]
  OBVIOUS
<1>4. /\ g[0] = Point(K(0), Tally(nx, (N - 1) + 0), Tally(pv, (N - 1) + 0))
      /\ g[N - 1] = Point(K(N - 1), Tally(nx, (N - 1) + (N - 1)), Tally(pv, (N - 1) + (N - 1)))
      /\ (N - 1) + 0 = N - 1
  BY <1>1
<1> HIDE DEF steps, g
<1>5. Ran(steps, r, L, g[0], g[N - 1])
  BY <1>1, <1>2, <1>3, RanRow
<1>6. K(0) = [s \in {nx} |-> AllOperands(s)] /\ K(N - 1) = [s \in Ranks |-> AllOperands(s)]
  BY <1>1, TrailFacts
<1> HIDE DEF K
<1>7. QED
  BY <1>4, <1>5, <1>6 DEF steps

LEMMA RingAllReduceDelivers ==
  ASSUME NEW r \in Ranks, NEW L, NEW promise,
         \A a, b \in Ranks : \A j \in 1 .. (2 * N) :
           L[a][b][j] = IF N = 2 THEN Operand(a, j - 1)
                        ELSE IF j < N
                        THEN Reduced({Behind(a, k) : k \in 0 .. (j - 1)}, Behind(a, j - 1))
                        ELSE AllOperands(Behind(Next1(a), j - N)),
         promise = [i \in Ranks |-> AllOperands(i)]
  PROVE  Delivers(RingAllReduce(r), r, L, promise)
<1>1. N \in Nat /\ N >= 2 /\ Ranks = 0 .. (N - 1)
  BY WorldSizeAssumption DEF Ranks
<1>2. CASE N = 2
  <2>1. \A a, b \in Ranks : \A j \in 1 .. N : L[a][b][j] = Operand(a, j - 1)
    BY <1>2
  <2>2. RingAllReduce(r) = RingAllReduceTwoRanks(r)
    BY <1>2 DEF RingAllReduce
  <2>3. QED
    BY <1>2, <2>1, <2>2, RingAllReduceTwoDelivers
<1>3. CASE N # 2
  <2> DEFINE nx == Next1(r)
             pv == Prev1(r)
             entry == {<<In(i), Own(i)>> : i \in Ranks}
             s == [k \in 1 .. (N - 1) |-> RingReduceScatterStep(r, k - 1)]
             t == [k \in 1 .. (N - 1) |-> RingAllGatherStep(r, k - 1)]
             K == [i \in Ranks |-> Operand(r, i)]
             H == [i \in {nx} |-> AllOperands(i)]
             J == [i \in Ranks |-> AllOperands(i)]
             n == N - 1
             m == (N - 1) + (N - 1)
  <2>1. N >= 3
    BY <1>1, <1>3
  <2>2. RingAllReduce(r) = Program(entry, s \o t)
    BY <1>3 DEF RingAllReduce
  <2>3. \A a, b \in Ranks : \A j \in 1 .. (N - 1) : L[a][b][j] = Reduced(Trail(a, j - 1), Behind(a, j - 1))
    <3> SUFFICES ASSUME NEW a \in Ranks, NEW b \in Ranks, NEW j \in 1 .. (N - 1)
        PROVE  L[a][b][j] = Reduced(Trail(a, j - 1), Behind(a, j - 1))
      OBVIOUS
    <3>1. j \in 1 .. (2 * N) /\ j < N
      BY <1>1
    <3>2. QED
      BY <1>3, <3>1 DEF Trail
  <2>4. \A a, b \in Ranks : \A j \in 1 .. (N - 1) :
          L[a][b][(N - 1) + j] = AllOperands(Behind(Next1(a), j - 1))
    <3> SUFFICES ASSUME NEW a \in Ranks, NEW b \in Ranks, NEW j \in 1 .. (N - 1)
        PROVE  L[a][b][(N - 1) + j] = AllOperands(Behind(Next1(a), j - 1))
      OBVIOUS
    <3> DEFINE i == (N - 1) + j
    <3>1. i \in 1 .. (2 * N) /\ ~(i < N) /\ i - N = j - 1
      BY <1>1
    <3> HIDE DEF i
    <3>2. L[a][b][i] = AllOperands(Behind(Next1(a), i - N))
      BY <1>3, <3>1
    <3>3. QED
      BY <3>1, <3>2 DEF i
  <2>5. Ran(s, r, L, Point(K, Tally(nx, 0), Tally(pv, 0)), Point(H, Tally(nx, n), Tally(pv, n)))
    BY <2>1, <2>3, AllReduceFirstRan
  <2>6. Ran(t, r, L, Point(H, Tally(nx, n), Tally(pv, n)), Point(J, Tally(nx, m), Tally(pv, m)))
    BY <2>1, <2>4, AllReduceSecondRan
  <2>7. Unique(entry) /\ Opens(entry, r, K)
    <3>1. N \in 1 .. N
      BY <1>1
    <3>2. QED
      BY <1>1, <3>1, OpensAll
  <2>8. Yields(J, promise)
    BY DEF Yields
  <2>9. Zeros(Tally(nx, 0)) /\ Zeros(Tally(pv, 0))
    BY RingFacts, TallyFacts
  <2> HIDE DEF nx, pv, entry, s, t, K, H, J, n, m
  <2>10. Ran(s \o t, r, L, Point(K, Tally(nx, 0), Tally(pv, 0)), Point(J, Tally(nx, m), Tally(pv, m)))
    BY <2>5, <2>6, RanThen
  <2>11. QED
    BY <2>2, <2>7, <2>8, <2>9, <2>10, ProgramDelivers
<1>4. QED
  BY <1>2, <1>3

-----------------------------------------------------------------------------
(* m goes q times into a.                                                   *)
GoesInto(m, a, q) == m * q <= a /\ a < m * q + m

LEMMA Quotient ==
  ASSUME NEW m \in Nat \ {0}, NEW a \in Int, NEW q \in Int, GoesInto(m, a, q)
  PROVE  a \div m = q /\ a % m = a - m * q
<1> DEFINE c == a \div m
           d == a % m
<1>1. c \in Int /\ d \in 0 .. (m - 1) /\ a = m * c + d
  OBVIOUS
<1> HIDE DEF c, d
<1>2. m * q <= a /\ a < m * q + m
  BY DEF GoesInto
<1>3. c = q
  BY <1>1, <1>2, SMTT(60)
<1>4. QED
  BY <1>1, <1>3 DEF c, d

(* The sources before src that are not q.                                   *)
TurnsBefore(q, src) == IF src <= q THEN src ELSE src - 1

LEMMA TurnsBeforeFacts ==
  ASSUME NEW q \in Ranks
  PROVE  /\ TurnsBefore(q, 0) = 0
         /\ \A src \in 0 .. N : TurnsBefore(q, src) \in Nat
         /\ TurnsBefore(q, q + 1) = TurnsBefore(q, q)
         /\ \A src \in Ranks \ {q} :
              LET t == TurnsBefore(q, src)
              IN  /\ TurnsBefore(q, src + 1) = t + 1
                  /\ (IF t < q THEN t ELSE t + 1) = src
<1>1. N \in Nat /\ N >= 2 /\ q \in 0 .. (N - 1) /\ Ranks = 0 .. (N - 1)
  BY WorldSizeAssumption DEF Ranks
<1>2. QED
  BY <1>1 DEF TurnsBefore

(* The chunks a rank passes on: source by source, each from the first.      *)
PassedOn(L) ==
  \A a, b \in Ranks : \A j \in Nat :
    L[a][b][j] = LET turn == (j - 1) \div N
                 IN  Operand(IF turn < Next1(a) THEN turn ELSE turn + 1, (j - 1) % N)

LEMMA PassedOnAt ==
  ASSUME NEW L, PassedOn(L), NEW a \in Ranks, NEW src \in Ranks \ {Next1(a)}, NEW i \in 1 .. N
  PROVE  L[a][Next1(a)][N * TurnsBefore(Next1(a), src) + i] = Operand(src, i - 1)
<1> DEFINE nx == Next1(a)
           t == TurnsBefore(nx, src)
           w == N * t
           j == w + i
           e == j - 1
<1>1. N \in Nat \ {0} /\ N \in Nat /\ nx \in Ranks /\ src \in 0 .. N
  BY RingFacts, WorldSizeAssumption DEF Ranks
<1>2. t \in Nat /\ (IF t < nx THEN t ELSE t + 1) = src
  BY <1>1, TurnsBeforeFacts
<1> HIDE DEF t, nx
<1>3. w \in Nat
  BY <1>1, <1>2
<1>4. j \in Nat /\ e \in Int /\ GoesInto(N, e, t) /\ e - N * t = i - 1
  <2> HIDE DEF w
  <2>1. j \in Nat /\ e \in Int /\ w <= e /\ e < w + N /\ e - w = i - 1
    BY <1>1, <1>3
  <2>2. QED
    BY <2>1 DEF GoesInto, w
<1> HIDE DEF j, e
<1>5. e \div N = t /\ e % N = i - 1
  BY <1>1, <1>2, <1>4, Quotient
<1>6. L[a][nx][j] = LET turn == (j - 1) \div N
                    IN  Operand(IF turn < Next1(a) THEN turn ELSE turn + 1, (j - 1) % N)
  BY <1>1, <1>4 DEF PassedOn
<1>7. L[a][nx][j] = LET turn == e \div N
                    IN  Operand(IF turn < nx THEN turn ELSE turn + 1, e % N)
  BY <1>6 DEF e, nx
<1>8. L[a][nx][j] = Operand(src, i - 1)
  BY <1>2, <1>5, <1>7
<1>9. QED
  BY <1>8 DEF j, w, t, nx

(* The rank keeps its chunk of the source whose buffer has come.            *)
LEMMA KeepsOne ==
  ASSUME NEW r \in Ranks, NEW src \in Ranks, NEW x, x.copy = {<<In(src), Tmp(r)>>}, x.fold = {},
         NEW M, NEW K, NEW J, DOMAIN J = (DOMAIN K) \cup {src}, \A s \in DOMAIN K : s \in Written,
         \A s \in DOMAIN K : s \in DOMAIN M /\ (s # src => J[s] = M[s]),
         Tmp(r) \in DOMAIN M, J[src] = M[Tmp(r)]
  PROVE  Leaves(x, r, M, J)
<1> DEFINE c == <<In(src), Tmp(r)>>
<1>1. In(src) = src /\ src \in Written /\ Tmp(r) \in Written
  BY Slots
<1>2. c[1] = src /\ c[2] = Tmp(r) /\ c \in x.copy /\ \A d \in x.copy : d = c
  BY <1>1
<1> HIDE DEF c
<1>3. Value(M, r, Tmp(r), J[src])
  BY <1>1 DEF Value
<1>4. Copies(x.copy, r, M, J)
  <2> SUFFICES ASSUME NEW s \in DOMAIN J
      PROVE  /\ s \in Written
             /\ \/ \E d \in x.copy : d[1] = s /\ Value(M, r, d[2], J[s])
                \/ (\A d \in x.copy : d[1] # s) /\ s \in DOMAIN M /\ J[s] = M[s]
    BY DEF Copies
  <2>1. CASE s = src
    BY <1>1, <1>2, <1>3, <2>1
  <2>2. CASE s # src
    BY <1>2, <2>2
  <2>3. QED
    BY <2>1, <2>2
<1>5. QED
  BY <1>4, UniqueOne, LeavesCopies

(* The round of source src in a ring AllToAll: the chunks of the sources    *)
(* before src are kept, and those of src come and go.                       *)
Whole1 == [i \in 1 .. N |-> Own(i - 1)]
SourceSteps(r, src) ==
  LET keep == {<<In(src), Tmp(r)>>}
  IN  IF r = src THEN <<Step({SendPart(Next1(r), Whole1)}, {<<In(src), Own(r)>>}, {})>>
      ELSE IF Next1(r) = src THEN <<RecvCopy(Prev1(r), Tmps(N), keep)>>
      ELSE <<Recv(Prev1(r), Tmps(N)), Step({SendPart(Next1(r), Tmps(N))}, keep, {})>>
KeptBefore(r, k) == [s \in {r} \cup {q \in Ranks : q < k} |-> Operand(s, r)]
AllToAllPoint(r, k) ==
  Point(KeptBefore(r, k), Tally(Next1(r), N * TurnsBefore(Next1(r), k)),
        Tally(Prev1(r), N * TurnsBefore(r, k)))

LEMMA AllToAllRound ==
  ASSUME NEW r \in Ranks, NEW L, PassedOn(L), NEW src \in Ranks
  PROVE  Ran(SourceSteps(r, src), r, L, AllToAllPoint(r, src), AllToAllPoint(r, src + 1))
<1> DEFINE x == SourceSteps(r, src)
           K == KeptBefore(r, src)
           J == KeptBefore(r, src + 1)
           whole == Whole1
           keep == {<<In(src), Tmp(r)>>}
           nx == Next1(r)
           pv == Prev1(r)
           theirs == Tmps(N)
           a == N * TurnsBefore(nx, src)
           b == N * TurnsBefore(nx, src + 1)
           c == N * TurnsBefore(r, src)
           d == N * TurnsBefore(r, src + 1)
           V == [i \in 1 .. N |-> Operand(src, i - 1)]
<1>1. /\ N \in Nat /\ N \in Nat \ {0} /\ N \in 1 .. N /\ Ranks = 0 .. (N - 1)
      /\ src \in 0 .. N /\ src + 1 \in 0 .. N
  BY WorldSizeAssumption DEF Ranks
<1>2. nx \in Ranks \ {r} /\ pv \in Ranks \ {r} /\ Next1(pv) = r /\ nx \in Ranks /\ pv \in Ranks
  BY RingFacts
<1>3. \A m \in Nat : N * m \in Nat /\ N * (m + 1) = N * m + N
  BY <1>1
<1>4. a \in Nat /\ b \in Nat /\ (IF src = nx THEN b = a ELSE b = a + N)
  <2> DEFINE m == TurnsBefore(nx, src)
             l == TurnsBefore(nx, src + 1)
  <2>1. m \in Nat /\ l \in Nat /\ (IF src = nx THEN l = m ELSE l = m + 1)
    BY <1>1, <1>2, TurnsBeforeFacts
  <2> HIDE DEF m, l
  <2>2. N * m \in Nat /\ N * l \in Nat /\ N * (m + 1) = N * m + N
    BY <1>3, <2>1
  <2>3. a = N * m /\ b = N * l
    BY DEF m, l
  <2> HIDE DEF a, b
  <2>4. QED
    BY <2>1, <2>2, <2>3
<1>5. c \in Nat /\ d \in Nat /\ (IF src = r THEN d = c ELSE d = c + N)
  <2> DEFINE m == TurnsBefore(r, src)
             l == TurnsBefore(r, src + 1)
  <2>1. m \in Nat /\ l \in Nat /\ (IF src = r THEN l = m ELSE l = m + 1)
    BY <1>1, TurnsBeforeFacts
  <2> HIDE DEF m, l
  <2>2. N * m \in Nat /\ N * l \in Nat /\ N * (m + 1) = N * m + N
    BY <1>3, <2>1
  <2>3. c = N * m /\ d = N * l
    BY DEF m, l
  <2> HIDE DEF c, d
  <2>4. QED
    BY <2>1, <2>2, <2>3
<1>6. /\ src # nx => \A i \in 1 .. N : L[r][nx][a + i] = Operand(src, i - 1)
      /\ src # r => \A i \in 1 .. N : L[pv][r][c + i] = Operand(src, i - 1)
  BY <1>2, PassedOnAt
<1>7. /\ DOMAIN J = (DOMAIN K) \cup {src} /\ DOMAIN K \subseteq Ranks /\ J[src] = Operand(src, r)
      /\ \A s \in DOMAIN K : s \in DOMAIN J /\ J[s] = K[s]
  <2> DEFINE A == {r} \cup {q \in Ranks : q < src}
             B == {r} \cup {q \in Ranks : q < src + 1}
  <2>1. B = A \cup {src} /\ A \subseteq Ranks
    BY <1>1
  <2>2. K = [s \in A |-> Operand(s, r)] /\ J = [s \in B |-> Operand(s, r)]
    BY DEF KeptBefore
  <2> HIDE DEF A, B, K, J
  <2>3. QED
    BY <2>1, <2>2
<1>8. \A s \in Ranks : s \in Written
  BY Slots DEF In
<1>9. InWritten(K) /\ \A s \in DOMAIN K : s \in Written
  BY <1>7, <1>8 DEF InWritten
<1>10. /\ Len(theirs) = N /\ Vacant(theirs)
       /\ \A i \in 1 .. N : i - 1 \in Ranks /\ i - 1 \in 0 .. (N - 1) /\ theirs[i] = Tmp(i - 1)
  BY <1>1, InsFacts
<1>11. /\ Whole(Tally(nx, a)) /\ Whole(Tally(nx, b)) /\ Whole(Tally(pv, c)) /\ Whole(Tally(pv, d))
  BY <1>4, <1>5, TallyFacts
<1> HIDE DEF nx, pv, theirs, a, b, c, d, x, K, J, whole, keep
<1>12. CASE r = src
  <2> DEFINE y == Step({SendPart(nx, whole)}, {<<In(src), Own(r)>>}, {})
  <2>1. y.parts = {SendPart(nx, whole)} /\ y.copy = {<<In(src), Own(r)>>} /\ y.fold = {}
    BY DEF Step
  <2>2. Len(whole) = N /\ \A i \in 1 .. N : whole[i] = Own(i - 1)
    BY <1>1 DEF whole, Whole1
  <2> HIDE DEF y
  <2>3. Leaves(y, r, K, J)
    <3> DEFINE e == <<In(src), Own(r)>>
    <3>1. e \in y.copy /\ e[1] = src /\ e[2] = Own(r) /\ \A f \in y.copy : f = e
      BY <2>1 DEF In
    <3>2. Value(K, r, Own(r), J[src])
      BY <1>7, <1>12, OwnFacts
    <3> HIDE DEF e
    <3>3. Copies(y.copy, r, K, J)
      <4> SUFFICES ASSUME NEW s \in DOMAIN J
          PROVE  /\ s \in Written
                 /\ \/ \E f \in y.copy : f[1] = s /\ Value(K, r, f[2], J[s])
                    \/ (\A f \in y.copy : f[1] # s) /\ s \in DOMAIN K /\ J[s] = K[s]
        BY DEF Copies
      <4>1. CASE s = src
        BY <1>8, <3>1, <3>2, <4>1
      <4>2. CASE s # src
        <5>1. s \in DOMAIN K /\ J[s] = K[s] /\ s \in Written
          BY <1>7, <1>9, <4>2
        <5>2. QED
          BY <3>1, <4>2, <5>1
      <4>3. QED
        BY <4>1, <4>2
    <3>4. QED
      BY <2>1, <3>3, UniqueOne, LeavesCopies
  <2>4. \A i \in 1 .. Len(whole) : Value(K, r, whole[i], L[r][nx][a + i])
    <3> SUFFICES ASSUME NEW i \in 1 .. N PROVE Value(K, r, whole[i], L[r][nx][a + i])
      BY <2>2
    <3>1. whole[i] = Own(i - 1) /\ i - 1 \in Ranks /\ L[r][nx][a + i] = Operand(r, i - 1)
      BY <1>2, <1>6, <1>10, <1>12, <2>2
    <3>2. QED
      BY <3>1, OwnFacts
  <2>5. b = a + N /\ d = c
    BY <1>2, <1>4, <1>5, <1>12
  <2>6. Leads(y, r, L, Point(K, Tally(nx, a), Tally(pv, c)), Point(J, Tally(nx, b), Tally(pv, c)))
    BY ONLY r \in Ranks, <1>1, <1>2, <1>4, <1>9, <1>11, <2>1, <2>2, <2>3, <2>4, <2>5, SendTally
  <2>7. x = <<y>>
    BY <1>12 DEF x, y, nx, whole, SourceSteps
  <2>8. Ran(x, r, L, Point(K, Tally(nx, a), Tally(pv, c)), Point(J, Tally(nx, b), Tally(pv, d)))
    BY <2>5, <2>6, <2>7, RanOne
  <2>9. QED
    BY <2>8 DEF x, nx, pv, a, b, c, d, K, J, AllToAllPoint
<1>13. CASE r # src
  <2>0. \A i \in 1 .. N : V[i] = Operand(src, i - 1)
    OBVIOUS
  <2> HIDE DEF V
  <2>1. PICK M : /\ InWritten(M) /\ TakesUp(theirs, K, V, M)
                 /\ \A s \in DOMAIN K : s \in DOMAIN M /\ M[s] = K[s]
                 /\ \A i \in 0 .. (N - 1) : Tmp(i) \in DOMAIN M /\ M[Tmp(i)] = V[i + 1]
    <3>1. PICK M : Beside(N, K, V, M)
      BY <1>1, <1>7, TheirsBeside
    <3>2. QED
      BY <3>1 DEF theirs, Beside
  <2>2. \A i \in 1 .. N : V[i] = Operand(src, i - 1)
    BY <2>0
  <2>3. Tmp(r) \in DOMAIN M /\ J[src] = M[Tmp(r)]
    <3>1. r \in 0 .. (N - 1) /\ r + 1 \in 1 .. N /\ (r + 1) - 1 = r
      BY <1>1
    <3>2. Tmp(r) \in DOMAIN M /\ M[Tmp(r)] = V[r + 1]
      BY <2>1, <3>1
    <3>3. QED
      BY <1>7, <2>2, <3>1, <3>2
  <2>4. \A s \in DOMAIN K : s \in DOMAIN M /\ (s # src => J[s] = M[s])
    BY <1>7, <2>1
  <2>5. \A y : y.copy = keep /\ y.fold = {} => Leaves(y, r, M, J)
    BY <1>7, <1>9, <2>3, <2>4, KeepsOne DEF keep
  <2>6. \A i \in 1 .. Len(theirs) : V[i] = L[pv][r][c + i]
    BY <1>6, <1>10, <1>13, <2>2
  <2>7. d = c + N
    BY <1>5, <1>13
  <2>8. InWritten(M) /\ TakesUp(theirs, K, V, M)
    BY <2>1
  <2>9. ASSUME NEW y, y.parts = {RecvPart(pv, theirs)}, NEW A, Leaves(y, r, M, A)
        PROVE  Leads(y, r, L, Point(K, Tally(nx, a), Tally(pv, c)), Point(A, Tally(nx, a), Tally(pv, d)))
    BY ONLY r \in Ranks, <1>1, <1>2, <1>5, <1>10, <1>11, <2>6, <2>7, <2>8, <2>9, RecvTally
  <2>10. CASE nx = src
    <3> DEFINE y == RecvCopy(pv, theirs, keep)
    <3>1. y.parts = {RecvPart(pv, theirs)} /\ y.copy = keep /\ y.fold = {}
      BY DEF RecvCopy, Step
    <3> HIDE DEF y
    <3>2. Leads(y, r, L, Point(K, Tally(nx, a), Tally(pv, c)), Point(J, Tally(nx, a), Tally(pv, d)))
      BY <2>5, <2>9, <3>1
    <3>3. b = a
      BY <1>4, <2>10
    <3>4. x = <<y>>
      BY <1>13, <2>10 DEF x, y, nx, pv, theirs, keep, SourceSteps
    <3>5. Ran(x, r, L, Point(K, Tally(nx, a), Tally(pv, c)), Point(J, Tally(nx, b), Tally(pv, d)))
      BY <3>2, <3>3, <3>4, RanOne
    <3>6. QED
      BY <3>5 DEF x, nx, pv, a, b, c, d, K, J, AllToAllPoint
  <2>11. CASE nx # src
    <3> DEFINE y == Recv(pv, theirs)
               z == Step({SendPart(nx, theirs)}, keep, {})
    <3>1. /\ y.parts = {RecvPart(pv, theirs)} /\ y.copy = {} /\ y.fold = {}
          /\ z.parts = {SendPart(nx, theirs)} /\ z.copy = keep /\ z.fold = {}
      BY DEF Recv, Step
    <3> HIDE DEF y, z
    <3>2. Leads(y, r, L, Point(K, Tally(nx, a), Tally(pv, c)), Point(M, Tally(nx, a), Tally(pv, d)))
      <4>1. Leaves(y, r, M, M)
        BY <3>1, LeavesAll
      <4>2. QED
        BY <2>9, <3>1, <4>1
    <3>3. b = a + N
      BY <1>4, <2>11
    <3>4. \A i \in 1 .. Len(theirs) : Value(M, r, theirs[i], L[r][nx][a + i])
      <4> SUFFICES ASSUME NEW i \in 1 .. N PROVE Value(M, r, theirs[i], L[r][nx][a + i])
        BY <1>10
      <4>1. theirs[i] = Tmp(i - 1) /\ i - 1 \in 0 .. (N - 1) /\ (i - 1) + 1 = i
        BY <1>10
      <4>2. Tmp(i - 1) \in DOMAIN M /\ M[Tmp(i - 1)] = V[i]
        BY <2>1, <4>1
      <4>3. Tmp(i - 1) \in Written
        BY <2>1, <4>2 DEF InWritten
      <4>4. V[i] = L[r][nx][a + i]
        BY <1>6, <2>2, <2>11
      <4>5. QED
        BY <4>1, <4>2, <4>3, <4>4 DEF Value
    <3>5. Leaves(z, r, M, J)
      BY <2>5, <3>1
    <3>6. Leads(z, r, L, Point(M, Tally(nx, a), Tally(pv, d)), Point(J, Tally(nx, b), Tally(pv, d)))
      BY ONLY r \in Ranks, <1>1, <1>2, <1>4, <1>10, <1>11, <2>8, <3>1, <3>3, <3>4, <3>5, SendTally
    <3>7. x = <<y, z>>
      BY <1>13, <2>11 DEF x, y, z, nx, pv, theirs, keep, SourceSteps
    <3>8. Ran(x, r, L, Point(K, Tally(nx, a), Tally(pv, c)), Point(J, Tally(nx, b), Tally(pv, d)))
      BY <3>2, <3>6, <3>7, RanTwo
    <3>9. QED
      BY <3>8 DEF x, nx, pv, a, b, c, d, K, J, AllToAllPoint
  <2>12. QED
    BY <2>10, <2>11
<1>14. QED
  BY <1>12, <1>13

LEMMA RingAllToAllDelivers ==
  ASSUME NEW r \in Ranks, NEW L, PassedOn(L), NEW promise,
         promise = [i \in Ranks |-> Operand(i, r)]
  PROVE  Delivers(RingAllToAll(r), r, L, promise)
<1> DEFINE nx == Next1(r)
           pv == Prev1(r)
           entry == {<<In(r), Own(r)>>}
           R == [i \in 1 .. N |-> SourceSteps(r, i - 1)]
           g == [k \in 0 .. N |-> AllToAllPoint(r, k)]
           S == Tally(nx, 0)
           G == Tally(pv, 0)
<1>1. N \in Nat /\ N >= 2 /\ Ranks = 0 .. (N - 1) /\ nx \in Ranks /\ pv \in Ranks
  BY RingFacts
<1>2. RingAllToAll(r) = Program(entry, Joined(R))
  BY DEF RingAllToAll, SourceSteps, Whole1
<1>3. ASSUME NEW k \in 1 .. N PROVE Ran(R[k], r, L, g[k - 1], g[k])
  <2> DEFINE src == k - 1
  <2>1. src \in Ranks /\ src \in 0 .. N /\ k \in 0 .. N /\ k = src + 1
    BY <1>1
  <2>2. g[k - 1] = AllToAllPoint(r, src) /\ g[k] = AllToAllPoint(r, src + 1) /\ R[k] = SourceSteps(r, src)
    BY <2>1
  <2> HIDE DEF src, g, R
  <2>3. QED
    BY <2>1, <2>2, AllToAllRound
<1>4. R = [k \in 1 .. N |-> R[k]]
  OBVIOUS
<1>5. g[0] = AllToAllPoint(r, 0) /\ g[N] = AllToAllPoint(r, N)
  BY <1>1
<1> HIDE DEF R, g
<1>6. Ran(Joined(R), r, L, g[0], g[N])
  BY <1>1, <1>3, <1>4, RanRounds
<1>7. AllToAllPoint(r, 0) = Point(KeptBefore(r, 0), S, G)
  <2>1. TurnsBefore(nx, 0) = 0 /\ TurnsBefore(r, 0) = 0 /\ N * 0 = 0
    BY <1>1, TurnsBeforeFacts
  <2>2. QED
    BY <2>1 DEF AllToAllPoint
<1>8. KeptBefore(r, 0) = Holds({r}, Operand(r, r))
  <2>1. {r} \cup {q \in Ranks : q < 0} = {r}
    BY <1>1
  <2>2. QED
    BY <2>1 DEF KeptBefore, Holds
<1>9. Unique(entry) /\ Opens(entry, r, KeptBefore(r, 0))
  <2>1. entry = {<<r, Own(r)>>} /\ Unique(entry) /\ r \in Written
    BY OwnFacts, UniqueOne
  <2>2. Opens({<<r, Own(r)>>}, r, Holds({r}, Operand(r, r)))
    BY <2>1, OpensOwn
  <2> HIDE DEF entry
  <2>3. QED
    BY <1>8, <2>1, <2>2
<1>10. Yields(KeptBefore(r, N), promise)
  <2>1. {r} \cup {q \in Ranks : q < N} = Ranks
    BY <1>1
  <2>2. QED
    BY <2>1 DEF KeptBefore, Yields
<1>11. Zeros(S) /\ Zeros(G)
  BY <1>1, TallyFacts
<1> HIDE DEF S, G, entry
<1>12. \E T, H : AllToAllPoint(r, N) = Point(KeptBefore(r, N), T, H)
  BY DEF AllToAllPoint
<1>13. QED
  BY <1>2, <1>5, <1>6, <1>7, <1>9, <1>10, <1>11, <1>12, ProgramDelivers

-----------------------------------------------------------------------------
(* Recursive doubling.                                                      *)

(* Two blocks of m ranks make one of 2 * m.                                 *)
Together(q, r, x, m) ==
  q \div (2 * m) = r \div (2 * m) <=> (q \div m = r \div m \/ q \div m = x \div m)

LEMMA Blocks ==
  ASSUME NEW r \in Nat, NEW q \in Nat, NEW m \in Nat \ {0}
  PROVE  /\ XorMask(r, m) \div m # r \div m
         /\ XorMask(r, m) = r + m \/ XorMask(r, m) = r - m
         /\ Together(q, r, XorMask(r, m), m)
<1> DEFINE d == r \div m
           e == q \div m
           x == XorMask(r, m)
<1>1. d \in Nat /\ e \in Nat
  OBVIOUS
<1>2. (r + m) \div m = d + 1
  OBVIOUS
<1>3. r >= m => (r - m) \div m = d - 1
  OBVIOUS
<1>4. r < m => d = 0
  OBVIOUS
<1>5. q \div (2 * m) = e \div 2
  OBVIOUS
<1>6. r \div (2 * m) = d \div 2
  OBVIOUS
<1>7. x = IF d % 2 = 0 THEN r + m ELSE r - m
  BY DEF XorMask
<1> HIDE DEF d, e, x
<1>8. CASE d % 2 = 0
  <2>1. x = r + m /\ x \div m = d + 1
    BY <1>2, <1>7, <1>8
  <2>2. e \div 2 = d \div 2 <=> (e = d \/ e = d + 1)
    BY <1>1, <1>8
  <2>3. Together(q, r, x, m)
    BY <1>5, <1>6, <2>1, <2>2 DEF d, e, Together
  <2>4. x \div m # d
    BY <1>1, <2>1
  <2>5. QED
    BY <2>1, <2>3, <2>4 DEF d, x
<1>9. CASE d % 2 # 0
  <2>1. r >= m
    BY <1>1, <1>4, <1>9
  <2>2. x = r - m /\ x \div m = d - 1
    BY <1>3, <1>7, <1>9, <2>1
  <2>3. e \div 2 = d \div 2 <=> (e = d \/ e = d - 1)
    BY <1>1, <1>9
  <2>4. Together(q, r, x, m)
    BY <1>5, <1>6, <2>2, <2>3 DEF d, e, Together
  <2>5. x \div m # d
    BY <1>1, <2>2
  <2>6. QED
    BY <2>2, <2>4, <2>5 DEF d, x
<1>10. QED
  BY <1>8, <1>9

(* Among 2 * m * c ranks every rank has its partner.                        *)
LEMMA PartnerThere ==
  ASSUME NEW m \in Nat \ {0}, NEW c \in Nat \ {0}, NEW n \in Nat, n = (2 * m) * c,
         NEW r \in 0 .. (n - 1)
  PROVE  XorMask(r, m) < n
<1> DEFINE d == r \div m
           f == r % m
<1>1. r \in Int /\ d \in Int /\ f \in 0 .. (m - 1) /\ r = m * d + f
  OBVIOUS
<1>2. XorMask(r, m) = IF d % 2 = 0 THEN r + m ELSE r - m
  BY DEF XorMask
<1> HIDE DEF d, f
<1>3. CASE d % 2 # 0
  BY <1>2, <1>3
<1>4. CASE d % 2 = 0
  <2>1. n = m * (2 * c)
    OBVIOUS
  <2> DEFINE g == 2 * c
  <2>2. g \in Nat /\ n = m * g /\ g % 2 = 0
    BY <2>1
  <2> HIDE DEF g
  <2>3. d < g
    <3>1. SUFFICES ASSUME d >= g PROVE FALSE
      BY <1>1, <2>2
    <3>2. PICK h \in Nat : d = g + h
      <4>1. d - g \in Nat /\ d = g + (d - g)
        BY <1>1, <2>2, <3>1
      <4>2. QED
        BY <4>1
    <3>3. m * d = m * g + m * h /\ m * h >= 0 /\ m * g \in Int /\ m * h \in Int
      BY <2>2, <3>2
    <3>4. QED
      BY <1>1, <2>2, <3>3
  <2>4. PICK h \in Nat : g = d + 2 + h
    <3>1. g - d - 2 \in Nat /\ g = d + 2 + (g - d - 2)
      BY <1>1, <1>4, <2>2, <2>3
    <3>2. QED
      BY <3>1
  <2>5. m * g = m * d + 2 * m + m * h /\ m * h >= 0 /\ m * d \in Int /\ m * h \in Int
    BY <1>1, <2>2, <2>4
  <2>6. r + m < n
    BY <1>1, <2>2, <2>5
  <2>7. QED
    BY <1>2, <1>4, <2>6
<1>5. QED
  BY <1>3, <1>4

(* A mask divides those that follow it.                                     *)
LEMMA MaskDivides ==
  ASSUME NEW a \in 0 .. N, NEW b \in a .. N
  PROVE  \E c \in Nat \ {0} : Mask[b] = Mask[a] * c
<1> DEFINE m == Mask
           S == {k \in Nat : a + k <= N => \E c \in Nat \ {0} : m[a + k] = m[a] * c}
<1>1. N \in Nat /\ a \in Nat /\ \A k \in 0 .. N : m[k] \in Nat
  BY WorldSizeAssumption, MaskFacts
<1>2. \A k \in 1 .. N : m[k] = 2 * m[k - 1]
  BY MaskFacts
<1> HIDE DEF m
<1>3. 0 \in S
  <2>1. m[a + 0] = m[a] * 1
    BY <1>1
  <2>2. QED
    BY <2>1
<1>4. ASSUME NEW k \in Nat, k \in S PROVE k + 1 \in S
  <2>1. SUFFICES ASSUME a + (k + 1) <= N
                 PROVE  \E c \in Nat \ {0} : m[a + (k + 1)] = m[a] * c
    OBVIOUS
  <2>2. PICK c \in Nat \ {0} : m[a + k] = m[a] * c
    BY <1>1, <1>4, <2>1
  <2> DEFINE j == a + (k + 1)
  <2>3. j \in 1 .. N /\ j - 1 = a + k
    BY <1>1, <2>1
  <2> HIDE DEF j
  <2>4. m[j] = 2 * (m[a] * c)
    BY <1>2, <2>2, <2>3
  <2>5. 2 * (m[a] * c) = m[a] * (2 * c) /\ 2 * c \in Nat \ {0}
    BY <1>1
  <2>6. QED
    BY <2>4, <2>5 DEF j
<1>5. Nat \subseteq S
  <2> HIDE DEF S
  <2>1. QED
    BY <1>3, <1>4, NatSteps
<1>6. b - a \in Nat /\ a + (b - a) = b /\ b <= N
  BY <1>1
<1>7. b - a \in S
  BY <1>5, <1>6
<1>8. QED
  BY <1>6, <1>7 DEF m

(* The ranks in the block of m to which r belongs, and what the doubling    *)
(* does to it round by round.                                               *)
Kin(r, m) == {q \in Ranks : q \div m = r \div m}

LEMMA KinFacts ==
  ASSUME PowerOfTwo, NEW r \in Ranks, NEW k \in 1 .. N
  PROVE  LET m == Mask[k - 1]
             p == XorMask(r, m)
         IN  /\ m < N => /\ p \in Ranks \ {r}
                         /\ Kin(r, Mask[k]) = Kin(r, m) \cup Kin(p, m)
                         /\ Kin(r, m) \cap Kin(p, m) = {} /\ p \in Kin(p, m)
                         /\ Block(r, p) = Kin(r, m) /\ Block(p, r) = Kin(p, m)
             /\ ~(m < N) => Kin(r, Mask[k]) = Kin(r, m)
<1> DEFINE j == k - 1
           m == Mask[j]
           p == XorMask(r, m)
<1>1. N \in Nat /\ N >= 2 /\ Ranks = 0 .. (N - 1) /\ r \in Nat /\ r \in 0 .. (N - 1)
  BY WorldSizeAssumption DEF Ranks
<1>2. j \in 0 .. N /\ j + 1 = k /\ k \in 0 .. N
  BY <1>1
<1>3. m \in Nat \ {0} /\ Mask[k] = 2 * m /\ Mask[j] = m
  <2>1. m \in Nat /\ m > j /\ Mask[k] = 2 * m
    BY <1>2, MaskFacts
  <2> HIDE DEF m
  <2>2. QED
    BY <1>2, <2>1 DEF m
<1> HIDE DEF m, j, p
<1>4. ASSUME m < N
      PROVE  /\ p \in Ranks \ {r}
             /\ Kin(r, 2 * m) = Kin(r, m) \cup Kin(p, m)
             /\ Kin(r, m) \cap Kin(p, m) = {} /\ p \in Kin(p, m)
             /\ Block(r, p) = Kin(r, m) /\ Block(p, r) = Kin(p, m)
  <2>1. PICK h \in 0 .. N : N = Mask[h]
    BY DEF PowerOfTwo
  <2>2. k \in 0 .. h
    <3>1. SUFFICES ASSUME h <= j PROVE FALSE
      BY <1>2, <2>1
    <3>2. j \in h .. N
      BY <1>2, <3>1
    <3>3. PICK c \in Nat \ {0} : m = N * c
      BY <1>3, <2>1, <3>2, MaskDivides
    <3>4. N * c >= N
      <4>1. PICK x \in Nat : c = x + 1
        <5>1. c - 1 \in Nat /\ c = (c - 1) + 1
          OBVIOUS
        <5>2. QED
          BY <5>1
      <4>2. N \in Nat /\ x \in Nat
        BY <1>1
      <4> DEFINE y == N * x
      <4>3. N * (x + 1) = y + N /\ y \in Nat
        BY ONLY <4>2
      <4>4. N * c = y + N
        BY <4>1, <4>3
      <4> HIDE DEF y
      <4>5. y + N >= N
        BY ONLY <4>2, <4>3
      <4>6. QED
        BY <4>4, <4>5
    <3>5. QED
      BY <1>1, <1>3, <1>4, <3>3, <3>4
  <2>3. PICK c \in Nat \ {0} : N = (2 * m) * c
    <3>1. h \in k .. N
      BY <1>2, <2>2
    <3>2. PICK c \in Nat \ {0} : Mask[h] = Mask[k] * c
      BY <1>2, <3>1, MaskDivides
    <3>3. N = (2 * m) * c
      BY <1>3, <2>1, <3>2
    <3>4. QED
      BY <3>3
  <2>4. p < N
    BY <1>1, <1>3, <2>3, PartnerThere DEF p
  <2>5. p \in Nat /\ p # r
    BY <1>1, <1>3, XorFacts DEF p
  <2>6. p \div m # r \div m /\ (p = r + m \/ p = r - m)
    BY <1>1, <1>3, Blocks DEF p
  <2>7. \A q \in Ranks : q \div (2 * m) = r \div (2 * m) <=> (q \div m = r \div m \/ q \div m = p \div m)
    <3> SUFFICES ASSUME NEW q \in Ranks
        PROVE  q \div (2 * m) = r \div (2 * m) <=> (q \div m = r \div m \/ q \div m = p \div m)
      OBVIOUS
    <3>1. q \in Nat
      BY <1>1
    <3>2. Together(q, r, p, m)
      BY <1>1, <1>3, <3>1, Blocks DEF p
    <3>3. QED
      BY <3>2 DEF Together
  <2>8. p \in Ranks \ {r} /\ p \in Kin(p, m)
    BY <1>1, <2>4, <2>5 DEF Kin
  <2>9. Kin(r, 2 * m) = Kin(r, m) \cup Kin(p, m) /\ Kin(r, m) \cap Kin(p, m) = {}
    BY <2>6, <2>7 DEF Kin
  <2>10. (IF r < p THEN p - r ELSE r - p) = m /\ (IF p < r THEN r - p ELSE p - r) = m
    <3>1. r \in Int /\ p \in Int /\ m \in Nat /\ m > 0 /\ (p = r + m \/ p = r - m)
      BY <1>1, <1>3, <2>5, <2>6
    <3>2. QED
      BY ONLY <3>1
  <2>11. Block(r, p) = Kin(r, m) /\ Block(p, r) = Kin(p, m)
    BY <2>10 DEF Block, Kin
  <2>12. QED
    BY <2>8, <2>9, <2>11
<1>5. ASSUME ~(m < N) PROVE Kin(r, 2 * m) = Kin(r, m)
  <2>1. \A q \in Ranks : q \div m = 0 /\ q \div (2 * m) = 0
    <3> SUFFICES ASSUME NEW q \in Ranks PROVE q \div m = 0 /\ q \div (2 * m) = 0
      OBVIOUS
    <3>1. q \in Nat /\ q < m /\ m \in Nat \ {0} /\ 2 * m \in Nat \ {0} /\ q < 2 * m
      <4>1. q \in Nat /\ q < N /\ N \in Nat
        BY <1>1
      <4>2. m \in Nat /\ m > 0 /\ ~(m < N)
        BY <1>3, <1>5
      <4>3. QED
        BY ONLY <4>1, <4>2
    <3>2. \A z \in Nat \ {0} : q < z => q \div z = 0
      BY <3>1
    <3>3. QED
      BY <3>1, <3>2
  <2>2. QED
    BY <2>1 DEF Kin
<1>6. QED
  BY <1>3, <1>4, <1>5 DEF j, m, p

LEMMA KinEnds ==
  ASSUME NEW r \in Ranks
  PROVE  Kin(r, Mask[0]) = {r} /\ Kin(r, Mask[N]) = Ranks
<1>1. N \in Nat /\ N >= 2 /\ Ranks = 0 .. (N - 1) /\ N \in 0 .. N
  BY WorldSizeAssumption DEF Ranks
<1>2. Mask[0] = 1 /\ Mask[N] \in Nat /\ Mask[N] > N
  BY <1>1, MaskFacts
<1>3. \A q \in Ranks : q \div 1 = q
  BY <1>1
<1>4. \A q \in Ranks : q \div Mask[N] = 0
  <2> DEFINE m == Mask[N]
  <2>1. m \in Nat /\ m > N
    BY <1>2
  <2> HIDE DEF m
  <2>2. \A q \in Ranks : q \div m = 0
    BY <1>1, <2>1
  <2>3. QED
    BY <2>2 DEF m
<1>5. QED
  BY <1>2, <1>3, <1>4 DEF Kin

(* Where r stands after k rounds of the doubling of n chunks; it has yet to *)
(* exchange anything with the ranks outside its block.                      *)
Outside(r, m) == [q \in Ranks \ Kin(r, m) |-> 0]
DoublingPoint(r, n, m) ==
  Point([i \in 0 .. (n - 1) |-> Reduced(Kin(r, m), i)], Outside(r, m), Outside(r, m))

LEMMA DoublingRound ==
  ASSUME PowerOfTwo, NEW n \in 1 .. N, NEW r \in Ranks, NEW L,
         \A a, b \in Ranks : \A j \in 1 .. N : L[a][b][j] = Reduced(Block(a, b), j - 1),
         NEW k \in 1 .. N, Mask[k - 1] < N,
         NEW F, F = {<<In(i), Tmp(i)>> : i \in 0 .. (n - 1)}
  PROVE  LET p == XorMask(r, Mask[k - 1])
         IN  /\ p < N
             /\ Ran(Swap(r, p, Ins(n), Tmps(n), F), r, L,
                    DoublingPoint(r, n, Mask[k - 1]), DoublingPoint(r, n, Mask[k]))
<1> DEFINE m == Mask[k - 1]
           l == Mask[k]
           p == XorMask(r, m)
           A == Kin(r, m)
           B == Kin(p, m)
           C == Kin(r, l)
           K == [i \in 0 .. (n - 1) |-> Reduced(A, i)]
           J == [i \in 0 .. (n - 1) |-> Reduced(C, i)]
           V == [i \in 1 .. n |-> Reduced(B, i - 1)]
           S == Outside(r, m)
           T == Outside(r, l)
<1>1. N \in Nat /\ Ranks = 0 .. (N - 1) /\ n \in Nat
  BY WorldSizeAssumption DEF Ranks
<1>2. /\ p \in Ranks \ {r} /\ C = A \cup B /\ A \cap B = {} /\ p \in B
      /\ Block(r, p) = A /\ Block(p, r) = B
  BY KinFacts
<1>3. p < N
  BY <1>1, <1>2
<1>4. S = [q \in Ranks \ A |-> 0] /\ T = [q \in Ranks \ C |-> 0]
  BY DEF Outside
<1> HIDE DEF m, l, p, A, B, C, S, T
<1>5. \A i \in 0 .. (n - 1) : J[i] = K[i] (+) V[i + 1]
  <2> SUFFICES ASSUME NEW i \in 0 .. (n - 1) PROVE J[i] = K[i] (+) V[i + 1]
    OBVIOUS
  <2>1. i + 1 \in 1 .. n /\ (i + 1) - 1 = i
    <3>1. n \in Nat /\ i \in 0 .. (n - 1)
      BY <1>1
    <3>2. QED
      BY ONLY <3>1
  <2>2. J[i] = Reduced(C, i) /\ K[i] = Reduced(A, i) /\ V[i + 1] = Reduced(B, i)
    BY <2>1
  <2>3. Reduced(A, i) (+) Reduced(B, i) = Reduced(A \cup B, i)
    BY <1>2, ReducedJoin
  <2> HIDE DEF J, K, V
  <2>4. QED
    BY <1>2, <2>2, <2>3
<1>6. \A i \in 1 .. n : L[r][p][i] = K[i - 1] /\ L[p][r][i] = V[i]
  <2> SUFFICES ASSUME NEW i \in 1 .. n PROVE L[r][p][i] = K[i - 1] /\ L[p][r][i] = V[i]
    OBVIOUS
  <2>1. i \in 1 .. N /\ i - 1 \in 0 .. (n - 1) /\ p \in Ranks
    BY <1>1, <1>2
  <2>2. K[i - 1] = Reduced(A, i - 1) /\ V[i] = Reduced(B, i - 1)
    BY <2>1
  <2>3. L[r][p][i] = Reduced(Block(r, p), i - 1) /\ L[p][r][i] = Reduced(Block(p, r), i - 1)
    BY <2>1
  <2> HIDE DEF K, V
  <2>4. QED
    BY <1>2, <2>2, <2>3
<1>7. /\ Whole(S) /\ Whole(T) /\ p \in DOMAIN S /\ S[p] = 0 /\ Gains(S, T, p, n)
  <2>1. Whole(S) /\ Whole(T)
    BY <1>4 DEF Whole
  <2>2. p \in DOMAIN S /\ S[p] = 0
    BY <1>2, <1>4
  <2>3. Gains(S, T, p, n)
    BY <1>1, <1>2, <1>4 DEF Gains
  <2>4. QED
    BY <2>1, <2>2, <2>3
<1>8. DOMAIN K = 0 .. (n - 1) /\ DOMAIN J = 0 .. (n - 1)
  OBVIOUS
<1> HIDE DEF K, J, V
<1>9. /\ Ran(<<Send(p, Ins(n)), RecvFold(p, Tmps(n), F)>>, r, L, Point(K, S, S), Point(J, T, T))
      /\ Ran(<<Recv(p, Tmps(n)), Step({SendPart(p, Ins(n))}, {}, F)>>, r, L,
             Point(K, S, S), Point(J, T, T))
  <2>1. n \in 1 .. N /\ r \in Ranks /\ p \in Ranks \ {r} /\ F = {<<In(i), Tmp(i)>> : i \in 0 .. (n - 1)}
    BY <1>2
  <2>2. QED
    BY ONLY <2>1, <1>5, <1>6, <1>7, <1>8, SwapRan
<1>10. Ran(Swap(r, p, Ins(n), Tmps(n), F), r, L, Point(K, S, S), Point(J, T, T))
  BY <1>9 DEF Swap
<1>11. Point(K, S, S) = DoublingPoint(r, n, m) /\ Point(J, T, T) = DoublingPoint(r, n, l)
  BY DEF DoublingPoint, K, J, S, T, A, C
<1>12. QED
  BY <1>3, <1>10, <1>11 DEF m, l, p

LEMMA DoublingRan ==
  ASSUME PowerOfTwo, NEW n \in 1 .. N, NEW r \in Ranks, NEW L,
         \A a, b \in Ranks : \A j \in 1 .. N : L[a][b][j] = Reduced(Block(a, b), j - 1)
  PROVE  Ran(MeshDoubling(r, n), r, L, DoublingPoint(r, n, Mask[0]), DoublingPoint(r, n, Mask[N]))
<1> DEFINE F == {<<In(i), Tmp(i)>> : i \in 0 .. (n - 1)}
           round(m) == LET peer == XorMask(r, m)
                       IN  IF peer < N THEN Swap(r, peer, Ins(n), Tmps(n), F) ELSE <<>>
           R == [k \in 1 .. N |-> IF Mask[k - 1] < N THEN round(Mask[k - 1]) ELSE <<>>]
           g == [k \in 0 .. N |-> DoublingPoint(r, n, Mask[k])]
<1>1. N \in Nat
  BY WorldSizeAssumption
<1>2. MeshDoubling(r, n) = Joined(R)
  BY DEF MeshDoubling
<1>3. ASSUME NEW k \in 1 .. N PROVE Ran(R[k], r, L, g[k - 1], g[k])
  <2> DEFINE m == Mask[k - 1]
             p == XorMask(r, m)
  <2>1. k - 1 \in 0 .. N /\ k \in 0 .. N
    BY <1>1
  <2>2. g[k - 1] = DoublingPoint(r, n, m) /\ g[k] = DoublingPoint(r, n, Mask[k])
    BY <2>1
  <2>3. CASE m < N
    <3>1. p < N /\ Ran(Swap(r, p, Ins(n), Tmps(n), F), r, L,
                       DoublingPoint(r, n, m), DoublingPoint(r, n, Mask[k]))
      BY <2>3, DoublingRound
    <3>2. R[k] = Swap(r, p, Ins(n), Tmps(n), F)
      BY <2>3, <3>1
    <3> HIDE DEF R, g, m, p, F
    <3>3. QED
      BY <2>2, <3>1, <3>2
  <2>4. CASE ~(m < N)
    <3>1. R[k] = <<>>
      BY <2>4
    <3>2. Kin(r, Mask[k]) = Kin(r, m)
      BY <2>4, KinFacts
    <3>3. DoublingPoint(r, n, m) = DoublingPoint(r, n, Mask[k])
      BY <3>2 DEF DoublingPoint, Outside
    <3> HIDE DEF R, g, m
    <3>4. QED
      BY <2>2, <3>1, <3>3, RanNone
  <2>5. QED
    BY <2>3, <2>4
<1>4. R = [k \in 1 .. N |-> R[k]]
  OBVIOUS
<1>5. g[0] = DoublingPoint(r, n, Mask[0]) /\ g[N] = DoublingPoint(r, n, Mask[N])
  BY <1>1
<1> HIDE DEF R, g
<1>6. Ran(Joined(R), r, L, g[0], g[N])
  BY <1>1, <1>3, <1>4, RanRounds
<1>7. QED
  BY <1>2, <1>5, <1>6

LEMMA MeshAllReduceDelivers ==
  ASSUME PowerOfTwo, NEW r \in Ranks, NEW L, NEW promise,
         \A a, b \in Ranks : \A j \in 1 .. N : L[a][b][j] = Reduced(Block(a, b), j - 1),
         promise = Holds({0}, AllOperands(0))
  PROVE  Delivers(MeshAllReduce(r), r, L, promise)
<1> DEFINE n == 1
           entry == {<<In(0), Own(0)>>}
           steps == MeshDoubling(r, n)
           K == [i \in 0 .. (n - 1) |-> Reduced(Kin(r, Mask[0]), i)]
           J == [i \in 0 .. (n - 1) |-> Reduced(Kin(r, Mask[N]), i)]
           S == Outside(r, Mask[0])
           T == Outside(r, Mask[N])
<1>1. N \in Nat /\ N >= 2 /\ n \in 1 .. N /\ 0 .. (n - 1) = {0}
  BY WorldSizeAssumption
<1>2. MeshAllReduce(r) = Program(entry, steps)
  BY DEF MeshAllReduce
<1>3. Ran(steps, r, L, Point(K, S, S), Point(J, T, T))
  <2> HIDE DEF n
  <2>1. Ran(steps, r, L, DoublingPoint(r, n, Mask[0]), DoublingPoint(r, n, Mask[N]))
    BY <1>1, DoublingRan
  <2>2. QED
    BY <2>1 DEF DoublingPoint
<1>4. K = Holds({0}, Operand(r, 0)) /\ J = Holds({0}, AllOperands(0))
  <2>1. \A i \in 0 .. (n - 1) : i = 0
    BY <1>1
  <2>2. K = [i \in {0} |-> Operand(r, 0)]
    BY <1>1, <2>1, KinEnds, ReducedFacts
  <2>3. J = [i \in {0} |-> AllOperands(0)]
    BY <1>1, <2>1, KinEnds, ReducedFacts
  <2>4. QED
    BY <2>2, <2>3 DEF Holds
<1>5. Unique(entry) /\ Opens(entry, r, K)
  <2>0. 0 \in Ranks /\ In(0) = 0 /\ 0 \in Written
    BY Slots DEF In
  <2>1. 0 \in Ranks /\ 0 \in Written /\ entry = {<<0, Own(0)>>} /\ Unique(entry)
    BY <2>0, UniqueOne
  <2>2. Opens({<<0, Own(0)>>}, r, Holds({0}, Operand(r, 0)))
    BY <2>1, OpensOwn
  <2> HIDE DEF entry, K
  <2>3. QED
    BY <1>4, <2>1, <2>2
<1>6. Yields(J, promise)
  <2> HIDE DEF J
  <2>1. QED
    BY <1>4 DEF Yields
<1>7. Zeros(S)
  BY DEF Zeros, Outside
<1> HIDE DEF entry, steps, K, J, S, T
<1>8. QED
  BY <1>2, <1>3, <1>5, <1>6, <1>7, ProgramDelivers

LEMMA MeshReduceScatterDelivers ==
  ASSUME PowerOfTwo, NEW r \in Ranks, NEW L, NEW promise,
         \A a, b \in Ranks : \A j \in 1 .. N : L[a][b][j] = Reduced(Block(a, b), j - 1),
         promise = Holds({0}, AllOperands(r))
  PROVE  Delivers(MeshReduceScatter(r), r, L, promise)
<1> DEFINE entry == {<<In(i), Own(i)>> : i \in Ranks}
           steps == MeshDoubling(r, N)
           code == MeshReduceScatter(r)
           K == [i \in 0 .. (N - 1) |-> Reduced(Kin(r, Mask[0]), i)]
           J == [i \in 0 .. (N - 1) |-> Reduced(Kin(r, Mask[N]), i)]
           S == Outside(r, Mask[0])
           T == Outside(r, Mask[N])
           P == Point(K, S, S)
           Q == Point(J, T, T)
<1>1. N \in Nat /\ N >= 2 /\ N \in 1 .. N /\ 0 .. (N - 1) = Ranks
  BY WorldSizeAssumption DEF Ranks
<1>2. code.entry = entry /\ code.steps = steps /\ code.exit = {<<In(0), In(r)>>}
  BY DEF MeshReduceScatter, Program
<1>3. Ran(steps, r, L, P, Q)
  <2>1. Ran(steps, r, L, DoublingPoint(r, N, Mask[0]), DoublingPoint(r, N, Mask[N]))
    BY <1>1, DoublingRan
  <2>2. QED
    BY <2>1 DEF DoublingPoint
<1>4. K = [i \in 0 .. (N - 1) |-> Operand(r, i)] /\ J = [i \in Ranks |-> AllOperands(i)]
  BY <1>1, KinEnds, ReducedFacts
<1>5. Unique(entry) /\ Opens(entry, r, K)
  <2> DEFINE A == [i \in 0 .. (N - 1) |-> Operand(r, i)]
  <2>1. Unique({<<In(i), Own(i)>> : i \in 0 .. (N - 1)}) /\ Opens({<<In(i), Own(i)>> : i \in 0 .. (N - 1)}, r, A)
    BY <1>1, OpensAll
  <2>2. entry = {<<In(i), Own(i)>> : i \in 0 .. (N - 1)} /\ K = A
    BY <1>1, <1>4
  <2> HIDE DEF entry, K, A
  <2>3. QED
    BY <2>1, <2>2
<1>6. Zeros(S)
  BY DEF Zeros, Outside
<1>7. r \in DOMAIN J /\ J[r] = AllOperands(r)
  <2> HIDE DEF J
  <2>1. QED
    BY <1>4
<1>8. P.know = K /\ P.sent = S /\ P.got = S /\ Q.know = J
  BY DEF Point
<1> HIDE DEF entry, steps, code, K, J, S, T, P, Q
<1>9. Meets(Start(code, r), P)
  <2>1. \A s \in DOMAIN K :
          /\ s \in Written
          /\ \/ \E c \in code.entry : c[1] = s /\ c[2] \notin Written /\ K[s] = Operand(r, c[2] - 2 * N)
             \/ (\A c \in code.entry : c[1] # s) /\ K[s] = Junk
    BY <1>2, <1>5 DEF Opens
  <2>2. Meets(Start(code, r), Point(K, S, S))
    BY <1>2, <1>5, <1>6, <2>1, StartMeets
  <2>3. QED
    BY <2>2 DEF P
<1>10. Len(code.steps) \in Nat /\ Runs(code.steps, r, L, P, Q)
  BY <1>2, <1>3 DEF Ran, Row
<1>11. ASSUME NEW m, IsMem(m), Agrees(m, Q.know), NEW i \in DOMAIN promise
       PROVE  Copy(m, r, code.exit)[In(i)] = promise[i]
  <2> DEFINE c == <<In(0), In(r)>>
  <2>1. i = 0 /\ promise[i] = AllOperands(r)
    BY DEF Holds
  <2>2. In(0) = 0 /\ In(r) = r /\ 0 \in Written /\ r \in Written
    BY Slots, InsOne
  <2>3. m[r] = AllOperands(r)
    BY <1>7, <1>8, <1>11 DEF Agrees
  <2>4. c \in code.exit /\ c[1] = 0 /\ c[2] = r /\ \A d \in code.exit : d = c
    BY <1>2, <2>2
  <2> HIDE DEF c
  <2>5. (CHOOSE d \in code.exit : d[1] = 0) = c
    BY <2>4
  <2>6. Copy(m, r, code.exit)[0] = ValueAt(m, r, r)
    BY <2>2, <2>4, <2>5 DEF Copy
  <2>7. QED
    BY <2>1, <2>2, <2>3, <2>6 DEF ValueAt
<1>12. Delivers(code, r, L, promise)
  BY <1>9, <1>10, <1>11, RunsDeliver
<1>13. QED
  BY <1>12 DEF code

-----------------------------------------------------------------------------
(* Every collective of either topology delivers what it promises.           *)
LEMMA RingCallDelivers ==
  ASSUME NEW c \in Calls, NEW r \in Ranks
  PROVE  Delivers(RingProgram(c, r), r, Letters("ring", c), Promise("ring", c, r))
<1> DEFINE L == Letters("ring", c)
           P == Promise("ring", c, r)
<1>1. /\ N \in Nat /\ c.op \in RootedOps \cup RootlessOps /\ c.root \in Ranks
      /\ \A j \in 1 .. N : j \in Nat
      /\ \A j \in 1 .. (2 * N) : j \in Nat
  BY WorldSizeAssumption, Slots DEF Calls
<1>2. \A a, b \in Ranks : \A j \in Nat : L[a][b][j] = RingLetter(c, a, b, j)
  BY DEF Letters
<1>4. CASE c.op = "Broadcast"
  <2>1. \A a, b \in Ranks : \A j \in Nat : L[a][b][j] = Operand(c.root, 0)
    BY <1>2, <1>4 DEF RingLetter
  <2>2. P = Holds({0}, Operand(c.root, 0))
    BY <1>4 DEF Promise, Holds
  <2>3. RingProgram(c, r) = RingBroadcast(r, c.root)
    BY <1>4 DEF RingProgram
  <2> HIDE DEF L, P
  <2>4. \A a, b \in Ranks : Same(L, a, b, Operand(c.root, 0))
    BY <2>1 DEF Same
  <2>5. Delivers(RingBroadcast(r, c.root), r, L, P)
    BY <1>1, <2>2, <2>4, RingBroadcastDelivers
  <2>6. QED
    BY <2>3, <2>5 DEF L, P
<1>5. CASE c.op = "Gather"
  <2>1. \A a, b \in Ranks : \A j \in Nat : L[a][b][j] = Operand(Ahead(a, j - 1), 0)
    BY <1>2, <1>5 DEF RingLetter
  <2>2. P = [i \in IF r = c.root THEN Ranks ELSE {} |-> Operand(i, 0)]
    BY <1>5 DEF Promise
  <2>3. RingProgram(c, r) = RingGather(r, c.root)
    BY <1>5 DEF RingProgram
  <2> HIDE DEF L, P
  <2>4. \A a, b \in Ranks : \A j \in 1 .. N : L[a][b][j] = Operand(Ahead(a, j - 1), 0)
    BY <1>1, <2>1
  <2>5. Delivers(RingGather(r, c.root), r, L, P)
    BY <1>1, <2>2, <2>4, RingGatherDelivers
  <2>6. QED
    BY <2>3, <2>5 DEF L, P
<1>6. CASE c.op = "Scatter"
  <2>1. \A a, b \in Ranks : \A j \in Nat : L[a][b][j] = Operand(c.root, Ahead(a, j))
    BY <1>2, <1>6 DEF RingLetter
  <2>2. P = Holds({0}, Operand(c.root, r))
    BY <1>6 DEF Promise, Holds
  <2>3. RingProgram(c, r) = RingScatter(r, c.root)
    BY <1>6 DEF RingProgram
  <2> HIDE DEF L, P
  <2>4. \A a, b \in Ranks : \A j \in 1 .. N : L[a][b][j] = Operand(c.root, Ahead(a, j))
    BY <1>1, <2>1
  <2>5. Delivers(RingScatter(r, c.root), r, L, P)
    BY <1>1, <2>2, <2>4, RingScatterDelivers
  <2>6. QED
    BY <2>3, <2>5 DEF L, P
<1>7. CASE c.op = "Reduce"
  <2>1. \A a, b \in Ranks : \A j \in Nat : L[a][b][j] = Reduced(Upstream(a, c.root), 0)
    BY <1>2, <1>7 DEF RingLetter
  <2>2. P = [i \in IF r = c.root THEN {0} ELSE {} |-> AllOperands(0)]
    BY <1>7 DEF Promise
  <2>3. RingProgram(c, r) = RingReduce(r, c.root)
    BY <1>7 DEF RingProgram
  <2> HIDE DEF L, P
  <2>4. \A a, b \in Ranks : Same(L, a, b, Reduced(Upstream(a, c.root), 0))
    BY <2>1 DEF Same
  <2>5. Delivers(RingReduce(r, c.root), r, L, P)
    BY <1>1, <2>2, <2>4, RingReduceDelivers
  <2>6. QED
    BY <2>3, <2>5 DEF L, P
<1>8. CASE c.op = "AllGather"
  <2>1. \A a, b \in Ranks : \A j \in Nat : L[a][b][j] = Operand(Behind(a, j - 1), 0)
    BY <1>2, <1>8 DEF RingLetter
  <2>2. P = [i \in Ranks |-> Operand(i, 0)]
    BY <1>8 DEF Promise
  <2>3. RingProgram(c, r) = RingAllGather(r)
    BY <1>8 DEF RingProgram
  <2> HIDE DEF L, P
  <2>4. \A a, b \in Ranks : \A j \in 1 .. N : L[a][b][j] = Operand(Behind(a, j - 1), 0)
    BY <1>1, <2>1
  <2>5. Delivers(RingAllGather(r), r, L, P)
    BY <2>2, <2>4, RingAllGatherDelivers
  <2>6. QED
    BY <2>3, <2>5 DEF L, P
<1>9. CASE c.op = "ReduceScatter"
  <2>1. \A a, b \in Ranks : \A j \in Nat : L[a][b][j] = IF a # 0 /\ b = Prev1(a) THEN Reduced(Upstream(a, 0), j - 1)
                                                      ELSE AllOperands(Ahead(a, j))
    BY <1>2, <1>9 DEF RingLetter
  <2>2. P = Holds({0}, AllOperands(r))
    BY <1>9 DEF Promise, Holds
  <2>3. RingProgram(c, r) = RingReduceScatter(r)
    BY <1>9 DEF RingProgram
  <2> HIDE DEF L, P
  <2>4. \A a, b \in Ranks : \A j \in 1 .. N : L[a][b][j] = IF a # 0 /\ b = Prev1(a) THEN Reduced(Upstream(a, 0), j - 1)
                                                      ELSE AllOperands(Ahead(a, j))
    BY <1>1, <2>1
  <2>5. Delivers(RingReduceScatter(r), r, L, P)
    BY <2>2, <2>4, RingReduceScatterDelivers
  <2>6. QED
    BY <2>3, <2>5 DEF L, P
<1>10. CASE c.op = "AllReduce"
  <2>1. \A a, b \in Ranks : \A j \in Nat : L[a][b][j] = IF N = 2 THEN Operand(a, j - 1)
          ELSE IF j < N THEN Reduced({Behind(a, k) : k \in 0 .. (j - 1)}, Behind(a, j - 1))
          ELSE AllOperands(Behind(Next1(a), j - N))
    BY <1>2, <1>10 DEF RingLetter
  <2>2. P = [i \in Ranks |-> AllOperands(i)]
    BY <1>10 DEF Promise, Segments
  <2>3. RingProgram(c, r) = RingAllReduce(r)
    BY <1>10 DEF RingProgram
  <2> HIDE DEF L, P
  <2>4. \A a, b \in Ranks : \A j \in 1 .. (2 * N) : L[a][b][j] = IF N = 2 THEN Operand(a, j - 1)
          ELSE IF j < N THEN Reduced({Behind(a, k) : k \in 0 .. (j - 1)}, Behind(a, j - 1))
          ELSE AllOperands(Behind(Next1(a), j - N))
    BY <1>1, <2>1
  <2>5. Delivers(RingAllReduce(r), r, L, P)
    BY <2>2, <2>4, RingAllReduceDelivers
  <2>6. QED
    BY <2>3, <2>5 DEF L, P
<1>11. CASE c.op = "AllToAll"
  <2>1. \A a, b \in Ranks : \A j \in Nat : L[a][b][j] = LET turn == (j - 1) \div N
          IN  Operand(IF turn < Next1(a) THEN turn ELSE turn + 1, (j - 1) % N)
    BY <1>2, <1>11 DEF RingLetter
  <2>2. P = [i \in Ranks |-> Operand(i, r)]
    BY <1>11 DEF Promise
  <2>3. RingProgram(c, r) = RingAllToAll(r)
    BY <1>11 DEF RingProgram
  <2> HIDE DEF L, P
  <2>4. PassedOn(L)
    BY <2>1 DEF PassedOn
  <2>5. Delivers(RingAllToAll(r), r, L, P)
    BY <2>2, <2>4, RingAllToAllDelivers
  <2>6. QED
    BY <2>3, <2>5 DEF L, P
<1>12. CASE c.op = "Barrier"
  <2>1. \A a, b \in Ranks : \A j \in Nat : L[a][b][j] = Junk
    BY <1>2, <1>12 DEF RingLetter
  <2>2. P = Holds({}, Junk)
    BY <1>12 DEF Promise, Holds
  <2>3. RingProgram(c, r) = RingBarrier(r)
    BY <1>12 DEF RingProgram
  <2> HIDE DEF L, P
  <2>4. \A a, b \in Ranks : Same(L, a, b, Junk)
    BY <2>1 DEF Same
  <2>5. Delivers(RingBarrier(r), r, L, P)
    BY <2>2, <2>4, RingBarrierDelivers
  <2>6. QED
    BY <2>3, <2>5 DEF L, P
<1>13. QED
  BY <1>1, <1>4, <1>5, <1>6, <1>7, <1>8, <1>9, <1>10, <1>11, <1>12 DEF RootedOps, RootlessOps

LEMMA MeshCallDelivers ==
  ASSUME NEW c \in Calls, NEW r \in Ranks, Fits("fullmesh", c)
  PROVE  Delivers(MeshProgram(c, r), r, Letters("fullmesh", c), Promise("fullmesh", c, r))
<1> DEFINE L == Letters("fullmesh", c)
           P == Promise("fullmesh", c, r)
<1>1. /\ N \in Nat /\ c.op \in RootedOps \cup RootlessOps /\ c.root \in Ranks
      /\ \A j \in 1 .. N : j \in Nat
      /\ \A j \in 1 .. (2 * N) : j \in Nat
  BY WorldSizeAssumption, Slots DEF Calls
<1>2. \A a, b \in Ranks : \A j \in Nat : L[a][b][j] = MeshLetter(c, a, b, j)
  BY DEF Letters
<1>3. c.op \in {"AllReduce", "ReduceScatter"} => PowerOfTwo
  BY DEF Fits, Doubling
<1>4. CASE c.op = "Broadcast"
  <2>1. \A a, b \in Ranks : \A j \in Nat : L[a][b][j] = Operand(a, 0)
    BY <1>2, <1>4 DEF MeshLetter
  <2>2. P = Holds({0}, Operand(c.root, 0))
    BY <1>4 DEF Promise, Holds
  <2>3. MeshProgram(c, r) = MeshBroadcast(r, c.root)
    BY <1>4 DEF MeshProgram
  <2> HIDE DEF L, P
  <2>4. \A a, b \in Ranks : Same(L, a, b, Operand(a, 0))
    BY <2>1 DEF Same
  <2>5. Delivers(MeshBroadcast(r, c.root), r, L, P)
    BY <1>1, <2>2, <2>4, MeshBroadcastDelivers
  <2>6. QED
    BY <2>3, <2>5 DEF L, P
<1>5. CASE c.op = "Gather"
  <2>1. \A a, b \in Ranks : \A j \in Nat : L[a][b][j] = Operand(a, 0)
    BY <1>2, <1>5 DEF MeshLetter
  <2>2. P = [i \in IF r = c.root THEN Ranks ELSE {} |-> Operand(i, 0)]
    BY <1>5 DEF Promise
  <2>3. MeshProgram(c, r) = MeshGather(r, c.root)
    BY <1>5 DEF MeshProgram
  <2> HIDE DEF L, P
  <2>4. \A a, b \in Ranks : Same(L, a, b, Operand(a, 0))
    BY <2>1 DEF Same
  <2>5. Delivers(MeshGather(r, c.root), r, L, P)
    BY <1>1, <2>2, <2>4, MeshGatherDelivers
  <2>6. QED
    BY <2>3, <2>5 DEF L, P
<1>6. CASE c.op = "Scatter"
  <2>1. \A a, b \in Ranks : \A j \in Nat : L[a][b][j] = Operand(a, b)
    BY <1>2, <1>6 DEF MeshLetter
  <2>2. P = Holds({0}, Operand(c.root, r))
    BY <1>6 DEF Promise, Holds
  <2>3. MeshProgram(c, r) = MeshScatter(r, c.root)
    BY <1>6 DEF MeshProgram
  <2> HIDE DEF L, P
  <2>4. \A a, b \in Ranks : Same(L, a, b, Operand(a, b))
    BY <2>1 DEF Same
  <2>5. Delivers(MeshScatter(r, c.root), r, L, P)
    BY <1>1, <2>2, <2>4, MeshScatterDelivers
  <2>6. QED
    BY <2>3, <2>5 DEF L, P
<1>7. CASE c.op = "Reduce"
  <2>1. \A a, b \in Ranks : \A j \in Nat : L[a][b][j] = Operand(a, 0)
    BY <1>2, <1>7 DEF MeshLetter
  <2>2. P = [i \in IF r = c.root THEN {0} ELSE {} |-> AllOperands(0)]
    BY <1>7 DEF Promise
  <2>3. MeshProgram(c, r) = MeshReduce(r, c.root)
    BY <1>7 DEF MeshProgram
  <2> HIDE DEF L, P
  <2>4. \A a, b \in Ranks : Same(L, a, b, Operand(a, 0))
    BY <2>1 DEF Same
  <2>5. Delivers(MeshReduce(r, c.root), r, L, P)
    BY <1>1, <2>2, <2>4, MeshReduceDelivers
  <2>6. QED
    BY <2>3, <2>5 DEF L, P
<1>8. CASE c.op = "AllGather"
  <2>1. \A a, b \in Ranks : \A j \in Nat : L[a][b][j] = Operand(a, 0)
    BY <1>2, <1>8 DEF MeshLetter
  <2>2. P = [i \in Ranks |-> Operand(i, 0)]
    BY <1>8 DEF Promise
  <2>3. MeshProgram(c, r) = MeshAllGather(r)
    BY <1>8 DEF MeshProgram
  <2> HIDE DEF L, P
  <2>4. \A a, b \in Ranks : Same(L, a, b, Operand(a, 0))
    BY <2>1 DEF Same
  <2>5. Delivers(MeshAllGather(r), r, L, P)
    BY <2>2, <2>4, MeshAllGatherDelivers
  <2>6. QED
    BY <2>3, <2>5 DEF L, P
<1>9. CASE c.op = "ReduceScatter"
  <2>1. \A a, b \in Ranks : \A j \in Nat : L[a][b][j] = Reduced(Block(a, b), j - 1)
    BY <1>2, <1>9 DEF MeshLetter
  <2>2. P = Holds({0}, AllOperands(r))
    BY <1>9 DEF Promise, Holds
  <2>3. MeshProgram(c, r) = MeshReduceScatter(r)
    BY <1>9 DEF MeshProgram
  <2> HIDE DEF L, P
  <2>4. \A a, b \in Ranks : \A j \in 1 .. N : L[a][b][j] = Reduced(Block(a, b), j - 1)
    BY <1>1, <2>1
  <2>5. Delivers(MeshReduceScatter(r), r, L, P)
    BY <1>3, <1>9, <2>2, <2>4, MeshReduceScatterDelivers
  <2>6. QED
    BY <2>3, <2>5 DEF L, P
<1>10. CASE c.op = "AllReduce"
  <2>1. \A a, b \in Ranks : \A j \in Nat : L[a][b][j] = Reduced(Block(a, b), j - 1)
    BY <1>2, <1>10 DEF MeshLetter
  <2>2. P = Holds({0}, AllOperands(0))
    BY <1>10 DEF Promise, Segments, Holds
  <2>3. MeshProgram(c, r) = MeshAllReduce(r)
    BY <1>10 DEF MeshProgram
  <2> HIDE DEF L, P
  <2>4. \A a, b \in Ranks : \A j \in 1 .. N : L[a][b][j] = Reduced(Block(a, b), j - 1)
    BY <1>1, <2>1
  <2>5. Delivers(MeshAllReduce(r), r, L, P)
    BY <1>3, <1>10, <2>2, <2>4, MeshAllReduceDelivers
  <2>6. QED
    BY <2>3, <2>5 DEF L, P
<1>11. CASE c.op = "AllToAll"
  <2>1. \A a, b \in Ranks : \A j \in Nat : L[a][b][j] = Operand(a, b)
    BY <1>2, <1>11 DEF MeshLetter
  <2>2. P = [i \in Ranks |-> Operand(i, r)]
    BY <1>11 DEF Promise
  <2>3. MeshProgram(c, r) = MeshAllToAll(r)
    BY <1>11 DEF MeshProgram
  <2> HIDE DEF L, P
  <2>4. \A a, b \in Ranks : Same(L, a, b, Operand(a, b))
    BY <2>1 DEF Same
  <2>5. Delivers(MeshAllToAll(r), r, L, P)
    BY <2>2, <2>4, MeshAllToAllDelivers
  <2>6. QED
    BY <2>3, <2>5 DEF L, P
<1>12. CASE c.op = "Barrier"
  <2>1. \A a, b \in Ranks : \A j \in Nat : L[a][b][j] = Junk
    BY <1>2, <1>12 DEF MeshLetter
  <2>2. P = Holds({}, Junk)
    BY <1>12 DEF Promise, Holds
  <2>3. MeshProgram(c, r) = MeshBarrier(r)
    BY <1>12 DEF MeshProgram
  <2> HIDE DEF L, P
  <2>4. \A a, b \in Ranks : Same(L, a, b, Junk)
    BY <2>1 DEF Same
  <2>5. Delivers(MeshBarrier(r), r, L, P)
    BY <2>2, <2>4, MeshBarrierDelivers
  <2>6. QED
    BY <2>3, <2>5 DEF L, P
<1>13. QED
  BY <1>1, <1>4, <1>5, <1>6, <1>7, <1>8, <1>9, <1>10, <1>11, <1>12 DEF RootedOps, RootlessOps

(* Every call of every setup delivers what it promises: run by itself on    *)
(* the contents its peers are to send, the program of a rank in either      *)
(* topology (topology_ring.cpp, topology_fullmesh.cpp) sends the contents   *)
(* its peers expect and leaves in recv_buf what the collective's name says. *)
(* Recursive doubling needs a power of two ranks, the rest any number.      *)
THEOREM CollectivesDeliver == DoublingFits => Delivered
<1> SUFFICES ASSUME DoublingFits, NEW s \in Setups, NEW i \in DOMAIN s.work
             PROVE  DeliveredCall(s.topology, s.work[i])
  BY DEF Delivered
<1> DEFINE t == s.topology
           c == s.work[i]
<1>1. c \in Calls /\ t \in {"ring", "fullmesh"} /\ Fits(t, c)
  BY SetupsAssumption, ElementOfSeq DEF DoublingFits
<1> HIDE DEF t, c
<1>2. ASSUME t = "ring" PROVE DeliveredCall(t, c)
  <2>1. \A r \in Ranks : CodeOf(t, c, r) = RingProgram(c, r)
    BY <1>1, <1>2 DEF CodeOf, RingCode
  <2>2. \A r \in Ranks : Delivers(RingProgram(c, r), r, Letters("ring", c), Promise("ring", c, r))
    BY <1>1, RingCallDelivers
  <2>3. QED
    BY <1>2, <2>1, <2>2 DEF DeliveredCall
<1>3. ASSUME t = "fullmesh" PROVE DeliveredCall(t, c)
  <2>1. \A r \in Ranks : CodeOf(t, c, r) = MeshProgram(c, r)
    BY <1>1, <1>3 DEF CodeOf, MeshCode
  <2>2. \A r \in Ranks :
          Delivers(MeshProgram(c, r), r, Letters("fullmesh", c), Promise("fullmesh", c, r))
    BY <1>1, <1>3, MeshCallDelivers
  <2>3. QED
    BY <1>3, <2>1, <2>2 DEF DeliveredCall
<1>4. DeliveredCall(t, c)
  BY <1>1, <1>2, <1>3
<1>5. QED
  BY <1>4 DEF t, c

(* Whatever the calls, the interleaving of the threads and the crashes,     *)
(* every chunk on a stream is the one its place in its call asks for, and a *)
(* rank in a call holds what its program by itself would have computed up   *)
(* to where its RecvRaw has come.                                           *)
THEOREM DataInvariance == DoublingFits => (Spec => []DataInv)
BY CollectivesDeliver, DataKept

(* A collective that returns true has put in recv_buf what its name         *)
(* promises, in either topology, whatever calls came before, however many   *)
(* ranks crash and however the Sends, the Recvs and the threads interleave. *)
(* The full mesh's AllReduce and ReduceScatter are right only among a power *)
(* of two ranks: DoublingFits asks it of the setups that call them.         *)
THEOREM TrueMeansResultCorrect == DoublingFits => (Spec => []TrueMeansResult)
<1> SUFFICES ASSUME DoublingFits PROVE Spec => []TrueMeansResult
  OBVIOUS
<1>1. Spec => []DataInv
  BY DataInvariance
<1>2. DataInv => TrueMeansResult
  BY DEF DataInv
<1>3. QED
  BY <1>1, <1>2, PTL
=============================================================================
