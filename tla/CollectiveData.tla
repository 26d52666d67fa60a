--------------------------- MODULE CollectiveData ---------------------------
(* Why a collective that returns true has computed what it promises: what   *)
(* each of its messages contains.  Delivered says of the programs alone     *)
(* that a rank that receives the right contents sends the right contents,   *)
(* and ends with what is promised; DataInv follows the contents through the *)
(* streams and the memories of a running communicator.                      *)
EXTENDS CollectivePairs

(* Chunk i of the ranks of S, reduced.                                      *)
Reduced(S, i) == SetToBag(S \X {i})

Ahead(r, k)  == (r + k) % N
Behind(r, k) == (r - k + N) % N

-----------------------------------------------------------------------------
(* What the j-th chunk that rank a sends b in a call is.                    *)

(* The ranks whose operands come to the root through a, a among them.       *)
Upstream(a, root) == {q \in Ranks : Position(q, root) >= Position(a, root)}

RingLetter(c, a, b, j) ==
  CASE c.op = "Broadcast"     -> Operand(c.root, 0)
    [] c.op = "Gather"        -> Operand(Ahead(a, j - 1), 0)
    [] c.op = "Scatter"       -> Operand(c.root, Ahead(a, j))
    [] c.op = "Reduce"        -> Reduced(Upstream(a, c.root), 0)
    [] c.op = "AllGather"     -> Operand(Behind(a, j - 1), 0)
    [] c.op = "ReduceScatter" -> IF a # 0 /\ b = Prev1(a) THEN Reduced(Upstream(a, 0), j - 1)
                                                          ELSE AllOperands(Ahead(a, j))
    [] c.op = "AllReduce"     ->
         IF N = 2 THEN Operand(a, j - 1)
         ELSE IF j < N
         THEN Reduced({Behind(a, k) : k \in 0 .. (j - 1)}, Behind(a, j - 1))
         ELSE AllOperands(Behind(Next1(a), j - N))
    [] c.op = "AllToAll"      ->         \* from every source but the next rank
         LET turn == (j - 1) \div N
         IN  Operand(IF turn < Next1(a) THEN turn ELSE turn + 1, (j - 1) % N)
    [] c.op = "Barrier"       -> Junk

(* The ranks a has met when the doubling brings it together with b.         *)
Block(a, b) ==
  LET mask == IF a < b THEN b - a ELSE a - b
  IN  {q \in Ranks : q \div mask = a \div mask}

MeshLetter(c, a, b, j) ==
  CASE c.op \in {"Broadcast", "Gather", "Reduce", "AllGather"} -> Operand(a, 0)
    [] c.op \in {"Scatter", "AllToAll"}                        -> Operand(a, b)
    [] c.op \in {"AllReduce", "ReduceScatter"}                 -> Reduced(Block(a, b), j - 1)
    [] c.op = "Barrier"                                        -> Junk

Letters(t, c) ==
  [a \in Ranks |-> [b \in Ranks |-> [j \in Nat |->
     IF t = "ring" THEN RingLetter(c, a, b, j) ELSE MeshLetter(c, a, b, j)]]]

-----------------------------------------------------------------------------
(* A program run by itself, on the letters L: where r stands after k steps, *)
(* and how many chunks it has sent and got to and from each peer.           *)

(* The chunks a step sends q, or receives from it.                          *)
Amount(step, q, dir) ==
  IF \E p \in step.parts : p.peer = q /\ p.dir = dir
  THEN Len((CHOOSE p \in step.parts : p.peer = q /\ p.dir = dir).slots) ELSE 0

(* The first n slots of transport call p are filled; g chunks came before.  *)
Filled(m, r, p, L, g, n) ==
  [s \in Written |->
     IF \E i \in 1 .. n : p.slots[i] = s
     THEN L[p.peer][r][g + (CHOOSE i \in 1 .. n : p.slots[i] = s)]
     ELSE m[s]]

Receives(step) == \E p \in step.parts : p.dir = "recv"
RecvOf(step) == CHOOSE p \in step.parts : p.dir = "recv"

After(step, r, L, at) ==
  LET p == RecvOf(step)
      m == IF Receives(step) THEN Filled(at.mem, r, p, L, at.got[p.peer], Len(p.slots))
                             ELSE at.mem
  IN  [mem  |-> Fold(Copy(m, r, step.copy), step.fold),
       sent |-> [q \in Ranks |-> at.sent[q] + Amount(step, q, "send")],
       got  |-> [q \in Ranks |-> at.got[q] + Amount(step, q, "recv")]]

Start(code, r) ==
  [mem  |-> Copy([s \in Written |-> Junk], r, code.entry),
   sent |-> [q \in Ranks |-> 0], got |-> [q \in Ranks |-> 0]]

At(code, r, L) ==
  LET at[k \in 0 .. Len(code.steps)] ==
        IF k = 0 THEN Start(code, r)
        ELSE LET before == at[k - 1] IN After(code.steps[k], r, L, before)
  IN  at

(* A Recv fills slots of its own, each once, and none that the step sends.  *)
Apart(step) ==
  \A p \in step.parts : p.dir = "recv" =>
    /\ \A i \in 1 .. Len(p.slots) : p.slots[i] \in Written
    /\ \A i, j \in 1 .. Len(p.slots) : p.slots[i] = p.slots[j] => i = j
    /\ \A q \in step.parts : q.dir = "send" =>
         \A i \in 1 .. Len(p.slots), j \in 1 .. Len(q.slots) : p.slots[i] # q.slots[j]

(* Every step sends what the letters say, and the end is as promised.       *)
SendsRight(step, r, L, at) ==
  \A p \in step.parts : p.dir = "send" =>
    \A i \in 1 .. Len(p.slots) :
      ValueAt(at.mem, r, p.slots[i]) = L[r][p.peer][at.sent[p.peer] + i]
Delivers(code, r, L, promise) ==
  LET at == At(code, r, L)
      n  == Len(code.steps)
  IN  /\ \A k \in 1 .. n : Apart(code.steps[k]) /\ SendsRight(code.steps[k], r, L, at[k - 1])
      /\ \A i \in DOMAIN promise : Copy(at[n].mem, r, code.exit)[In(i)] = promise[i]

DeliveredCall(t, c) ==
  \A r \in Ranks : Delivers(CodeOf(t, c, r), r, Letters(t, c), Promise(t, c, r))

(* The calls of every setup deliver what they promise.                      *)
Delivered == \A s \in Setups : \A i \in DOMAIN s.work : DeliveredCall(s.topology, s.work[i])

(* Recursive doubling brings all operands together only among 2^k ranks     *)
(* (run mesh3_allreduce).                                                   *)
Doubling(t, c) == t = "fullmesh" /\ c.op \in {"AllReduce", "ReduceScatter"}
PowerOfTwo == \E k \in 0 .. N : N = Mask[k]
Fits(t, c) == Doubling(t, c) => PowerOfTwo
DoublingFits == \A s \in Setups : \A i \in DOMAIN s.work : Fits(s.topology, s.work[i])

-----------------------------------------------------------------------------
(* What is on the stream from a to b, and in the memory of r.               *)
LettersOf(c) == Letters(setup.topology, setup.work[c])

(* The chunks that a sends b in the calls before call c.                    *)
Earlier(a, b, c) == Sent(a, b, Len(StoryUpto[setup][a][b][c - 1]))

LinkInv(a, b) ==
  \A j \in 1 .. Len(link[a][b]) :
    LET unit == link[a][b][j]
    IN  unit.val = LettersOf(unit.call)[a][b][(Read(b, a) + j) - Earlier(a, b, unit.call)]

(* m is right where r, by itself at `at`, has come to state o with the      *)
(* transport calls of its step: its Recv has filled the slots it has read.  *)
MemRight(r, L, at, m, o, read) ==
  /\ (\A p \in DOMAIN o : p.dir = "send") => m = at.mem
  /\ \A p \in DOMAIN o : p.dir = "recv" =>
       \E n \in 0 .. Len(p.slots) :
         /\ m = Filled(at.mem, r, p, L, at.got[p.peer], n)
         /\ o[p] = "todo" => n = read
         /\ o[p] = "done" => n = Len(p.slots)
MemInv(r) ==
  up[r] /\ InCall(r) =>
    LET L == LettersOf(calls[r])
    IN  MemRight(r, L, At(Code(r), r, L)[pc[r] - 1], mem[r], part[r], got[r])

(* Every sound reader's stream holds the letters of the calls they belong   *)
(* to, a rank in a call holds what its program alone would have computed    *)
(* with these (RecvRaw filling recv_buf, ReduceData after it), and so a     *)
(* true means the promised result.                                          *)
DataInv ==
  /\ \A a, b \in Ranks : a # b /\ Sound(b) => LinkInv(a, b)
  /\ \A r \in Ranks : MemInv(r)
  /\ TrueMeansResult
=============================================================================
