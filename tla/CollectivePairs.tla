-------------------------- MODULE CollectivePairs --------------------------
(* Why untagged streams are enough: the Sends and Recvs of any two ranks    *)
(* pair up in the order of the programs.  Paired says so of the programs    *)
(* alone; StreamInv follows what the streams of a running communicator      *)
(* hold, and IInv what the tokens of a Barrier tell besides.                *)
(* CollectivesProofs shows that Paired holds and that IInv is inductive,    *)
(* for any number of ranks, calls and crashes.                              *)
EXTENDS Collectives

(* The messages that a step, and a program, exchange with q, in order.      *)
Said(step, q) ==
  IF \E p \in step.parts : p.peer = q
  THEN LET p == CHOOSE p \in step.parts : p.peer = q
       IN  <<[dir |-> p.dir, len |-> Len(p.slots)]>>
  ELSE <<>>
Talk(code, q) == [i \in 1 .. Len(code.steps) |-> Said(code.steps[i], q)]

(* A program has a step at least; the transport calls of a step have        *)
(* different peers, and one Recv at most is among them.                     *)
WellFormed(code, r) ==
  /\ DOMAIN code.steps = 1 .. Len(code.steps) /\ Len(code.steps) \in Nat \ {0}
  /\ \A i \in DOMAIN code.steps : LET parts == code.steps[i].parts IN
       /\ \A p \in parts : /\ p.dir \in {"send", "recv"}
                           /\ p.peer \in Ranks \ {r}
                           /\ Len(p.slots) \in Nat \ {0}
       /\ \A p, q \in parts : p.peer = q.peer => p = q
       /\ \A p, q \in parts : p.dir = "recv" /\ q.dir = "recv" => p = q

(* Two lists of messages are the two sides of one exchange.                 *)
Mirror(s, t) ==
  /\ Len(s) = Len(t)
  /\ \A k \in 1 .. Len(s) : s[k].len = t[k].len /\ s[k].dir # t[k].dir

PairedCall(t, c) ==
  /\ \A r \in Ranks : WellFormed(CodeOf(t, c, r), r)
  /\ \A a \in Ranks : \A b \in Ranks \ {a} :
       Mirror(Joined(Talk(CodeOf(t, c, a), b)), Joined(Talk(CodeOf(t, c, b), a)))

(* The calls of every setup pair up.                                        *)
Paired == \A s \in Setups : \A i \in DOMAIN s.work : PairedCall(s.topology, s.work[i])

-----------------------------------------------------------------------------
(* The messages that r and q exchange in all the calls of a setup, each     *)
(* with its call; and the chunks that r sends q in them, as they are on the *)
(* stream.                                                                  *)
Tagged(c, talk) ==
  [k \in 1 .. Len(talk) |-> [dir |-> talk[k].dir, len |-> talk[k].len, call |-> c]]
Story(s, r, q) ==
  [c \in 1 .. Len(s.work) |->
     Tagged(c, Joined(Talk(CodeOf(s.topology, s.work[c], r), q)))]
Chunks(m) ==
  IF m.dir = "send"
  THEN [i \in 1 .. m.len |-> [call |-> m.call, pos |-> i, of |-> m.len]] ELSE <<>>
Sends(s, r, q) ==
  LET msgs == Joined(Story(s, r, q)) IN [m \in 1 .. Len(msgs) |-> Chunks(msgs[m])]

StoryUpto == [s \in Setups |-> [r \in Ranks |-> [q \in Ranks |-> JoinedUpto(Story(s, r, q))]]]
Messages == [s \in Setups |-> [r \in Ranks |-> [q \in Ranks |-> Joined(Story(s, r, q))]]]
SendsUpto == [s \in Setups |-> [r \in Ranks |-> [q \in Ranks |-> JoinedUpto(Sends(s, r, q))]]]
SentChunks == [s \in Setups |-> [r \in Ranks |-> [q \in Ranks |-> Joined(Sends(s, r, q))]]]

(* How many of the messages with q rank r is through with, its Sends from   *)
(* when their chunks are on the stream.                                     *)
Through(p, state) == state = "done" \/ (p.dir = "send" /\ state # "todo")
Pos(r, q) ==
  IF InCall(r)
  THEN Len(StoryUpto[setup][r][q][calls[r] - 1])
       + Len(JoinedUpto(Talk(Code(r), q))[pc[r] - 1])
       + (IF \E p \in Parts(r) : p.peer = q /\ Through(p, part[r][p]) THEN 1 ELSE 0)
  ELSE Len(StoryUpto[setup][r][q][calls[r]])

(* How many chunks b has read from a.                                       *)
Sent(a, b, m) == Len(SendsUpto[setup][a][b][m])
Read(b, a) ==
  Sent(a, b, Pos(b, a))
  + (IF \E p \in Parts(b) : p.peer = a /\ p.dir = "recv" /\ part[b][p] = "todo"
     THEN got[b] ELSE 0)

(* A rank that runs and whose calls have all returned true so far.          *)
Sound(r) == up[r] /\ \A i \in DOMAIN results[r] : results[r][i]

(* What is on the stream from a to b is what b reads next of all the chunks *)
(* a ever sends b, and not past a message that a is to receive first; if a  *)
(* is sound it is all that a has sent.                                      *)
PairInv(a, b) ==
  LET n    == Len(link[a][b])
      read == Read(b, a)
      all  == SentChunks[setup][a][b]
      msgs == Messages[setup][a][b]
  IN  /\ read + n <= Len(all)
      /\ \A i \in 1 .. n :
           LET unit == link[a][b][i]
           IN  [call |-> unit.call, pos |-> unit.pos, of |-> unit.of] = all[read + i]
      /\ \A m \in (Pos(b, a) + 1) .. Len(msgs) :
           msgs[m].dir = "recv" => read + n <= Sent(a, b, m)
      /\ Sound(a) => Sent(a, b, Pos(a, b)) = read + n

States(p) == IF p.dir = "send" THEN {"todo", "open", "done", "failed"}
                               ELSE {"todo", "done", "failed"}

(* A rank in a call has not failed in an earlier one; got counts the chunks *)
(* of a Recv that goes on.                                                  *)
RankInv(r) ==
  /\ \A p \in Parts(r) : part[r][p] \in States(p)
  /\ InCall(r) => calls[r] > 0 /\ \A i \in DOMAIN results[r] : results[r][i]
  /\ ~(up[r] /\ InCall(r)) => part[r] = <<>>
  /\ \A p \in Parts(r) : p.dir = "recv" /\ part[r][p] = "todo" => got[r] < Len(p.slots)
  /\ (\A p \in Parts(r) : p.dir = "recv" => part[r][p] # "todo") => got[r] = 0

(* What TypeOK does not say: the shapes of the variables.                   *)
Dense(s) == s \in Seq({s[i] : i \in DOMAIN s})
Shapes ==
  /\ pc \in [Ranks -> Nat] /\ got \in [Ranks -> Nat]
  /\ DOMAIN part = Ranks /\ DOMAIN mem = Ranks
  /\ results \in [Ranks -> Seq(BOOLEAN)]
  /\ DOMAIN link = Ranks /\ \A a \in Ranks : DOMAIN link[a] = Ranks
  /\ \A a, b \in Ranks : Dense(link[a][b])

(* Nothing is on a stream to a rank that is gone, or to the rank itself.    *)
Closed == \A q, r \in Ranks : q = r \/ ~up[r] => link[q][r] = <<>>

(* The streams of a running communicator.                                   *)
StreamInv ==
  /\ Paired /\ TypeOK /\ Shapes
  /\ \A r \in Ranks : RankInv(r)
  /\ \A a, b \in Ranks : a # b /\ Sound(b) => PairInv(a, b)
  /\ HalfDuplex /\ Closed

-----------------------------------------------------------------------------
(* Barrier among other calls.  All ranks of S have entered call c.          *)
OnRing == setup.topology = "ring"
IsBarrier(c) == setup.work[c].op = "Barrier"
Entered(S, c) == \A q \in S : calls[q] >= c

(* Whom r knows to have entered a Barrier when it comes to step k: the      *)
(* first lap of the ring tells of the ranks before r, the second of all; on *)
(* the mesh rank 0 hears from the others one by one.                        *)
Heard(r, k) ==
  CASE OnRing  -> IF k >= (IF r = 0 THEN 3 ELSE 4) THEN Ranks
                  ELSE IF k >= 2 THEN 0 .. r ELSE {r}
    [] ~OnRing -> IF r = 0 THEN {q \in Ranks : q < k} ELSE {r}

(* On the ring: r is through with its first Recv of call c, has begun its   *)
(* first Send.                                                              *)
Past(r, c) ==
  calls[r] > c \/ (calls[r] = c /\ (~InCall(r) \/ pc[r] > IF r = 0 THEN 2 ELSE 1))
Begun(r, c) ==
  LET first == IF r = 0 THEN 1 ELSE 2
  IN  \/ calls[r] > c
      \/ calls[r] = c /\ \/ ~up[r] \/ ~InCall(r) \/ pc[r] > first
                         \/ pc[r] = first /\ \E p \in Parts(r) : part[r][p] # "todo"

(* What a token of call c tells, the j-th unit on the stream from a to b.   *)
TokenTells(a, b, j, c) ==
  CASE OnRing  -> b = Next1(a) =>
                    /\ Begun(a, c) /\ Entered(0 .. a, c)
                    /\ Past(b, c) \/ (\E i \in 1 .. (j - 1) : link[a][b][i].call = c)
                         => Entered(Ranks, c)
    [] ~OnRing -> a = 0 => Entered(Ranks, c)
TokenInv(a, b, j) ==
  LET c == link[a][b][j].call
  IN  c \in 1 .. calls[a] /\ (IsBarrier(c) => TokenTells(a, b, j, c))
TokensInv(a, b) == \A j \in 1 .. Len(link[a][b]) : TokenInv(a, b, j)

(* A rank in a Barrier is right about whom it has heard of; none is past    *)
(* its first Recv before the rank before it has begun its first Send.       *)
KnowsInv(r) == InCall(r) /\ IsBarrier(calls[r]) => Entered(Heard(r, pc[r]), calls[r])
LapInv(r) ==
  OnRing /\ Sound(r) =>
    \A c \in 1 .. Len(setup.work) : IsBarrier(c) /\ Past(r, c) => Begun(Prev1(r), c)

(* The inductive invariant: what a Recv reads next is meant for it, and     *)
(* what a Barrier is told of those who have entered it is true.             *)
IInv ==
  /\ StreamInv
  /\ \A r \in Ranks : KnowsInv(r) /\ LapInv(r)
  /\ \A a, b \in Ranks : a # b /\ Sound(b) => TokensInv(a, b)
  /\ BarrierSafe
=============================================================================
