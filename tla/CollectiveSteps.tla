-------------------------- MODULE CollectiveSteps --------------------------
(* What a collective does at one rank, seen from outside: a straight line   *)
(* of communication steps.  The topologies' modules translate the C++       *)
(* collectives into such programs; module Collectives runs them.            *)
(*                                                                          *)
(* A rank's memory during a call is an array of chunk-sized slots:          *)
(*   In(i)   chunk i of recv_buf (of `buffer` for Broadcast)                *)
(*   Tmp(i)  chunk i of the temporary vectors the collective allocates      *)
(*   Own(i)  chunk i of send_buf, which no collective writes                *)
EXTENDS Integers, Sequences

CONSTANT N                               \* world_size

ASSUME WorldSizeAssumption == N \in Nat /\ N >= 2

Ranks == 0 .. (N - 1)
Next1(r) == (r + 1) % N                  \* TopologyRing::GetNextRank
Prev1(r) == (r - 1 + N) % N              \* TopologyRing::GetPrevRank

In(i)  == i
Tmp(i) == N + i
Own(i) == 2 * N + i

Ins(n)  == [i \in 1 .. n |-> In(i - 1)]
Tmps(n) == [i \in 1 .. n |-> Tmp(i - 1)]

(* A step runs its transport calls, then the local memcpy's and reductions  *)
(* that follow them.  Several transport calls in one step are concurrent    *)
(* threads that the step joins.  A copy <<d, s>> is memcpy(d, s), a fold    *)
(* <<d, s>> is PerformReduce(s, d): d := d op s.                            *)
SendPart(p, slots) == [dir |-> "send", peer |-> p, slots |-> slots]
RecvPart(p, slots) == [dir |-> "recv", peer |-> p, slots |-> slots]

Step(parts, copies, folds) == [parts |-> parts, copy |-> copies, fold |-> folds]

Send(p, slots) == Step({SendPart(p, slots)}, {}, {})
Recv(p, slots) == Step({RecvPart(p, slots)}, {}, {})
RecvCopy(p, slots, copies) == Step({RecvPart(p, slots)}, copies, {})
RecvFold(p, slots, folds)  == Step({RecvPart(p, slots)}, {}, folds)

(* A program: the copies made on entry, the steps (at least one), and the   *)
(* copies made before returning true.                                       *)
Program(entry, steps) == [entry |-> entry, steps |-> steps, exit |-> {}]

(* The first i of a sequence of sequences, put end to end, for every i; and *)
(* all of them.                                                             *)
JoinedUpto(s) ==
  LET upto[i \in 0 .. Len(s)] == IF i = 0 THEN <<>> ELSE upto[i - 1] \o s[i]
  IN  upto
Joined(s) == JoinedUpto(s)[Len(s)]

(* The calls of the public API that communicate.  root is 0 where the call  *)
(* takes none.                                                              *)
RootedOps   == {"Broadcast", "Gather", "Scatter", "Reduce"}
RootlessOps == {"AllGather", "ReduceScatter", "AllReduce", "AllToAll", "Barrier"}
Calls == [op : RootedOps, root : Ranks] \cup [op : RootlessOps, root : {0}]
=============================================================================
