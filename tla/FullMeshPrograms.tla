-------------------------- MODULE FullMeshPrograms --------------------------
(* topology_fullmesh.cpp: the program each collective runs at rank r.       *)
EXTENDS CollectiveSteps

MeshNeighbors(r) == Ranks \ {r}

(* for (peer = 0; peer < world_size; ++peer) if (peer != r) ...             *)
Peers(r) == [i \in 1 .. (N - 1) |-> IF i <= r THEN i - 1 ELSE i]
EachPeer(r, Steps(_)) == Joined([i \in 1 .. (N - 1) |-> Steps(Peers(r)[i])])

SwapSendFirst(r, peer, mine, theirs, folds) ==   \* mutant: both ends send first
  <<Send(peer, mine), RecvFold(peer, theirs, folds)>>

(* Send first towards a larger rank, receive first from a smaller one.      *)
Swap(r, peer, mine, theirs, folds) ==
  IF r < peer
  THEN <<Send(peer, mine), RecvFold(peer, theirs, folds)>>
  ELSE <<Recv(peer, theirs), Step({SendPart(peer, mine)}, {}, folds)>>

(* The root sends to every peer in a thread of its own and joins them all.  *)
MeshBroadcast(r, root) ==
  Program({<<In(0), Own(0)>>},
          IF r = root
          THEN <<Step({SendPart(p, Ins(1)) : p \in Ranks \ {r}}, {}, {})>>
          ELSE <<Recv(root, Ins(1))>>)

MeshGather(r, root) ==
  IF r = root
  THEN LET take(p) == <<Recv(p, <<In(p)>>)>>
       IN  Program({<<In(root), Own(0)>>}, EachPeer(r, take))
  ELSE Program({}, <<Send(root, <<Own(0)>>)>>)

MeshScatterWhole(r, root) ==             \* mutant: a peer receives N chunks
  IF r = root
  THEN LET give(p) == <<Send(p, <<Own(p)>>)>>
       IN  Program({<<In(0), Own(root)>>}, EachPeer(r, give))
  ELSE Program({}, <<Recv(root, Ins(N))>>)

MeshScatter(r, root) ==
  IF r = root
  THEN LET give(p) == <<Send(p, <<Own(p)>>)>>
       IN  Program({<<In(0), Own(root)>>}, EachPeer(r, give))
  ELSE Program({}, <<Recv(root, Ins(1))>>)

MeshReduce(r, root) ==
  IF r = root
  THEN LET take(p) == <<RecvFold(p, Tmps(1), {<<In(0), Tmp(0)>>})>>
       IN  Program({<<In(0), Own(0)>>}, EachPeer(r, take))
  ELSE Program({}, <<Send(root, <<Own(0)>>)>>)

MeshAllGather(r) ==
  LET swap(p) == Swap(r, p, <<Own(0)>>, <<In(p)>>, {})
  IN  Program({<<In(r), Own(0)>>}, EachPeer(r, swap))

MeshAllToAll(r) ==
  LET swap(p) == Swap(r, p, <<Own(p)>>, <<In(p)>>, {})
  IN  Program({<<In(r), Own(r)>>}, EachPeer(r, swap))

(* mask <<= 1                                                               *)
Mask[k \in 0 .. N] == IF k = 0 THEN 1 ELSE 2 * Mask[k - 1]

(* rank ^ mask for mask a power of two                                      *)
XorMask(r, mask) == IF (r \div mask) % 2 = 0 THEN r + mask ELSE r - mask

(* Recursive doubling over n chunks: for mask = 1, 2, 4, ... below N, swap  *)
(* with rank ^ mask when there is such a rank, and reduce.                  *)
MeshDoubling(r, n) ==
  LET folds == {<<In(i), Tmp(i)>> : i \in 0 .. (n - 1)}
      round(mask) == LET peer == XorMask(r, mask)
                     IN  IF peer < N THEN Swap(r, peer, Ins(n), Tmps(n), folds)
                                     ELSE <<>>
  IN  Joined([k \in 1 .. N |-> IF Mask[k - 1] < N THEN round(Mask[k - 1]) ELSE <<>>])

MeshAllReduce(r) == Program({<<In(0), Own(0)>>}, MeshDoubling(r, 1))

(* The whole vector is reduced, then chunk r extracted.                     *)
MeshReduceScatter(r) ==
  [Program({<<In(i), Own(i)>> : i \in Ranks}, MeshDoubling(r, N))
     EXCEPT !.exit = {<<In(0), In(r)>>}]

MeshBarrierNoAck(r) ==                   \* mutant: nobody reads the answer
  LET hear(p)   == <<Recv(p, Ins(1))>>
      answer(p) == <<Send(p, Ins(1))>>
  IN  Program({}, IF r = 0 THEN EachPeer(0, hear) \o EachPeer(0, answer)
                           ELSE answer(0))

(* Rank 0 hears from every rank, in rank order, then answers every rank.    *)
MeshBarrier(r) ==
  LET hear(p)   == <<Recv(p, Ins(1))>>
      answer(p) == <<Send(p, Ins(1))>>
  IN  Program({}, IF r = 0 THEN EachPeer(0, hear) \o EachPeer(0, answer)
                           ELSE answer(0) \o hear(0))

MeshProgram(c, r) ==
  CASE c.op = "Broadcast"     -> MeshBroadcast(r, c.root)
    [] c.op = "Gather"        -> MeshGather(r, c.root)
    [] c.op = "Scatter"       -> MeshScatter(r, c.root)
    [] c.op = "Reduce"        -> MeshReduce(r, c.root)
    [] c.op = "AllGather"     -> MeshAllGather(r)
    [] c.op = "ReduceScatter" -> MeshReduceScatter(r)
    [] c.op = "AllReduce"     -> MeshAllReduce(r)
    [] c.op = "AllToAll"      -> MeshAllToAll(r)
    [] c.op = "Barrier"       -> MeshBarrier(r)
=============================================================================
