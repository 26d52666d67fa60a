---------------------------- MODULE RingPrograms ----------------------------
(* topology_ring.cpp: the program each collective runs at rank r.           *)
EXTENDS CollectiveSteps

(* position 0 is the root, N - 1 the rank farthest from it downstream.      *)
Position(r, root) == (r - root + N) % N

RingNeighbors(r) == {Next1(r), Prev1(r)}

RingBroadcast(r, root) ==
  LET forward == IF Next1(r) = root THEN <<>> ELSE <<Send(Next1(r), Ins(1))>>
  IN  Program({<<In(0), Own(0)>>},
              IF r = root THEN forward
                          ELSE <<Recv(Prev1(r), Ins(1))>> \o forward)

RingGatherMisplaced(r, root) ==          \* mutant: source_rank off by one
  LET held == N - Position(r, root)
      rest == [i \in 1 .. (held - 1) |-> Tmp(i)]
      place == {<<In((root + i) % N), Tmp(i)>> : i \in 1 .. (N - 2)}
  IN  IF r = root
      THEN Program({<<In(root), Own(0)>>},
                   <<RecvCopy(Next1(r), Tmps(N - 1), place)>>)
      ELSE Program({<<Tmp(0), Own(0)>>},
                   (IF held = 1 THEN <<>> ELSE <<Recv(Next1(r), rest)>>)
                   \o <<Send(Prev1(r), Tmps(held))>>)

(* The chain towards the root grows by one chunk per rank; the root takes   *)
(* the N - 1 chunks in one Recv and puts each at its rank's place.          *)
RingGather(r, root) ==
  LET held == N - Position(r, root)
      rest == [i \in 1 .. (held - 1) |-> Tmp(i)]
      place == {<<In((root + 1 + i) % N), Tmp(i)>> : i \in 0 .. (N - 2)}
  IN  IF r = root
      THEN Program({<<In(root), Own(0)>>},
                   <<RecvCopy(Next1(r), Tmps(N - 1), place)>>)
      ELSE Program({<<Tmp(0), Own(0)>>},
                   (IF held = 1 THEN <<>> ELSE <<Recv(Next1(r), rest)>>)
                   \o <<Send(Prev1(r), Tmps(held))>>)

(* source[i]: the slot of the root that goes to rank i.                     *)
RingScatterFrom(r, root, source) ==
  LET forwards == N - 1 - Position(r, root)
      pass == <<Recv(Prev1(r), Tmps(1)), Send(Next1(r), Tmps(1))>>
  IN  IF r = root
      THEN Program({<<In(0), source[root]>>},
                   [s \in 1 .. (N - 1) |->
                      Send(Next1(r), <<source[(root + s) % N]>>)])
      ELSE Program({},
                   <<Recv(Prev1(r), Ins(1))>> \o Joined([k \in 1 .. forwards |-> pass]))

RingScatter(r, root) == RingScatterFrom(r, root, [i \in Ranks |-> Own(i)])

(* A Reduce of the first n chunks: recv_buf accumulates at the root,        *)
(* temp_buffer at the others; recv_temp is what the rank upstream sent.     *)
RingReduceOf(n, r, root) ==
  LET theirs == [i \in 1 .. n |-> Tmp(i - 1)]
      fold == {<<In(i), Tmp(i)>> : i \in 0 .. (n - 1)}
      take == <<RecvFold(Next1(r), theirs, fold)>>
  IN  Program({<<In(i), Own(i)>> : i \in 0 .. (n - 1)},
              IF r = root THEN take
              ELSE (IF Position(r, root) = N - 1 THEN <<>> ELSE take)
                   \o <<Send(Prev1(r), Ins(n))>>)

RingReduce(r, root) == RingReduceOf(1, r, root)

RingAllGatherSendFirst(r) ==             \* mutant: every rank sends first
  LET send(s) == Send(Next1(r), <<In((r - s + N) % N)>>)
      recv(s) == Recv(Prev1(r), <<In((r - s + N - 1) % N)>>)
  IN  Program({<<In(r), Own(0)>>},
              Joined([k \in 1 .. (N - 1) |-> <<send(k - 1), recv(k - 1)>>]))

(* N - 1 rounds; even ranks send first, odd ranks receive first.            *)
RingAllGather(r) ==
  LET send(s) == Send(Next1(r), <<In((r - s + N) % N)>>)
      recv(s) == Recv(Prev1(r), <<In((r - s + N - 1) % N)>>)
      turn(s) == IF r % 2 = 0 THEN <<send(s), recv(s)>> ELSE <<recv(s), send(s)>>
  IN  Program({<<In(r), Own(0)>>}, Joined([k \in 1 .. (N - 1) |-> turn(k - 1)]))

(* Reduce of all N chunks to rank 0, then Scatter of the reduced buffer.    *)
(* The reduced buffer is kept in In; the scattered chunk ends in In(0).     *)
RingReduceScatter(r) ==
  LET reduce  == RingReduceOf(N, r, 0)
      scatter == RingScatterFrom(r, 0, [i \in Ranks |-> In(i)])
  IN  Program(reduce.entry, reduce.steps \o scatter.steps)

RingAllReduceTwoRanks(r) ==
  LET peer == 1 - r
      all == Ins(2)
      theirs == Tmps(2)
      fold == {<<In(i), Tmp(i)>> : i \in 0 .. 1}
  IN  Program({<<In(i), Own(i)>> : i \in 0 .. 1},
              IF r = 0 THEN <<Send(peer, all), RecvFold(peer, theirs, fold)>>
              ELSE <<Recv(peer, theirs), Step({SendPart(peer, all)}, {}, fold)>>)

(* The send of a step runs in a thread of its own beside the Recv.          *)
RingReduceScatterStep(r, s) ==
  LET sendChunk == (r - s + N) % N
      recvChunk == (r - s + N - 1) % N
  IN  Step({SendPart(Next1(r), <<In(sendChunk)>>), RecvPart(Prev1(r), Tmps(1))},
           {}, {<<In(recvChunk), Tmp(0)>>})

RingAllGatherStepLate(r, s) ==           \* mutant: starts one chunk too early
  LET sendChunk == (r - s + N) % N
      recvChunk == (r - s + N - 1) % N
  IN  Step({SendPart(Next1(r), <<In(sendChunk)>>),
            RecvPart(Prev1(r), <<In(recvChunk)>>)}, {}, {})

RingAllGatherStep(r, s) ==
  LET sendChunk == (r - s + 1 + N) % N
      recvChunk == (r - s + N) % N
  IN  Step({SendPart(Next1(r), <<In(sendChunk)>>),
            RecvPart(Prev1(r), <<In(recvChunk)>>)}, {}, {})

RingAllReduce(r) ==
  IF N = 2 THEN RingAllReduceTwoRanks(r)
  ELSE Program({<<In(i), Own(i)>> : i \in Ranks},
               [s \in 1 .. (N - 1) |-> RingReduceScatterStep(r, s - 1)]
               \o [s \in 1 .. (N - 1) |-> RingAllGatherStep(r, s - 1)])

(* N broadcasts of whole send buffers; rank r keeps chunk r of each.        *)
RingAllToAll(r) ==
  LET whole == [i \in 1 .. N |-> Own(i - 1)]
      ofSource(src) ==
        LET keep == {<<In(src), Tmp(r)>>}
            forward == Step({SendPart(Next1(r), Tmps(N))}, keep, {})
        IN  IF r = src THEN <<Step({SendPart(Next1(r), whole)},
                                   {<<In(src), Own(r)>>}, {})>>
            ELSE IF Next1(r) = src THEN <<RecvCopy(Prev1(r), Tmps(N), keep)>>
            ELSE <<Recv(Prev1(r), Tmps(N)), forward>>
  IN  Program({<<In(r), Own(r)>>}, Joined([i \in 1 .. N |-> ofSource(i - 1)]))

(* Two token rings that start at rank 0.                                    *)
RingBarrier(r) ==
  LET send == Send(Next1(r), Ins(1))
      recv == Recv(Prev1(r), Ins(1))
  IN  Program({}, IF r = 0 THEN <<send, recv, send, recv>>
                           ELSE <<recv, send, recv, send>>)

RingProgram(c, r) ==
  CASE c.op = "Broadcast"     -> RingBroadcast(r, c.root)
    [] c.op = "Gather"        -> RingGather(r, c.root)
    [] c.op = "Scatter"       -> RingScatter(r, c.root)
    [] c.op = "Reduce"        -> RingReduce(r, c.root)
    [] c.op = "AllGather"     -> RingAllGather(r)
    [] c.op = "ReduceScatter" -> RingReduceScatter(r)
    [] c.op = "AllReduce"     -> RingAllReduce(r)
    [] c.op = "AllToAll"      -> RingAllToAll(r)
    [] c.op = "Barrier"       -> RingBarrier(r)
=============================================================================
