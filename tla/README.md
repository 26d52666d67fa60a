# A TLA+ development of mini_ccl

mini_ccl is a small collective communication library in C++: processes of a
group (the *ranks* of a *communicator*) exchange and reduce vectors with
Broadcast, Gather, Scatter, Reduce, AllGather, ReduceScatter, AllReduce, AllToAll
and Barrier, over a ring or a full mesh of TCP or RDMA connections. These modules
model its algorithms and its protocol between the ranks; TLC checks them on small
groups, and TLAPS proves the central claims for groups of any size.

Paths below are relative to `src/` (so `src/topology_ring.cpp` is
`src/src/topology_ring.cpp` in `PROJECT.json`).

## 1. Inventory

### Components, their state and operations

| Component | Source | State | Operations |
|---|---|---|---|
| Communicator | `src/communicator.cpp` | rank, world size, topology, a map rank -> transport, a listening transport | Init (Bootstrap, then InitTransports), Finalize, Send, Recv, the nine collectives (delegated to the topology) |
| Topology (base, factory) | `include/topology*.h` | none | GetNeighbors, ShouldConnect, the collectives |
| Ring topology | `src/topology_ring.cpp` | none between calls; in a call: the caller's buffers, temporary buffers, the loop position, one sender thread | the collectives, to the next and from the previous rank |
| Full-mesh topology | `src/topology_fullmesh.cpp` | the same; several sender threads in Broadcast | the collectives, with any rank |
| TCP transport | `src/transport_tcp.cpp` | a socket, `connected` | Listen, Accept, Connect, Send, Recv, Close; loops over partial `send` and `recv` |
| RDMA transport | `src/transport_rdma.cpp` | QP, one CQ for both directions, a pool of registered buffers, a mutex for Send and one for Recv, an event channel | the same, with ExchangeQPInfo inside Connect and Accept; Send and Recv through the pool or zero-copy; PollCompletion, busy or event-driven |
| RDMA shared resources | `include/transport_rdma.h` | device context and protection domain, reference counted; scope-bound registrations | acquire, release |
| Bootstrap | `src/bootstrap.cpp` | the table of NodeInfo, rank 0's listening socket | RunMaster: accept all, then send the table to all; RunWorker: report, then wait for the table |
| Utils | `src/utils.cpp` | none | ReduceData, PerformReduce, sockets, encoding |
| Logger, types, factories | `include/` | none that others read | |

### How they interact

* `Communicator::X` calls `Topology::X`, which looks its peers up with
  `GetTransport` and calls `Send` and `Recv` on them. These block.
* Ranks are separate processes; between two of them there is one connection, a
  FIFO byte stream in each direction. **No message has a header**: nothing on the
  stream says which call, which chunk or what length it belongs to. That the right
  bytes meet the right `Recv` follows only from both ends running matching
  sequences of steps.
* Inside a rank, `TopologyRing::AllReduce` (and AllToAll's and the mesh's
  Broadcast) start a thread that sends while the main thread receives; both touch
  `recv_buf` and no lock protects it. The result of the threaded `Send` is dropped
  in the ring, and checked after the join in the mesh's Broadcast.
* Failures surface as `false` from `Send` or `Recv`, when the peer's socket is
  closed. There are no timeouts in the collectives. No signal handler is
  installed, so writing to a closed connection may also end the process (SIGPIPE).
* Initialization: Bootstrap distributes every rank's address through rank 0; then
  each rank runs a connecting and an accepting thread per peer, the topology's
  `ShouldConnect` deciding which end connects. Ranks come out of Bootstrap one after
  the other: the first are connecting while the last still wait for the table.
* An RDMA connection is set up over a TCP socket of its own, on which both ends tell
  each other their queue pair. After that the hardware writes into the buffers and
  completion queues of a process, beside its threads.

### What is hard here, and what makes each component correct

The full list, each item at its line, is `hazards` in `PROJECT.json`. In short:

* *Collectives*: a call that returns true has the right result at every rank, also
  when other ranks die and whatever call came before (TrueMeansResult); an untagged
  stream never hands a call another call's bytes (RecvMatchesSend, NothingUnread); no
  cycle of blocking Sends and Recvs, on any buffering (Termination).
* *AllReduce on the ring*: two threads on one vector (SendBufferStable), chunk
  indices computed separately at both ends (ChunksAgree), no operand counted twice
  (NoDoubleCount), results of Sends that are ignored (TrueMeansReduced), ranks that
  run ahead (Backlog); chunk bounds in `size_t` (InBuffer, AllReduced).
* *Barriers*: nobody leaves before all have entered, across consecutive calls whose
  messages look alike (RefinesBarrier, OneToken, AckOfThisCall).
* *Reductions*: overflow, the order operands meet in, division in AVG (ResultRight,
  RanksAgree, AvgRight).
* *Wiring*: the direction of connections leaves no cycle of ranks waiting for each
  other (Termination); either all transports exist or Init fails
  (OneTransportPerPeer); a success cuts no one off, and nothing
  fails on its own (NoFalseAlarm); no port is used that is not announced (PortsKnown).
* *Bootstrap*: a table is complete or the call returns false (TablesRight), and false
  only for a cause (FailsForCause), whoever dies at whatever point; the workers left
  over by a broadcast that stopped half way notice (AcceptedReturn); all of it is a
  table exchange (RefinesExchange).
* *Transports*: each direction is one stream of bytes, complete and in order, that a
  Recv cuts at the lengths it asks for (RefinesTransport), through partial socket calls,
  buffers of limited size, a pool that both directions use and a completion queue that
  both poll (PoolWhole, OwnCompletion); false only for a cause (FailsForCause); no
  completion is slept through and nobody waits in the set-up (Termination).

## 2. Modules

### The programs of the collectives

* **CollectiveSteps** - a collective at one rank is a *program*: a sequence of
  steps, each a set of transport calls that run together (one, or a sender thread
  beside a Recv), followed by copies and reductions between slots of memory. The
  slots are `recv_buf` (In), temporary buffers (Tmp), and the caller's `send_buf`
  (Own).
* **RingPrograms**, **FullMeshPrograms** - the program of each collective, one
  operator per method of `topology_ring.cpp` and `topology_fullmesh.cpp`. The
  loops of the code are sequence comprehensions; the order of transport calls, what
  is sent from where and into where it is received is kept.
* **Collectives** - the ranks run any sequence of programs over FIFO streams: the
  state machine. A chunk of data is the bag of operands `<<rank, chunk>>` that were
  reduced into it, so a lost, doubled or misplaced operand shows. Actions: `Call`
  (communicator.cpp 169-221), `BeginSend`, `EndSend`, `FailSend` (TransportTCP::Send
  and SendRaw), `RecvChunk`, `FailRecv` (RecvRaw), `Crash`, `BrokenPipe` (SIGPIPE),
  `Finalize`. `EndPart` is what the topology does after each transport call: join,
  test the results the code tests (`StepFails`), return or go on.
* **CollectivePairs** - why untagged streams are enough: `Paired` says of the programs
  alone that the messages of any two ranks mirror each other in order, `StreamInv` what
  a running group keeps of it, and `IInv` adds what the tokens of a Barrier tell
  (section 4).
* **CollectiveData** - why a true means the promised result: `Letters` says what the j-th
  chunk is that rank a sends b in a call, `Delivered` says of the programs alone that they
  keep to it, and `DataInv` follows the contents through streams and memories (section 4).
* **MCCollectives** - the workloads for TLC (a variable `setup` holds the topology,
  the calls, the buffering and the number of crashes), and the assumption
  OnlyNeighbors: the programs only use connections the topology asks for.

### AllReduce on the ring, in detail

* **RingAllReduce** - the 2(N-1) steps of `AllReduceReduceScatter` and
  `AllReduceAllGather` with both threads of each rank: `BeginSend`/`EndSend` are the
  thread, `RecvOk`/`RecvFail` the main thread's Recv, `JoinOk`/`JoinFailed` the join
  and what follows it. `data[r][c][q]` counts how often rank q's operand is in
  chunk c at rank r. Where Collectives takes a step's Send as one copy of the
  data, here `SendBufferStable` says that this is right: nobody writes the chunk
  while the thread sends it.
* **RingChunks** - which elements a chunk is: `chunk_size`, `offset` and `actual_count`
  with the wrap-around of `size_t`.

### Barriers

* **Barrier** - the abstract specification: `Leave(r)` only when every rank has
  entered as many Barriers as r.
* **BarrierCalls** - the calls and returns a caller sees, the mapping to Barrier, and
  the liveness promise, shared by
* **RingBarrier** (topology_ring.cpp 625-692) and **MeshBarrier**
  (topology_fullmesh.cpp 541-608), which implement Barrier. Messages carry no
  data, so a stream is the difference of two counters.
* **MCBarriers** - both in one instance for TLC.

### Initialization

* **Group** - the ranks and `world_size`.
* **TableExchange** - the abstract specification of Bootstrap: ranks announce
  themselves, and a rank learns the table once all have, or fails.
* **Bootstrap** - `Bootstrap::Run` at every rank. The master's `Accept`, `Gather` and
  `Tell` are the turns of the three loops of RunMaster (`at` is the index, `socks` is
  worker_socks in the order of the accepts, `table` is all_nodes); `Connect`, `Report`
  and `Learn` are RunWorker's connect, SendNodeInfo and RecvAllNodes. Each has the
  failure the code tests: a closed socket (`GatherFails`, `TellFails`, `ReportFails`,
  `LearnFails`), a refused connect whose retries are used up (`GiveUp`), a listen
  that fails. `Die` ends a process anywhere in Run.
* **Wiring** - `Communicator::InitTransports` at every rank, once the addresses are
  known. The main thread's position is `phase`; each connecting thread is an entry of
  `out` (`BeginConnect`, `Connect` or `GiveUp`, `LockOut`, `InsertOut`); accepting threads
  are interchangeable until they have accepted somebody, so they are the counters
  `idle` and `accepting` and then an entry of `acc` (`BeginAccept`, `Accept`,
  `RecvRankFails` or `LockAcc`, `InsertAcc`). `pending` is the queue of the listening
  transport, which lives as long as the call. `Join` is the two joins and the test
  of error_occurred; `Tell`, `TellFails` and `Ready` send the rank and return. An insert
  into `transports` takes two steps, under the mutex of its kind of thread;
  LostInserts says whether inserts of different kinds that overlap may lose one, as the
  data race permits. `NoTable` is a rank that never gets here, since its Bootstrap failed.
* **CommunicatorInit** - `Communicator::Init`, the composition of the two: every rank
  runs Bootstrap and then, with the table it got, InitTransports, while the others are
  wherever they are. `Wires(r)` needs stage "true"; a rank whose Bootstrap fails takes
  `NoTable` in the same step, and can be connected to by nobody.

### Transports

* **Transport** - the abstract specification of Send and Recv: `Take` and
  `RecvReturns` on two streams of numbered bytes.
* **TwoEnds** - the two ends of a connection, what they call on it, and what it is to
  take turns.
* **TransportCalls** - what both transports share: two ends that go through the steps
  of a program (each a Send, a Recv, or a Send in a thread beside a Recv) and close after
  the last step or the first false. `handed`, `sent`, `taking` and `got` count bytes in and
  out, of the current call and in all, so `T!Spec` of Transport can be read off them.
  `Matched` says that the ends agree on sizes: the calls of either direction end at the
  same bytes (`Upto(e, op)[i]` is what e's first i steps move).
* **TcpTransport** - `SendSome` and `RecvSome` are one turn of the loops of SendRaw
  and RecvRaw, moving as many bytes as the socket likes, up to `StreamSize` in flight;
  `SendFails`, `RecvFails`; a close with unread bytes may reset the connection (`Cut`).
* **RdmaTransport** - the exchange of queue pairs (`SendQPInfo`, `RecvQPInfo`,
  `ExchangeFails`), then `PostRecvWRsForBufferPool`. A call is at `at[e][op]`:
  `BeginSend` allocates a buffer, copies and posts; `BeginRecv` posts the caller's
  buffer in zero-copy mode; `FindNothing`, `RequestNotify`, `Block` and `Wake` are the
  event-driven PollCompletion; an end closes once it is connected; `EndSend`, `FailSend`, `EndRecv` and `FailRecv` take the
  first completion in the queue, whatever it is of, and look at what the code looks at.
  The hardware is `Deliver`, `DeliverTooLong`, `Acknowledge` and `RetriesExceeded`
  (modelled from how the code uses it). `mem` holds what is in each buffer *now*, so a
  buffer written while somebody still needs it shows.
* **MCTransports** - the programs for TLC, and both transports in one instance.

### Arithmetic

* **Reduction** - `Utils::ReduceData` and `PerformReduce` on integers of `IntMod`
  values (2^32 and 2^64 in the code; signed overflow wraps, as the build does; division
  truncates), and the order in which
  each topology lets the operands meet, against reference definitions of the four
  operations.
* **MCArithmetic** - Reduction and RingChunks (above) in one instance for TLC.

### Proofs

**CollectivesProofs**, **CollectiveDataProofs**, **RingAllReduceProofs**, **ArithmeticProofs** (RingChunks and Reduction),
**BarrierProofs** (both barriers and
MCBarriers), **CommunicatorInitProofs** (Bootstrap, Wiring and their composition),
**TransportCallsProofs** (lemmas that both transports use: sequences of bytes, the sums
`Upto`, the steps of a call), **TransportProofs** (both transports).

## 3. What the runs check

| Run | Instance | Shows |
|---|---|---|
| `collectives_3` | 3 ranks, ring and mesh. (a) all ordered pairs of calls with every root, (b) every call followed by Barrier, one rank may crash anywhere | that the programs pair up, the inductive invariant of CollectivesProofs (types included), the safety properties of the collectives, and Termination |
| `collectives_4` | 4 ranks, every call then Barrier, streams that buffer nothing | the inductive invariant of CollectiveDataProofs, of which the right results are a part, and deadlock-freedom, where N-2 ranks are not neighbours and recursive doubling has two rounds |
| `mesh3_allreduce` | 3 ranks, mesh AllReduce | *violation*, see findings |
| `ring_allreduce` | 3 ranks, any may die; streams buffer everything or nothing | the inductive invariant of the proofs, and every property of RingAllReduce |
| `barriers` | 4 ranks, 3 Barriers each, either topology | refinement of Barrier, the inductive invariants, liveness |
| `arithmetic` | ring chunks: world sizes 3 to 7, counts 0 to 20 that fit; reductions: 4 ranks, integers of 16 values, all shapes, roots and operations | no access outside the buffer, no element left out; results and agreement through every wrap-around |
| `reduction_avg3` | 3 ranks, AVG | *violation*, see findings |
| `ring_chunks_ten` | 7 ranks, 10 elements | *violation*, see findings |
| `init` | Communicator::Init of 3 ranks of a ring; one process may die in Bootstrap, listens may fail, connects be given up; LostInserts = FALSE | tables complete or false, all transports on success, no failure without a cause, no port used early, refinement of TableExchange, Wiring's inductive invariant; Termination without a failure; AcceptedReturn with one |
| `wiring_race` | Wiring alone, 3 ranks of a ring, LostInserts = TRUE | *violation*, see findings |
| `transports` | both transports; 3 one-way programs and 2 whose ends disagree on a size, over TCP also two that Send and Recv at once; pool and zero-copy, busy and events; one process may die | refinement of Transport, the pool, whose completion is taken, failures for a cause only, Termination |
| `rdma_duplex` | over RDMA, each end with a Send in one thread beside a Recv in another | *violation*, see findings |

**Bounds.** A workload of two calls is enough for what one call leaves to the next,
because a returned call keeps no state but its unread messages. Three ranks are the
smallest ring whose next and previous rank differ; four are the smallest with
non-neighbours, and the smallest non-trivial power of two for recursive doubling. The
buffering `cap` is at least what any stream can hold (so Sends never have to wait) or
0; between the two nothing new is enabled. One spontaneous crash is enough in
Collectives since the others follow from it by `Finalize` and `BrokenPipe`; in
RingAllReduce all ranks may die. Three rounds of Barrier let a rank be a call
ahead in the middle of a sequence. Four bits make sums of four operands wrap in both
directions. Three ranks in a ring are wired by ranks with no, one and two peers to
accept, and the last waits for the first across the ring; a mesh of three is a
ring of three, and four ranks, now that they go through Bootstrap too, are
beyond TLC and left to the proofs. In Bootstrap three ranks give the master two workers,
enough for a broadcast that reaches one of them and for accepts in either order; a
second death would only repeat the first, since a rank that fails closes its sockets
as a dead one does. In the transports a pool of two buffers of two bytes is smaller than
the programs' longest message (3 bytes, two chunks) and than their longest run of
messages (3 without an answer), so buffers are used again and chunks are cut; a socket
that keeps two bytes makes both loops turn. `SizeMod` stands for 2^64; any value above the sizes gives the same
wrap-around.

**Fairness.** Each rank is an operating-system process and each sender a thread; weak
fairness of a rank's steps says that a thread that can go on is scheduled at some
time. Fairness does not include crashes. Nor does it promise buffering: a Send towards
a live peer must return only once the peer has read everything (`SureStep`), so
Termination does not rely on the socket buffers. Whether a Send to a rank that has
gone fails, succeeds, or kills the sender is left open.

In Bootstrap and Wiring, too, a failing listen and a death are never due. Retries come
to an end: a rank whose peer does not listen gives up at some time (`GiveUp` is one of
its steps), unless the peer begins to listen first. Once anything of this has happened,
Termination promises nothing: the master waits for a worker that died in
accept, and a rank whose error flag is set waits for its accepting threads, and accept
has no timeout. What holds all the same is AcceptedReturn: when the master has accepted
every worker, everyone gets out of Bootstrap whoever dies.

In the transports the Send and the Recv of an end are threads, each weakly fair, and
so is the hardware: it delivers, acknowledges and gives up retries. Deaths are not due.
Termination over RDMA claims nothing after a death or between ends that disagree on
sizes: a queue pair hears of its peer only when it sends, so a Recv waits for ever.

**Deadlock** is not checked as such in the runs whose ranks stop at the end
(`CHECK_DEADLOCK FALSE`): there Termination, which fails in any state where a live
rank is stuck, takes its place.

## 4. What is proved

For every value of the constants (each proof module checks without open obligations):

* **RingAllReduce**, for N >= 3, any capacity, any number of deaths. The inductive
  invariant `IInv` gives a closed form for all data: `Content(r, c, k)` is what chunk c
  at rank r holds after k steps, in terms of the number of hops `Dist(r, c)`
  from the rank where the chunk's reduction starts. Temporary buffers, streams and the
  vector all hold a Content (`DataInv`, `TempInv`, `StreamsInv`), and a rank is never
  past what it has received (`CountersInv`). None of the
  properties is inductive: that a final chunk is complete follows only from knowing
  every intermediate one, and messages in flight. From IInv:
  *ReducedCorrect* (true means every operand exactly once), *NoDoubleCountCorrect*,
  *ChunksAgreeCorrect*, *SendBufferCorrect* (an action property: the main
  thread does not write what the thread is sending), *TypeCorrect*; and with a second
  invariant, that no rank leads another by more than the hops between them
  (`LeadInv`), *BacklogCorrect*: a stream never holds more than N messages,
  however much it could buffer.
* **Collectives**, for any N, any sequences of calls, any buffering and any number of
  deaths: *ProgramsPair*, *PairedInvariance*, *RecvMatchesSendCorrect*,
  *NothingUnreadCorrect*, *HalfDuplexCorrect*, *BarrierSafeCorrect*,
  *CollectivesTypeCorrect*. ProgramsPair
  is `Paired`, a statement about the programs with no state in it: each step has one
  transport call per peer and one Recv at most, and whatever one rank says to another
  in a call, the other says in return, with the same sizes, in the same order, and
  with Send and Recv exchanged. It is proved program by program. `Speak(s, q)` is what
  the steps s say to rank q; it goes through concatenation (`SpeakConcat`) and loops
  (`SpeakJoined`), and so does `Match`, that two ranks' steps fit (`MatchConcat`,
  `MatchJoined`). On the ring it is enough to look at r and its next rank (`Ringed`,
  `RingedPairs`), with two ranks as a case apart, where the next rank is the previous
  one, too; there a rank that sends first must face one that receives first, which is
  what the parity of the rank in AllGather and the order in AllReduceTwoRanks are for.
  On the mesh there are two patterns: one rank talks with each other (`HubPairs`), and
  every two ranks swap (`SwapsPair`). In recursive doubling round k pairs r with
  r XOR 2^k or with nobody (`DoubledMatch`: the XOR is its own inverse, `XorFacts`), and
  no rank is without a round (`DoublingPeer`), whether or not N is a power of two.
  The invariant is about the machine: `Messages` lists what two
  ranks say in all their calls, `Pos(r, q)` how many of them r is through with,
  `SentChunks` every chunk that one ever sends the other. `PairInv(a, b)` says that what
  is on the stream from a to b are the chunks that b reads next, of those a ever
  sends (`Read`), and that they never reach past a message which a is to receive
  first. None of the properties is inductive: a chunk that b is about to read was put
  on the stream any number of calls ago. The invariant speaks only of readers that are
  `Sound`, alive and with every call true so far: one that goes on after a failure reads
  what the failed call left, as section 5 says. Writers may be anything, since one
  that fails or dies only ends the stream early; if the writer is sound, too, nothing
  is missing, and so a reader whose calls are all over has read everything.
  BarrierSafe needs more, since the rank that returns has heard of most others at second
  hand only. `Heard(r, k)` is whom r knows to have entered the Barrier when it comes
  to step k, and `TokenTells` what a token on a stream tells who reads it. Rank 0 of the
  mesh answers only when it has heard everyone. On the ring both laps carry the same
  chunk, and a rank that takes the token of the first lap for that of the second would
  return too early: the second token of a call is one whose reader is through with its
  first Recv (`Past`) or that waits behind another of the same call, and it may be there
  only once all have entered. `LapInv` (no rank is past its first Recv before the rank
  before it has begun its first Send) and the truth of every token keep the
  first apart from the second when it is sent; that the token at the head of the stream
  is one of this call, not of an earlier Barrier, is RecvMatchesSend. A rank that dies or
  fails changes nothing: it has still entered, and what it has sent stays true.
* **CollectiveData**, with the same generality: *CollectivesDeliver*, *DataInvariance*,
  *TrueMeansResultCorrect*, the claim that matters most: a collective that returns true
  has the promised result in recv_buf, whatever came before and whoever dies. At the end of
  a call nothing is left from which that could be seen, so the proof follows every chunk on
  its way. `Letters(t, c)[a][b][j]` is what the j-th chunk is that a sends b in call c:
  in a Reduce on the ring, for one, the operands of all ranks from which a lies on the way
  to the root; in recursive doubling those of a's block. The argument has two halves.
  The first half is about a program by itself. `At(code, r, L)` is what rank r holds after each
  step when its Recvs get the letters L, and `Delivers` says that then its Sends send
  the letters too, that no Recv writes a slot which the Send beside it reads, and that
  the end is as promised. It is proved program by program, as one proves a sequential
  program: a `Point` is what is known somewhere in it, of some slots the contents and of some
  peers the number of chunks exchanged; `Leads` says that a step leads from one point to
  the next, `Ran` the same of a row of steps, and loops are rows of rounds with a point
  between any two (`RanRounds`). Unlike TLC, such a proof says why a program is right: that the
  reducing rounds of AllReduce pass chunk r - k with the operands of the k + 1 ranks
  behind (`Trail`), or that two blocks of recursive doubling have nobody in common and make
  up the next (`KinFacts`).
  The second half is about the machine. `DataInv` says that every unit on a stream that a
  sound rank reads is the letter at its place in the call it belongs to, and that the memory
  of a rank in a call is what its program alone would have computed, up to the chunk the
  current Recv has come to (`MemRight`). That the next chunk to be read is the next letter
  follows from the invariant of CollectivesProofs: the stream has no gaps and no foreign
  chunks. `DoublingFits` is a hypothesis (N is a power of two if a setup calls AllReduce
  or ReduceScatter on the full mesh), not there for the proof's sake: finding 1.
* **RingBarrier**, **MeshBarrier** and **MCBarriers** (a group on either topology), for
  N >= 2 and any number of calls: *RingInvariance*, *MeshInvariance*, and from them
  *Refinement* (each implements Barrier), *IndInvCorrect*, *OneTokenCorrect*,
  *AckOfThisCallCorrect*. The ring's invariant orders the counters along the
  ring from rank 0: no rank has received more tokens than any rank before it has sent,
  so that the second lap can begin only when the first has passed everyone.
* **RingChunks** under `AllFit`, the condition that every chunk begins inside the buffer;
  `ring_chunks_ten` shows what happens without. *ChunksTile*: the chunks end where the
  next begin; *InBufferCorrect* follows. *AllReducedCorrect* needs to know what every
  rank holds of every chunk after every step (`ReachedInv`): its own operand alone until
  the partial result, which chunk c starts at rank c, has come the `Hop(r, c)` ranks to it,
  then all operands from c to r; and in the second phase the whole result as far as it has
  come. A step brings rank r the chunk with the next hop (`Hops`), and no element is in
  two chunks (`ChunksApart`) or in none (`ChunksCover`).
* **Reduction**, for every N >= 2, width, operand, root and operation: *ReductionInvariance*,
  *ResultRightCorrect*, *RanksAgreeCorrect*. Neither property says anything before the
  last round, so the invariant says what a rank holds in between: `Met(r)` is whose operands
  have come to r so far, and `val[r]` is these, reduced (`ReducedTo`). A round brings r
  what another rank holds, and that rank has met nobody whom r has met (`Meets`): SUM would
  count an operand twice otherwise. Each shape has its own reason: a position on the ring
  not yet passed, a peer not yet heard, the other half of a block of ranks (`Blocks`).
  That wrapping on the way does not change the whole sum is `WrapSum`; the sum, a fold over
  a set of ranks in the order a CHOOSE picks, is additive over disjoint sets
  (`FoldIsSum`). After the last round every holder has met every rank (`HoldersMet`).
  AVG divides on the way and so depends on the order: the ranks agree on it
  because those that have met the same operands reduced the same two values
  in the last round, one in either order (`Alike`, `RoundAlike`). The hypothesis
  `DoublingFits` (N is a power of two if recursive doubling is among the shapes) is
  not there for the proof's sake: finding 1 is what happens among three ranks.
* **Wiring**, for N >= 2, both topologies, and inserts that lose nothing: *WiringInvariance*,
  *OneTransportCorrect*, *NoneLeftCorrect*, *NoFalseAlarmCorrect*. That the map is complete
  follows from a count: without an error, accepting threads not begun, waiting, and
  done with somebody are as many as the peers (`ThreadsInv`), and nobody is accepted
  twice (`ConnectionInv`), so when no thread waits everyone has been accepted. That a rank
  fails only for a cause needs the same, since a missing transport would also end it.
* **Bootstrap**, for N >= 2 and any number of deaths: *BootstrapInvariance*,
  *BootstrapRefinement* (of TableExchange). TablesRight is not inductive: that the
  table is whole when the first worker gets it follows from a count, too. The sockets
  accepted are pairwise different (`SocksInv`), so N - 1 accepts are all the workers,
  and whom the loop has read stands at its own index (`GatherInv`), so after N - 1 turns
  the table is whole and stays so while it is sent (`SentInv`).
* **CommunicatorInit**, for N >= 2: *BootstrapHolds* and *WiringHolds* say that inside
  the composition each part still behaves as its own specification, so that what is
  proved of the part holds in the whole: *TablesCorrect*, *FailsCorrect*, *ExchangeHolds*,
  *OneTransportInInit*. *PortsCorrect* (PortsKnown) belongs to neither part: it needs
  the invariants of both, and that a rank wires up only after Run returned true.

* **TcpTransport**, for every two programs, socket size and number of deaths, whether the
  ends agree on sizes or not: *TcpInvariance*, *TcpRefinement* (of Transport: one stream
  of bytes each way, in order and complete, however the loops of SendRaw and RecvRaw split
  it), *TcpFailsForCauseCorrect*. The invariant says where each byte is: those returned, those
  of the current Recv and those in the socket are numbered without a gap (`DataInv`). That
  an end which closes first breaks nothing needs more (`CauseInv`): when sizes match,
  an end that is through its program has read and been sent all it ever will, by comparing
  the sums `Upto` of both ends, so a close with unread bytes does not happen.
* **RdmaTransport**, for every number and length of buffers, both modes (pool and
  zero-copy), both ways of polling and any number of deaths: *Invariance*, *TypeCorrect*,
  *PoolWholeCorrect*, *OwnCompletionCorrect*, *FailsForCauseCorrect*, *Refinement*, all for
  ends that `TakesTurns`: in every step one sends what the other receives. The hypothesis
  is not there for the proof's sake. Without it the theorems are false, which run
  `rdma_duplex` shows and finding 5 describes. The collectives satisfy it, for every
  number of ranks, sequence of calls and size of chunks: *CollectivesTakeTurns*, which
  follows from ProgramsPair and reads the messages of two ranks as a program of the two
  ends of their connection. So do the one-way programs of MCTransports.
  The invariant `IInv` has, for each end: calls and counters (`CallOf`), the bytes
  received (`DataOf`); that the completion of its own work request comes first in its queue
  and nothing arrives while one is under way (`QueueOf`, `WorkOf`), from which OwnCompletion
  follows; that each buffer is posted or filled with exactly one message that has
  arrived (`RequestsOf`); that the messages on their way form a chain from the bytes
  the Recv has read to those the Send has handed over, each cut where the Recv
  expects it (`ChainOf`), so that none is too long for its request; and why an end may have
  left (`CauseOf`), with the order of the set-up (`SetupInv`).

Assumptions are only those on the constants (RingAssumption, BarrierAssumption,
SizesAssumption, GroupAssumption, WiringAssumption, CallsAssumption,
PoolAssumption, ReductionAssumption, WorldSizeAssumption, SetupsAssumption), and the hypotheses named above: AllFit, DoublingFits
and TakesTurns.

**Model-checked only**: all liveness and what rests on fairness (Termination of every
component, AcceptedReturn), which is outside the prover's reach. Every other property of
a passing run is a theorem.

Neither SMT nor Zenon can unfold a fold or a recursive function, and the library's
induction theorems take an operator as a parameter. The proofs use induction all the same:
it is a statement about the *set* of numbers where a claim fails, which has no least
member (`NatSteps`). That is how lists of messages, sums of bytes, the masks of
recursive doubling, the sum of a reduction and the rounds of a program are reasoned about.

## 5. Findings

1. `mesh3_allreduce` - `TopologyFullMesh::AllReduce` and `ReduceScatter` skip a
   partner `rank ^ mask` that does not exist (line 433), so if `world_size` is not a
   power of two some ranks return true without every operand. `README.md:55` promises
   "All ranks hold the reduced result". The passing runs of Collectives therefore
   leave these two calls out on a mesh of three ranks.
2. `reduction_avg3` - AVG divides by `world_size` in every `PerformReduce` (utils.cpp
   413), once per pairwise reduction and not once at the end. With two ranks
   there is one such reduction and the result is right.
3. `ring_chunks_ten` - when the last chunk of the ring's AllReduce begins past the end
   of the buffer, `count - chunk * chunk_size` wraps around in `size_t` and the step
   reads and writes outside it.

4. `wiring_race` - the connecting threads insert into `transports` under a mutex local to
   ConnectActivePeers, the accepting threads under another local to
   AcceptPassivePeers (communicator.cpp 306 and 368), while both run: the two inserts
   into one `std::map` race. Undefined behaviour is modelled by its mildest outcome, an
   insert that is lost: then Init returns true with a peer missing, where
   `include/communicator.h:72` promises "One transport for each peer". The log line at
   299 would show it, in numbers that do not add up, but nothing tests them.

5. `rdma_duplex` - Send and Recv of TransportRdma hold a mutex each ("Protect send/recv",
   `include/transport_rdma.h:457`), so that one of either kind may run at once, in two threads
   of a caller of Communicator::Send and Recv. But both take whatever completion comes first
   in the one queue (transport_rdma.cpp 724); a Recv that gets the Send's, whose
   id is 1, takes buffer 1 for its message ("Using buffer_id to find which buffer", 1016),
   and returns true with a later message's bytes. The collectives never do this: in a ring
   of three and more the thread that sends uses another transport than the Recv beside it,
   two ranks swap in turn (AllReduceTwoRanks), and HalfDuplex, checked in `collectives_3`,
   finds no two ranks that send to each other at once. Between ends that keep to this
   OwnCompletion and RefinesTransport hold.

A limitation that is not counted as a finding: callers in these models stop at the
first `false` and finalize. A caller that goes on to another collective, as the test
program does, would have its next `Recv` served with unread messages of the failed
call, since nothing on the stream tells them apart.

## 6. Abstractions

* A message is one unit per chunk. TCP may split it; `RecvRaw` reads until its buffer
  is full, which RecvChunk does chunk by chunk. A peer that dies may cut its stream
  between any two chunks; a cut inside a chunk differs only in bytes written into a
  buffer whose call then fails.
* A chunk of length 0 (count smaller than the world size) is still a message here; in
  the code it is a Send and a Recv of no bytes.
* In Reduction and RingChunks the ranks advance together. RingAllReduceProofs shows
  that what a step receives is independent of the interleaving.
* At ranks other than the root Reduce accumulates in a temporary buffer; the
  model uses the slots In for it, which no promise is made about there.
* In Wiring the retries of a connect are one step: a connect succeeds while the other
  end listens, and is given up when it does not, however many attempts that took. The
  queue of a listening transport never fills (it holds 128); connections and ranks do
  not die during InitTransports except as the code makes them; a transport
  missing from the map is used as a null pointer, which ends the process and counts as
  a failed Init. That accept or the creation of a transport itself fails, and that
  two ranks of one host get the same port, are left out.
* In Bootstrap a NodeInfo or a table is written and read as a whole; a sender that dies
  in the middle of one differs only in bytes thrown away. Ranks are distinct and below
  world_size, as the caller owes; the master checks neither. That the accept itself fails
  is left out.
* The hardware keeps messages in order, holds them while the receiver has nothing
  posted (the code asks for infinitely many RNR retries) and until its queue pair is
  ready; a message arrives behind the acknowledgements its sender owes, and those
  are not lost while both ends live. These are the guarantees of a
  reliable connection.
* Calls of no bytes are left out of the transports' models. Over RDMA in zero-copy mode
  such a call returns false, since nothing can be registered for it (a hazard in the
  list); over TCP it returns true at once.
* Verbs that fail (a registration, a post, a state change of the queue pair) are left out.
* Floating point is not modelled.

### Not modelled

* *RDMA shared resources and memory registration*: a reference count under one mutex and
  scope-bound registrations, whose steps nothing interleaves with. What can go wrong
  there is in the lines themselves: `InitBufferPool` frees on failure what the
  destructor of RdmaResources frees again (transport_rdma.cpp 455), and an accepted
  connection keeps and closes the listener's descriptor (176). Descriptors and memory
  are not part of any model.
* *The choice of a GID*, a search over what the device offers, with no state afterwards.
* *Encoding*, *Logger*, the *factories*, build files and scripts.

## 7. Plan

Done: the collectives (CollectiveSteps, RingPrograms, FullMeshPrograms, Collectives);
RingAllReduce, RingChunks, Reduction, the barriers, Communicator::Init
(Bootstrap, Wiring and their composition); both transports against one
abstract Transport; and for each of them every property of a passing run that is not
liveness, as a theorem (section 4).

What could come next: wiring over RDMA, that is the accept that answers with its queue pair
inside the accepting thread, and the listener's descriptor that accepted connections share;
callers that go on after a false; verbs that fail.
