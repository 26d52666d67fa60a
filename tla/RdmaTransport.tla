---------------------------- MODULE RdmaTransport ----------------------------
(* TransportRdma: one end connects, the other accepts, and they tell each   *)
(* other their queue pairs.  Then a Send and a Recv may run at the same     *)
(* time, each under a mutex of its own; they post work requests and poll    *)
(* one completion queue.  In buffer-pool mode every buffer is posted for    *)
(* receiving all the time, and sending takes buffers of the same pool.  The *)
(* hardware delivers messages in order, keeps them while the receiver has   *)
(* nothing posted, and loses no acknowledgement.                            *)
EXTENDS TransportCalls

CONSTANTS BufferCount,   \* buffer_count_config
          MaxPayload     \* bytes a buffer holds besides the header

ASSUME PoolAssumption == BufferCount \in Nat \ {0, 1} /\ MaxPayload \in Nat \ {0}

VARIABLES zero_copy,  \* enable_zero_copy, the same at both ends
          busy,       \* enable_busy_polling
          setup,      \* setup[e]: where e is in Connect or Accept: "start",
                      \*   "told" or "asked", "knows", then "connected"
          at,         \* at[e][op]: where e's call is: "idle" (or between
                      \*   chunks), "poll", "notify", "recheck" or "wait"
          mem,        \* mem[e][s]: the message that slot s holds
          in_use,     \* in_use[e]: buffers AllocateBuffer has given out
          posted,     \* posted[e]: receive requests, [slot, room]
          wire,       \* wire[e]: slots posted for sending, not delivered
          unacked,    \* unacked[e]: messages of e delivered, not completed
          cq,         \* cq[e]: completions not polled yet, [op, id, ok]
          armed,      \* armed[e]: the next completion raises an event
          events      \* events[e]: completion events not read yet

qp == <<zero_copy, busy, setup, at, mem, in_use, posted, wire, unacked, cq, armed, events>>
vars == <<calls, qp>>

Buffers == 0 .. (BufferCount - 1)
UserOut == BufferCount                   \* the caller's buffers, registered for
UserIn  == BufferCount + 1               \*   one call in zero-copy mode
Slots   == Buffers \cup {UserOut, UserIn}

Nothing == <<>>

InitRdma ==
  /\ Init
  /\ zero_copy \in BOOLEAN /\ busy \in BOOLEAN
  /\ setup = [e \in Ends |-> "start"]
  /\ at = [e \in Ends |-> [op \in Ops |-> "idle"]]
  /\ mem = [e \in Ends |-> [s \in Slots |-> Nothing]]
  /\ in_use = [e \in Ends |-> {}]
  /\ posted = [e \in Ends |-> <<>>]
  /\ wire = [e \in Ends |-> <<>>]
  /\ unacked = [e \in Ends |-> 0]
  /\ cq = [e \in Ends |-> <<>>]
  /\ armed = [e \in Ends |-> FALSE]
  /\ events = [e \in Ends |-> 0]

(* Connect and Accept: ExchangeQPInfo over a socket of its own, in which    *)
(* the initiator sends first and the other end receives first.              *)
Initiator == "A"
Order(e) == IF e = Initiator THEN <<"start", "told", "knows">>
                             ELSE <<"start", "asked", "knows">>
Told(e) == setup[e] \in {"told", "knows", "connected"}
Exchanges(e, order, i) ==
  /\ Open(e) /\ setup[e] = order[i]
  /\ setup' = [setup EXCEPT ![e] = order[i + 1]]
  /\ UNCHANGED <<calls, zero_copy, busy, at, mem, in_use, posted, wire, unacked, cq,
                 armed, events>>

SendQPInfo(e) == Exchanges(e, Order(e), IF e = Initiator THEN 1 ELSE 2)
RecvQPInfo(e) == Told(Other(e)) /\ Exchanges(e, Order(e), IF e = Initiator THEN 2 ELSE 1)

(* The socket is closed at the other end.                                   *)
ExchangeFails(e) ==
  /\ Open(e) /\ ~Open(Other(e)) /\ setup[e] \notin {"knows", "connected"}
  /\ Told(Other(e)) => setup[e] = "asked"
  /\ Fail(e) /\ UNCHANGED qp

(* ModifyQPToRTR, ModifyQPToRTS; the last step posts the whole pool.        *)
PoolRequest(b) == [slot |-> b, room |-> MaxPayload]
PostRecvWRsForBufferPool(e) ==
  /\ Open(e) /\ setup[e] = "knows"
  /\ posted' = [posted EXCEPT ![e] = IF zero_copy THEN <<>>
                                     ELSE [i \in 1 .. BufferCount |-> PoolRequest(i - 1)]]
  /\ setup' = [setup EXCEPT ![e] = "connected"]
  /\ UNCHANGED <<calls, zero_copy, busy, at, mem, in_use, wire, unacked, cq, armed, events>>
-----------------------------------------------------------------------------
(* The hardware.  Completions join a queue, and raise an event where one    *)
(* was asked for.                                                           *)
Complete(new) ==
  LET rings(e) == armed[e] /\ new[e] # <<>>
  IN  /\ cq' = [e \in Ends |-> cq[e] \o new[e]]
      /\ events' = [e \in Ends |-> IF rings(e) THEN events[e] + 1 ELSE events[e]]
      /\ armed' = [e \in Ends |-> armed[e] /\ ~rings(e)]

Only(e, completion) == [f \in Ends |-> IF f = e THEN <<completion>> ELSE <<>>]

(* wr_id: Send of the pool uses 1 and zero-copy an id with lower half 0, a  *)
(* receive request the buffer's id, 0 for the caller's.                     *)
SendId == IF zero_copy THEN 0 ELSE 1
RecvId(slot) == IF slot = UserIn THEN 0 ELSE slot
Completion(op, id, ok) == [op |-> op, id |-> id, ok |-> ok]

(* The next message of e reaches the other end's next receive request,      *)
(* behind the acknowledgement of what e itself has received.                *)
Arrives(e) ==
  /\ Open(e) /\ Open(Other(e))
  /\ wire[e] # <<>> /\ posted[Other(e)] # <<>> /\ unacked[Other(e)] = 0
  /\ wire' = [wire EXCEPT ![e] = Tail(@)]
  /\ posted' = [posted EXCEPT ![Other(e)] = Tail(@)]

Deliver(e) ==
  LET f == Other(e)
      request == Head(posted[f])
      message == mem[e][Head(wire[e])]
  IN  /\ Arrives(e) /\ Len(message) <= request.room
      /\ mem' = [mem EXCEPT ![f][request.slot] = message]
      /\ unacked' = [unacked EXCEPT ![e] = @ + 1]
      /\ Complete(Only(f, Completion("recv", RecvId(request.slot), TRUE)))
      /\ UNCHANGED <<calls, zero_copy, busy, setup, at, in_use>>

(* A message longer than the caller's buffer breaks both queue pairs.       *)
DeliverTooLong(e) ==
  LET f == Other(e)
      request == Head(posted[f])
  IN  /\ Arrives(e) /\ Len(mem[e][Head(wire[e])]) > request.room
      /\ Complete((e :> <<Completion("send", SendId, FALSE)>>) @@
                  (f :> <<Completion("recv", RecvId(request.slot), FALSE)>>))
      /\ UNCHANGED <<calls, zero_copy, busy, setup, at, mem, in_use, unacked>>

Acknowledge(e) ==
  /\ Open(e) /\ unacked[e] > 0
  /\ unacked' = [unacked EXCEPT ![e] = @ - 1]
  /\ Complete(Only(e, Completion("send", SendId, TRUE)))
  /\ UNCHANGED <<calls, zero_copy, busy, setup, at, mem, in_use, posted, wire>>

(* The other end's queue pair is gone: e's retries run out.  A Recv is told *)
(* nothing.                                                                 *)
RetriesExceeded(e) ==
  /\ Open(e) /\ ~Open(Other(e)) /\ wire[e] # <<>> /\ unacked[e] = 0
  /\ wire' = [wire EXCEPT ![e] = <<>>]
  /\ Complete(Only(e, Completion("send", SendId, FALSE)))
  /\ UNCHANGED <<calls, zero_copy, busy, setup, at, mem, in_use, posted, unacked>>

Hardware(e) == Deliver(e) \/ DeliverTooLong(e) \/ Acknowledge(e) \/ RetriesExceeded(e)
-----------------------------------------------------------------------------
(* Send and Recv cut what does not fit a buffer; zero-copy does not.        *)
Chunk(e, op) == IF zero_copy THEN Left(e, op) ELSE Min({Left(e, op), MaxPayload})

Moves(e, op, from, next) ==
  /\ setup[e] = "connected" /\ In(e, op) /\ at[e][op] = from
  /\ at' = [at EXCEPT ![e][op] = next]

AllocateBuffer(e) == IF zero_copy THEN UserOut ELSE Min(Buffers \ in_use[e])

PostsSend(e, message, next) ==
  /\ Moves(e, "send", "idle", next)
  /\ mem' = [mem EXCEPT ![e][AllocateBuffer(e)] = message]
  /\ wire' = [wire EXCEPT ![e] = Append(@, AllocateBuffer(e))]
  /\ UNCHANGED <<program, taking, got, state, deaths, zero_copy, busy, setup,
                 posted, unacked, cq, armed, events>>
MarksBuffer(e) == in_use' = [in_use EXCEPT ![e] = @ \cup ({AllocateBuffer(e)} \cap Buffers)]
TakesChunk(e) ==
  /\ MarksBuffer(e)
  /\ handed' = [handed EXCEPT ![e] = @ + Chunk(e, "send")]
  /\ sent' = [sent EXCEPT ![e] = @ + Chunk(e, "send")]
  /\ UNCHANGED <<pc, returned>>

BeginSendSameChunk(e) ==                 \* mutant: every chunk begins at data_ptr
  /\ PostsSend(e, [i \in 1 .. Chunk(e, "send") |-> sent[e] - handed[e] + i], "poll")
  /\ TakesChunk(e)

BeginSendNoWait(e) ==                    \* mutant: Send does not wait for its completion
  /\ PostsSend(e, Bytes(e, Chunk(e, "send")), "idle")
  /\ Writes(e, Chunk(e, "send"))
  /\ UNCHANGED in_use

(* A chunk's Send goes as far as PollCompletion.                            *)
BeginSend(e) ==
  /\ PostsSend(e, Bytes(e, Chunk(e, "send")), "poll")
  /\ TakesChunk(e)

(* In zero-copy mode a Recv posts its own request first.                    *)
BeginRecv(e) ==
  /\ Moves(e, "recv", "idle", "poll")
  /\ \/ /\ zero_copy
        /\ posted' = [posted EXCEPT ![e] = Append(@, [slot |-> UserIn, room |-> Size(e, "recv")])]
        /\ mem' = [mem EXCEPT ![e][UserIn] = Nothing]
     \/ /\ ~zero_copy
        /\ UNCHANGED <<posted, mem>>
  /\ UNCHANGED <<calls, zero_copy, busy, setup, in_use, wire, unacked, cq, armed, events>>

(* PollCompletion: nothing there, so ask for an event, look again, block.   *)
still == <<calls, zero_copy, busy, setup, mem, in_use, posted, wire, unacked, cq>>

FindNothing(e, op) ==
  /\ ~busy /\ cq[e] = <<>> /\ Moves(e, op, "poll", "notify")
  /\ UNCHANGED <<still, armed, events>>

Requests(e, op, next) ==
  /\ Moves(e, op, "notify", next)
  /\ armed' = [armed EXCEPT ![e] = TRUE]
  /\ UNCHANGED <<still, events>>

RequestAndBlock(e, op) ==                \* mutant: the queue is not checked again
  Requests(e, op, "wait")
RequestNotify(e, op) == Requests(e, op, "recheck")

Block(e, op) ==
  /\ cq[e] = <<>> /\ Moves(e, op, "recheck", "wait")
  /\ UNCHANGED <<still, armed, events>>

Wake(e, op) ==
  /\ events[e] > 0 /\ Moves(e, op, "wait", "poll")
  /\ events' = [events EXCEPT ![e] = @ - 1]
  /\ UNCHANGED <<still, armed>>

(* ... and something there: the call takes the first completion, whatever   *)
(* it completes, and looks at its status and id only.                       *)
Polling(e, op) == In(e, op) /\ at[e][op] \in {"poll", "recheck"} /\ cq[e] # <<>>
Polls(e, op) ==
  /\ Polling(e, op)
  /\ cq' = [cq EXCEPT ![e] = Tail(@)]
  /\ at' = [at EXCEPT ![e][op] = "idle"]
  /\ UNCHANGED <<program, sent, zero_copy, busy, setup, wire, unacked, armed, events>>

Polled(e) == Head(cq[e])

(* The Send releases its buffer either way.                                 *)
EndSend(e) ==
  /\ Polls(e, "send") /\ Polled(e).ok
  /\ in_use' = [in_use EXCEPT ![e] = {}]
  /\ \/ /\ Left(e, "send") = 0
        /\ handed' = [handed EXCEPT ![e] = 0]
        /\ Returns(e, "send")
     \/ /\ Left(e, "send") > 0
        /\ UNCHANGED <<pc, returned, handed>>
  /\ UNCHANGED <<taking, got, state, deaths, mem, posted>>

FailSend(e) ==
  /\ Polls(e, "send") /\ ~Polled(e).ok
  /\ in_use' = [in_use EXCEPT ![e] = {}]
  /\ state' = [state EXCEPT ![e] = "failed"]
  /\ UNCHANGED <<pc, returned, handed, taking, got, deaths, mem, posted>>

(* The message that the completion's id says, and whether it is as long as  *)
(* the Recv expects.                                                        *)
Found(e) == mem[e][IF zero_copy THEN UserIn ELSE Polled(e).id]
AsExpected(e) == Polled(e).ok /\ Len(Found(e)) = Chunk(e, "recv")

Receives(e, repost) ==
  /\ Polls(e, "recv") /\ AsExpected(e)
  /\ Reads(e, Found(e))
  /\ posted' = [posted EXCEPT ![e] = @ \o repost]
  /\ UNCHANGED <<handed, state, deaths, mem, in_use>>

EndRecvNoRepost(e) == Receives(e, <<>>)  \* mutant: the buffer is not posted again
EndRecvFirst(e) ==                       \* mutant: buffer 0 is posted again
  Receives(e, IF zero_copy THEN <<>> ELSE <<PoolRequest(0)>>)
EndRecv(e) == Receives(e, IF zero_copy THEN <<>> ELSE <<PoolRequest(Polled(e).id)>>)

FailRecv(e) ==
  /\ Polls(e, "recv") /\ ~AsExpected(e)
  /\ state' = [state EXCEPT ![e] = "failed"]
  /\ UNCHANGED <<pc, returned, handed, taking, got, deaths, mem, in_use, posted>>

(* Close destroys the queue pair, which a connected transport has.          *)
Close(e) == setup[e] = "connected" /\ Finish(e) /\ UNCHANGED qp
Crash(e) == Die(e) /\ UNCHANGED qp

Poll(e, op) == FindNothing(e, op) \/ RequestNotify(e, op) \/ Block(e, op) \/ Wake(e, op)
SendStep(e) == BeginSend(e) \/ Poll(e, "send") \/ EndSend(e) \/ FailSend(e)
RecvStep(e) == \/ BeginRecv(e) \/ Poll(e, "recv") \/ EndRecv(e) \/ FailRecv(e)
               \/ Close(e)
SetupStep(e) == \/ SendQPInfo(e) \/ RecvQPInfo(e) \/ ExchangeFails(e)
                \/ PostRecvWRsForBufferPool(e)
EndStep(e) == SetupStep(e) \/ SendStep(e) \/ RecvStep(e) \/ Crash(e)
Next == \E e \in Ends : EndStep(e) \/ Hardware(e)

(* The threads of both ends and the hardware go on.                         *)
Fairness == \A e \in Ends : /\ WF_vars(SetupStep(e)) /\ WF_vars(SendStep(e))
                           /\ WF_vars(RecvStep(e)) /\ WF_vars(Hardware(e))
Spec == InitRdma /\ [][Next]_vars /\ Fairness
-----------------------------------------------------------------------------
TypeOK ==
  /\ CallsOK
  /\ zero_copy \in BOOLEAN /\ busy \in BOOLEAN
  /\ armed \in [Ends -> BOOLEAN]
  /\ setup \in [Ends -> {"start", "told", "asked", "knows", "connected"}]
  /\ at \in [Ends -> [Ops -> {"idle", "poll", "notify", "recheck", "wait"}]]
  /\ \A e \in Ends :
       /\ mem[e] \in [Slots -> Seq(Nat)]
       /\ in_use[e] \subseteq Buffers
       /\ \A i \in DOMAIN posted[e] : posted[e][i].slot \in Slots
       /\ IsInjective([i \in DOMAIN posted[e] |-> posted[e][i].slot])
       /\ Len(wire[e]) + unacked[e] <= 1
       /\ events[e] \in Nat

(* "All buffers have posted recv WR" (transport_rdma.cpp:1015): a buffer    *)
(* that is not posted holds a message whose completion is still in the      *)
(* queue, until a call fails.                                               *)
Unread(e) == {c.id : c \in {d \in Range(cq[e]) : d.op = "recv"}}
PoolWhole ==
  \A e \in Ends : ~zero_copy /\ setup[e] = "connected" /\ state[e] # "failed" =>
    {r.slot : r \in Range(posted[e])} \cup Unread(e) = Buffers

(* "Using buffer_id to find which buffer" (transport_rdma.cpp:1016): the    *)
(* completion a call may take from the queue is of its own kind.            *)
OwnCompletion ==
  \A e \in Ends, op \in Ops : Polling(e, op) => Polled(e).op = op
=============================================================================
