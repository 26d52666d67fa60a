---------------------------- MODULE MCTransports ----------------------------
(* One instance for TLC of both transports: `kind` says which of them the   *)
(* two ends use.                                                            *)
EXTENDS TcpTransport, RdmaTransport

CONSTANT Duplex          \* the kinds that run BothAtOnce

ASSUME StreamAssumption == StreamSize \in Nat \ {0}

VARIABLE kind

Both(size) == [o \in Ops |-> size]

(* From pieces <<sender, size>>, sent one after the other, to what each end *)
(* calls.                                                                   *)
CallsOf(pieces) ==
  [e \in Ends |-> [i \in DOMAIN pieces |->
     Lone(IF pieces[i][1] = e THEN "send" ELSE "recv", pieces[i][2])]]

(* One direction at a time, as the collectives use a transport (HalfDuplex  *)
(* of Collectives): more messages than there are buffers, messages that     *)
(* take two buffers, and the turns of test_polling.cpp.                     *)
OneWayAtATime == {CallsOf(p) : p \in {
  <<<<"A", 3>>, <<"B", 1>>>>,
  <<<<"A", 1>>, <<"A", 1>>, <<"A", 1>>, <<"B", 1>>>>,
  <<<<"A", 2>>, <<"B", 1>>, <<"A", 1>>>>}}

(* Ends that do not agree on a size: a Recv that wants more than there is,  *)
(* and one that leaves bytes unread.                                        *)
Disagree ==
  {[e \in Ends |-> IF e = "A" THEN <<Lone("send", 1)>> ELSE <<Lone("recv", 3)>>],
   [e \in Ends |-> IF e = "A" THEN <<Lone("send", 3), Lone("recv", 1)>>
                              ELSE <<Lone("recv", 1), Lone("send", 1)>>]}

(* A Send in one thread beside a Recv in another, on one transport: the two *)
(* mutexes of TransportRdma let them run together.  No collective does it:  *)
(* the ring AllReduce of two ranks, where prev and next are one transport,  *)
(* goes its own way (AllReduceTwoRanks).                                    *)
BothAtOnce == {[e \in Ends |-> <<Both(size), Both(size)>>] : size \in {1, 3}}

AllPrograms == OneWayAtATime \cup Disagree \cup BothAtOnce
SendBesideRecv == BothAtOnce

InitEither ==
  /\ InitRdma /\ InitTcp
  /\ kind \in {"tcp", "rdma"}
  /\ kind = "tcp" => ~zero_copy /\ busy
  /\ program \in BothAtOnce => kind \in Duplex

NextEither == \/ kind = "tcp" /\ NextTcp /\ UNCHANGED <<kind, qp>>
              \/ kind = "rdma" /\ Next /\ UNCHANGED <<kind, stream>>

SpecEither ==
  /\ InitEither /\ [][NextEither]_<<kind, vars, stream>>
  /\ kind = "tcp" => FairnessTcp
  /\ kind = "rdma" => Fairness

(* Both ends get through their calls, or fail out of them, if nobody dies   *)
(* and the sizes agree; over TCP in any case.  An RDMA Recv is not told of  *)
(* the death of its peer.                                                   *)
Termination ==
  kind = "tcp" \/ (Matched /\ [](deaths = 0)) => <>(\A e \in Ends : ~Open(e))
=============================================================================
