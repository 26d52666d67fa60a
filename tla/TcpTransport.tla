---------------------------- MODULE TcpTransport ----------------------------
(* TransportTCP once connected: SendRaw and RecvRaw loop over send and recv *)
(* of the socket, which move as many bytes as they like.  The kernel keeps  *)
(* what one end has sent and the other not read.                            *)
EXTENDS TransportCalls

CONSTANT StreamSize      \* bytes the kernel keeps for one direction

VARIABLE stream          \* stream[e]: bytes from e, not read yet

varsTcp == <<calls, stream>>

InitTcp == Init /\ stream = [e \in Ends |-> <<>>]

(* SendRaw: one turn of its loop.                                           *)
SendSome(e) ==
  /\ In(e, "send")
  /\ \E n \in 1 .. Min({Left(e, "send"), StreamSize - Len(stream[e])}) :
       /\ stream' = [stream EXCEPT ![e] = @ \o Bytes(e, n)]
       /\ Writes(e, n)
  /\ UNCHANGED <<program, taking, got, state, deaths>>

(* send fails, or raises SIGPIPE.                                           *)
SendFails(e) ==
  /\ In(e, "send") /\ ~Open(Other(e))
  /\ Fail(e) /\ UNCHANGED stream

RecvOnce(e) ==                           \* mutant: no loop around recv
  /\ In(e, "recv")
  /\ \E n \in 1 .. Min({Left(e, "recv"), Len(stream[Other(e)])}) :
       /\ stream' = [stream EXCEPT ![Other(e)] = SubSeq(@, n + 1, Len(@))]
       /\ got' = [got EXCEPT ![e] = @ \o SubSeq(stream[Other(e)], 1, n)]
       /\ Returns(e, "recv")
  /\ UNCHANGED <<program, handed, sent, taking, state, deaths>>

(* RecvRaw: one turn of its loop.                                           *)
RecvSome(e) ==
  /\ In(e, "recv")
  /\ \E n \in 1 .. Min({Left(e, "recv"), Len(stream[Other(e)])}) :
       /\ stream' = [stream EXCEPT ![Other(e)] = SubSeq(@, n + 1, Len(@))]
       /\ Reads(e, SubSeq(stream[Other(e)], 1, n))
  /\ UNCHANGED <<program, handed, sent, state, deaths>>

(* recv returns 0: the other end has closed and all it sent is read.        *)
RecvFails(e) ==
  /\ In(e, "recv") /\ ~Open(Other(e)) /\ stream[Other(e)] = <<>>
  /\ Fail(e) /\ UNCHANGED stream

(* Closing a socket with bytes unread resets the connection: what the other *)
(* end has not read of this one's bytes may be lost.                        *)
Cut(e) ==
  \/ UNCHANGED stream
  \/ stream[Other(e)] # <<>> /\ stream' = [stream EXCEPT ![e] = <<>>]

CloseTcp(e) == Finish(e) /\ Cut(e)
CrashTcp(e) == Die(e) /\ Cut(e)

SendStepTcp(e) == SendSome(e) \/ SendFails(e)
RecvStepTcp(e) == RecvSome(e) \/ RecvFails(e) \/ CloseTcp(e)
NextTcp == \E e \in Ends : SendStepTcp(e) \/ RecvStepTcp(e) \/ CrashTcp(e)

(* The threads of both ends go on.                                          *)
FairnessTcp == \A e \in Ends : WF_varsTcp(SendStepTcp(e)) /\ WF_varsTcp(RecvStepTcp(e))
SpecTcp == InitTcp /\ [][NextTcp]_varsTcp /\ FairnessTcp
=============================================================================
