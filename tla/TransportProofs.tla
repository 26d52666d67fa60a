-------------------------- MODULE TransportProofs --------------------------
(* Both transports implement the abstract Transport: whatever the sizes of  *)
(* messages, sockets and buffers, each direction is one stream of bytes, in *)
(* order and complete.                                                      *)
EXTENDS TcpTransport, RdmaTransport, TransportCallsProofs

-----------------------------------------------------------------------------
(* TransportTCP, for every program of its two ends, every size of the       *)
(* kernel's buffers and any deaths: its partial sends and receives hand     *)
(* over the bytes of each direction in order and complete.                  *)

(* The inductive invariant.                                                 *)
TcpTypeOK == CallsTypeOK /\ stream \in [Ends -> Seq(Nat)]

(* A call that has begun has not returned, and needs more than it has.      *)
CallInv ==
  \A e \in Ends :
    /\ handed[e] > 0 => "send" \notin returned[e] /\ handed[e] < Size(e, "send")
    /\ taking[e] # <<>> => "recv" \notin returned[e] /\ Len(taking[e]) < Size(e, "recv")

(* What e has returned from its Recvs, what its current Recv has read, and  *)
(* what waits in the stream towards it are the bytes of the other end from  *)
(* number 1 on; once that end is gone, the last of these may be lost.       *)
TcpRead(e) == Len(got[e]) + Len(taking[e])
TcpDataOf(e, f) ==
  /\ got[e] = Run(0, Len(got[e]))
  /\ taking[e] = Run(Len(got[e]), Len(taking[e]))
  /\ \/ /\ stream[f] = Run(TcpRead(e), Len(stream[f]))
        /\ TcpRead(e) + Len(stream[f]) = sent[f]
     \/ /\ stream[f] = <<>> /\ ~Open(f)
        /\ TcpRead(e) <= sent[f]
DataInv == \A e \in Ends : TcpDataOf(e, Other(e))

TcpIInv == TcpTypeOK /\ CallInv /\ DataInv

LEMMA InitIInv == InitTcp => TcpIInv
<1> SUFFICES ASSUME InitTcp PROVE TcpIInv
  OBVIOUS
<1>1. TcpTypeOK
  <2>1. program \in Programs
    BY DEF InitTcp, Init
  <2>2. ASSUME NEW e \in Ends PROVE 0 <= Len(program[e])
    <3>1. Len(program[e]) \in Nat
      BY <2>1, ProgramFacts
    <3>2. QED
      BY <3>1
  <2>3. QED
    BY <2>1, <2>2, ProgramTypes DEF InitTcp, Init, TcpTypeOK, CallsTypeOK
<1>2. CallInv
  <2> SUFFICES ASSUME NEW e \in Ends PROVE ~(handed[e] > 0) /\ taking[e] = <<>>
    BY DEF CallInv
  <2>1. handed[e] = 0 /\ taking[e] = <<>>
    BY DEF InitTcp, Init
  <2>2. QED
    BY <2>1
<1>3. DataInv
  <2> SUFFICES ASSUME NEW e \in Ends
               PROVE  TcpDataOf(e, Other(e))
    BY DEF DataInv
  <2>1. got[e] = <<>> /\ taking[e] = <<>> /\ stream[Other(e)] = <<>> /\ sent[Other(e)] = 0
    BY OtherFacts DEF InitTcp, Init
  <2>2. Run(0, 0) = <<>> /\ Len(<<>>) = 0
    BY RunEmpty
  <2>3. QED
    BY <2>1, <2>2 DEF TcpDataOf, TcpRead
<1>4. QED
  BY <1>1, <1>2, <1>3 DEF TcpIInv

(* What the bytes towards e depend on.                                      *)
LEMMA SameData ==
  ASSUME NEW e \in Ends, NEW f \in Ends, TcpDataOf(e, f),
         got'[e] = got[e], taking'[e] = taking[e],
         stream'[f] = stream[f], sent'[f] = sent[f], Open(f)' => Open(f)
  PROVE  TcpDataOf(e, f)'
BY DEF TcpDataOf, TcpRead

(* A Send hands bytes over.                                                 *)
LEMMA SendSomeKeeps ==
  ASSUME TcpIInv, NEW e \in Ends, SendSome(e)
  PROVE  TcpIInv'
<1> USE DEF TcpIInv
<1>1. PICK n \in 1 .. Min({Left(e, "send"), StreamSize - Len(stream[e])}) :
        /\ stream' = [stream EXCEPT ![e] = @ \o Bytes(e, n)]
        /\ Writes(e, n)
  BY DEF SendSome
<1>2. /\ In(e, "send") /\ "send" \in Ops
      /\ UNCHANGED <<program, taking, got, state, deaths>>
  BY DEF SendSome, Ops
<1>3. n \in Nat
  OBVIOUS
<1>4. /\ handed[e] \in Nat /\ sent[e] \in Nat /\ Size(e, "send") \in Nat
      /\ Left(e, "send") = Size(e, "send") - handed[e]
  BY <1>2, SizeFacts DEF TcpTypeOK, CallsTypeOK, Left
<1>5. /\ stream[e] \in Seq(Nat) /\ Bytes(e, n) = Run(sent[e], n)
      /\ Run(sent[e], n) \in Seq(Nat)
  BY <1>3, <1>4, RunFacts DEF TcpTypeOK, CallsTypeOK, Bytes, Run
<1>6. sent' = [sent EXCEPT ![e] = sent[e] + n]
  BY <1>1 DEF Writes
<1>7. /\ pc' \in [Ends -> Nat] /\ returned' \in [Ends -> SUBSET Ops]
      /\ handed' \in [Ends -> Nat]
      /\ \A x \in Ends : pc'[x] <= Len(program[x])
      /\ \A x \in Ends : x # e => /\ pc'[x] = pc[x] /\ returned'[x] = returned[x]
                                  /\ handed'[x] = handed[x]
      /\ \/ /\ handed'[e] = handed[e] + n /\ n < Left(e, "send")
            /\ UNCHANGED <<pc, returned>>
         \/ /\ handed'[e] = 0
            /\ \/ pc'[e] = pc[e] /\ returned'[e] = returned[e] \cup {"send"}
               \/ /\ pc'[e] = pc[e] + 1 /\ returned'[e] = {}
                  /\ \A o \in Ops : Size(e, o) > 0 => o \in returned[e] \cup {"send"}
  <2>1. CASE n < Left(e, "send") /\ UNCHANGED <<pc, returned>>
             /\ handed' = [handed EXCEPT ![e] = handed[e] + n]
    BY <1>3, <1>4, <2>1 DEF TcpTypeOK, CallsTypeOK
  <2>2. CASE Returns(e, "send") /\ handed' = [handed EXCEPT ![e] = 0]
    BY <1>2, <2>2, ReturnsFacts, ZenonT(30) DEF TcpTypeOK, CallsTypeOK
  <2>3. QED
    BY <1>1, <2>1, <2>2 DEF Writes
<1>8. TcpTypeOK'
  <2>1. stream' \in [Ends -> Seq(Nat)]
    BY <1>1, <1>5, ConcatProperties DEF TcpTypeOK, CallsTypeOK
  <2>2. sent' \in [Ends -> Nat]
    BY <1>3, <1>4, <1>6 DEF TcpTypeOK, CallsTypeOK
  <2>3. QED
    BY <1>2, <1>7, <2>1, <2>2 DEF TcpTypeOK, CallsTypeOK
<1>9. CallInv'
  <2> SUFFICES ASSUME NEW x \in Ends
               PROVE  /\ handed'[x] > 0 => /\ "send" \notin returned'[x]
                                           /\ handed'[x] < Size(x, "send")'
                      /\ taking'[x] # <<>> => /\ "recv" \notin returned'[x]
                                              /\ Len(taking'[x]) < Size(x, "recv")'
    BY DEF CallInv
  <2>1. pc'[x] = pc[x] => /\ Size(x, "send")' = Size(x, "send")
                          /\ Size(x, "recv")' = Size(x, "recv")
    BY <1>2, SameSize DEF Ops
  <2>2. CASE x # e
    BY <1>2, <1>7, <2>1, <2>2 DEF CallInv
  <2>3. ASSUME x = e, taking[e] # <<>>
        PROVE  /\ "recv" \notin returned'[e] /\ pc'[e] = pc[e]
               /\ Len(taking[e]) < Size(e, "recv")
    <3>1. "recv" \notin returned[e] /\ Len(taking[e]) < Size(e, "recv")
      BY <2>3 DEF CallInv
    <3>2. Len(taking[e]) \in Nat /\ Size(e, "recv") \in Nat /\ "recv" \in Ops
      BY SizeFacts, SMTT(30) DEF Ops, TcpTypeOK, CallsTypeOK
    <3>3. Size(e, "recv") > 0 /\ "recv" \notin returned[e] \cup {"send"}
      BY <3>1, <3>2
    <3>4. QED
      BY <1>7, <3>1, <3>2, <3>3
  <2>4. CASE x = e
    BY <1>2, <1>4, <1>7, <2>1, <2>3, <2>4 DEF In
  <2>5. QED
    BY <2>2, <2>4
<1>10. DataInv'
  <2> SUFFICES ASSUME NEW x \in Ends
               PROVE  TcpDataOf(x, Other(x))'
    BY DEF DataInv
  <2>1. TcpDataOf(x, Other(x)) /\ Other(x) \in Ends
    BY OtherFacts DEF DataInv
  <2>2. CASE Other(x) # e
    <3>1. stream'[Other(x)] = stream[Other(x)] /\ sent'[Other(x)] = sent[Other(x)]
      BY <1>1, <1>6, <2>1, <2>2 DEF TcpTypeOK, CallsTypeOK
    <3>2. Open(Other(x))' => Open(Other(x))
      BY <1>2 DEF Open
    <3>3. QED
      BY <1>2, <2>1, <3>1, <3>2, SameData
  <2>3. CASE Other(x) = e
    <3> DEFINE k == TcpRead(x)
               l == Len(stream[e])
    <3>1. k \in Nat /\ l \in Nat
      BY <1>5, SMTT(30) DEF TcpTypeOK, CallsTypeOK, TcpRead
    <3>2. stream[e] = Run(k, l) /\ k + l = sent[e]
      BY <1>2, <2>1, <2>3 DEF TcpDataOf, In
    <3>3. stream'[e] = stream[e] \o Run(sent[e], n) /\ sent'[e] = sent[e] + n
      BY <1>1, <1>5, <1>6 DEF TcpTypeOK, CallsTypeOK
    <3>4. TcpRead(x)' = k
      BY <1>2 DEF TcpRead
    <3> HIDE DEF k, l
    <3>5. stream'[e] = Run(k, l + n)
      <4>1. stream'[e] = Run(k, l) \o Run(k + l, n)
        BY <3>2, <3>3
      <4>2. QED
        BY <1>3, <3>1, <4>1, RunConcat
    <3>6. Len(stream'[e]) = l + n
      <4>1. l + n \in Nat
        BY <1>3, <3>1
      <4>2. QED
        BY <3>1, <3>5, <4>1, RunFacts
    <3>7. k + (l + n) = sent'[e]
      BY <1>3, <3>1, <3>2, <3>3
    <3>8. got'[x] = Run(0, Len(got'[x])) /\ taking'[x] = Run(Len(got'[x]), Len(taking'[x]))
      BY <1>2, <2>1 DEF TcpDataOf
    <3>9. QED
      BY <2>3, <3>4, <3>5, <3>6, <3>7, <3>8 DEF TcpDataOf
  <2>4. QED
    BY <2>2, <2>3
<1>11. QED
  BY <1>8, <1>9, <1>10

(* A Recv reads bytes from the stream.                                      *)
LEMMA RecvSomeReads ==
  ASSUME TcpIInv, NEW e \in Ends, NEW f \in Ends, f = Other(e), In(e, "recv"),
         NEW n \in 1 .. Min({Left(e, "recv"), Len(stream[f])})
  PROVE  /\ n \in Nat
         /\ taking[e] \o SubSeq(stream[f], 1, n) = Run(Len(got[e]), Len(taking[e]) + n)
         /\ SubSeq(stream[f], n + 1, Len(stream[f])) =
              Run(TcpRead(e) + n, Len(stream[f]) - n)
         /\ n <= Len(stream[f]) /\ Len(taking[e]) + n <= Size(e, "recv")
         /\ TcpRead(e) + Len(stream[f]) = sent[f]
<1> USE DEF TcpIInv
<1> DEFINE k == Len(got[e])
           t == Len(taking[e])
           l == Len(stream[f])
<1>1. k \in Nat /\ t \in Nat /\ l \in Nat /\ TcpRead(e) = k + t
  BY DEF TcpTypeOK, CallsTypeOK, TcpRead
<1>2. Size(e, "recv") \in Nat /\ Left(e, "recv") = Size(e, "recv") - t
  BY SizeFacts DEF Ops, Left, TcpTypeOK
<1>3. TcpDataOf(e, f)
  BY DEF DataInv
<1> HIDE DEF k, t, l
<1>4. n \in Nat /\ n <= l /\ n <= Size(e, "recv") - t
  <2> DEFINE left == Left(e, "recv")
             m == Min({left, l})
  <2>1. left \in Int /\ l \in Int
    BY <1>1, <1>2
  <2>2. n \in 1 .. m
    BY DEF l
  <2> HIDE DEF left
  <2>3. m \in {left, l} /\ m <= left /\ m <= l
    BY <2>1, MinFacts
  <2> HIDE DEF m
  <2>4. m \in Int
    BY <2>1, <2>3
  <2>5. n \in Nat /\ n <= left /\ n <= l
    BY <2>1, <2>2, <2>3, <2>4
  <2>6. QED
    BY <1>2, <2>5 DEF left
<1>5. n \in 0 .. l /\ n > 0
  BY <1>1, <1>4
<1>6. stream[f] # <<>>
  <2>1. l > 0
    BY <1>1, <1>5
  <2>2. QED
    BY <2>1 DEF l
<1>7. stream[f] = Run(k + t, l) /\ k + t + l = sent[f]
  BY <1>1, <1>3, <1>6 DEF TcpDataOf, l
<1>8. taking[e] = Run(k, t)
  BY <1>3 DEF TcpDataOf, k, t
<1>9. k + t \in Nat
  BY <1>1
<1>10. /\ SubSeq(Run(k + t, l), 1, n) = Run(k + t, n)
       /\ SubSeq(Run(k + t, l), n + 1, l) = Run(k + t + n, l - n)
  BY ONLY <1>1, <1>5, <1>9, RunSplit
<1>11. Run(k, t) \o Run(k + t, n) = Run(k, t + n)
  BY ONLY <1>1, <1>4, RunConcat
<1>12. /\ taking[e] \o SubSeq(stream[f], 1, n) = Run(k, t + n)
       /\ SubSeq(stream[f], n + 1, l) = Run(k + t + n, l - n)
  BY <1>7, <1>8, <1>10, <1>11
<1>13. n <= l /\ t + n <= Size(e, "recv")
  BY <1>1, <1>2, <1>4
<1>14. QED
  BY <1>1, <1>4, <1>7, <1>12, <1>13 DEF k, t, l

LEMMA RecvSomeKeeps ==
  ASSUME TcpIInv, NEW e \in Ends, RecvSome(e)
  PROVE  TcpIInv'
<1> USE DEF TcpIInv
<1> DEFINE f == Other(e)
<1>1. f \in Ends /\ f # e /\ \A x \in Ends : x # e => x = f /\ Other(x) = e
  BY OtherFacts
<1>2. /\ In(e, "recv") /\ "recv" \in Ops
      /\ UNCHANGED <<program, handed, sent, state, deaths>>
  BY DEF RecvSome, Ops
<1>3. PICK n \in 1 .. Min({Left(e, "recv"), Len(stream[f])}) :
        /\ stream' = [stream EXCEPT ![f] = SubSeq(stream[f], n + 1, Len(stream[f]))]
        /\ Reads(e, SubSeq(stream[f], 1, n))
  BY DEF RecvSome
<1> DEFINE k == Len(got[e])
           t == Len(taking[e])
           l == Len(stream[f])
           all == taking[e] \o SubSeq(stream[f], 1, n)
<1>4. k \in Nat /\ t \in Nat /\ l \in Nat /\ TcpRead(e) = k + t /\ sent[f] \in Nat
  BY <1>1 DEF TcpTypeOK, CallsTypeOK, TcpRead
<1>5. /\ n \in Nat /\ all = Run(k, t + n)
      /\ SubSeq(stream[f], n + 1, l) = Run(k + t + n, l - n)
      /\ n <= l /\ t + n <= Size(e, "recv") /\ k + t + l = sent[f]
  BY <1>1, <1>2, <1>4, RecvSomeReads, ZenonT(30)
<1> HIDE DEF f, all, k, t, l
<1>6. /\ stream'[f] = Run(k + t + n, l - n) /\ stream'[e] = stream[e]
      /\ stream' = [stream EXCEPT ![f] = Run(k + t + n, l - n)]
  BY <1>1, <1>3, <1>5 DEF TcpTypeOK, CallsTypeOK, l
<1>7. /\ t + n \in Nat /\ l - n \in Nat /\ k + t + n \in Nat /\ k + (t + n) \in Nat
  BY <1>4, <1>5
<1>8. /\ Run(k + t + n, l - n) \in Seq(Nat) /\ Len(Run(k + t + n, l - n)) = l - n
      /\ all \in Seq(Nat) /\ Len(all) = t + n
  BY <1>4, <1>5, <1>7, RunFacts
<1>9. got[e] = Run(0, k)
  BY DEF DataInv, TcpDataOf, k
(* The two outcomes of Reads.                                               *)
<1>10. \/ /\ t + n < Size(e, "recv")
          /\ taking' = [taking EXCEPT ![e] = all]
          /\ UNCHANGED <<pc, returned, got>>
       \/ /\ taking' = [taking EXCEPT ![e] = <<>>]
          /\ got' = [got EXCEPT ![e] = got[e] \o all]
          /\ Returns(e, "recv")
  BY <1>3, <1>8 DEF Reads, all
<1>11. got[e] \o all = Run(0, k + t + n) /\ got[e] \o all \in Seq(Nat)
       /\ Len(got[e] \o all) = k + t + n
  <2>1. Run(0, k) \o Run(k, t + n) = Run(0, k + (t + n))
    BY <1>4, <1>7, RunFromStart
  <2>2. Run(0, k + t + n) \in Seq(Nat) /\ Len(Run(0, k + t + n)) = k + t + n
    BY <1>7, RunFacts
  <2>3. k + (t + n) = k + t + n
    BY <1>4, <1>5
  <2>4. got[e] \o all = Run(0, k + t + n)
    BY <1>5, <1>9, <2>1, <2>3
  <2>5. QED
    BY <2>2, <2>4
<1> DEFINE joined == got[e] \o all
<1>12. joined = Run(0, k + t + n) /\ joined \in Seq(Nat) /\ Len(joined) = k + t + n
       /\ (Returns(e, "recv") => got' = [got EXCEPT ![e] = joined] \/ UNCHANGED got)
  BY <1>10, <1>11
<1> HIDE DEF joined
<1>13. /\ pc' \in [Ends -> Nat] /\ returned' \in [Ends -> SUBSET Ops]
       /\ \A x \in Ends : pc'[x] <= Len(program[x])
       /\ \A x \in Ends : x # e => pc'[x] = pc[x] /\ returned'[x] = returned[x]
       /\ \/ t + n < Size(e, "recv") /\ UNCHANGED <<pc, returned>>
             /\ taking' = [taking EXCEPT ![e] = all] /\ got' = got
          \/ /\ taking' = [taking EXCEPT ![e] = <<>>] /\ got' = [got EXCEPT ![e] = joined]
             /\ \/ pc'[e] = pc[e] /\ returned'[e] = returned[e] \cup {"recv"}
                \/ /\ pc'[e] = pc[e] + 1 /\ returned'[e] = {}
                   /\ \A o \in Ops : Size(e, o) > 0 => o \in returned[e] \cup {"recv"}
  <2>1. CASE /\ t + n < Size(e, "recv")
             /\ taking' = [taking EXCEPT ![e] = all]
             /\ UNCHANGED <<pc, returned, got>>
    BY <2>1 DEF TcpTypeOK, CallsTypeOK
  <2>2. CASE /\ taking' = [taking EXCEPT ![e] = <<>>]
             /\ got' = [got EXCEPT ![e] = joined]
             /\ Returns(e, "recv")
    BY <1>2, <2>2, ReturnsFacts DEF TcpTypeOK
  <2>3. QED
    BY <1>10, <2>1, <2>2 DEF joined
<1>14. TcpTypeOK'
  <2>1. taking' \in [Ends -> Seq(Nat)] /\ got' \in [Ends -> Seq(Nat)]
    <3>1. \/ taking' = [taking EXCEPT ![e] = all] /\ got' = got
          \/ taking' = [taking EXCEPT ![e] = <<>>] /\ got' = [got EXCEPT ![e] = joined]
      BY <1>13
    <3>2. taking \in [Ends -> Seq(Nat)] /\ got \in [Ends -> Seq(Nat)] /\ <<>> \in Seq(Nat)
      BY DEF TcpTypeOK, CallsTypeOK
    <3>3. QED
      BY <1>8, <1>12, <3>1, <3>2
  <2>2. stream' \in [Ends -> Seq(Nat)]
    BY <1>6, <1>8 DEF TcpTypeOK, CallsTypeOK
  <2>3. QED
    BY <1>2, <1>13, <2>1, <2>2 DEF TcpTypeOK, CallsTypeOK
<1>15. CallInv'
  <2> SUFFICES ASSUME NEW x \in Ends
               PROVE  /\ handed'[x] > 0 => /\ "send" \notin returned'[x]
                                           /\ handed'[x] < Size(x, "send")'
                      /\ taking'[x] # <<>> => /\ "recv" \notin returned'[x]
                                              /\ Len(taking'[x]) < Size(x, "recv")'
    BY DEF CallInv
  <2>1. pc'[x] = pc[x] => /\ Size(x, "send")' = Size(x, "send")
                          /\ Size(x, "recv")' = Size(x, "recv")
    BY <1>2, SameSize DEF Ops
  <2>2. CASE x # e
    <3>1. taking'[x] = taking[x]
      BY <1>13, <2>2 DEF TcpTypeOK, CallsTypeOK
    <3>2. QED
      BY <1>2, <1>13, <2>1, <2>2, <3>1 DEF CallInv
  <2>3. CASE x = e /\ taking' = [taking EXCEPT ![e] = all]
             /\ t + n < Size(e, "recv") /\ UNCHANGED <<pc, returned>>
    <3>1. taking'[e] = all
      BY <2>3 DEF TcpTypeOK, CallsTypeOK
    <3>2. "recv" \notin returned[e]
      BY <1>2 DEF In
    <3>3. QED
      BY <1>2, <1>8, <2>1, <2>3, <3>1, <3>2 DEF CallInv
  <2>4. CASE /\ x = e /\ taking' = [taking EXCEPT ![e] = <<>>]
             /\ \/ pc'[e] = pc[e] /\ returned'[e] = returned[e] \cup {"recv"}
                \/ /\ pc'[e] = pc[e] + 1 /\ returned'[e] = {}
                   /\ \A o \in Ops : Size(e, o) > 0 => o \in returned[e] \cup {"recv"}
    <3>1. taking'[e] = <<>>
      BY <2>4 DEF TcpTypeOK, CallsTypeOK
    <3>2. handed[e] \in Nat /\ Size(e, "send") \in Nat /\ "send" \in Ops
      BY SizeFacts DEF TcpTypeOK, CallsTypeOK, Ops
    <3>3. handed[e] > 0 => /\ Size(e, "send") > 0 /\ "send" \notin returned[e] \cup {"recv"}
                           /\ handed[e] < Size(e, "send")
      BY <3>2 DEF CallInv
    <3>4. QED
      BY <1>2, <2>1, <2>4, <3>1, <3>2, <3>3
  <2>5. QED
    BY <1>13, <2>2, <2>3, <2>4
<1>16. DataInv'
  <2>1. TcpDataOf(f, e)'
    <3>1. TcpDataOf(f, e) /\ Open(e)' => Open(e)
      BY <1>1, <1>2 DEF DataInv, Open
    <3>2. TcpDataOf(f, e)
      BY <1>1 DEF DataInv
    <3>3. got'[f] = got[f] /\ taking'[f] = taking[f]
      BY <1>1, <1>13 DEF TcpTypeOK, CallsTypeOK
    <3>4. QED
      BY <1>1, <1>2, <1>6, <3>1, <3>2, <3>3, SameData
  <2>2. TcpDataOf(e, f)'
    <3>1. stream'[f] = Run(k + t + n, Len(stream'[f])) /\ k + t + n + Len(stream'[f]) = sent'[f]
      <4>1. Len(stream'[f]) = l - n /\ sent'[f] = sent[f]
        BY <1>2, <1>6, <1>8
      <4>2. k + t + n + (l - n) = sent[f]
        BY <1>4, <1>5, <1>7
      <4>3. QED
        BY <1>6, <4>1, <4>2
    <3>2. CASE taking' = [taking EXCEPT ![e] = all] /\ got' = got
      <4>1. taking'[e] = all /\ got'[e] = got[e] /\ Len(got'[e]) = k
            /\ Len(taking'[e]) = t + n
        BY <1>8, <3>2 DEF TcpTypeOK, CallsTypeOK, k
      <4>2. TcpRead(e)' = k + t + n
        BY <1>4, <1>5, <4>1 DEF TcpRead
      <4>3. QED
        BY <1>5, <1>9, <3>1, <4>1, <4>2 DEF TcpDataOf
    <3>3. CASE taking' = [taking EXCEPT ![e] = <<>>] /\ got' = [got EXCEPT ![e] = joined]
      <4>1. taking'[e] = <<>> /\ got'[e] = joined /\ Len(taking'[e]) = 0
            /\ Len(got'[e]) = k + t + n
        BY <1>12, <3>3 DEF TcpTypeOK, CallsTypeOK
      <4>2. TcpRead(e)' = k + t + n
        BY <1>7, <4>1 DEF TcpRead
      <4>3. taking'[e] = Run(Len(got'[e]), Len(taking'[e]))
        BY <1>7, <4>1, RunEmpty
      <4>4. QED
        BY <1>12, <3>1, <4>1, <4>2, <4>3 DEF TcpDataOf
    <3>4. QED
      BY <1>13, <3>2, <3>3
  <2>3. QED
    BY <1>1, <2>1, <2>2, OtherFacts DEF DataInv, f
<1>17. QED
  BY <1>14, <1>15, <1>16

(* An end leaves, by a failed call, a close or a crash.                     *)
LEMMA TcpLeaveKeeps ==
  ASSUME TcpIInv, NEW e \in Ends, NEW how \in {"closed", "failed", "dead"},
         Leave(e, how), Open(e), deaths' \in 0 .. MaxDeaths,
         UNCHANGED stream \/ Cut(e)
  PROVE  TcpIInv'
<1> USE DEF TcpIInv
<1>1. /\ state' = [state EXCEPT ![e] = how]
      /\ UNCHANGED <<program, pc, returned, handed, sent, taking, got>>
  BY DEF Leave
<1>2. stream' = stream \/ stream' = [stream EXCEPT ![e] = <<>>]
  BY DEF Cut
<1>3. ~Open(e)' /\ \A x \in Ends : Open(x)' => Open(x)
  BY <1>1 DEF TcpTypeOK, CallsTypeOK, Open
<1>4. TcpTypeOK'
  <2>1. stream' \in [Ends -> Seq(Nat)]
    <3>1. stream \in [Ends -> Seq(Nat)] /\ <<>> \in Seq(Nat)
      BY DEF TcpTypeOK, CallsTypeOK
    <3>2. QED
      BY <1>2, <3>1
  <2>2. state' \in [Ends -> {"open", "closed", "failed", "dead"}]
    BY <1>1 DEF TcpTypeOK, CallsTypeOK
  <2>3. QED
    BY <1>1, <2>1, <2>2 DEF TcpTypeOK, CallsTypeOK
<1>5. CallInv'
  BY <1>1 DEF CallInv, Size, Over
<1>6. DataInv'
  <2> SUFFICES ASSUME NEW x \in Ends
               PROVE  TcpDataOf(x, Other(x))'
    BY DEF DataInv
  <2>1. TcpDataOf(x, Other(x)) /\ Other(x) \in Ends
    BY OtherFacts DEF DataInv
  <2>2. CASE stream'[Other(x)] = stream[Other(x)]
    BY <1>1, <1>3, <2>1, <2>2, SameData
  <2>3. CASE Other(x) = e /\ stream'[e] = <<>>
    <3>1. TcpRead(x) <= sent[e]
      <4>1. TcpRead(x) \in Nat /\ Len(stream[e]) \in Nat /\ sent[e] \in Nat
        BY DEF TcpTypeOK, CallsTypeOK, TcpRead
      <4>2. QED
        BY <2>1, <2>3, <4>1 DEF TcpDataOf
    <3>2. TcpRead(x)' = TcpRead(x) /\ sent'[e] = sent[e]
      BY <1>1 DEF TcpRead
    <3>3. QED
      BY <1>1, <1>3, <2>1, <2>3, <3>1, <3>2 DEF TcpDataOf
  <2>4. QED
    BY <1>2, <2>1, <2>2, <2>3 DEF TcpTypeOK, CallsTypeOK
<1>7. QED
  BY <1>4, <1>5, <1>6

(* The invariant is inductive.                                              *)
LEMMA NextIInv == TcpIInv /\ [NextTcp]_varsTcp => TcpIInv'
<1> SUFFICES ASSUME TcpIInv, [NextTcp]_varsTcp PROVE TcpIInv'
  OBVIOUS
<1>1. deaths \in 0 .. MaxDeaths /\ MaxDeaths \in Nat
  BY ProgramTypes DEF TcpIInv, TcpTypeOK, CallsTypeOK
<1>2. ASSUME NEW e \in Ends, SendSome(e) PROVE TcpIInv'
  BY <1>2, SendSomeKeeps
<1>3. ASSUME NEW e \in Ends, RecvSome(e) PROVE TcpIInv'
  BY <1>3, RecvSomeKeeps
<1>4. ASSUME NEW e \in Ends, SendFails(e) \/ RecvFails(e) PROVE TcpIInv'
  BY <1>1, <1>4, TcpLeaveKeeps DEF SendFails, RecvFails, Fail, In
<1>5. ASSUME NEW e \in Ends, CloseTcp(e) PROVE TcpIInv'
  BY <1>1, <1>5, TcpLeaveKeeps DEF CloseTcp, Finish
<1>6. ASSUME NEW e \in Ends, CrashTcp(e) PROVE TcpIInv'
  <2>1. deaths' \in 0 .. MaxDeaths
    BY <1>1, <1>6 DEF CrashTcp, Die
  <2>2. QED
    BY <1>6, <2>1, TcpLeaveKeeps DEF CrashTcp, Die
<1>7. CASE UNCHANGED varsTcp
  BY <1>7 DEF varsTcp, calls, TcpIInv, TcpTypeOK, CallsTypeOK, CallInv, DataInv, TcpDataOf, TcpRead, Size, Over, Open
<1>8. QED
  BY <1>2, <1>3, <1>4, <1>5, <1>6, <1>7 DEF NextTcp, SendStepTcp, RecvStepTcp

(* In every reachable state a call that has begun has more to move, and the *)
(* bytes of each direction are in order and, while their sender lives,      *)
(* complete: none is lost, doubled or read by the wrong call.               *)
THEOREM TcpInvariance == SpecTcp => []TcpIInv
<1>1. QED
  BY InitIInv, NextIInv, PTL DEF SpecTcp

-----------------------------------------------------------------------------
(* The refinement: each turn of SendRaw's loop takes bytes, the last turn   *)
(* of RecvRaw's returns them, and every other step changes nothing that the *)
(* callers of a Transport see.                                              *)
LEMMA SendSomeTakes ==
  ASSUME TcpIInv, NEW e \in Ends, SendSome(e)
  PROVE  T!Take(e)
<1> USE DEF TcpIInv
<1>1. PICK n \in 1 .. Min({Left(e, "send"), StreamSize - Len(stream[e])}) :
        Writes(e, n)
  BY DEF SendSome
<1>2. In(e, "send") /\ "send" \in Ops /\ UNCHANGED <<program, got>>
  BY DEF SendSome, Ops
<1>3. /\ handed[e] \in Nat /\ Size(e, "send") \in Nat /\ n \in Nat
      /\ Left(e, "send") = Size(e, "send") - handed[e]
  BY <1>2, SizeFacts DEF TcpTypeOK, CallsTypeOK, Left
<1>4. T!Size(e, "send") = Size(e, "send") /\ T!In(e, "send")
      /\ (Returns(e, "send") => T!Returns(e, "send"))
  BY <1>2, TSame DEF TcpTypeOK
<1>5. n <= Left(e, "send")
  BY <1>1, <1>3 DEF Writes
<1>6. n \in 0 .. (T!Size(e, "send") - handed[e])
  BY <1>3, <1>4, <1>5
<1>7. /\ sent' = [sent EXCEPT ![e] = @ + n]
      /\ \/ /\ handed' = [handed EXCEPT ![e] = @ + n]
            /\ UNCHANGED <<pc, returned>>
         \/ /\ handed[e] + n = T!Size(e, "send")
            /\ handed' = [handed EXCEPT ![e] = 0]
            /\ T!Returns(e, "send")
  BY <1>1, <1>3, <1>4 DEF Writes
<1>8. QED
  BY <1>2, <1>4, <1>6, <1>7 DEF T!Take

LEMMA RecvSomeReturns ==
  ASSUME TcpIInv, NEW e \in Ends, RecvSome(e)
  PROVE  T!RecvReturns(e) \/ UNCHANGED tvars
<1> USE DEF TcpIInv
<1> DEFINE f == Other(e)
           k == Len(got[e])
           t == Len(taking[e])
<1>1. f \in Ends /\ f = Other(e)
  BY OtherFacts
<1>2. /\ In(e, "recv") /\ "recv" \in Ops
      /\ UNCHANGED <<program, handed, sent>>
  BY DEF RecvSome, Ops
<1>3. PICK n \in 1 .. Min({Left(e, "recv"), Len(stream[f])}) :
        Reads(e, SubSeq(stream[f], 1, n))
  BY DEF RecvSome
<1>4. k \in Nat /\ t \in Nat /\ Len(stream[f]) \in Nat /\ TcpRead(e) = k + t
  BY <1>1 DEF TcpTypeOK, CallsTypeOK, TcpRead
<1>5. /\ n \in Nat
      /\ taking[e] \o SubSeq(stream[f], 1, n) = Run(k, t + n)
      /\ n <= Len(stream[f]) /\ TcpRead(e) + Len(stream[f]) = sent[f]
  BY <1>1, <1>2, RecvSomeReads
<1> HIDE DEF f, k, t
<1>6. Len(Run(k, t + n)) = t + n
  BY <1>4, <1>5, RunFacts
<1>7. \/ UNCHANGED <<pc, returned, got>>
      \/ /\ t + n = Size(e, "recv")
         /\ got' = [got EXCEPT ![e] = @ \o Run(k, t + n)]
         /\ Returns(e, "recv")
  BY <1>3, <1>5, <1>6 DEF Reads
<1>8. CASE UNCHANGED <<pc, returned, got>>
  BY <1>2, <1>8 DEF tvars
<1>9. CASE /\ t + n = Size(e, "recv")
           /\ got' = [got EXCEPT ![e] = @ \o Run(k, t + n)]
           /\ Returns(e, "recv")
  <2> DEFINE s == T!Size(e, "recv")
  <2>1. s = t + n /\ T!In(e, "recv") /\ T!Returns(e, "recv") /\ T!Other(e) = f
    BY <1>2, <1>9, TSame DEF f, TcpTypeOK
  <2>3. Run(k, t + n) = [i \in 1 .. s |-> k + i]
    BY <2>1 DEF Run
  <2> HIDE DEF s
  <2>2. k + s <= sent[f]
    <3> DEFINE l == Len(stream[f])
    <3>1. k \in Nat /\ t \in Nat /\ l \in Nat /\ n \in Nat /\ n <= l
      BY <1>4, <1>5
    <3>2. sent[f] = k + t + l
      BY <1>4, <1>5
    <3>3. s = t + n
      BY <2>1
    <3> HIDE DEF l
    <3>4. k + (t + n) <= k + t + l
      BY ONLY <3>1
    <3>5. QED
      BY <3>2, <3>3, <3>4
  <2>4. got' = [got EXCEPT ![e] = @ \o [i \in 1 .. s |-> k + i]]
    BY <1>9, <2>3
  <2>5. QED
    BY <1>2, <2>1, <2>2, <2>4 DEF T!RecvReturns, s, k
<1>10. QED
  BY <1>7, <1>8, <1>9

(* Every step of TCP is one of a Transport or changes nothing there.        *)
LEMMA TcpStepRefines == TcpIInv /\ [NextTcp]_varsTcp => [T!Next]_tvars
<1> SUFFICES ASSUME TcpIInv, [NextTcp]_varsTcp PROVE T!Next \/ UNCHANGED tvars
  OBVIOUS
<1>1. T!Ends = Ends
  BY TSame DEF TcpIInv, TcpTypeOK
<1>2. ASSUME NEW e \in Ends, SendSome(e) PROVE T!Next
  BY <1>1, <1>2, SendSomeTakes DEF T!Next
<1>3. ASSUME NEW e \in Ends, RecvSome(e) PROVE T!Next \/ UNCHANGED tvars
  BY <1>1, <1>3, RecvSomeReturns DEF T!Next
<1>4. ASSUME NEW e \in Ends, SendFails(e) \/ RecvFails(e) \/ CloseTcp(e) \/ CrashTcp(e)
      PROVE UNCHANGED tvars
  BY <1>4 DEF SendFails, RecvFails, Fail, CloseTcp, Finish, CrashTcp, Die, Leave, tvars
<1>5. CASE UNCHANGED varsTcp
  BY <1>5 DEF varsTcp, calls, tvars
<1>6. QED
  BY <1>2, <1>3, <1>4, <1>5 DEF NextTcp, SendStepTcp, RecvStepTcp

LEMMA InitRefines == InitTcp => T!Init
BY TSame DEF InitTcp, Init, T!Init, T!Ends, Ends

(* TransportTCP keeps the promise of Transport: to its callers, whatever    *)
(* they send and receive, however the kernel splits it and whoever dies,    *)
(* it is one stream of bytes each way, in order and complete.               *)
THEOREM TcpRefinement == SpecTcp => RefinesTransport
<1>1. InitTcp => T!Init
  BY InitRefines
<1>2. TcpIInv /\ [NextTcp]_varsTcp => [T!Next]_tvars
  BY TcpStepRefines
<1>3. SpecTcp => []TcpIInv
  BY TcpInvariance
<1>4. QED
  BY <1>1, <1>2, <1>3, PTL DEF SpecTcp, RefinesTransport, T!Spec, tvars

-----------------------------------------------------------------------------
(* A call fails for a cause only.  While nobody has died and the ends agree *)
(* on their sizes, an end closes when it has sent and read all it ever      *)
(* would, so that nothing is cut, missed or sent to nobody.                 *)
Intact(e, f) == TcpRead(e) + Len(stream[f]) = sent[f]
Calm == deaths = 0 /\ Matched
CauseInv ==
  /\ \A e \in Ends : PartsOf(e) /\ TotalsOf(e)
  /\ \A e \in Ends : state[e] = "closed" => Over(e)
  /\ Calm => \A e \in Ends : /\ state[e] \in {"open", "closed"}
                             /\ Intact(e, Other(e))

LEMMA InitCauseInv == InitTcp => CauseInv
<1> SUFFICES ASSUME InitTcp PROVE CauseInv
  OBVIOUS
<1>1. \A e \in Ends : /\ pc[e] = 0 /\ returned[e] = {} /\ handed[e] = 0 /\ sent[e] = 0
                      /\ taking[e] = <<>> /\ got[e] = <<>> /\ state[e] = "open"
                      /\ stream[e] = <<>>
  BY DEF InitTcp, Init
<1>2. CallsTypeOK
  BY InitIInv DEF TcpIInv, TcpTypeOK
<1>3. \A e \in Ends : Len(got[e]) = 0 /\ Len(taking[e]) = 0 /\ Len(stream[e]) = 0
  BY <1>1, EmptySeq
<1>4. ASSUME NEW e \in Ends PROVE PartsOf(e) /\ TotalsOf(e)
  <2>1. \A op \in Ops : Part(e, op) = 0 /\ Size(e, op) \in Nat /\ Upto(e, op)[0] = 0
    BY <1>1, <1>2, <1>3, SizeFacts, UptoFacts DEF Part, CallsTypeOK
  <2>2. \A op \in Ops : Done(e, op) = 0
    BY <1>1, <2>1 DEF Done
  <2>3. PartsOf(e)
    BY <1>1, <2>1 DEF PartsOf
  <2>4. Len(got[e]) + Len(taking[e]) = 0
    <3>1. Len(got[e]) = 0 /\ Len(taking[e]) = 0
      BY <1>3
    <3>2. QED
      BY <3>1
  <2>5. QED
    BY <1>1, <2>2, <2>3, <2>4 DEF TotalsOf, Ops
<1>5. ASSUME NEW e \in Ends PROVE Intact(e, Other(e))
  <2>1. TcpRead(e) = 0
    <3>1. Len(got[e]) = 0 /\ Len(taking[e]) = 0
      BY <1>3
    <3>2. QED
      BY <3>1 DEF TcpRead
  <2>2. Len(stream[Other(e)]) = 0 /\ sent[Other(e)] = 0
    BY <1>1, <1>3, OtherFacts
  <2>3. QED
    BY <2>1, <2>2 DEF Intact
<1>6. QED
  BY <1>1, <1>4, <1>5 DEF CauseInv

(* What depends on the states of the ends and on the streams.               *)
LEMMA CauseStep ==
  ASSUME CauseInv, program' = program, state' = state, deaths' = deaths,
         \A e \in Ends : state[e] = "closed" => pc'[e] = pc[e],
         \A e \in Ends : PartsOf(e)' /\ TotalsOf(e)',
         \A e \in Ends : Intact(e, Other(e)) => Intact(e, Other(e))'
  PROVE  CauseInv'
<1>1. Matched' = Matched
  BY DEF Matched, Upto
<1>2. \A e \in Ends : state[e] = "closed" => (Over(e) => Over(e)')
  BY DEF Over
<1>3. QED
  BY <1>1, <1>2 DEF CauseInv, Calm

LEMMA SendSomeCause ==
  ASSUME TcpIInv, CauseInv, NEW e \in Ends, SendSome(e)
  PROVE  CauseInv'
<1> USE DEF TcpIInv, TcpTypeOK
<1>1. PICK n \in 1 .. Min({Left(e, "send"), StreamSize - Len(stream[e])}) :
        /\ stream' = [stream EXCEPT ![e] = @ \o Bytes(e, n)]
        /\ Writes(e, n)
  BY DEF SendSome
<1>2. /\ In(e, "send") /\ "send" \in Ops /\ "recv" \in Ops
      /\ UNCHANGED <<program, taking, got, state, deaths>>
  BY DEF SendSome, Ops
<1>3. n \in Nat
  OBVIOUS
<1>4. /\ handed[e] \in Nat /\ sent[e] \in Nat /\ Size(e, "send") \in Nat
      /\ Left(e, "send") = Size(e, "send") - handed[e]
      /\ "send" \notin returned[e]
  BY <1>2, SizeFacts DEF CallsTypeOK, Left, In
<1>5. sent' = [sent EXCEPT ![e] = sent[e] + n]
  BY <1>1 DEF Writes
<1>6. PartsOf(e) /\ TotalsOf(e)
  BY DEF CauseInv
<1>7. sent[e] = Upto(e, "send")[pc[e]] + handed[e] /\ Upto(e, "send")[pc[e]] \in Nat
  BY <1>2, <1>4, <1>6, PartFacts DEF TotalsOf, Done, Part
<1>8. PartsOf(e)' /\ TotalsOf(e)'
  <2>1. sent'[e] = sent[e] + n /\ Len(got'[e]) + Len(taking'[e]) = Done(e, "recv")
    BY <1>2, <1>5, <1>6 DEF CallsTypeOK, TotalsOf
  <2>2. CASE /\ n < Left(e, "send") /\ UNCHANGED <<pc, returned>>
             /\ handed' = [handed EXCEPT ![e] = handed[e] + n]
    <3>1. handed'[e] = handed[e] + n /\ Part(e, "recv")' = Part(e, "recv")
      BY <1>2, <2>2 DEF CallsTypeOK, Part
    <3>2. /\ \A op \in Ops : Size(e, op)' = Size(e, op)
          /\ \A op \in Ops : Upto(e, op)' = Upto(e, op)
      BY <1>2, <2>2, SameSize DEF Upto
    <3>3. Done(e, "recv")' = Done(e, "recv")
      BY <1>2, <2>2, <3>1, <3>2 DEF Done
    <3>4. Done(e, "send")' = Upto(e, "send")[pc[e]] + (handed[e] + n)
      BY <1>2, <1>4, <2>2, <3>1, <3>2 DEF Done, Part
    <3>5. sent'[e] = Done(e, "send")'
      BY <1>3, <1>4, <1>7, <2>1, <3>4
    <3>6. PartsOf(e)'
      BY <1>3, <1>4, <1>6, <2>2, <3>1, <3>2 DEF PartsOf, Part, Ops
    <3>7. QED
      BY <2>1, <3>3, <3>5, <3>6 DEF TotalsOf
  <2>3. CASE /\ n = Left(e, "send") /\ Returns(e, "send")
             /\ handed' = [handed EXCEPT ![e] = 0]
    <3>1. Part(e, "send")' = 0 /\ Part(e, "recv")' = Part(e, "recv")
      BY <1>2, <2>3 DEF CallsTypeOK, Part
    <3>2. /\ PartsOf(e)' /\ Done(e, "recv")' = Done(e, "recv")
          /\ Done(e, "send")' = Upto(e, "send")[pc[e]] + Size(e, "send")
      BY <1>2, <1>6, <2>3, <3>1, ReturnsDone DEF Ops
    <3>3. sent'[e] = Done(e, "send")'
      BY <1>3, <1>4, <1>7, <2>1, <2>3, <3>2
    <3>4. QED
      BY <2>1, <3>2, <3>3 DEF TotalsOf
  <2>4. QED
    BY <1>1, <2>2, <2>3 DEF Writes
<1>9. ASSUME NEW x \in Ends, x # e PROVE PartsOf(x)' /\ TotalsOf(x)' /\ pc'[x] = pc[x]
  <2>1. /\ pc'[x] = pc[x] /\ returned'[x] = returned[x] /\ handed'[x] = handed[x]
        /\ sent'[x] = sent[x]
    BY <1>1, <1>2, <1>5, <1>9, ReturnsFacts, SMTT(30) DEF Writes, CallsTypeOK
  <2>2. PartsOf(x) /\ TotalsOf(x)
    BY DEF CauseInv
  <2>3. QED
    BY <1>2, <2>1, <2>2, SameCalls
<1>10. ASSUME NEW x \in Ends, Intact(x, Other(x)) PROVE Intact(x, Other(x))'
  <2>1. TcpRead(x)' = TcpRead(x) /\ Other(x) \in Ends
    BY <1>2, OtherFacts DEF TcpRead
  <2>2. CASE Other(x) # e
    BY <1>1, <1>5, <1>10, <2>1, <2>2 DEF Intact, CallsTypeOK
  <2>3. CASE Other(x) = e
    <3>1. /\ TcpRead(x) \in Nat /\ stream[e] \in Seq(Nat) /\ Bytes(e, n) = Run(sent[e], n)
          /\ Run(sent[e], n) \in Seq(Nat) /\ Len(Run(sent[e], n)) = n
      BY <1>3, <1>4, RunFacts, SMTT(30) DEF CallsTypeOK, TcpRead, Bytes, Run
    <3>2. stream'[e] = stream[e] \o Run(sent[e], n) /\ sent'[e] = sent[e] + n
      BY <1>1, <1>5, <3>1 DEF CallsTypeOK
    <3>3. Len(stream'[e]) = Len(stream[e]) + n
      <4> DEFINE s == stream[e]
                 t == Run(sent[e], n)
      <4>1. s \in Seq(Nat) /\ t \in Seq(Nat) /\ Len(t) = n /\ stream'[e] = s \o t
        BY <3>1, <3>2
      <4> HIDE DEF s, t
      <4>2. Len(s \o t) = Len(s) + Len(t)
        BY <4>1, ConcatProperties
      <4>3. QED
        BY <4>1, <4>2 DEF s
    <3>4. QED
      BY <1>3, <1>4, <1>10, <2>1, <2>3, <3>1, <3>2, <3>3 DEF Intact
  <2>4. QED
    BY <2>2, <2>3
<1>11. \A x \in Ends : state[x] = "closed" => pc'[x] = pc[x]
  BY <1>2, <1>9 DEF In, Open
<1>12. QED
  BY <1>2, <1>8, <1>9, <1>10, <1>11, CauseStep

LEMMA RecvSomeCause ==
  ASSUME TcpIInv, CauseInv, NEW e \in Ends, RecvSome(e)
  PROVE  CauseInv'
<1> USE DEF TcpIInv, TcpTypeOK
<1> DEFINE f == Other(e)
           k == Len(got[e])
           t == Len(taking[e])
           l == Len(stream[f])
<1>1. f \in Ends /\ f # e /\ \A x \in Ends : x # e => x = f /\ Other(x) = e
  BY OtherFacts
<1>2. /\ In(e, "recv") /\ "recv" \in Ops /\ "send" \in Ops
      /\ UNCHANGED <<program, handed, sent, state, deaths>>
  BY DEF RecvSome, Ops
<1>3. PICK n \in 1 .. Min({Left(e, "recv"), Len(stream[f])}) :
        /\ stream' = [stream EXCEPT ![f] = SubSeq(stream[f], n + 1, Len(stream[f]))]
        /\ Reads(e, SubSeq(stream[f], 1, n))
  BY DEF RecvSome
<1> DEFINE all == taking[e] \o SubSeq(stream[f], 1, n)
<1>4. /\ k \in Nat /\ t \in Nat /\ l \in Nat /\ TcpRead(e) = k + t /\ sent[f] \in Nat
      /\ Size(e, "recv") \in Nat /\ "recv" \notin returned[e]
  <2>1. k \in Nat /\ t \in Nat /\ l \in Nat /\ sent[f] \in Nat
    BY <1>1 DEF CallsTypeOK
  <2>2. Size(e, "recv") \in Nat /\ "recv" \notin returned[e]
    BY <1>2, SizeFacts DEF In
  <2>3. TcpRead(e) = k + t
    BY DEF TcpRead
  <2>4. QED
    BY <2>1, <2>2, <2>3
<1>5. /\ n \in Nat /\ all = Run(k, t + n)
      /\ SubSeq(stream[f], n + 1, l) = Run(k + t + n, l - n)
      /\ n <= l /\ t + n <= Size(e, "recv") /\ k + t + l = sent[f]
  <2> HIDE DEF TcpIInv
  <2>1. /\ n \in Nat /\ taking[e] \o SubSeq(stream[f], 1, n) = Run(Len(got[e]), Len(taking[e]) + n)
        /\ SubSeq(stream[f], n + 1, Len(stream[f])) = Run(TcpRead(e) + n, Len(stream[f]) - n)
        /\ n <= Len(stream[f]) /\ Len(taking[e]) + n <= Size(e, "recv")
        /\ TcpRead(e) + Len(stream[f]) = sent[f]
    BY <1>1, <1>2, RecvSomeReads
  <2>2. QED
    BY <1>4, <2>1
<1> HIDE DEF f, all, k, t, l
<1>6. l - n \in Nat /\ t + n \in Nat /\ k + t + n \in Nat
  BY <1>4, <1>5
<1>7. /\ stream'[f] = Run(k + t + n, l - n) /\ stream'[e] = stream[e]
      /\ Len(Run(k + t + n, l - n)) = l - n
      /\ all \in Seq(Nat) /\ Len(all) = t + n
  <2>1. stream'[f] = Run(k + t + n, l - n) /\ stream'[e] = stream[e]
    BY <1>1, <1>3, <1>5 DEF CallsTypeOK, l
  <2>2. QED
    BY <1>4, <1>5, <1>6, <2>1, RunFacts
<1>8. PartsOf(e) /\ TotalsOf(e) /\ got[e] \in Seq(Nat)
  BY DEF CauseInv, CallsTypeOK
<1>9. k + t = Upto(e, "recv")[pc[e]] + t /\ Upto(e, "recv")[pc[e]] \in Nat
  BY <1>2, <1>4, <1>8, PartFacts DEF TotalsOf, Done, Part, k, t
<1>10. PartsOf(e)' /\ TotalsOf(e)' /\ TcpRead(e)' = k + t + n
  <2>1. sent'[e] = Done(e, "send")
    BY <1>2, <1>8 DEF TotalsOf
  <2>2. CASE /\ t + n < Size(e, "recv")
             /\ taking' = [taking EXCEPT ![e] = all]
             /\ UNCHANGED <<pc, returned, got>>
    <3>1. taking'[e] = all /\ Part(e, "send")' = Part(e, "send") /\ Part(e, "recv")' = t + n
      BY <1>2, <1>7, <2>2 DEF CallsTypeOK, Part
    <3>2. /\ \A op \in Ops : Size(e, op)' = Size(e, op)
          /\ \A op \in Ops : Upto(e, op)' = Upto(e, op)
      BY <1>2, <2>2, SameSize DEF Upto
    <3>3. Done(e, "send")' = Done(e, "send")
      BY <1>2, <2>2, <3>1, <3>2 DEF Done
    <3>4. Done(e, "recv")' = Upto(e, "recv")[pc[e]] + (t + n)
      BY <1>2, <1>4, <2>2, <3>1, <3>2 DEF Done
    <3>5. Len(got'[e]) + Len(taking'[e]) = k + (t + n)
      BY <1>7, <2>2, <3>1 DEF k
    <3>6. k + (t + n) = Done(e, "recv")' /\ k + (t + n) = k + t + n
      BY <1>4, <1>5, <1>9, <3>4, SMTT(30)
    <3>7. PartsOf(e)'
      BY <1>4, <1>5, <1>8, <2>2, <3>1, <3>2 DEF PartsOf, Ops
    <3>8. QED
      BY <2>1, <3>3, <3>5, <3>6, <3>7 DEF TotalsOf, TcpRead
  <2>3. CASE /\ t + n = Size(e, "recv") /\ Returns(e, "recv")
             /\ taking' = [taking EXCEPT ![e] = <<>>]
             /\ got' = [got EXCEPT ![e] = got[e] \o all]
    <3>1. taking'[e] = <<>> /\ Part(e, "recv")' = 0 /\ Part(e, "send")' = Part(e, "send")
      BY <1>2, <2>3 DEF CallsTypeOK, Part
    <3>2. /\ PartsOf(e)' /\ Done(e, "send")' = Done(e, "send")
          /\ Done(e, "recv")' = Upto(e, "recv")[pc[e]] + Size(e, "recv")
      BY <1>2, <1>8, <2>3, <3>1, ReturnsDone DEF Ops
    <3>3. Len(got'[e]) = k + (t + n)
      <4> DEFINE s == got[e]
      <4>1. got'[e] = s \o all /\ Len(s) = k /\ s \in Seq(Nat)
        BY <1>8, <2>3 DEF CallsTypeOK, k
      <4> HIDE DEF s
      <4>2. Len(s \o all) = Len(s) + Len(all)
        BY <1>7, <4>1, ConcatProperties
      <4>3. QED
        BY <1>7, <4>1, <4>2
    <3>4. Len(taking'[e]) = 0
      BY <3>1, EmptySeq
    <3>5. k + (t + n) = Done(e, "recv")' /\ k + (t + n) = k + t + n
          /\ k + (t + n) + 0 = k + (t + n)
      <4>1. k + t + n = Upto(e, "recv")[pc[e]] + (t + n)
        BY <1>4, <1>5, <1>9
      <4>2. k + (t + n) = k + t + n /\ k + (t + n) + 0 = k + (t + n)
        BY <1>4, <1>5
      <4>3. QED
        BY <2>3, <3>2, <4>1, <4>2
    <3>6. QED
      BY <2>1, <3>2, <3>3, <3>4, <3>5 DEF TotalsOf, TcpRead
  <2>4. QED
    BY <1>3, <1>7, <2>2, <2>3 DEF Reads, all
<1>11. ASSUME NEW x \in Ends, x # e PROVE PartsOf(x)' /\ TotalsOf(x)' /\ pc'[x] = pc[x]
                                          /\ TcpRead(x)' = TcpRead(x)
  <2>1. /\ pc'[x] = pc[x] /\ returned'[x] = returned[x] /\ taking'[x] = taking[x]
        /\ got'[x] = got[x]
    BY <1>2, <1>3, <1>11, ReturnsFacts, SMTT(30) DEF Reads, CallsTypeOK
  <2>2. PartsOf(x) /\ TotalsOf(x)
    BY DEF CauseInv
  <2>3. QED
    BY <1>2, <2>1, <2>2, SameCalls DEF TcpRead
<1>12. ASSUME NEW x \in Ends, Intact(x, Other(x)) PROVE Intact(x, Other(x))'
  <2>1. CASE x = e
    <3>1. TcpRead(e)' + Len(stream'[f]) = k + t + n + (l - n) /\ sent'[f] = k + t + l
      BY <1>2, <1>5, <1>7, <1>10
    <3>2. QED
      BY <1>4, <1>5, <2>1, <3>1 DEF Intact, f
  <2>2. CASE x # e
    BY <1>1, <1>2, <1>7, <1>11, <1>12, <2>2 DEF Intact
  <2>3. QED
    BY <2>1, <2>2
<1>13. \A x \in Ends : state[x] = "closed" => pc'[x] = pc[x]
  BY <1>2, <1>11 DEF In, Open
<1>14. QED
  BY <1>2, <1>10, <1>11, <1>12, <1>13, CauseStep

(* While the ends are calm, one that closes has sent all the other will     *)
(* read and read all the other will send.                                   *)
LEMMA ClosedIsDone ==
  ASSUME TcpIInv, CauseInv, Calm, NEW e \in Ends, Over(e)
  PROVE  /\ stream[Other(e)] = <<>>
         /\ \A op \in Ops : In(Other(e), op) =>
              /\ op = "send" => Left(Other(e), "send") = 0
              /\ op = "recv" => stream[e] # <<>>
<1> DEFINE f == Other(e)
           p == Len(program[e])
           q == Len(program[f])
<1>1. /\ f \in Ends /\ Other(f) = e /\ "send" \in Ops /\ "recv" \in Ops
      /\ CallsTypeOK /\ program \in Programs
  BY OtherFacts DEF Ops, TcpIInv, TcpTypeOK, CallsTypeOK
<1>2. /\ Upto(e, "send")[p] = Upto(f, "recv")[q]
      /\ Upto(f, "send")[q] = Upto(e, "recv")[p]
  BY <1>1, TotalsMatch DEF Calm
<1>3. /\ PartsOf(e) /\ TotalsOf(e) /\ PartsOf(f) /\ TotalsOf(f)
      /\ TcpRead(e) + Len(stream[f]) = sent[f] /\ TcpRead(f) + Len(stream[e]) = sent[e]
  BY <1>1 DEF CauseInv, Intact
<1>4. /\ Len(stream[e]) \in Nat /\ Len(stream[f]) \in Nat
      /\ stream[e] \in Seq(Nat) /\ stream[f] \in Seq(Nat)
  BY <1>1 DEF TcpIInv, TcpTypeOK
<1> HIDE DEF f
<1>5. /\ Done(e, "send") = Upto(e, "send")[p] /\ Done(e, "recv") = Upto(e, "recv")[p]
      /\ Done(f, "send") <= Upto(f, "send")[q] /\ Done(f, "recv") <= Upto(f, "recv")[q]
      /\ Done(e, "send") \in Nat /\ Done(e, "recv") \in Nat
      /\ Done(f, "send") \in Nat /\ Done(f, "recv") \in Nat
  BY <1>1, <1>3, DoneBounds
<1>6. /\ sent[e] = Done(e, "send") /\ TcpRead(e) = Done(e, "recv")
      /\ sent[f] = Done(f, "send") /\ TcpRead(f) = Done(f, "recv")
  BY <1>3 DEF TotalsOf, TcpRead
<1> HIDE DEF p, q
<1>7. Len(stream[f]) = 0
  BY <1>2, <1>3, <1>4, <1>5, <1>6
<1>8. stream[f] = <<>>
  BY <1>4, <1>7, EmptySeq
<1>9. ASSUME In(f, "send") PROVE Left(f, "send") = 0
  <2>1. /\ Upto(f, "send")[pc[f]] + Size(f, "send") <= Upto(f, "send")[q]
        /\ Done(f, "send") = Upto(f, "send")[pc[f]] + handed[f]
        /\ Upto(f, "send")[pc[f]] \in Nat /\ Size(f, "send") \in Nat /\ handed[f] \in Nat
        /\ handed[f] <= Size(f, "send") /\ Left(f, "send") = Size(f, "send") - handed[f]
    BY <1>1, <1>3, <1>9, DoneBounds, PartFacts, SizeFacts
       DEF Done, In, Part, Left, PartsOf, q
  <2>2. Done(f, "send") = Upto(f, "send")[q]
    BY <1>2, <1>3, <1>5, <1>6, <1>7
  <2>3. QED
    BY <2>1, <2>2
<1>10. ASSUME In(f, "recv") PROVE stream[e] # <<>>
  <2> DEFINE t == Len(taking[f])
  <2>1. /\ Upto(f, "recv")[pc[f]] + Size(f, "recv") <= Upto(f, "recv")[q]
        /\ Done(f, "recv") = Upto(f, "recv")[pc[f]] + t
        /\ Upto(f, "recv")[pc[f]] \in Nat /\ Size(f, "recv") \in Nat /\ t \in Nat
    BY <1>1, <1>3, <1>10, DoneBounds, PartFacts, SizeFacts DEF Done, In, Part, q, CallsTypeOK
  <2>2. t < Size(f, "recv")
    <3>1. Size(f, "recv") > 0 /\ (taking[f] # <<>> => t < Size(f, "recv"))
      BY <1>1, <1>10 DEF In, TcpIInv, CallInv
    <3>2. taking[f] = <<>> => t = 0
      BY EmptySeq
    <3>3. QED
      BY <3>1, <3>2
  <2> HIDE DEF t
  <2>3. Len(stream[e]) # 0
    BY <1>2, <1>3, <1>4, <1>5, <1>6, <2>1, <2>2, SMTT(30)
  <2>4. QED
    BY <2>3, EmptySeq
<1>11. QED
  BY <1>8, <1>9, <1>10 DEF f

(* In the code's words: while the ends are calm no send or recv of a socket *)
(* fails.                                                                   *)
LEMMA NothingFails ==
  ASSUME TcpIInv, CauseInv, Calm, NEW e \in Ends
  PROVE  ~SendFails(e) /\ ~RecvFails(e)
<1>1. Other(e) \in Ends /\ Other(Other(e)) = e /\ "send" \in Ops /\ "recv" \in Ops
  BY OtherFacts DEF Ops
<1>2. ~Open(Other(e)) => Over(Other(e))
  BY <1>1 DEF CauseInv, Open
<1>3. ~SendFails(e)
  <2> SUFFICES ASSUME SendFails(e) PROVE FALSE
    OBVIOUS
  <2>1. In(e, "send") /\ Left(e, "send") = 0
    BY <1>1, <1>2, ClosedIsDone DEF SendFails
  <2>2. handed[e] \in Nat /\ Size(e, "send") \in Nat /\ Size(e, "send") > 0
        /\ Size(e, "send") = handed[e]
    <3>1. handed[e] \in Nat /\ Size(e, "send") \in Nat
      BY <1>1, SizeFacts DEF TcpIInv, TcpTypeOK, CallsTypeOK
    <3>2. Size(e, "send") > 0 /\ Left(e, "send") = Size(e, "send") - handed[e]
      BY <2>1 DEF In, Left
    <3>3. QED
      BY <2>1, <3>1, <3>2
  <2>3. QED
    BY <2>2 DEF TcpIInv, CallInv
<1>4. ~RecvFails(e)
  BY <1>1, <1>2, ClosedIsDone DEF RecvFails
<1>5. QED
  BY <1>3, <1>4

LEMMA LeaveCause ==
  ASSUME TcpIInv, CauseInv, NEW e \in Ends,
         SendFails(e) \/ RecvFails(e) \/ CloseTcp(e) \/ CrashTcp(e)
  PROVE  CauseInv'
<1>1. /\ UNCHANGED <<program, pc, returned, handed, sent, taking, got>>
      /\ deaths \in Nat
      /\ \A x \in Ends : TcpRead(x)' = TcpRead(x)
  <2>1. UNCHANGED <<program, pc, returned, handed, sent, taking, got>>
    BY DEF SendFails, RecvFails, Fail, CloseTcp, Finish, CrashTcp, Die, Leave
  <2>2. deaths \in Nat
    BY ProgramTypes DEF TcpIInv, TcpTypeOK, CallsTypeOK
  <2>3. QED
    BY <2>1, <2>2 DEF TcpRead
<1>2. Matched' = Matched /\ \A x \in Ends : Over(x)' = Over(x)
  BY <1>1 DEF Matched, Upto, Over
<1>3. \A x \in Ends : PartsOf(x)' /\ TotalsOf(x)'
  BY <1>1, SameCalls DEF CauseInv
<1>4. CASE SendFails(e) \/ RecvFails(e)
  <2>1. ~Calm /\ deaths' = deaths
    BY <1>4, NothingFails DEF SendFails, RecvFails, Fail
  <2>2. ~Calm'
    BY <1>2, <2>1 DEF Calm
  <2>3. \A x \in Ends : state'[x] = "closed" => state[x] = "closed"
    BY <1>4 DEF SendFails, RecvFails, Fail, Leave, TcpIInv, TcpTypeOK, CallsTypeOK
  <2>4. QED
    BY <1>2, <1>3, <2>2, <2>3 DEF CauseInv
<1>5. CASE CrashTcp(e)
  <2>1. ~Calm'
    BY <1>1, <1>5 DEF CrashTcp, Die, Calm
  <2>2. \A x \in Ends : state'[x] = "closed" => state[x] = "closed"
    BY <1>5 DEF CrashTcp, Die, Leave, TcpIInv, TcpTypeOK, CallsTypeOK
  <2>3. QED
    BY <1>2, <1>3, <2>1, <2>2 DEF CauseInv
<1>6. CASE CloseTcp(e)
  <2>1. /\ Over(e) /\ deaths' = deaths /\ state' = [state EXCEPT ![e] = "closed"]
        /\ UNCHANGED stream \/ stream[Other(e)] # <<>>
    BY <1>6 DEF CloseTcp, Finish, Leave, Cut
  <2>2. \A x \in Ends : state'[x] = "closed" => Over(x)'
    BY <1>2, <2>1 DEF CauseInv, TcpIInv, TcpTypeOK, CallsTypeOK
  <2>3. ASSUME Calm', NEW x \in Ends
        PROVE  state'[x] \in {"open", "closed"} /\ Intact(x, Other(x))'
    <3>1. Calm
      BY <1>2, <2>1, <2>3 DEF Calm
    <3>2. UNCHANGED stream
      BY <2>1, <3>1, ClosedIsDone
    <3>3. state'[x] \in {"open", "closed"}
      BY <2>1, <3>1 DEF CauseInv, TcpIInv, TcpTypeOK, CallsTypeOK
    <3>4. Intact(x, Other(x))'
      BY <1>1, <3>1, <3>2 DEF CauseInv, Intact
    <3>5. QED
      BY <3>3, <3>4
  <2>4. QED
    BY <1>3, <2>2, <2>3 DEF CauseInv
<1>7. QED
  BY <1>4, <1>5, <1>6

(* Over TCP a Send or a Recv returns false only when a process has died or  *)
(* the two ends do not agree on their sizes: nothing is lost between two    *)
(* ends that close at different times, for every program and every          *)
(* splitting of its bytes.                                                  *)
THEOREM TcpFailsForCauseCorrect == SpecTcp => []FailsForCause
<1>1. InitTcp => CauseInv
  BY InitCauseInv
<1>2. TcpIInv /\ CauseInv /\ [NextTcp]_varsTcp => CauseInv'
  <2> SUFFICES ASSUME TcpIInv, CauseInv, [NextTcp]_varsTcp PROVE CauseInv'
    OBVIOUS
  <2>1. ASSUME NEW e \in Ends, SendStepTcp(e) \/ RecvStepTcp(e) \/ CrashTcp(e) PROVE CauseInv'
    BY <2>1, SendSomeCause, RecvSomeCause, LeaveCause DEF SendStepTcp, RecvStepTcp
  <2>2. CASE UNCHANGED varsTcp
    <3>1. UNCHANGED <<program, pc, returned, handed, sent, taking, got, state, deaths, stream>>
      BY <2>2 DEF varsTcp, calls
    <3>2. \A e \in Ends : PartsOf(e)' /\ TotalsOf(e)'
      BY <3>1, SameCalls DEF CauseInv
    <3>3. \A e \in Ends : Intact(e, Other(e))' = Intact(e, Other(e))
      BY <3>1 DEF Intact, TcpRead
    <3>4. QED
      BY <3>1, <3>2, <3>3, CauseStep
  <2>3. QED
    BY <2>1, <2>2 DEF NextTcp
<1>3. TcpIInv /\ CauseInv => FailsForCause
  <2> SUFFICES ASSUME TcpIInv, CauseInv PROVE FailsForCause
    OBVIOUS
  <2>1. deaths \in Nat
    BY ProgramTypes DEF TcpIInv, TcpTypeOK, CallsTypeOK
  <2>2. QED
    BY <2>1 DEF CauseInv, Calm, FailsForCause
<1>4. SpecTcp => []TcpIInv
  BY TcpInvariance
<1>5. QED
  BY <1>1, <1>2, <1>3, <1>4, PTL DEF SpecTcp

-----------------------------------------------------------------------------
(* TransportRdma, for two ends that take turns, as the collectives use it   *)
(* (CollectivesTakeTurns of CollectivesProofs): in every step one end sends *)
(* what the other receives (run rdma_duplex shows what happens to two that  *)
(* do not).  Whatever the sizes, the number and length of the buffers, and  *)
(* in both modes, the pool stays posted, every call polls the completion of *)
(* its own work request, and the bytes arrive in order.                     *)

TakesTurns == InTurns(program)

-----------------------------------------------------------------------------
(* The inductive invariant: types.                                          *)
Places == {"idle", "poll", "notify", "recheck", "wait"}
Completions == [op : Ops, id : Nat, ok : BOOLEAN]
Requested == [slot : Slots, room : Nat]

RdmaTypeOK ==
  /\ CallsTypeOK
  /\ zero_copy \in BOOLEAN /\ busy \in BOOLEAN
  /\ setup \in [Ends -> {"start", "told", "asked", "knows", "connected"}]
  /\ at \in [Ends -> [Ops -> Places]]
  /\ mem \in [Ends -> [Slots -> Seq(Nat)]]
  /\ in_use \in [Ends -> SUBSET Buffers]
  /\ posted \in [Ends -> Seq(Requested)]
  /\ wire \in [Ends -> Seq(Slots)]
  /\ unacked \in [Ends -> Nat]
  /\ cq \in [Ends -> Seq(Completions)]
  /\ armed \in [Ends -> BOOLEAN]
  /\ events \in [Ends -> Nat]

(* Calls: since a step is a Send or a Recv, it is done when its call        *)
(* returns.  A call that polls has not returned, and one that does not has  *)
(* something left to do.                                                    *)
CallOf(e) ==
  /\ PartsOf(e) /\ TotalsOf(e) /\ returned[e] = {}
  /\ \A op \in Ops : at[e][op] # "idle" => Size(e, op) > 0
  /\ Open(e) /\ at[e]["send"] = "idle" /\ Size(e, "send") > 0 =>
       handed[e] < Size(e, "send")
  /\ Size(e, "recv") > 0 => Len(taking[e]) < Size(e, "recv")

(* Data: the bytes returned and those of the current Recv.                  *)
Read(e) == Len(got[e]) + Len(taking[e])
DataOf(e) ==
  /\ got[e] = Run(0, Len(got[e]))
  /\ taking[e] = Run(Len(got[e]), Len(taking[e]))
  /\ Read(e) <= sent[Other(e)]

(* The completion of e's own work request comes first in its queue, the     *)
(* completions of what has arrived for it behind.                           *)
SendDone(e) == cq[e] # <<>> /\ cq[e][1].op = "send"
Arrived(e) == IF SendDone(e) THEN Tail(cq[e]) ELSE cq[e]
QueueOf(e) ==
  \A i \in 1 .. Len(Arrived(e)) :
    Arrived(e)[i].op = "recv" /\ Arrived(e)[i].ok /\ Arrived(e)[i].id \in Buffers

(* A Send that polls has one work request: on the wire, delivered or        *)
(* completed.  Until it is completed nothing arrives for its end.           *)
OutSlot == IF zero_copy THEN UserOut ELSE 0
WorkOf(e) ==
  /\ Len(wire[e]) + unacked[e] + (IF SendDone(e) THEN 1 ELSE 0) =
       (IF at[e]["send"] = "idle" THEN 0 ELSE 1)
  /\ at[e]["send"] = "idle" => in_use[e] = {}
  /\ wire[e] # <<>> => wire[e] = <<OutSlot>> /\ wire[Other(e)] = <<>>
  /\ wire[e] # <<>> \/ unacked[e] > 0 => cq[e] = <<>>

(* Receive requests.  In zero-copy mode a Recv that polls has one, posted   *)
(* or completed; in the buffer pool every buffer is either posted or holds  *)
(* a message that has arrived.                                              *)
ZeroCopyOf(e) ==
  /\ Len(posted[e]) + Len(Arrived(e)) = (IF at[e]["recv"] = "idle" THEN 0 ELSE 1)
  /\ \A i \in 1 .. Len(posted[e]) :
       posted[e][i] = [slot |-> UserIn, room |-> Size(e, "recv")]
Whole(p, a) ==
  /\ \A i \in 1 .. Len(p) : p[i].slot \in Buffers /\ p[i].room = MaxPayload
  /\ \A i, j \in 1 .. Len(p) : p[i].slot = p[j].slot => i = j
  /\ \A i, j \in 1 .. Len(a) : a[i].id = a[j].id => i = j
  /\ \A i \in 1 .. Len(p), j \in 1 .. Len(a) : p[i].slot # a[j].id
  /\ \A b \in Buffers : \/ \E i \in 1 .. Len(p) : p[i].slot = b
                        \/ \E j \in 1 .. Len(a) : a[j].id = b
PoolOf(e) == Whole(posted[e], Arrived(e))
RequestsOf(e) ==
  IF setup[e] # "connected"
  THEN posted[e] = <<>> /\ cq[e] = <<>> /\ \A op \in Ops : at[e][op] = "idle"
  ELSE IF zero_copy THEN ZeroCopyOf(e) ELSE PoolOf(e)

(* The messages on their way to e: those that have arrived, then the one on *)
(* the wire.  Together they are the bytes from those e has read to those    *)
(* the other end has sent, each cut as e's Recv expects it.                 *)
InSlot(id) == IF zero_copy THEN UserIn ELSE id
Pending(e) ==
  [i \in 1 .. (Len(Arrived(e)) + Len(wire[Other(e)])) |->
     IF i <= Len(Arrived(e)) THEN mem[e][InSlot(Arrived(e)[i].id)]
     ELSE mem[Other(e)][wire[Other(e)][1]]]
Before(m) == m[1] - 1
Upon(m) == Before(m) + Len(m)
CutAt(n) == IF zero_copy THEN n ELSE Min({n, MaxPayload})
IsMessage(e, m) ==
  /\ Len(m) > 0 /\ Before(m) \in Nat /\ m = Run(Before(m), Len(m))
  /\ \E j \in 1 .. Len(program[e]) :
       /\ Upto(e, "recv")[j - 1] <= Before(m) /\ Before(m) < Upto(e, "recv")[j]
       /\ Len(m) = CutAt(Upto(e, "recv")[j] - Before(m))
Chain(q, from, to) ==
  /\ Len(q) = 0 => from = to
  /\ Len(q) > 0 => Before(q[1]) = from /\ Upon(q[Len(q)]) = to
  /\ \A i \in 1 .. Len(q) : Upon(q[i]) <= to
  /\ \A i \in 1 .. (Len(q) - 1) : Before(q[i + 1]) = Upon(q[i])
ChainOf(e) ==
  Open(e) => /\ Chain(Pending(e), Read(e), sent[Other(e)])
             /\ \A i \in 1 .. Len(Pending(e)) : IsMessage(e, Pending(e)[i])

(* The exchange of queue pairs, and how ends leave.                         *)
SetupInv ==
  /\ setup["A"] # "asked" /\ setup["B"] # "told"
  /\ setup["A"] \in {"knows", "connected"} => setup["B"] \in {"knows", "connected"}
  /\ setup["B"] # "start" => setup["A"] # "start"
CauseOf(e) ==
  /\ state[e] = "closed" => Over(e) /\ setup[e] = "connected" /\ wire[Other(e)] = <<>>
  /\ deaths = 0 => /\ state[e] \in {"open", "closed"}
                   /\ SendDone(e) => cq[e][1].ok

EndInv(e) == /\ CallOf(e) /\ DataOf(e) /\ QueueOf(e) /\ WorkOf(e)
             /\ RequestsOf(e) /\ ChainOf(e) /\ CauseOf(e)
IInv == /\ RdmaTypeOK /\ TakesTurns /\ SetupInv
        /\ \A e \in Ends : EndInv(e)

-----------------------------------------------------------------------------
(* The slots.                                                               *)
LEMMA SlotFacts ==
  /\ UserOut \in Slots /\ UserIn \in Slots /\ UserOut # UserIn
  /\ Buffers \subseteq Slots /\ Buffers \subseteq Nat
  /\ UserOut \notin Buffers /\ UserIn \notin Buffers
  /\ 0 \in Buffers /\ 1 \in Buffers /\ OutSlot \in Slots
  /\ zero_copy => OutSlot # UserIn
BY PoolAssumption DEF UserOut, UserIn, Slots, Buffers, OutSlot

(* A buffer is only taken while all are free, so it is the first.           *)
LEMMA FirstBuffer ==
  ASSUME NEW e \in Ends, in_use[e] = {}
  PROVE  AllocateBuffer(e) = OutSlot
<1>1. CASE zero_copy
  BY <1>1 DEF AllocateBuffer, OutSlot
<1>2. CASE ~zero_copy
  <2>1. Buffers \ in_use[e] = Buffers
    OBVIOUS
  <2>2. 0 \in Buffers /\ \A y \in Buffers : 0 <= y
    BY PoolAssumption DEF Buffers
  <2>3. \A x \in Buffers : (\A y \in Buffers : x <= y) => x = 0
    BY <2>2 DEF Buffers
  <2>4. Min(Buffers) = 0
    BY <2>2, <2>3 DEF Min
  <2>5. QED
    BY <1>2, <2>1, <2>4 DEF AllocateBuffer, OutSlot
<1>3. QED
  BY <1>1, <1>2

LEMMA AppendOne ==
  ASSUME NEW S, NEW s \in Seq(S), NEW c \in S
  PROVE  /\ s \o <<c>> = Append(s, c) /\ s \o <<>> = s
         /\ Append(s, c) \in Seq(S) /\ Len(Append(s, c)) = Len(s) + 1
         /\ \A i \in 1 .. Len(s) : Append(s, c)[i] = s[i]
         /\ Append(s, c)[Len(s) + 1] = c
BY AppendIsConcat, AppendProperties, ConcatEmptySeq

(* A completion joins the queue of one end.                                 *)
LEMMA CompleteFacts ==
  ASSUME RdmaTypeOK, NEW e \in Ends, NEW c \in Completions, Complete(Only(e, c))
  PROVE  /\ cq' \in [Ends -> Seq(Completions)] /\ cq'[e] = Append(cq[e], c)
         /\ cq'[Other(e)] = cq[Other(e)]
         /\ armed' \in [Ends -> BOOLEAN] /\ events' \in [Ends -> Nat]
<1>1. /\ cq \in [Ends -> Seq(Completions)]
      /\ armed \in [Ends -> BOOLEAN] /\ events \in [Ends -> Nat]
  BY DEF RdmaTypeOK
<1>2. Other(e) \in Ends /\ Other(e) # e
  BY OtherFacts
<1>3. \A x \in Ends : cq'[x] = cq[x] \o (IF x = e THEN <<c>> ELSE <<>>)
  BY DEF Complete, Only
<1>4. \A x \in Ends : cq[x] \o <<c>> = Append(cq[x], c) /\ cq[x] \o <<>> = cq[x]
                      /\ Append(cq[x], c) \in Seq(Completions)
  BY <1>1, AppendOne
<1>5. cq' \in [Ends -> Seq(Completions)]
  <2>1. \A x \in Ends : cq'[x] \in Seq(Completions)
    BY <1>1, <1>3, <1>4
  <2>2. cq' = [x \in Ends |-> cq'[x]]
    BY DEF Complete
  <2>3. QED
    BY <2>1, <2>2
<1>6. armed' \in [Ends -> BOOLEAN] /\ events' \in [Ends -> Nat]
  BY <1>1 DEF Complete
<1>7. QED
  BY <1>2, <1>3, <1>4, <1>5, <1>6

(* What the queue of an end holds besides the completion of its own Send.   *)
LEMMA ArrivedFacts ==
  ASSUME RdmaTypeOK, NEW e \in Ends
  PROVE  /\ Arrived(e) \in Seq(Completions) /\ Len(Arrived(e)) \in Nat
         /\ Len(cq[e]) = Len(Arrived(e)) + (IF SendDone(e) THEN 1 ELSE 0)
         /\ cq[e] = <<>> => ~SendDone(e) /\ Len(Arrived(e)) = 0
<1>1. cq[e] \in Seq(Completions)
  BY DEF RdmaTypeOK
<1>2. CASE SendDone(e)
  <2>1. cq[e] # <<>> /\ Arrived(e) = Tail(cq[e])
    BY <1>2 DEF SendDone, Arrived
  <2>2. Tail(cq[e]) \in Seq(Completions) /\ Len(Tail(cq[e])) = Len(cq[e]) - 1
    BY <1>1, <2>1, HeadTailProperties
  <2>3. QED
    BY <1>1, <1>2, <2>1, <2>2
<1>3. CASE ~SendDone(e)
  BY <1>1, <1>3, EmptySeq DEF Arrived
<1>4. QED
  BY <1>2, <1>3

(* ... and how it changes as completions come and are polled.               *)
LEMMA ArrivedAppend ==
  ASSUME RdmaTypeOK, NEW e \in Ends, NEW c \in Completions, c.op = "recv",
         cq'[e] = Append(cq[e], c)
  PROVE  SendDone(e)' = SendDone(e) /\ Arrived(e)' = Append(Arrived(e), c)
         /\ (SendDone(e) => cq'[e][1] = cq[e][1])
<1>1. cq[e] \in Seq(Completions)
  BY DEF RdmaTypeOK
<1>2. cq'[e] # <<>> /\ Len(cq'[e]) = Len(cq[e]) + 1
      /\ (\A i \in 1 .. Len(cq[e]) : cq'[e][i] = cq[e][i]) /\ cq'[e][Len(cq[e]) + 1] = c
  BY <1>1, AppendProperties
<1>3. CASE cq[e] = <<>>
  <2>1. Len(cq[e]) = 0
    BY <1>3, EmptySeq
  <2>2. cq'[e][1] = c
    BY <1>2, <2>1
  <2>3. QED
    BY <1>3, <2>2 DEF SendDone, Arrived
<1>4. CASE cq[e] # <<>>
  <2>1. Len(cq[e]) \in Nat \ {0}
    BY <1>1, <1>4, EmptySeq
  <2>2. cq'[e][1] = cq[e][1]
    BY <1>2, <2>1
  <2>3. Tail(cq'[e]) = Append(Tail(cq[e]), c)
    BY <1>1, <1>4, HeadTailAppend
  <2>4. QED
    BY <1>2, <1>4, <2>2, <2>3 DEF SendDone, Arrived
<1>5. QED
  BY <1>3, <1>4

LEMMA ArrivedSend ==
  ASSUME RdmaTypeOK, NEW e \in Ends, NEW c \in Completions, c.op = "send",
         cq[e] = <<>>, cq'[e] = Append(cq[e], c)
  PROVE  SendDone(e)' /\ Len(Arrived(e)') = 0 /\ Arrived(e)' = Arrived(e) /\ cq'[e][1] = c
<1>1. cq[e] \in Seq(Completions) /\ Len(cq[e]) = 0
  BY EmptySeq DEF RdmaTypeOK
<1>2. cq'[e] # <<>> /\ cq'[e][1] = c
  BY <1>1, AppendProperties
<1>3. Tail(cq'[e]) = <<>>
  BY <1>1, HeadTailAppend
<1>4. QED
  BY <1>1, <1>2, <1>3 DEF SendDone, Arrived

LEMMA ArrivedPolled ==
  ASSUME RdmaTypeOK, NEW e \in Ends, QueueOf(e), cq[e] # <<>>, cq'[e] = Tail(cq[e])
  PROVE  /\ ~SendDone(e)'
         /\ SendDone(e) => Arrived(e)' = Arrived(e) /\ Head(cq[e]) = cq[e][1]
         /\ ~SendDone(e) => /\ Arrived(e)' = Tail(Arrived(e)) /\ Arrived(e) = cq[e]
                            /\ Head(cq[e]) = Arrived(e)[1] /\ Len(Arrived(e)) \in Nat \ {0}
<1>1. cq[e] \in Seq(Completions) /\ Head(cq[e]) = cq[e][1] /\ Len(cq[e]) \in Nat \ {0}
  BY EmptySeq DEF RdmaTypeOK
<1>2. Tail(cq[e]) \in Seq(Completions) /\ Len(Tail(cq[e])) = Len(cq[e]) - 1
      /\ \A i \in 1 .. Len(Tail(cq[e])) : Tail(cq[e])[i] = cq[e][i + 1]
  BY <1>1, HeadTailProperties
<1>3. CASE SendDone(e)
  <2>1. Arrived(e) = Tail(cq[e])
    BY <1>3 DEF Arrived
  <2>2. Tail(cq[e]) # <<>> => Tail(cq[e])[1].op = "recv"
    <3>1. SUFFICES ASSUME Tail(cq[e]) # <<>> PROVE Tail(cq[e])[1].op = "recv"
      OBVIOUS
    <3>2. 1 \in 1 .. Len(Arrived(e))
      BY <1>2, <2>1, <3>1, EmptySeq
    <3>3. QED
      BY <2>1, <3>2 DEF QueueOf
  <2>3. ~SendDone(e)'
    BY <2>2 DEF SendDone
  <2>4. QED
    BY <1>1, <1>3, <2>1, <2>3 DEF Arrived
<1>4. CASE ~SendDone(e)
  <2>1. Arrived(e) = cq[e]
    BY <1>4 DEF Arrived
  <2>2. Tail(cq[e]) # <<>> => Tail(cq[e])[1].op = "recv"
    <3>1. SUFFICES ASSUME Tail(cq[e]) # <<>> PROVE Tail(cq[e])[1].op = "recv"
      OBVIOUS
    <3>2. 1 \in 1 .. Len(Tail(cq[e])) /\ 2 \in 1 .. Len(cq[e])
      BY <1>1, <1>2, <3>1, EmptySeq
    <3>3. QED
      BY <1>2, <2>1, <3>2 DEF QueueOf
  <2>3. ~SendDone(e)'
    BY <2>2 DEF SendDone
  <2>4. QED
    BY <1>1, <1>4, <2>1, <2>3 DEF Arrived
<1>5. QED
  BY <1>3, <1>4

(* The messages under way.                                                  *)
LEMMA PendingFacts ==
  ASSUME RdmaTypeOK, NEW e \in Ends, QueueOf(e)
  PROVE  /\ Pending(e) \in Seq(Seq(Nat))
         /\ Len(Pending(e)) = Len(Arrived(e)) + Len(wire[Other(e)])
         /\ \A i \in 1 .. Len(Arrived(e)) :
              Pending(e)[i] = mem[e][InSlot(Arrived(e)[i].id)]
         /\ \A i \in (Len(Arrived(e)) + 1) .. (Len(Arrived(e)) + Len(wire[Other(e)])) :
              Pending(e)[i] = mem[Other(e)][wire[Other(e)][1]]
<1> DEFINE n == Len(Arrived(e))
           w == Len(wire[Other(e)])
<1>1. n \in Nat /\ w \in Nat /\ Other(e) \in Ends
  <2>1. Other(e) \in Ends
    BY OtherFacts
  <2>2. wire[Other(e)] \in Seq(Slots)
    BY <2>1 DEF RdmaTypeOK
  <2>3. QED
    BY <2>1, <2>2, ArrivedFacts
<1>2. \A i \in 1 .. n : mem[e][InSlot(Arrived(e)[i].id)] \in Seq(Nat)
  <2>1. \A i \in 1 .. n : InSlot(Arrived(e)[i].id) \in Slots
    BY SlotFacts DEF QueueOf, InSlot
  <2>2. QED
    BY <2>1 DEF RdmaTypeOK
<1>3. w > 0 => mem[Other(e)][wire[Other(e)][1]] \in Seq(Nat)
  BY <1>1, ElementOfSeq, SMTT(30) DEF RdmaTypeOK
<1>4. Pending(e) = [i \in 1 .. (n + w) |->
                     IF i <= n THEN mem[e][InSlot(Arrived(e)[i].id)]
                     ELSE mem[Other(e)][wire[Other(e)][1]]]
  BY DEF Pending
<1> HIDE DEF n, w
<1>5. \A i \in 1 .. (n + w) : Pending(e)[i] \in Seq(Nat)
  BY <1>1, <1>2, <1>3, <1>4
<1>6. n + w \in Nat
  BY <1>1
<1>7. Pending(e) \in Seq(Seq(Nat)) /\ Len(Pending(e)) = n + w
  BY <1>4, <1>5, <1>6
<1>8. QED
  BY <1>1, <1>4, <1>7 DEF n, w

(* ... before and after a step.                                             *)
PendingIs(e) ==
  RdmaTypeOK /\ QueueOf(e) =>
    /\ Pending(e) \in Seq(Seq(Nat))
    /\ Len(Pending(e)) = Len(Arrived(e)) + Len(wire[Other(e)])
    /\ \A i \in 1 .. Len(Arrived(e)) : Pending(e)[i] = mem[e][InSlot(Arrived(e)[i].id)]
    /\ \A i \in (Len(Arrived(e)) + 1) .. (Len(Arrived(e)) + Len(wire[Other(e)])) :
         Pending(e)[i] = mem[Other(e)][wire[Other(e)][1]]

LEMMA PendingAlways == \A e \in Ends : PendingIs(e)
BY PendingFacts DEF PendingIs

LEMMA PendingNext == (\A e \in Ends : PendingIs(e))'
BY PendingAlways, PTL

LEMMA RunBounds ==
  ASSUME NEW k \in Nat, NEW n \in Nat, n > 0
  PROVE  Before(Run(k, n)) = k /\ Upon(Run(k, n)) = k + n
<1>1. Len(Run(k, n)) = n /\ Run(k, n)[1] = k + 1
  BY RunFacts
<1>2. QED
  BY <1>1 DEF Before, Upon

(* A chain of messages is empty when nothing is on its way.                 *)
LEMMA ChainEmpty ==
  ASSUME NEW q \in Seq(Seq(Nat)), NEW n \in Nat, Chain(q, n, n),
         \A i \in 1 .. Len(q) : Len(q[i]) > 0
  PROVE  Len(q) = 0
<1>1. SUFFICES ASSUME Len(q) > 0 PROVE FALSE
  OBVIOUS
<1>2. 1 \in 1 .. Len(q) /\ Len(q[1]) \in Nat
  BY <1>1, ElementOfSeq
<1>3. Before(q[1]) = n /\ Upon(q[1]) <= n /\ Upon(q[1]) = Before(q[1]) + Len(q[1])
  BY <1>1, <1>2 DEF Chain, Upon
<1>4. QED
  BY <1>2, <1>3

LEMMA ChainAppend ==
  ASSUME NEW q \in Seq(Seq(Nat)), NEW from \in Nat, NEW to \in Nat, Chain(q, from, to),
         NEW m \in Seq(Nat), Before(m) = to,
         NEW p \in Seq(Seq(Nat)), Len(p) = Len(q) + 1, p[Len(q) + 1] = m,
         \A i \in 1 .. Len(q) : p[i] = q[i] /\ Len(q[i]) > 0
  PROVE  Chain(p, from, to + Len(m))
<1> DEFINE k == Len(q)
           n == Len(m)
<1>1. k \in Nat /\ n \in Nat /\ Upon(m) = to + n
  BY DEF Upon
<1>2. /\ k = 0 => from = to
      /\ k > 0 => Before(q[1]) = from /\ Upon(q[k]) = to
      /\ \A i \in 1 .. k : Upon(q[i]) <= to
      /\ \A i \in 1 .. (k - 1) : Before(q[i + 1]) = Upon(q[i])
  BY DEF Chain
<1>3. \A i \in 1 .. k : Upon(q[i]) \in Int
  <2>1. SUFFICES ASSUME NEW i \in 1 .. k PROVE Upon(q[i]) \in Int
    OBVIOUS
  <2>2. q[i] \in Seq(Nat) /\ Len(q[i]) \in Nat /\ Len(q[i]) > 0
    BY ElementOfSeq
  <2>3. q[i][1] \in Nat
    BY <2>2, ElementOfSeq, SMTT(30)
  <2>4. q[i][1] - 1 + Len(q[i]) \in Int
    BY ONLY <2>2, <2>3
  <2>5. QED
    BY <2>4 DEF Upon, Before
<1> HIDE DEF k, n
<1>4. Len(p) = k + 1 /\ p[k + 1] = m /\ \A i \in 1 .. k : p[i] = q[i]
  BY DEF k
<1>5. Before(p[1]) = from /\ Upon(p[k + 1]) = to + n
  <2>1. CASE k = 0
    BY <1>1, <1>2, <1>4, <2>1
  <2>2. CASE k # 0
    <3>1. k > 0 /\ 1 \in 1 .. k
      BY <1>1, <2>2
    <3>2. QED
      BY <1>1, <1>2, <1>4, <3>1
  <2>3. QED
    BY <2>1, <2>2
<1>6. \A i \in 1 .. (k + 1) : Upon(p[i]) <= to + n
  <2> TAKE i \in 1 .. (k + 1)
  <2>1. i = k + 1 \/ i \in 1 .. k
    BY ONLY <1>1, i \in 1 .. (k + 1)
  <2>2. to + n \in Nat /\ to <= to + n
    BY ONLY <1>1, to \in Nat
  <2>3. QED
    BY <1>2, <1>3, <1>4, <1>5, <2>1, <2>2
<1>7. \A i \in 1 .. k : Before(p[i + 1]) = Upon(p[i])
  <2> TAKE i \in 1 .. k
  <2>1. CASE i = k
    BY <1>1, <1>2, <1>4, <2>1
  <2>2. CASE i # k
    <3>1. i \in 1 .. (k - 1) /\ i + 1 \in 1 .. k
      BY <1>1, <2>2
    <3>2. QED
      BY <1>2, <1>4, <3>1
  <2>3. QED
    BY <2>1, <2>2
<1>8. Len(p) > 0 /\ Len(p) # 0 /\ Len(p) - 1 = k
  BY <1>1, <1>4
<1>9. Chain(p, from, to + n)
  BY <1>4, <1>5, <1>6, <1>7, <1>8 DEF Chain
<1>10. QED
  BY <1>9 DEF n

LEMMA ChainTail ==
  ASSUME NEW q \in Seq(Seq(Nat)), NEW from \in Nat, NEW to \in Nat, Chain(q, from, to),
         Len(q) > 0,
         NEW p \in Seq(Seq(Nat)), Len(p) = Len(q) - 1,
         \A i \in 1 .. Len(p) : p[i] = q[i + 1]
  PROVE  Before(q[1]) = from /\ Upon(q[1]) <= to /\ Chain(p, Upon(q[1]), to)
<1> DEFINE k == Len(q)
<1>1. k \in Nat /\ k > 0
  OBVIOUS
<1>2. /\ Before(q[1]) = from /\ Upon(q[k]) = to
      /\ \A i \in 1 .. k : Upon(q[i]) <= to
      /\ \A i \in 1 .. (k - 1) : Before(q[i + 1]) = Upon(q[i])
  BY <1>1 DEF Chain
<1> HIDE DEF k
<1>3. Len(p) = k - 1 /\ \A i \in 1 .. (k - 1) : p[i] = q[i + 1]
  BY DEF k
<1>4. k - 1 = 0 => Upon(q[1]) = to
  BY <1>1, <1>2
<1>5. k - 1 > 0 => Before(p[1]) = Upon(q[1]) /\ Upon(p[k - 1]) = to
  <2>1. SUFFICES ASSUME k - 1 > 0 PROVE Before(p[1]) = Upon(q[1]) /\ Upon(p[k - 1]) = to
    OBVIOUS
  <2>2. 1 \in 1 .. (k - 1) /\ k - 1 \in 1 .. (k - 1) /\ 1 + 1 = 2 /\ k - 1 + 1 = k
    BY ONLY <1>1, <2>1
  <2>3. p[1] = q[1 + 1] /\ p[k - 1] = q[k - 1 + 1]
    BY <1>3, <2>2
  <2>4. QED
    BY <1>2, <2>2, <2>3
<1>6. \A i \in 1 .. (k - 1) : Upon(p[i]) <= to
  <2> TAKE i \in 1 .. (k - 1)
  <2>1. i + 1 \in 1 .. k
    BY <1>1
  <2>2. QED
    BY <1>2, <1>3, <2>1
<1>7. \A i \in 1 .. (k - 1 - 1) : Before(p[i + 1]) = Upon(p[i])
  <2> TAKE i \in 1 .. (k - 1 - 1)
  <2>1. i \in Nat /\ 1 <= i /\ i <= k - 1 - 1
    BY <1>1
  <2>2. i \in 1 .. (k - 1) /\ i + 1 \in 1 .. (k - 1)
    BY <1>1, <2>1
  <2>3. QED
    BY <1>2, <1>3, <2>2
<1>8. 1 \in 1 .. k
  BY <1>1
<1>9. QED
  BY <1>2, <1>3, <1>4, <1>5, <1>6, <1>7, <1>8 DEF Chain

-----------------------------------------------------------------------------
(* Taking turns: what one end sends in its steps the other receives, and an *)
(* end does one of the two.                                                 *)
LEMMA Facing ==
  ASSUME program \in Programs, TakesTurns, NEW e \in Ends
  PROVE  /\ Len(program[Other(e)]) = Len(program[e])
         /\ Upto(e, "send") = Upto(Other(e), "recv")
         /\ Upto(e, "recv") = Upto(Other(e), "send")
<1>1. \A x \in Ends : Len(program[Other(x)]) = Len(program[x])
  BY OtherFacts DEF TakesTurns, InTurns, Ends
<1>2. ASSUME NEW x \in Ends PROVE Upto(x, "send") = Upto(Other(x), "recv")
  <2> DEFINE y == Other(x)
             L == Len(program[x])
             s == Upto(x, "send")
             r == Upto(y, "recv")
             S == {n \in Nat : n <= L => s[n] = r[n]}
  <2>1. y \in Ends /\ "send" \in Ops /\ "recv" \in Ops /\ Len(program[y]) = L /\ L \in Nat
    BY <1>1, OtherFacts, ProgramFacts DEF Ops
  <2>2. /\ s \in [0 .. L -> Nat] /\ s[0] = 0
        /\ \A i \in 1 .. L : s[i] = s[i - 1] + program[x][i]["send"]
    BY <2>1, UptoFacts
  <2>3. /\ r \in [0 .. L -> Nat] /\ r[0] = 0
        /\ \A i \in 1 .. L : r[i] = r[i - 1] + program[y][i]["recv"]
    BY <2>1, UptoFacts
  <2>4. \A i \in 1 .. L : program[x][i]["send"] = program[y][i]["recv"]
    BY DEF TakesTurns, InTurns
  <2> HIDE DEF y, L, s, r
  <2>5. 0 \in S
    BY <2>2, <2>3
  <2>6. ASSUME NEW n \in Nat, n \in S PROVE n + 1 \in S
    <3>1. SUFFICES ASSUME n + 1 <= L PROVE s[n + 1] = r[n + 1]
      OBVIOUS
    <3>2. n + 1 \in 1 .. L /\ n + 1 - 1 = n /\ n <= L
      BY <2>1, <3>1
    <3>3. s[n] = r[n]
      BY <2>6, <3>2
    <3>4. QED
      BY <2>2, <2>3, <2>4, <3>2, <3>3
  <2>7. Nat \subseteq S
    <3> HIDE DEF S
    <3>1. QED
      BY <2>5, <2>6, NatSteps
  <2>8. \A i \in 0 .. L : s[i] = r[i]
    BY <2>1, <2>7
  <2>9. s = r
    <3>1. s = [i \in 0 .. L |-> s[i]] /\ r = [i \in 0 .. L |-> r[i]]
      BY <2>2, <2>3
    <3>2. QED
      BY <2>8, <3>1
  <2>10. QED
    BY <2>9 DEF s, r, y
<1>3. QED
  BY <1>1, <1>2, OtherFacts

LEMMA TurnsMatch ==
  ASSUME program \in Programs, TakesTurns
  PROVE  Matched
BY Facing DEF Matched

LEMMA OneCall ==
  ASSUME CallsTypeOK, TakesTurns, NEW e \in Ends
  PROVE  /\ Size(e, "send") = 0 \/ Size(e, "recv") = 0
         /\ pc[Other(e)] = pc[e] => /\ Size(e, "send") = Size(Other(e), "recv")
                                    /\ Size(e, "recv") = Size(Other(e), "send")
<1>1. \A x \in Ends : Size(x, "send") = 0 \/ Size(x, "recv") = 0
  <2> TAKE x \in Ends
  <2>1. ~Over(x) => pc[x] + 1 \in 1 .. Len(program[x])
    BY SizeFacts DEF Ops
  <2>2. QED
    BY <2>1 DEF Size, TakesTurns, InTurns
<1>2. \A x \in Ends : pc[Other(x)] = pc[x] => Size(x, "send") = Size(Other(x), "recv")
  <2> TAKE x \in Ends
  <2>1. ~Over(x) => pc[x] + 1 \in 1 .. Len(program[x])
    BY SizeFacts DEF Ops
  <2>2. Len(program[Other(x)]) = Len(program[x])
    BY Facing DEF CallsTypeOK
  <2>3. QED
    BY <2>1, <2>2 DEF Size, Over, TakesTurns, InTurns
<1>3. QED
  BY <1>1, <1>2, OtherFacts

(* Where an end is in its streams.                                          *)
LEMMA Position ==
  ASSUME CallsTypeOK, NEW e \in Ends, CallOf(e)
  PROVE  /\ sent[e] = Upto(e, "send")[pc[e]] + handed[e]
         /\ Read(e) = Upto(e, "recv")[pc[e]] + Len(taking[e])
         /\ handed[e] <= Size(e, "send") /\ Len(taking[e]) <= Size(e, "recv")
         /\ handed[e] \in Nat /\ Len(taking[e]) \in Nat /\ Len(got[e]) \in Nat
         /\ sent[e] \in Nat /\ Read(e) \in Nat
         /\ \A op \in Ops : /\ Upto(e, op)[pc[e]] \in Nat /\ Size(e, op) \in Nat
                            /\ ~Over(e) => Upto(e, op)[pc[e] + 1] =
                                             Upto(e, op)[pc[e]] + Size(e, op)
<1>1. "send" \in Ops /\ "recv" \in Ops
  BY DEF Ops
<1>2. \A op \in Ops : /\ Upto(e, op)[pc[e]] \in Nat /\ Size(e, op) \in Nat
                      /\ ~Over(e) => Upto(e, op)[pc[e] + 1] =
                                       Upto(e, op)[pc[e]] + Size(e, op)
  BY PartFacts, SizeFacts
<1>3. /\ sent[e] = Upto(e, "send")[pc[e]] + handed[e]
      /\ Read(e) = Upto(e, "recv")[pc[e]] + Len(taking[e])
  BY DEF CallOf, TotalsOf, Done, Part, Read
<1>4. handed[e] <= Size(e, "send") /\ Len(taking[e]) <= Size(e, "recv")
  BY <1>1 DEF CallOf, PartsOf, Part
<1>5. handed[e] \in Nat /\ Len(taking[e]) \in Nat /\ Len(got[e]) \in Nat /\ sent[e] \in Nat
  BY DEF CallsTypeOK
<1>6. Read(e) \in Nat
  <2> DEFINE g == Len(got[e])
             t == Len(taking[e])
  <2>1. g \in Nat /\ t \in Nat /\ Read(e) = g + t
    BY <1>5 DEF Read
  <2> HIDE DEF g, t
  <2>2. QED
    BY <2>1
<1>7. QED
  BY <1>2, <1>3, <1>4, <1>5, <1>6

(* An end that begins to send, or is through, has read all that was sent to *)
(* it: nothing is on its way.                                               *)
LEMMA Quiet ==
  ASSUME RdmaTypeOK, TakesTurns, NEW e \in Ends, NEW f \in Ends, f = Other(e),
         CallOf(e), CallOf(f), DataOf(e), DataOf(f), QueueOf(e), ChainOf(e), Open(e),
         Over(e) \/ (Size(e, "send") > 0 /\ handed[e] < Size(e, "send"))
  PROVE  Read(e) = sent[f] /\ Len(Pending(e)) = 0
<1>1. CallsTypeOK /\ program \in Programs /\ Other(f) = e
      /\ "send" \in Ops /\ "recv" \in Ops
  BY OtherFacts DEF RdmaTypeOK, CallsTypeOK, Ops
<1> DEFINE L == Len(program[e])
           s == Upto(e, "send")
           r == Upto(e, "recv")
           i == pc[e]
           j == pc[f]
<1>2. /\ L \in Nat /\ Len(program[f]) = L
      /\ s = Upto(f, "recv") /\ r = Upto(f, "send")
  BY <1>1, Facing, ProgramFacts
<1>3. /\ i \in 0 .. L /\ j \in 0 .. L
      /\ s \in [0 .. L -> Nat] /\ r \in [0 .. L -> Nat]
      /\ \A m, n \in 0 .. L : m <= n => s[m] <= s[n] /\ r[m] <= r[n]
  <2>1. i \in 0 .. L /\ j \in 0 .. L
    BY <1>1, <1>2 DEF CallsTypeOK
  <2>2. s \in [0 .. L -> Nat] /\ r \in [0 .. L -> Nat]
    BY <1>1, UptoFacts
  <2>3. \A m, n \in 0 .. L : m <= n => s[m] <= s[n] /\ r[m] <= r[n]
    BY <1>1, UptoGrows
  <2>4. QED
    BY <2>1, <2>2, <2>3
<1>4. /\ sent[e] = s[i] + handed[e] /\ Read(e) = r[i] + Len(taking[e])
      /\ sent[f] = r[j] + handed[f] /\ Read(f) = s[j] + Len(taking[f])
  BY <1>1, <1>2, Position
<1>5. /\ handed[e] \in Nat /\ Len(taking[e]) \in Nat /\ sent[e] \in Nat /\ Read(e) \in Nat
      /\ handed[f] \in Nat /\ Len(taking[f]) \in Nat /\ sent[f] \in Nat /\ Read(f) \in Nat
      /\ handed[e] <= Size(e, "send") /\ Len(taking[e]) <= Size(e, "recv")
      /\ handed[f] <= Size(f, "send") /\ Len(taking[f]) <= Size(f, "recv")
      /\ \A op \in Ops : Size(e, op) \in Nat /\ Size(f, op) \in Nat
  BY <1>1, Position
<1>6. Read(e) <= sent[f] /\ Read(f) <= sent[e]
  BY <1>1 DEF DataOf
<1>7. /\ ~Over(e) => s[i + 1] = s[i] + Size(e, "send")
      /\ ~Over(f) => r[j + 1] = r[j] + Size(f, "send")
      /\ Over(e) <=> i = L
      /\ Over(f) <=> j = L
      /\ Over(e) => Size(e, "send") = 0 /\ Size(e, "recv") = 0
      /\ Over(f) => Size(f, "send") = 0 /\ Size(f, "recv") = 0
  <2>1. /\ ~Over(e) => s[i + 1] = s[i] + Size(e, "send")
        /\ ~Over(f) => r[j + 1] = r[j] + Size(f, "send")
    BY <1>1, <1>2, Position
  <2>2. (Over(e) <=> i = L) /\ (Over(f) <=> j = L)
    BY <1>2 DEF Over
  <2>3. /\ Over(e) => Size(e, "send") = 0 /\ Size(e, "recv") = 0
        /\ Over(f) => Size(f, "send") = 0 /\ Size(f, "recv") = 0
    BY DEF Size
  <2>4. QED
    BY <2>1, <2>2, <2>3
<1>8. /\ Size(e, "send") = 0 \/ Size(e, "recv") = 0
      /\ j = i => Size(e, "recv") = Size(f, "send")
  BY <1>1, OneCall
<1> HIDE DEF L, s, r, i, j
<1>9. Read(e) = sent[f]
  <2>1. CASE Over(e)
    <3>1. Read(e) = r[L]
      BY <1>1, <1>3, <1>4, <1>5, <1>7, <2>1, SMTT(30)
    <3>2. sent[f] <= r[L]
      <4>1. CASE Over(f)
        BY <1>1, <1>3, <1>4, <1>5, <1>7, <4>1, SMTT(30)
      <4>2. CASE ~Over(f)
        <5>1. j + 1 \in 0 .. L /\ L \in 0 .. L
          BY <1>2, <1>3, <1>7, <4>2
        <5>2. r[j + 1] <= r[L] /\ r[j + 1] = r[j] + Size(f, "send")
          BY <1>3, <1>7, <4>2, <5>1
        <5>3. r[j] \in Nat /\ r[L] \in Nat /\ Size(f, "send") \in Nat
          BY <1>1, <1>3, <1>5, <5>1
        <5>4. QED
          BY <1>4, <1>5, <5>2, <5>3
      <4>3. QED
        BY <4>1, <4>2
    <3>3. r[L] \in Nat
      BY <1>2, <1>3
    <3>4. QED
      BY <1>5, <1>6, <3>1, <3>2, <3>3
  <2>2. CASE Size(e, "send") > 0 /\ handed[e] < Size(e, "send")
    <3>1. ~Over(e) /\ Size(e, "recv") = 0 /\ Len(taking[e]) = 0 /\ i + 1 \in 0 .. L
      <4>1. Size(e, "send") # 0
        BY <2>2
      <4>2. ~Over(e) /\ Size(e, "recv") = 0
        BY <1>7, <1>8, <4>1
      <4>3. Len(taking[e]) = 0
        BY ONLY <1>5, <4>2
      <4>4. i # L
        BY <1>7, <4>2
      <4>5. i + 1 \in 0 .. L
        BY ONLY <1>2, <1>3, <4>4
      <4>6. QED
        BY <4>2, <4>3, <4>5
    <3>2. s[i + 1] = s[i] + Size(e, "send") /\ s[i] \in Nat /\ s[j] \in Nat
          /\ r[i] \in Nat /\ r[j] \in Nat
      BY <1>3, <1>7, <3>1
    <3>3. s[j] < s[i + 1]
      <4>1. Size(e, "send") \in Nat
        BY <1>1, <1>5
      <4>2. QED
        BY ONLY <1>4, <1>5, <1>6, <2>2, <3>2, <4>1, SMTT(30)
    <3>4. j <= i
      <4>1. SUFFICES ASSUME ~(j <= i) PROVE FALSE
        OBVIOUS
      <4>2. i + 1 <= j
        BY <1>3, <4>1
      <4>3. s[i + 1] <= s[j]
        BY <1>3, <3>1, <4>2
      <4>4. QED
        BY <3>2, <3>3, <4>3, <1>1, <1>5, SMTT(30)
    <3>5. Read(e) = r[i]
      BY <1>4, <3>1, <3>2
    <3>6. sent[f] <= r[i]
      <4>1. CASE j = i
        BY <1>1, <1>4, <1>5, <1>8, <3>1, <3>2, <4>1, SMTT(30)
      <4>2. CASE j # i
        <5>1. j + 1 \in 0 .. L /\ j + 1 <= i /\ j # L
          BY <1>2, <1>3, <3>4, <4>2
        <5>2. r[j + 1] = r[j] + Size(f, "send") /\ r[j + 1] <= r[i]
          BY <1>3, <1>7, <5>1
        <5>3. QED
          BY <1>1, <1>4, <1>5, <3>2, <5>2, SMTT(30)
      <4>3. QED
        BY <4>1, <4>2
    <3>7. QED
      BY <1>5, <1>6, <3>2, <3>5, <3>6
  <2>3. QED
    BY <2>1, <2>2
<1>10. Len(Pending(e)) = 0
  <2>1. Chain(Pending(e), sent[f], sent[f])
    BY <1>9 DEF ChainOf
  <2>2. \A k \in 1 .. Len(Pending(e)) : Len(Pending(e)[k]) > 0
    BY DEF ChainOf, IsMessage
  <2>3. Pending(e) \in Seq(Seq(Nat)) /\ sent[f] \in Nat
    BY <1>5, PendingFacts
  <2>4. QED
    BY <2>1, <2>2, <2>3, ChainEmpty
<1>11. QED
  BY <1>9, <1>10

(* A Recv that is not done finds the bytes up to its own end, or as many as *)
(* one buffer holds.                                                        *)
LEMMA FitsRecv ==
  ASSUME CallsTypeOK, NEW e \in Ends, CallOf(e), Size(e, "recv") > 0,
         NEW m \in Seq(Nat), IsMessage(e, m), Before(m) = Read(e)
  PROVE  /\ m = Run(Read(e), Chunk(e, "recv")) /\ Len(m) = Chunk(e, "recv")
         /\ Len(m) <= Left(e, "recv") /\ (~zero_copy => Len(m) <= MaxPayload)
         /\ zero_copy => Len(m) = Left(e, "recv")
<1> DEFINE L == Len(program[e])
           r == Upto(e, "recv")
           i == pc[e]
<1>1. program \in Programs /\ "recv" \in Ops /\ i \in 0 .. L /\ L \in Nat
  BY ProgramFacts DEF CallsTypeOK, Ops
<1>2. /\ r \in [0 .. L -> Nat]
      /\ \A j, k \in 0 .. L : j <= k => r[j] <= r[k]
  BY <1>1, UptoFacts, UptoGrows
<1>3. ~Over(e) /\ i + 1 \in 1 .. L
  BY <1>1, SizeFacts
<1>4. /\ r[i + 1] = r[i] + Size(e, "recv") /\ Read(e) = r[i] + Len(taking[e])
      /\ Len(taking[e]) \in Nat /\ Size(e, "recv") \in Nat /\ r[i] \in Nat
  BY <1>1, <1>3, Position
<1>5. Len(taking[e]) < Size(e, "recv") /\ Left(e, "recv") = Size(e, "recv") - Len(taking[e])
  BY DEF CallOf, Left
<1>6. PICK j \in 1 .. L : r[j - 1] <= Read(e) /\ Read(e) < r[j]
                          /\ Len(m) = CutAt(r[j] - Read(e))
  BY DEF IsMessage
<1> HIDE DEF L, r, i
<1>7. j = i + 1
  <2>1. j - 1 \in 0 .. L /\ j \in 0 .. L /\ i + 1 \in 0 .. L
    BY <1>1, <1>3
  <2>2. r[j - 1] \in Nat /\ r[j] \in Nat /\ r[i + 1] \in Nat
    BY <1>2, <2>1
  <2>3. Read(e) < r[i + 1] /\ r[i] <= Read(e) /\ Read(e) \in Nat
    BY <1>4, <1>5
  <2>4. ~(j <= i)
    <3>1. SUFFICES ASSUME j <= i PROVE FALSE
      OBVIOUS
    <3>2. r[j] <= r[i]
      BY <1>1, <1>2, <2>1, <3>1
    <3>3. QED
      BY <1>4, <1>6, <2>2, <2>3, <3>2
  <2>5. ~(i + 1 <= j - 1)
    <3>1. SUFFICES ASSUME i + 1 <= j - 1 PROVE FALSE
      OBVIOUS
    <3>2. r[i + 1] <= r[j - 1]
      BY <1>1, <1>2, <2>1, <3>1
    <3>3. QED
      BY <1>6, <2>2, <2>3, <3>2
  <2>6. QED
    BY <1>1, <2>4, <2>5
<1>8. r[j] - Read(e) = Left(e, "recv") /\ Left(e, "recv") \in Nat
  BY <1>4, <1>5, <1>7
<1>9. Len(m) = Chunk(e, "recv")
  BY <1>6, <1>8 DEF CutAt, Chunk
<1>10. m = Run(Read(e), Chunk(e, "recv"))
  BY <1>9 DEF IsMessage
<1>11. /\ Len(m) <= Left(e, "recv") /\ (~zero_copy => Len(m) <= MaxPayload)
       /\ zero_copy => Len(m) = Left(e, "recv")
  <2>1. Min({Left(e, "recv"), MaxPayload}) <= Left(e, "recv")
        /\ Min({Left(e, "recv"), MaxPayload}) <= MaxPayload
    <3>1. Left(e, "recv") \in Int /\ MaxPayload \in Int
      BY <1>8, PoolAssumption
    <3>2. QED
      BY <3>1, MinFacts
  <2>2. QED
    BY <1>8, <1>9, <2>1 DEF Chunk
<1>12. QED
  BY <1>9, <1>10, <1>11

(* What a Send posts next is cut as the Recv at the other end expects it.   *)
LEMMA NextMessage ==
  ASSUME CallsTypeOK, TakesTurns, NEW e \in Ends, CallOf(e),
         Size(e, "send") > 0, handed[e] < Size(e, "send")
  PROVE  /\ Chunk(e, "send") \in Nat /\ Chunk(e, "send") > 0
         /\ handed[e] + Chunk(e, "send") <= Size(e, "send")
         /\ Bytes(e, Chunk(e, "send")) = Run(sent[e], Chunk(e, "send"))
         /\ IsMessage(Other(e), Bytes(e, Chunk(e, "send")))
         /\ Before(Bytes(e, Chunk(e, "send"))) = sent[e]
         /\ Len(Bytes(e, Chunk(e, "send"))) = Chunk(e, "send")
<1> DEFINE n == Chunk(e, "send")
           m == Bytes(e, n)
           f == Other(e)
           L == Len(program[f])
           s == Upto(f, "recv")
           i == pc[e]
<1>1. program \in Programs /\ "send" \in Ops /\ f \in Ends
  BY OtherFacts DEF CallsTypeOK, Ops
<1>2. s = Upto(e, "send") /\ L = Len(program[e]) /\ L \in Nat
  BY <1>1, Facing, ProgramFacts
<1>3. ~Over(e) /\ i + 1 \in 1 .. L /\ i \in Nat
  <2>1. ~Over(e) /\ i + 1 \in 1 .. Len(program[e])
    BY <1>1, SizeFacts
  <2>2. i \in Nat
    BY DEF CallsTypeOK
  <2>3. QED
    BY <1>2, <2>1, <2>2
<1>4. /\ s[i + 1] = s[i] + Size(e, "send") /\ sent[e] = s[i] + handed[e]
      /\ handed[e] \in Nat /\ Size(e, "send") \in Nat /\ s[i] \in Nat /\ sent[e] \in Nat
  BY <1>1, <1>2, <1>3, Position
<1>5. Left(e, "send") = Size(e, "send") - handed[e]
  BY DEF Left
<1> HIDE DEF L, s, i
<1>6. /\ Left(e, "send") \in Nat /\ Left(e, "send") > 0 /\ Left(e, "send") = s[i + 1] - sent[e]
      /\ s[i] <= sent[e] /\ sent[e] < s[i + 1]
  BY <1>4, <1>5
<1>7. n \in Nat /\ n > 0 /\ n <= Left(e, "send") /\ n = CutAt(s[i + 1] - sent[e])
  <2>1. Left(e, "send") \in Int /\ MaxPayload \in Int /\ MaxPayload > 0
    BY <1>6, PoolAssumption
  <2>2. /\ Min({Left(e, "send"), MaxPayload}) \in {Left(e, "send"), MaxPayload}
        /\ Min({Left(e, "send"), MaxPayload}) <= Left(e, "send")
    BY <2>1, MinFacts
  <2>3. MaxPayload \in Nat
    BY PoolAssumption
  <2>4. n = CutAt(s[i + 1] - sent[e])
    BY <1>6 DEF Chunk, CutAt
  <2>5. n \in {Left(e, "send"), MaxPayload} /\ n <= Left(e, "send")
    BY <1>6, <2>2 DEF Chunk
  <2>6. QED
    BY <1>6, <2>1, <2>3, <2>4, <2>5
<1> HIDE DEF n
<1>8. m = Run(sent[e], n)
  BY DEF Bytes, Run
<1>9. Before(m) = sent[e] /\ Len(m) = n
  <2>1. Before(Run(sent[e], n)) = sent[e]
    BY <1>4, <1>7, RunBounds
  <2>2. Len(Run(sent[e], n)) = n
    BY <1>4, <1>7, RunFacts
  <2>3. QED
    BY <1>8, <2>1, <2>2
<1>10. IsMessage(f, m)
  <2> DEFINE k == i + 1
  <2>1. k \in 1 .. L /\ s[k - 1] <= Before(m) /\ Before(m) < s[k]
        /\ Len(m) = CutAt(s[k] - Before(m))
    BY <1>3, <1>6, <1>7, <1>9
  <2> HIDE DEF k
  <2>2. \E j \in 1 .. L : s[j - 1] <= Before(m) /\ Before(m) < s[j]
                          /\ Len(m) = CutAt(s[j] - Before(m))
    BY <2>1
  <2>3. m = Run(Before(m), Len(m)) /\ Before(m) \in Nat /\ Len(m) > 0
    BY <1>4, <1>7, <1>8, <1>9
  <2>4. QED
    BY <2>2, <2>3 DEF IsMessage, L, s
<1>11. handed[e] + n <= Size(e, "send")
  BY <1>4, <1>5, <1>7
<1>12. QED
  BY <1>7, <1>8, <1>9, <1>10, <1>11 DEF n

-----------------------------------------------------------------------------
(* What each part of the invariant depends on.                              *)
LEMMA SameCallOf ==
  ASSUME NEW e \in Ends, CallOf(e), program' = program,
         pc'[e] = pc[e], returned'[e] = returned[e], handed'[e] = handed[e],
         taking'[e] = taking[e], sent'[e] = sent[e], got'[e] = got[e],
         \A op \in Ops : at'[e][op] # "idle" => at[e][op] # "idle",
         Open(e)' => Open(e) /\ (at'[e]["send"] = "idle" => at[e]["send"] = "idle")
  PROVE  CallOf(e)'
<1>1. PartsOf(e)' /\ TotalsOf(e)'
  BY SameCalls DEF CallOf
<1>2. \A op \in Ops : Size(e, op)' = Size(e, op)
  BY SameSize
<1>3. "send" \in Ops /\ "recv" \in Ops
  BY DEF Ops
<1>4. QED
  BY <1>1, <1>2, <1>3 DEF CallOf

LEMMA SameDataOf ==
  ASSUME NEW e \in Ends, CallsTypeOK, DataOf(e), got'[e] = got[e], taking'[e] = taking[e],
         sent'[Other(e)] \in Nat, sent[Other(e)] <= sent'[Other(e)]
  PROVE  DataOf(e)' /\ Read(e)' = Read(e)
<1>1. Read(e)' = Read(e)
  BY DEF Read
<1>2. Other(e) \in Ends
  BY OtherFacts
<1>3. sent[Other(e)] \in Nat /\ Len(got[e]) \in Nat /\ Len(taking[e]) \in Nat
  BY <1>2 DEF CallsTypeOK
<1>4. Read(e) \in Nat
  <2> DEFINE g == Len(got[e])
             t == Len(taking[e])
  <2>1. g \in Nat /\ t \in Nat /\ Read(e) = g + t
    BY <1>3 DEF Read
  <2> HIDE DEF g, t
  <2>2. QED
    BY <2>1
<1>5. Read(e) <= sent'[Other(e)]
  BY <1>3, <1>4 DEF DataOf
<1>6. QED
  BY <1>1, <1>5 DEF DataOf

LEMMA SameQueueOf ==
  ASSUME NEW e \in Ends, QueueOf(e), cq'[e] = cq[e]
  PROVE  SendDone(e)' = SendDone(e) /\ Arrived(e)' = Arrived(e) /\ QueueOf(e)'
BY DEF SendDone, Arrived, QueueOf

LEMMA SameWorkOf ==
  ASSUME NEW e \in Ends, WorkOf(e), zero_copy' = zero_copy,
         wire'[e] = wire[e], wire'[Other(e)] = wire[Other(e)] \/ wire'[Other(e)] = <<>>,
         unacked'[e] = unacked[e], cq'[e] = cq[e], in_use'[e] = in_use[e],
         at'[e]["send"] = "idle" <=> at[e]["send"] = "idle"
  PROVE  WorkOf(e)'
<1>1. OutSlot' = OutSlot /\ SendDone(e)' = SendDone(e)
  BY DEF OutSlot, SendDone
<1>2. QED
  BY <1>1 DEF WorkOf

LEMMA SamePoolOf ==
  ASSUME NEW e \in Ends, PoolOf(e), posted'[e] = posted[e], Arrived(e)' = Arrived(e)
  PROVE  PoolOf(e)'
BY DEF PoolOf, Whole

LEMMA SameArrivedRequests ==
  ASSUME NEW e \in Ends, RequestsOf(e), zero_copy' = zero_copy,
         setup'[e] = "connected" <=> setup[e] = "connected",
         posted'[e] = posted[e], Arrived(e)' = Arrived(e),
         setup[e] # "connected" =>
           cq'[e] = cq[e] /\ \A op \in Ops : at'[e][op] = "idle" <=> at[e][op] = "idle",
         program' = program, pc'[e] = pc[e],
         at'[e]["recv"] = "idle" <=> at[e]["recv"] = "idle"
  PROVE  RequestsOf(e)'
<1>1. "recv" \in Ops
  BY DEF Ops
<1>2. Size(e, "recv")' = Size(e, "recv")
  BY <1>1, SameSize
<1>3. ZeroCopyOf(e) => ZeroCopyOf(e)'
  BY <1>1, <1>2 DEF ZeroCopyOf
<1>4. PoolOf(e) => PoolOf(e)'
  BY SamePoolOf
<1>5. QED
  BY <1>1, <1>3, <1>4 DEF RequestsOf

LEMMA SameRequestsOf ==
  ASSUME NEW e \in Ends, RequestsOf(e), zero_copy' = zero_copy,
         setup'[e] = "connected" <=> setup[e] = "connected",
         posted'[e] = posted[e], cq'[e] = cq[e], program' = program, pc'[e] = pc[e],
         \A op \in Ops : at'[e][op] = "idle" <=> at[e][op] = "idle"
  PROVE  RequestsOf(e)'
<1>1. Arrived(e)' = Arrived(e) /\ "recv" \in Ops
  BY DEF Arrived, SendDone, Ops
<1>2. QED
  BY <1>1, SameArrivedRequests

LEMMA SamePending ==
  ASSUME NEW e \in Ends, RdmaTypeOK, zero_copy' = zero_copy, Arrived(e)' = Arrived(e),
         wire'[Other(e)] = wire[Other(e)],
         \A i \in 1 .. Len(Arrived(e)) :
           mem'[e][InSlot(Arrived(e)[i].id)] = mem[e][InSlot(Arrived(e)[i].id)],
         Len(wire[Other(e)]) > 0 =>
           mem'[Other(e)][wire[Other(e)][1]] = mem[Other(e)][wire[Other(e)][1]]
  PROVE  Pending(e)' = Pending(e)
<1> DEFINE n == Len(Arrived(e))
           w == Len(wire[Other(e)])
<1>1. n \in Nat /\ w \in Nat
  BY OtherFacts, ArrivedFacts DEF RdmaTypeOK
<1>2. \A id \in Nat : InSlot(id)' = InSlot(id)
  BY DEF InSlot
<1>3. \A i \in 1 .. n : Arrived(e)[i].id \in Nat
  <2>1. \A i \in 1 .. n : Arrived(e)[i] \in Completions
    BY ArrivedFacts, ElementOfSeq
  <2>2. QED
    BY <2>1 DEF Completions
<1>4. \A i \in 1 .. n : mem'[e][InSlot(Arrived(e)[i].id)'] = mem[e][InSlot(Arrived(e)[i].id)]
  BY <1>2, <1>3 DEF InSlot
<1>5. Pending(e)' = [i \in 1 .. (n + w) |->
                       IF i <= n THEN mem'[e][InSlot(Arrived(e)[i].id)]
                       ELSE mem'[Other(e)][wire[Other(e)][1]]]
  BY DEF Pending, InSlot
<1>6. Pending(e) = [i \in 1 .. (n + w) |->
                      IF i <= n THEN mem[e][InSlot(Arrived(e)[i].id)]
                      ELSE mem[Other(e)][wire[Other(e)][1]]]
  BY DEF Pending
<1>7. \A i \in 1 .. n : mem'[e][InSlot(Arrived(e)[i].id)] = mem[e][InSlot(Arrived(e)[i].id)]
  OBVIOUS
<1>8. w > 0 => mem'[Other(e)][wire[Other(e)][1]] = mem[Other(e)][wire[Other(e)][1]]
  OBVIOUS
<1> HIDE DEF n, w
<1>9. \A i \in 1 .. (n + w) : i <= n \/ w > 0
  BY <1>1
<1>10. \A i \in 1 .. (n + w) : i <= n => i \in 1 .. n
  BY <1>1
<1>11. QED
  BY <1>5, <1>6, <1>7, <1>8, <1>9, <1>10

LEMMA SameMessages ==
  ASSUME NEW e \in Ends, program' = program, zero_copy' = zero_copy
  PROVE  \A m : IsMessage(e, m)' <=> IsMessage(e, m)
BY DEF IsMessage, Before, Run, Upto, CutAt

LEMMA SameChainOf ==
  ASSUME NEW e \in Ends, ChainOf(e), program' = program, zero_copy' = zero_copy,
         Pending(e)' = Pending(e), Read(e)' = Read(e),
         sent'[Other(e)] = sent[Other(e)], Open(e)' => Open(e)
  PROVE  ChainOf(e)'
<1> DEFINE q == Pending(e)
<1>1. SUFFICES ASSUME Open(e)' PROVE /\ Chain(Pending(e)', Read(e)', sent'[Other(e)])
                                     /\ \A i \in 1 .. Len(Pending(e)') :
                                          IsMessage(e, Pending(e)[i])'
  BY DEF ChainOf, Chain, Before, Upon
<1>2. Chain(q, Read(e), sent[Other(e)]) /\ \A i \in 1 .. Len(q) : IsMessage(e, q[i])
  BY <1>1 DEF ChainOf
<1>3. \A i \in 1 .. Len(q) : IsMessage(e, q[i])'
  BY <1>2, SameMessages
<1>4. QED
  BY <1>2, <1>3

LEMMA SameCauseOf ==
  ASSUME NEW e \in Ends, CauseOf(e), program' = program, pc'[e] = pc[e],
         state'[e] = state[e], deaths' = deaths, cq'[e] = cq[e],
         setup[e] = "connected" => setup'[e] = "connected",
         state[e] = "closed" /\ wire[Other(e)] = <<>> => wire'[Other(e)] = <<>>
  PROVE  CauseOf(e)'
<1>1. SendDone(e)' = SendDone(e) /\ Over(e)' = Over(e)
  BY DEF SendDone, Over
<1>2. QED
  BY <1>1 DEF CauseOf

(* A step that moves no bytes, messages or requests.                        *)
moving == <<program, pc, returned, handed, sent, taking, got, zero_copy,
            mem, in_use, posted, wire, unacked, cq>>

LEMMA Untouched ==
  ASSUME IInv, UNCHANGED moving, NEW e \in Ends, Open(e)' => Open(e),
         \A op \in Ops : at'[e][op] = "idle" <=> at[e][op] = "idle"
  PROVE  /\ CallOf(e)' /\ DataOf(e)' /\ QueueOf(e)' /\ WorkOf(e)' /\ ChainOf(e)'
         /\ (setup'[e] = "connected" <=> setup[e] = "connected") => RequestsOf(e)'
<1>1. /\ program' = program /\ pc' = pc /\ returned' = returned /\ handed' = handed
      /\ sent' = sent /\ taking' = taking /\ got' = got /\ zero_copy' = zero_copy
      /\ mem' = mem /\ in_use' = in_use /\ posted' = posted /\ wire' = wire
      /\ unacked' = unacked /\ cq' = cq
  BY DEF moving
<1>2. /\ RdmaTypeOK /\ CallsTypeOK
      /\ CallOf(e) /\ DataOf(e) /\ QueueOf(e) /\ WorkOf(e) /\ RequestsOf(e) /\ ChainOf(e)
  BY DEF IInv, EndInv, RdmaTypeOK
<1>3. "send" \in Ops /\ Other(e) \in Ends
  BY OtherFacts DEF Ops
<1>4. CallOf(e)'
  BY <1>1, <1>2, <1>3, SameCallOf
<1>5. DataOf(e)' /\ Read(e)' = Read(e)
  <2>1. sent[Other(e)] \in Nat
    BY <1>2, <1>3 DEF CallsTypeOK
  <2>2. QED
    BY <1>1, <1>2, <2>1, SameDataOf
<1>6. QueueOf(e)' /\ Arrived(e)' = Arrived(e)
  BY <1>1, <1>2, SameQueueOf
<1>7. WorkOf(e)'
  BY <1>1, <1>2, <1>3, SameWorkOf
<1>8. Pending(e)' = Pending(e)
  BY <1>1, <1>2, <1>6, SamePending
<1>9. ChainOf(e)'
  BY <1>1, <1>2, <1>5, <1>8, SameChainOf
<1>10. (setup'[e] = "connected" <=> setup[e] = "connected") => RequestsOf(e)'
  BY <1>1, <1>2, SameRequestsOf
<1>11. QED
  BY <1>4, <1>5, <1>6, <1>7, <1>9, <1>10

-----------------------------------------------------------------------------
(* The beginning.                                                           *)
LEMMA RdmaInit == InitRdma /\ TakesTurns => IInv
<1> SUFFICES ASSUME InitRdma, TakesTurns PROVE IInv
  OBVIOUS
<1> USE DEF InitRdma, Init
<1>1. CallsTypeOK
  <2>1. deaths \in 0 .. MaxDeaths
    BY ProgramTypes
  <2>2. ASSUME NEW e \in Ends PROVE pc[e] <= Len(program[e])
    <3> HIDE DEF InitRdma, Init
    <3>1. program \in Programs /\ pc[e] = 0
      BY DEF InitRdma, Init
    <3>2. Len(program[e]) \in Nat
      BY <3>1, ProgramFacts
    <3>3. QED
      BY <3>1, <3>2
  <2>3. QED
    BY <2>1, <2>2 DEF CallsTypeOK
<1>2. RdmaTypeOK
  BY <1>1 DEF RdmaTypeOK, Ends, Places, Nothing
<1>3. SetupInv
  BY DEF SetupInv, Ends
<1>4. ASSUME NEW e \in Ends PROVE EndInv(e)
  <2>1. /\ Len(taking[e]) = 0 /\ Len(got[e]) = 0 /\ Len(cq[e]) = 0 /\ Len(wire[e]) = 0
        /\ Len(wire[Other(e)]) = 0 /\ Len(posted[e]) = 0 /\ Other(e) \in Ends
    BY OtherFacts
  <2>2. ~SendDone(e) /\ Arrived(e) = <<>> /\ Len(Arrived(e)) = 0
    BY DEF SendDone, Arrived
  <2>3. CallOf(e)
    <3>1. \A op \in Ops : Part(e, op) = 0 /\ returned[e] = {}
      BY <2>1 DEF Part
    <3>2. \A op \in Ops : Size(e, op) \in Nat
      BY <1>1, SizeFacts
    <3>3. \A op \in Ops : Upto(e, op)[pc[e]] = 0
      BY UptoFacts
    <3>4. PartsOf(e)
      BY <3>1, <3>2 DEF PartsOf
    <3>5. TotalsOf(e)
      BY <2>1, <3>1, <3>3 DEF TotalsOf, Done, Ops
    <3>6. QED
      BY <2>1, <3>2, <3>4, <3>5 DEF CallOf, Ops
  <2>4. DataOf(e)
    <3>1. Run(0, 0) = <<>>
      BY RunEmpty
    <3>2. QED
      BY <2>1, <3>1 DEF DataOf, Read
  <2>5. QueueOf(e)
    BY <2>2 DEF QueueOf
  <2>6. WorkOf(e)
    BY <2>1, <2>2 DEF WorkOf, Ops
  <2>7. RequestsOf(e)
    BY <2>1 DEF RequestsOf
  <2>8. ChainOf(e)
    <3>1. Len(Pending(e)) = 0
      BY <1>2, <2>1, <2>2, <2>5, PendingFacts
    <3>2. Read(e) = 0 /\ sent[Other(e)] = 0
      BY <2>1 DEF Read
    <3>3. QED
      BY <3>1, <3>2 DEF ChainOf, Chain
  <2>9. CauseOf(e)
    BY <2>2 DEF CauseOf
  <2>10. QED
    BY <2>3, <2>4, <2>5, <2>6, <2>7, <2>8, <2>9 DEF EndInv
<1>5. QED
  BY <1>2, <1>3, <1>4 DEF IInv

-----------------------------------------------------------------------------
(* The steps.  The exchange of queue pairs:                                 *)
LEMMA ExchangeKeeps ==
  ASSUME IInv, NEW e \in Ends, SendQPInfo(e) \/ RecvQPInfo(e)
  PROVE  IInv'
<1>1. /\ UNCHANGED moving /\ UNCHANGED <<state, deaths, busy, at, armed, events>>
  BY DEF SendQPInfo, RecvQPInfo, Exchanges, moving, calls
<1>2. /\ setup' = [setup EXCEPT ![e] = setup'[e]]
      /\ setup[e] \notin {"knows", "connected"} /\ setup'[e] # "connected"
      /\ setup'[e] \in {"told", "asked", "knows"}
  <2>1. setup \in [Ends -> {"start", "told", "asked", "knows", "connected"}]
    BY DEF IInv, RdmaTypeOK
  <2>2. QED
    BY <2>1 DEF SendQPInfo, RecvQPInfo, Exchanges, Order
<1>3. RdmaTypeOK'
  <2>1. setup' \in [Ends -> {"start", "told", "asked", "knows", "connected"}]
    BY <1>2 DEF IInv, RdmaTypeOK
  <2>2. QED
    BY <1>1, <2>1 DEF IInv, RdmaTypeOK, CallsTypeOK, moving
<1>4. TakesTurns'
  BY <1>1 DEF IInv, TakesTurns, moving
<1>5. SetupInv'
  <2>1. setup \in [Ends -> {"start", "told", "asked", "knows", "connected"}]
    BY DEF IInv, RdmaTypeOK
  <2>2. Other("A") = "B" /\ Other("B") = "A"
    BY DEF Other, Ends
  <2>3. CASE e = "A"
    BY <2>1, <2>2, <2>3 DEF IInv, SetupInv, SendQPInfo, RecvQPInfo, Exchanges, Order,
                            Initiator, Told, Ends
  <2>4. CASE e = "B"
    BY <2>1, <2>2, <2>4 DEF IInv, SetupInv, SendQPInfo, RecvQPInfo, Exchanges, Order,
                            Initiator, Told, Ends
  <2>5. QED
    BY <2>3, <2>4 DEF Ends
<1>6. ASSUME NEW x \in Ends PROVE EndInv(x)'
  <2>1. setup'[x] = "connected" <=> setup[x] = "connected"
    BY <1>2 DEF IInv, RdmaTypeOK
  <2>2. /\ CallOf(x)' /\ DataOf(x)' /\ QueueOf(x)' /\ WorkOf(x)' /\ ChainOf(x)'
        /\ RequestsOf(x)'
    BY <1>1, <2>1, Untouched DEF Open
  <2>3. CauseOf(x)'
    BY <1>1, <2>1, SameCauseOf DEF IInv, EndInv, moving
  <2>4. QED
    BY <2>2, <2>3 DEF EndInv
<1>7. QED
  BY <1>3, <1>4, <1>5, <1>6 DEF IInv

(* ... its last step posts the whole pool:                                  *)
LEMMA PostKeeps ==
  ASSUME IInv, NEW e \in Ends, PostRecvWRsForBufferPool(e)
  PROVE  IInv'
<1>1. /\ setup[e] = "knows" /\ setup' = [setup EXCEPT ![e] = "connected"]
      /\ program' = program /\ pc' = pc /\ returned' = returned /\ handed' = handed
      /\ sent' = sent /\ taking' = taking /\ got' = got /\ zero_copy' = zero_copy
      /\ mem' = mem /\ in_use' = in_use /\ wire' = wire /\ busy' = busy
      /\ unacked' = unacked /\ cq' = cq /\ at' = at /\ state' = state /\ deaths' = deaths
      /\ armed' = armed /\ events' = events
  BY DEF PostRecvWRsForBufferPool, calls
<1>2. /\ posted' = [posted EXCEPT ![e] = posted'[e]]
      /\ zero_copy => posted'[e] = <<>>
      /\ ~zero_copy => posted'[e] = [i \in 1 .. BufferCount |-> PoolRequest(i - 1)]
  BY DEF PostRecvWRsForBufferPool, IInv, RdmaTypeOK
<1>3. ~zero_copy => /\ posted'[e] \in Seq(Requested) /\ Len(posted'[e]) = BufferCount
                    /\ \A i \in 1 .. BufferCount : /\ posted'[e][i].slot = i - 1
                                                   /\ posted'[e][i].room = MaxPayload
  <2> SUFFICES ASSUME ~zero_copy
               PROVE  /\ posted'[e] \in Seq(Requested) /\ Len(posted'[e]) = BufferCount
                      /\ \A i \in 1 .. BufferCount : /\ posted'[e][i].slot = i - 1
                                                     /\ posted'[e][i].room = MaxPayload
    OBVIOUS
  <2>1. BufferCount \in Nat /\ MaxPayload \in Nat
    BY PoolAssumption
  <2>2. \A i \in 1 .. BufferCount : i - 1 \in Buffers
    BY <2>1 DEF Buffers
  <2>3. \A i \in 1 .. BufferCount : PoolRequest(i - 1) \in Requested
    BY <2>1, <2>2, SlotFacts DEF PoolRequest, Requested
  <2>4. QED
    BY <1>2, <2>1, <2>3 DEF PoolRequest
<1>4. RdmaTypeOK'
  <2>1. posted'[e] \in Seq(Requested)
    BY <1>2, <1>3, EmptySeq
  <2>2. posted' \in [Ends -> Seq(Requested)]
    BY <1>2, <2>1 DEF IInv, RdmaTypeOK
  <2>3. QED
    BY <1>1, <2>2 DEF IInv, RdmaTypeOK, CallsTypeOK
<1>5. TakesTurns' /\ SetupInv'
  BY <1>1 DEF IInv, TakesTurns, SetupInv, Ends, RdmaTypeOK
<1>6. ASSUME NEW x \in Ends PROVE EndInv(x)'
  <2>1. /\ CallOf(x) /\ DataOf(x) /\ QueueOf(x) /\ WorkOf(x) /\ RequestsOf(x)
        /\ ChainOf(x) /\ CauseOf(x) /\ RdmaTypeOK /\ CallsTypeOK
        /\ Other(x) \in Ends
    BY OtherFacts DEF IInv, EndInv, RdmaTypeOK
  <2>2. CallOf(x)'
    BY <1>1, <2>1, SameCallOf DEF Open
  <2>3. DataOf(x)' /\ Read(x)' = Read(x)
    <3>1. sent[Other(x)] \in Nat
      BY <2>1 DEF CallsTypeOK
    <3>2. QED
      BY <1>1, <2>1, <3>1, SameDataOf
  <2>4. QueueOf(x)' /\ Arrived(x)' = Arrived(x)
    BY <1>1, <2>1, SameQueueOf
  <2>5. WorkOf(x)'
    BY <1>1, <2>1, SameWorkOf
  <2>6. ChainOf(x)'
    BY <1>1, <2>1, <2>3, <2>4, SamePending, SameChainOf DEF Open
  <2>7. CauseOf(x)'
    BY <1>1, <2>1, SameCauseOf DEF RdmaTypeOK
  <2>8. RequestsOf(x)'
    <3>1. CASE x # e
      BY <1>1, <1>2, <2>1, <3>1, SameRequestsOf DEF RdmaTypeOK
    <3>2. CASE x = e
      <4>1. cq'[e] = <<>> /\ setup'[e] = "connected" /\ at'[e]["recv"] = "idle"
        BY <1>1, <2>1, <3>2 DEF RequestsOf, RdmaTypeOK, Ops
      <4>2. Len(Arrived(e)') = 0
        BY <1>1, <2>1, <2>4, <3>2, <4>1, ArrivedFacts
      <4>3. CASE zero_copy
        <5>1. Len(posted'[e]) = 0
          BY <1>2, <4>3, EmptySeq
        <5>2. ZeroCopyOf(e)'
          BY <4>1, <4>2, <5>1 DEF ZeroCopyOf
        <5>3. QED
          BY <1>1, <3>2, <4>1, <4>3, <5>2 DEF RequestsOf
      <4>4. CASE ~zero_copy
        <5>1. BufferCount \in Nat /\ \A b \in Buffers : b + 1 \in 1 .. BufferCount
          BY PoolAssumption DEF Buffers
        <5>2. \A i \in 1 .. BufferCount : i - 1 \in Buffers
          BY <5>1 DEF Buffers
        <5>3. \A b \in Buffers : \E i \in 1 .. BufferCount : posted'[e][i].slot = b
          <6> TAKE b \in Buffers
          <6> DEFINE k == b + 1
          <6>1. k \in 1 .. BufferCount /\ k - 1 = b
            BY <5>1 DEF Buffers
          <6> HIDE DEF k
          <6>2. posted'[e][k].slot = k - 1
            BY <1>3, <4>4, <6>1
          <6>3. QED
            BY <6>1, <6>2
        <5>4. PoolOf(e)'
          BY <1>3, <4>2, <4>4, <5>1, <5>2, <5>3 DEF PoolOf, Whole
        <5>5. QED
          BY <1>1, <3>2, <4>1, <4>4, <5>4 DEF RequestsOf
      <4>5. QED
        BY <4>3, <4>4
    <3>3. QED
      BY <3>1, <3>2
  <2>9. QED
    BY <2>2, <2>3, <2>4, <2>5, <2>6, <2>7, <2>8 DEF EndInv
<1>7. QED
  BY <1>4, <1>5, <1>6 DEF IInv

(* An end that leaves takes nothing with it:                                *)
LEMMA LeaveKeeps ==
  ASSUME IInv, NEW e \in Ends, NEW how \in {"closed", "failed", "dead"},
         Open(e), Leave(e, how), UNCHANGED qp, deaths' \in 0 .. MaxDeaths,
         deaths' = 0 => deaths = 0 /\ how = "closed",
         how = "closed" => Over(e) /\ setup[e] = "connected" /\ wire[Other(e)] = <<>>
  PROVE  IInv'
<1>1. /\ program' = program /\ pc' = pc /\ returned' = returned /\ handed' = handed
      /\ sent' = sent /\ taking' = taking /\ got' = got /\ zero_copy' = zero_copy
      /\ mem' = mem /\ in_use' = in_use /\ posted' = posted /\ wire' = wire
      /\ unacked' = unacked /\ cq' = cq /\ at' = at /\ setup' = setup /\ busy' = busy
      /\ armed' = armed /\ events' = events
      /\ state' = [state EXCEPT ![e] = how]
  BY DEF Leave, qp
<1>2. UNCHANGED moving
  BY <1>1 DEF moving
<1>3. state' \in [Ends -> {"open", "closed", "failed", "dead"}]
  BY <1>1 DEF IInv, RdmaTypeOK, CallsTypeOK
<1>4. RdmaTypeOK'
  BY <1>1, <1>3 DEF IInv, RdmaTypeOK, CallsTypeOK
<1>5. TakesTurns' /\ SetupInv'
  BY <1>1 DEF IInv, TakesTurns, SetupInv
<1>6. ASSUME NEW x \in Ends PROVE EndInv(x)'
  <2>1. state'[x] = IF x = e THEN how ELSE state[x]
    BY <1>1 DEF IInv, RdmaTypeOK, CallsTypeOK
  <2>2. Open(x)' => Open(x)
    BY <2>1 DEF Open
  <2>3. /\ CallOf(x)' /\ DataOf(x)' /\ QueueOf(x)' /\ WorkOf(x)' /\ ChainOf(x)'
        /\ RequestsOf(x)'
    BY <1>1, <1>2, <2>2, Untouched
  <2>4. CauseOf(x)'
    <3>1. SendDone(x)' = SendDone(x) /\ Over(x)' = Over(x)
      BY <1>1 DEF SendDone, Over
    <3>2. CauseOf(x)
      BY DEF IInv, EndInv
    <3>3. QED
      BY <1>1, <2>1, <3>1, <3>2 DEF CauseOf
  <2>5. QED
    BY <2>3, <2>4 DEF EndInv
<1>7. QED
  BY <1>4, <1>5, <1>6 DEF IInv

(* ... because the exchange breaks, which only a death explains;            *)
LEMMA ExchangeFailsKeeps ==
  ASSUME IInv, NEW e \in Ends, ExchangeFails(e)
  PROVE  IInv'
<1>1. /\ Open(e) /\ ~Open(Other(e)) /\ setup[e] \notin {"knows", "connected"}
      /\ Told(Other(e)) => setup[e] = "asked"
      /\ Leave(e, "failed") /\ deaths' = deaths /\ UNCHANGED qp
  BY DEF ExchangeFails, Fail
<1>2. deaths # 0
  <2>1. SUFFICES ASSUME deaths = 0 PROVE FALSE
    OBVIOUS
  <2>2. Other(e) \in Ends
    BY OtherFacts
  <2>3. setup[Other(e)] = "connected"
    BY <1>1, <2>1, <2>2 DEF IInv, EndInv, CauseOf, Open
  <2>4. setup[e] = "asked" /\ e = "B" /\ Other(e) = "A"
    <3>1. setup[e] = "asked"
      BY <1>1, <2>3 DEF Told
    <3>2. e = "B"
      BY <3>1 DEF IInv, SetupInv, Ends
    <3>3. QED
      BY <3>1, <3>2, <2>2, OtherFacts DEF Ends
  <2>5. QED
    BY <2>3, <2>4 DEF IInv, SetupInv
<1>3. deaths \in 0 .. MaxDeaths
  BY DEF IInv, RdmaTypeOK, CallsTypeOK
<1>4. QED
  BY <1>1, <1>2, <1>3, LeaveKeeps

(* ... because it dies;                                                     *)
LEMMA CrashKeeps ==
  ASSUME IInv, NEW e \in Ends, Crash(e)
  PROVE  IInv'
<1>1. Open(e) /\ deaths < MaxDeaths /\ Leave(e, "dead") /\ deaths' = deaths + 1 /\ UNCHANGED qp
  BY DEF Crash, Die
<1>2. deaths \in 0 .. MaxDeaths /\ MaxDeaths \in Nat
  BY ProgramTypes DEF IInv, RdmaTypeOK, CallsTypeOK
<1>3. deaths' \in 0 .. MaxDeaths /\ deaths' # 0
  BY <1>1, <1>2
<1>4. QED
  BY <1>1, <1>3, LeaveKeeps

(* ... or because it is through: then nothing is on its way to it.          *)
LEMMA CloseKeeps ==
  ASSUME IInv, NEW e \in Ends, Close(e)
  PROVE  IInv'
<1>1. /\ setup[e] = "connected" /\ Open(e) /\ Over(e)
      /\ Leave(e, "closed") /\ deaths' = deaths /\ UNCHANGED qp
  BY DEF Close, Finish
<1>2. Other(e) \in Ends
  BY OtherFacts
<1>3. /\ RdmaTypeOK /\ TakesTurns /\ CallOf(e) /\ CallOf(Other(e)) /\ DataOf(e)
      /\ DataOf(Other(e)) /\ QueueOf(e) /\ ChainOf(e)
  BY <1>2 DEF IInv, EndInv
<1>4. Len(Pending(e)) = 0
  BY <1>1, <1>2, <1>3, Quiet
<1>5. wire[Other(e)] = <<>>
  <2>1. Len(Arrived(e)) + Len(wire[Other(e)]) = 0
    BY <1>3, <1>4, PendingFacts
  <2>2. Len(Arrived(e)) \in Nat /\ wire[Other(e)] \in Seq(Slots)
    BY <1>2, <1>3, ArrivedFacts DEF RdmaTypeOK
  <2>3. Len(wire[Other(e)]) \in Nat
    BY <2>2
  <2>4. Len(wire[Other(e)]) = 0
    BY <2>1, <2>2, <2>3
  <2>5. QED
    BY <2>2, <2>4, EmptySeq
<1>6. deaths \in 0 .. MaxDeaths
  BY DEF IInv, RdmaTypeOK, CallsTypeOK
<1>7. QED
  BY <1>1, <1>5, <1>6, LeaveKeeps

(* Waiting in PollCompletion:                                               *)
LEMMA PollKeeps ==
  ASSUME IInv, NEW e \in Ends, NEW op \in Ops, Poll(e, op)
  PROVE  IInv'
<1>1. /\ UNCHANGED moving /\ UNCHANGED <<state, deaths, busy, setup>>
  BY DEF Poll, FindNothing, RequestNotify, Requests, Block, Wake, still, moving, calls
<1>2. PICK next \in {"notify", "recheck", "wait", "poll"} :
        at[e][op] # "idle" /\ at' = [at EXCEPT ![e][op] = next]
  BY DEF Poll, FindNothing, RequestNotify, Requests, Block, Wake, Moves
<1>3. at \in [Ends -> [Ops -> Places]] /\ at' \in [Ends -> [Ops -> Places]]
  BY <1>2 DEF IInv, RdmaTypeOK, Places
<1>4. armed' \in [Ends -> BOOLEAN] /\ events' \in [Ends -> Nat]
  <2>1. armed \in [Ends -> BOOLEAN] /\ events \in [Ends -> Nat]
    BY DEF IInv, RdmaTypeOK
  <2>2. armed' \in [Ends -> BOOLEAN]
    BY <2>1 DEF Poll, FindNothing, RequestNotify, Requests, Block, Wake
  <2>3. events' = events \/ (events[e] > 0 /\ events' = [events EXCEPT ![e] = @ - 1])
    BY DEF Poll, FindNothing, RequestNotify, Requests, Block, Wake
  <2>4. events[e] > 0 => events[e] - 1 \in Nat
    BY <2>1
  <2>5. QED
    BY <2>1, <2>2, <2>3, <2>4
<1>5. RdmaTypeOK'
  BY <1>1, <1>3, <1>4 DEF IInv, RdmaTypeOK, CallsTypeOK, moving
<1>6. TakesTurns' /\ SetupInv'
  BY <1>1 DEF IInv, TakesTurns, SetupInv, moving
<1>7. ASSUME NEW x \in Ends PROVE EndInv(x)'
  <2>1. \A o \in Ops : at'[x][o] = "idle" <=> at[x][o] = "idle"
    BY <1>2, <1>3
  <2>2. /\ CallOf(x)' /\ DataOf(x)' /\ QueueOf(x)' /\ WorkOf(x)' /\ ChainOf(x)'
        /\ RequestsOf(x)'
    BY <1>1, <2>1, Untouched DEF Open
  <2>3. CauseOf(x)'
    BY <1>1, SameCauseOf DEF IInv, EndInv, moving
  <2>4. QED
    BY <2>2, <2>3 DEF EndInv
<1>8. QED
  BY <1>5, <1>6, <1>7 DEF IInv

-----------------------------------------------------------------------------
(* The hardware.  The Send of an end that has a message on the wire, or one *)
(* to be acknowledged, polls and has found nothing yet.                     *)
LEMMA Working ==
  ASSUME RdmaTypeOK, NEW e \in Ends, WorkOf(e), RequestsOf(e),
         wire[e] # <<>> \/ unacked[e] > 0
  PROVE  /\ at[e]["send"] # "idle" /\ setup[e] = "connected" /\ cq[e] = <<>>
         /\ ~SendDone(e) /\ Len(Arrived(e)) = 0
         /\ wire[e] # <<>> => Len(wire[e]) = 1 /\ wire[e][1] = OutSlot /\ unacked[e] = 0
         /\ unacked[e] > 0 => unacked[e] = 1 /\ wire[e] = <<>>
<1>1. wire[e] \in Seq(Slots) /\ unacked[e] \in Nat
  BY DEF RdmaTypeOK
<1>2. cq[e] = <<>> /\ ~SendDone(e) /\ Len(Arrived(e)) = 0
  BY ArrivedFacts DEF WorkOf
<1>3. Len(wire[e]) \in Nat /\ (wire[e] # <<>> => Len(wire[e]) > 0)
      /\ (Len(wire[e]) = 0 => wire[e] = <<>>)
  BY <1>1, EmptySeq
<1>4. Len(wire[e]) + unacked[e] = (IF at[e]["send"] = "idle" THEN 0 ELSE 1)
  BY <1>1, <1>2, <1>3 DEF WorkOf
<1>5. at[e]["send"] # "idle" /\ Len(wire[e]) + unacked[e] = 1
  BY <1>1, <1>3, <1>4
<1>6. setup[e] = "connected"
  BY <1>5 DEF RequestsOf, Ops
<1>7. wire[e] # <<>> => wire[e][1] = OutSlot
  BY DEF WorkOf
<1> DEFINE w == Len(wire[e])
           u == unacked[e]
<1>8. w \in Nat /\ u \in Nat /\ w + u = 1 /\ (wire[e] # <<>> => w > 0)
      /\ (w = 0 => wire[e] = <<>>)
  BY <1>1, <1>3, <1>5
<1> HIDE DEF w, u
<1>9. (w > 0 => w = 1 /\ u = 0) /\ (u > 0 => u = 1 /\ w = 0)
  BY <1>8
<1>10. QED
  BY <1>2, <1>5, <1>6, <1>7, <1>8, <1>9 DEF w, u

(* Its work request completes, well or badly.                               *)
LEMMA CompletesSend ==
  ASSUME IInv, NEW e \in Ends, NEW ok \in BOOLEAN, Open(e),
         Complete(Only(e, Completion("send", SendId, ok))),
         wire[e] # <<>> \/ unacked[e] > 0,
         wire' = [wire EXCEPT ![e] = wire'[e]], wire'[e] = <<>>,
         unacked' = [unacked EXCEPT ![e] = 0],
         wire[e] # <<>> => ~Open(Other(e)),
         deaths = 0 => ok,
         UNCHANGED <<calls, zero_copy, busy, setup, at, mem, in_use, posted>>
  PROVE  IInv'
<1> DEFINE f == Other(e)
           c == Completion("send", SendId, ok)
<1>1. /\ program' = program /\ pc' = pc /\ returned' = returned /\ handed' = handed
      /\ sent' = sent /\ taking' = taking /\ got' = got /\ zero_copy' = zero_copy
      /\ mem' = mem /\ in_use' = in_use /\ posted' = posted /\ at' = at
      /\ setup' = setup /\ busy' = busy /\ state' = state /\ deaths' = deaths
  BY DEF calls
<1>2. f \in Ends /\ f # e /\ Other(f) = e
  BY OtherFacts
<1>3. /\ RdmaTypeOK /\ CallsTypeOK
      /\ \A x \in Ends : /\ CallOf(x) /\ DataOf(x) /\ QueueOf(x) /\ WorkOf(x)
                         /\ RequestsOf(x) /\ ChainOf(x) /\ CauseOf(x)
  BY DEF IInv, EndInv, RdmaTypeOK
<1>4. /\ at[e]["send"] # "idle" /\ setup[e] = "connected" /\ cq[e] = <<>>
      /\ Len(Arrived(e)) = 0
  BY <1>3, Working
<1>5. c \in Completions /\ c.op = "send" /\ c.ok = ok
  BY DEF Completion, Completions, SendId, Ops
<1>6. /\ cq' \in [Ends -> Seq(Completions)] /\ cq'[e] = Append(cq[e], c)
      /\ cq'[f] = cq[f] /\ armed' \in [Ends -> BOOLEAN] /\ events' \in [Ends -> Nat]
  BY <1>3, <1>5, CompleteFacts
<1>7. SendDone(e)' /\ Arrived(e)' = Arrived(e) /\ cq'[e][1] = c
  BY <1>3, <1>4, <1>5, <1>6, ArrivedSend
<1>8. wire'[f] = wire[f] /\ unacked'[e] = 0 /\ unacked'[f] = unacked[f]
      /\ wire' \in [Ends -> Seq(Slots)] /\ unacked' \in [Ends -> Nat]
  <2>1. wire \in [Ends -> Seq(Slots)] /\ unacked \in [Ends -> Nat]
    BY <1>3 DEF RdmaTypeOK
  <2>2. wire'[e] \in Seq(Slots)
    BY EmptySeq
  <2>3. QED
    BY <1>2, <2>1, <2>2
<1>9. RdmaTypeOK'
  BY <1>1, <1>3, <1>6, <1>8 DEF RdmaTypeOK, CallsTypeOK
<1>10. TakesTurns' /\ SetupInv'
  BY <1>1 DEF IInv, TakesTurns, SetupInv
<1>11. \A x \in Ends : CallOf(x)'
  BY <1>1, <1>3, SameCallOf DEF Open
<1>12. \A x \in Ends : DataOf(x)' /\ Read(x)' = Read(x)
  <2>1. \A x \in Ends : sent[Other(x)] \in Nat
    BY <1>3, OtherFacts DEF CallsTypeOK
  <2>2. QED
    BY <1>1, <1>3, <2>1, SameDataOf
<1>13. QueueOf(f)' /\ Arrived(f)' = Arrived(f)
  BY <1>2, <1>3, <1>6, SameQueueOf
<1>14. \A x \in Ends : Arrived(x)' = Arrived(x)
  BY <1>2, <1>7, <1>13, OtherFacts
<1>15. EndInv(e)'
  <2>1. QueueOf(e)'
    BY <1>3, <1>7 DEF QueueOf
  <2>2. WorkOf(e)'
    <3>1. Len(wire'[e]) = 0
      BY EmptySeq
    <3>2. QED
      BY <1>1, <1>4, <1>7, <1>8, <3>1 DEF WorkOf
  <2>3. RequestsOf(e)'
    BY <1>1, <1>3, <1>4, <1>7, SameArrivedRequests DEF Ops
  <2>4. Pending(e)' = Pending(e)
    BY <1>1, <1>3, <1>7, <1>8, SamePending
  <2>5. ChainOf(e)'
    BY <1>1, <1>3, <1>12, <2>4, SameChainOf DEF Open
  <2>6. CauseOf(e)'
    <3>1. state'[e] = "open"
      BY <1>1 DEF Open
    <3>2. QED
      BY <1>1, <1>5, <1>7, <3>1 DEF CauseOf
  <2>7. QED
    BY <1>11, <1>12, <2>1, <2>2, <2>3, <2>5, <2>6 DEF EndInv
<1>16. EndInv(f)'
  <2>1. WorkOf(f)'
    BY <1>1, <1>2, <1>3, <1>6, <1>8, SameWorkOf
  <2>2. RequestsOf(f)'
    BY <1>1, <1>2, <1>3, <1>6, SameRequestsOf
  <2>3. ChainOf(f)'
    <3>1. CASE wire[e] = <<>>
      <4>1. Pending(f)' = Pending(f)
        BY <1>1, <1>2, <1>3, <1>13, <3>1, SamePending
      <4>2. QED
        BY <1>1, <1>2, <1>3, <1>12, <4>1, SameChainOf DEF Open
    <3>2. CASE wire[e] # <<>>
      <4>1. ~Open(f)'
        BY <1>1, <3>2 DEF Open
      <4>2. QED
        BY <4>1 DEF ChainOf
    <3>3. QED
      BY <3>1, <3>2
  <2>4. CauseOf(f)'
    BY <1>1, <1>2, <1>3, <1>6, SameCauseOf
  <2>5. QED
    BY <1>2, <1>11, <1>12, <1>13, <2>1, <2>2, <2>3, <2>4 DEF EndInv
<1>17. \A x \in Ends : EndInv(x)'
  BY <1>15, <1>16, OtherFacts
<1>18. QED
  BY <1>9, <1>10, <1>17 DEF IInv

LEMMA AcknowledgeKeeps ==
  ASSUME IInv, NEW e \in Ends, Acknowledge(e)
  PROVE  IInv'
<1>1. /\ Open(e) /\ unacked[e] > 0 /\ unacked' = [unacked EXCEPT ![e] = unacked[e] - 1]
      /\ Complete(Only(e, Completion("send", SendId, TRUE))) /\ wire' = wire
      /\ UNCHANGED <<calls, zero_copy, busy, setup, at, mem, in_use, posted>>
  BY DEF Acknowledge
<1>2. RdmaTypeOK /\ WorkOf(e) /\ RequestsOf(e) /\ wire \in [Ends -> Seq(Slots)]
  BY DEF IInv, EndInv, RdmaTypeOK
<1>3. unacked[e] = 1 /\ wire[e] = <<>>
  BY <1>1, <1>2, Working
<1>4. wire' = [wire EXCEPT ![e] = wire'[e]] /\ wire'[e] = <<>>
  BY <1>1, <1>2, <1>3
<1>5. unacked' = [unacked EXCEPT ![e] = 0]
  BY <1>1, <1>3
<1>6. QED
  BY <1>1, <1>3, <1>4, <1>5, CompletesSend

(* Without a death no end leaves while a message is on its way to it.       *)
LEMMA RetriesKeeps ==
  ASSUME IInv, NEW e \in Ends, RetriesExceeded(e)
  PROVE  IInv'
<1>1. /\ Open(e) /\ ~Open(Other(e)) /\ wire[e] # <<>> /\ unacked[e] = 0
      /\ wire' = [wire EXCEPT ![e] = <<>>] /\ unacked' = unacked
      /\ Complete(Only(e, Completion("send", SendId, FALSE)))
      /\ UNCHANGED <<calls, zero_copy, busy, setup, at, mem, in_use, posted>>
  BY DEF RetriesExceeded
<1>2. wire \in [Ends -> Seq(Slots)] /\ unacked \in [Ends -> Nat]
  BY DEF IInv, RdmaTypeOK
<1>3. deaths # 0
  <2>1. Other(e) \in Ends /\ Other(Other(e)) = e
    BY OtherFacts
  <2>2. QED
    BY <1>1, <2>1 DEF IInv, EndInv, CauseOf, Open
<1>4. wire' = [wire EXCEPT ![e] = wire'[e]] /\ wire'[e] = <<>>
  BY <1>1, <1>2
<1>5. unacked' = [unacked EXCEPT ![e] = 0]
  BY <1>1, <1>2
<1>6. QED
  BY <1>1, <1>3, <1>4, <1>5, CompletesSend

(* The pool stays whole when a buffer receives a message, and when its      *)
(* message is read and it is posted again.                                  *)
LEMMA WholeReceives ==
  ASSUME NEW p \in Seq(Requested), NEW a \in Seq(Completions), Whole(p, a), p # <<>>,
         NEW c \in Completions, c.id = p[1].slot
  PROVE  Whole(Tail(p), Append(a, c))
<1> DEFINE n == Len(p)
           k == Len(a)
           q == Tail(p)
           d == Append(a, c)
<1>1. /\ n \in Nat /\ n > 0 /\ k \in Nat
      /\ Len(q) = n - 1 /\ \A i \in 1 .. (n - 1) : q[i] = p[i + 1]
      /\ Len(d) = k + 1 /\ (\A j \in 1 .. k : d[j] = a[j]) /\ d[k + 1] = c
  <2>1. n \in Nat \ {0} /\ k \in Nat
    BY EmptySeq
  <2>2. Len(q) = n - 1 /\ \A i \in 1 .. Len(q) : q[i] = p[i + 1]
    BY HeadTailProperties
  <2>3. Len(d) = k + 1 /\ (\A j \in 1 .. k : d[j] = a[j]) /\ d[k + 1] = c
    BY AppendProperties
  <2>4. QED
    BY <2>1, <2>2, <2>3
<1>2. /\ \A i \in 1 .. n : p[i].slot \in Buffers /\ p[i].room = MaxPayload
      /\ \A i, j \in 1 .. n : p[i].slot = p[j].slot => i = j
      /\ \A i, j \in 1 .. k : a[i].id = a[j].id => i = j
      /\ \A i \in 1 .. n, j \in 1 .. k : p[i].slot # a[j].id
      /\ \A b \in Buffers : \/ \E i \in 1 .. n : p[i].slot = b
                            \/ \E j \in 1 .. k : a[j].id = b
  BY DEF Whole
<1> HIDE DEF n, k, q, d
<1>3. \A i \in 1 .. (n - 1) : i + 1 \in 1 .. n /\ i + 1 # 1
  BY <1>1
<1>4. \A j \in 1 .. (k + 1) : j \in 1 .. k \/ j = k + 1
  BY <1>1
<1>5. \A i \in 1 .. (n - 1) : q[i].slot \in Buffers /\ q[i].room = MaxPayload
  BY <1>1, <1>2, <1>3
<1>6. \A i, j \in 1 .. (n - 1) : q[i].slot = q[j].slot => i = j
  <2> SUFFICES ASSUME NEW i \in 1 .. (n - 1), NEW j \in 1 .. (n - 1), q[i].slot = q[j].slot
               PROVE  i = j
    OBVIOUS
  <2>1. p[i + 1].slot = p[j + 1].slot /\ i + 1 \in 1 .. n /\ j + 1 \in 1 .. n
    BY <1>1, <1>3
  <2>2. i + 1 = j + 1
    BY <1>2, <2>1
  <2>3. QED
    BY <2>2
<1>7. \A j \in 1 .. k : d[j].id # d[k + 1].id
  <2>1. 1 \in 1 .. n
    BY <1>1
  <2>2. \A j \in 1 .. k : p[1].slot # a[j].id
    BY <1>2, <2>1
  <2>3. QED
    BY <1>1, <2>2
<1>8. \A i, j \in 1 .. (k + 1) : d[i].id = d[j].id => i = j
  BY <1>1, <1>2, <1>4, <1>7
<1>9. \A i \in 1 .. (n - 1), j \in 1 .. (k + 1) : q[i].slot # d[j].id
  <2> SUFFICES ASSUME NEW i \in 1 .. (n - 1), NEW j \in 1 .. (k + 1)
               PROVE  q[i].slot # d[j].id
    OBVIOUS
  <2>1. q[i] = p[i + 1] /\ i + 1 \in 1 .. n /\ i + 1 # 1 /\ 1 \in 1 .. n
    BY <1>1, <1>3
  <2>2. CASE j \in 1 .. k
    <3>1. d[j] = a[j]
      BY <1>1, <2>2
    <3>2. QED
      BY <1>2, <2>1, <2>2, <3>1
  <2>3. CASE j = k + 1
    BY <1>1, <1>2, <2>1, <2>3
  <2>4. QED
    BY <1>4, <2>2, <2>3
<1>10. ASSUME NEW b \in Buffers PROVE \/ \E i \in 1 .. (n - 1) : q[i].slot = b
                                      \/ \E j \in 1 .. (k + 1) : d[j].id = b
  <2>1. CASE \E i \in 1 .. n : p[i].slot = b
    <3>1. PICK i \in 1 .. n : p[i].slot = b
      BY <2>1
    <3>2. CASE i = 1
      <4>1. k + 1 \in 1 .. (k + 1)
        BY <1>1
      <4>2. d[k + 1].id = b
        BY <1>1, <3>1, <3>2
      <4>3. QED
        BY <4>1, <4>2
    <3>3. CASE i # 1
      <4> DEFINE h == i - 1
      <4>1. h \in 1 .. (n - 1) /\ h + 1 = i
        BY <1>1, <3>3
      <4> HIDE DEF h
      <4>2. q[h].slot = b
        BY <1>1, <3>1, <4>1
      <4>3. QED
        BY <4>1, <4>2
    <3>4. QED
      BY <3>2, <3>3
  <2>2. CASE \E j \in 1 .. k : a[j].id = b
    <3>1. PICK j \in 1 .. k : a[j].id = b
      BY <2>2
    <3>2. j \in 1 .. (k + 1) /\ d[j].id = b
      BY <1>1, <3>1
    <3>3. QED
      BY <3>2
  <2>3. QED
    BY <1>2, <2>1, <2>2
<1>11. QED
  BY <1>1, <1>5, <1>6, <1>8, <1>9, <1>10, SMTT(30) DEF Whole, q, d

LEMMA WholeReposts ==
  ASSUME NEW p \in Seq(Requested), NEW a \in Seq(Completions), Whole(p, a), a # <<>>,
         NEW r \in Requested, r.slot = a[1].id, r.room = MaxPayload, r.slot \in Buffers
  PROVE  Whole(Append(p, r), Tail(a))
<1> DEFINE n == Len(a)
           k == Len(p)
           q == Tail(a)
           d == Append(p, r)
<1>1. /\ n \in Nat /\ n > 0 /\ k \in Nat
      /\ Len(q) = n - 1 /\ \A i \in 1 .. (n - 1) : q[i] = a[i + 1]
      /\ Len(d) = k + 1 /\ (\A j \in 1 .. k : d[j] = p[j]) /\ d[k + 1] = r
  <2>1. n \in Nat \ {0} /\ k \in Nat
    BY EmptySeq
  <2>2. Len(q) = n - 1 /\ \A i \in 1 .. Len(q) : q[i] = a[i + 1]
    BY HeadTailProperties
  <2>3. Len(d) = k + 1 /\ (\A j \in 1 .. k : d[j] = p[j]) /\ d[k + 1] = r
    BY AppendProperties
  <2>4. QED
    BY <2>1, <2>2, <2>3
<1>2. /\ \A j \in 1 .. k : p[j].slot \in Buffers /\ p[j].room = MaxPayload
      /\ \A i, j \in 1 .. k : p[i].slot = p[j].slot => i = j
      /\ \A i, j \in 1 .. n : a[i].id = a[j].id => i = j
      /\ \A j \in 1 .. k, i \in 1 .. n : p[j].slot # a[i].id
      /\ \A b \in Buffers : \/ \E j \in 1 .. k : p[j].slot = b
                            \/ \E i \in 1 .. n : a[i].id = b
  BY DEF Whole
<1> HIDE DEF n, k, q, d
<1>3. \A i \in 1 .. (n - 1) : i + 1 \in 1 .. n /\ i + 1 # 1
  BY <1>1
<1>4. \A j \in 1 .. (k + 1) : j \in 1 .. k \/ j = k + 1
  BY <1>1
<1>5. \A j \in 1 .. (k + 1) : d[j].slot \in Buffers /\ d[j].room = MaxPayload
  <2>1. \A j \in 1 .. k : d[j].slot \in Buffers /\ d[j].room = MaxPayload
    BY <1>1, <1>2
  <2>2. d[k + 1].slot \in Buffers /\ d[k + 1].room = MaxPayload
    BY <1>1
  <2>3. QED
    BY <1>4, <2>1, <2>2
<1>6. \A i, j \in 1 .. (n - 1) : q[i].id = q[j].id => i = j
  <2> SUFFICES ASSUME NEW i \in 1 .. (n - 1), NEW j \in 1 .. (n - 1), q[i].id = q[j].id
               PROVE  i = j
    OBVIOUS
  <2>1. q[i] = a[i + 1] /\ q[j] = a[j + 1] /\ i + 1 \in 1 .. n /\ j + 1 \in 1 .. n
    BY <1>1, <1>3
  <2>2. a[i + 1].id = a[j + 1].id
    BY <2>1
  <2>3. i + 1 = j + 1
    BY <1>2, <2>1, <2>2
  <2>4. QED
    BY <2>3
<1>7. \A j \in 1 .. k : d[j].slot # d[k + 1].slot
  BY <1>1, <1>2
<1>8. \A i, j \in 1 .. (k + 1) : d[i].slot = d[j].slot => i = j
  <2>1. \A i, j \in 1 .. k : d[i].slot = d[j].slot => i = j
    BY <1>1, <1>2
  <2>2. QED
    BY <1>4, <1>7, <2>1
<1>9. \A j \in 1 .. (k + 1), i \in 1 .. (n - 1) : d[j].slot # q[i].id
  <2> SUFFICES ASSUME NEW i \in 1 .. (n - 1), NEW j \in 1 .. (k + 1)
               PROVE  d[j].slot # q[i].id
    OBVIOUS
  <2>1. q[i] = a[i + 1] /\ i + 1 \in 1 .. n /\ i + 1 # 1 /\ 1 \in 1 .. n
    BY <1>1, <1>3
  <2>2. CASE j \in 1 .. k
    <3>1. d[j] = p[j]
      BY <1>1, <2>2
    <3>2. QED
      BY <1>2, <2>1, <2>2, <3>1
  <2>3. CASE j = k + 1
    BY <1>1, <1>2, <2>1, <2>3
  <2>4. QED
    BY <1>4, <2>2, <2>3
<1>10. ASSUME NEW b \in Buffers PROVE \/ \E j \in 1 .. (k + 1) : d[j].slot = b
                                      \/ \E i \in 1 .. (n - 1) : q[i].id = b
  <2>1. CASE \E i \in 1 .. n : a[i].id = b
    <3>1. PICK i \in 1 .. n : a[i].id = b
      BY <2>1
    <3>2. CASE i = 1
      <4>1. k + 1 \in 1 .. (k + 1)
        BY <1>1
      <4>2. d[k + 1].slot = b
        BY <1>1, <3>1, <3>2
      <4>3. QED
        BY <4>1, <4>2
    <3>3. CASE i # 1
      <4> DEFINE h == i - 1
      <4>1. h \in 1 .. (n - 1) /\ h + 1 = i
        BY <1>1, <3>3
      <4> HIDE DEF h
      <4>2. q[h].id = b
        BY <1>1, <3>1, <4>1
      <4>3. QED
        BY <4>1, <4>2
    <3>4. QED
      BY <3>2, <3>3
  <2>2. CASE \E j \in 1 .. k : p[j].slot = b
    <3>1. PICK j \in 1 .. k : p[j].slot = b
      BY <2>2
    <3>2. j \in 1 .. (k + 1) /\ d[j].slot = b
      BY <1>1, <3>1
    <3>3. QED
      BY <3>2
  <2>3. QED
    BY <1>2, <2>1, <2>2
<1>11. QED
  BY <1>1, <1>5, <1>6, <1>8, <1>9, <1>10 DEF Whole, q, d

(* The message at the head of the wire, and the request it meets.           *)
LEMMA Meeting ==
  ASSUME IInv, NEW e \in Ends, NEW f \in Ends, f = Other(e), Arrives(e)
  PROVE  /\ setup[f] = "connected" /\ wire[e][1] = OutSlot /\ Head(wire[e]) = OutSlot
         /\ Len(wire[e]) = 1 /\ Tail(wire[e]) = <<>> /\ wire[f] = <<>>
         /\ posted[f] # <<>> /\ Head(posted[f]) = posted[f][1] /\ posted[f][1] \in Requested
         /\ Len(posted[f]) \in Nat /\ Len(posted[f]) > 0
         /\ Len(Pending(f)) = Len(Arrived(f)) + 1
         /\ Pending(f)[Len(Arrived(f)) + 1] = mem[e][OutSlot]
         /\ mem[e][OutSlot] \in Seq(Nat) /\ IsMessage(f, mem[e][OutSlot])
<1>1. /\ Open(e) /\ Open(f) /\ wire[e] # <<>> /\ posted[f] # <<>> /\ Other(f) = e
  BY OtherFacts DEF Arrives
<1>2. RdmaTypeOK /\ WorkOf(e) /\ RequestsOf(e) /\ RequestsOf(f) /\ QueueOf(f) /\ ChainOf(f)
  BY DEF IInv, EndInv
<1>3. wire[e][1] = OutSlot /\ Len(wire[e]) = 1 /\ wire[e] = <<OutSlot>> /\ wire[f] = <<>>
  BY <1>1, <1>2, Working DEF WorkOf
<1>4. wire[e] \in Seq(Slots) /\ posted[f] \in Seq(Requested) /\ OutSlot \in Slots
      /\ mem[e] \in [Slots -> Seq(Nat)]
  BY <1>2, SlotFacts DEF RdmaTypeOK
<1>5. Head(wire[e]) = OutSlot /\ Tail(wire[e]) = <<>>
  <2>1. Tail(wire[e]) \in Seq(Slots) /\ Len(Tail(wire[e])) = Len(wire[e]) - 1
    BY <1>1, <1>4, HeadTailProperties
  <2>2. Len(Tail(wire[e])) = 0
    BY <1>3, <2>1
  <2>3. Tail(wire[e]) = <<>>
    BY <2>1, <2>2, EmptySeq
  <2>4. QED
    BY <1>3, <2>3
<1>6. Len(posted[f]) \in Nat \ {0}
  BY <1>1, <1>4, EmptySeq
<1>7. Head(posted[f]) = posted[f][1] /\ posted[f][1] \in Requested
  BY <1>1, <1>4, <1>6, ElementOfSeq
<1>8. setup[f] = "connected"
  BY <1>1, <1>2 DEF RequestsOf
<1>9. /\ Len(Pending(f)) = Len(Arrived(f)) + 1
      /\ Pending(f)[Len(Arrived(f)) + 1] = mem[e][OutSlot]
  <2> DEFINE n == Len(Arrived(f))
  <2>1. n \in Nat
    BY <1>2, ArrivedFacts
  <2>2. /\ Len(Pending(f)) = n + 1
        /\ \A i \in (n + 1) .. (n + 1) : Pending(f)[i] = mem[e][OutSlot]
    BY <1>1, <1>2, <1>3, PendingFacts, ZenonT(30)
  <2> HIDE DEF n
  <2>3. n + 1 \in (n + 1) .. (n + 1)
    BY <2>1
  <2>4. QED
    BY <2>2, <2>3 DEF n
<1>10. IsMessage(f, mem[e][OutSlot])
  <2> DEFINE n == Len(Arrived(f))
  <2>1. n \in Nat /\ Len(Pending(f)) = n + 1
        /\ Pending(f)[n + 1] = mem[e][OutSlot]
    BY <1>2, <1>9, ArrivedFacts
  <2>2. \A i \in 1 .. Len(Pending(f)) : IsMessage(f, Pending(f)[i])
    BY <1>1, <1>2 DEF ChainOf
  <2> HIDE DEF n
  <2>3. n + 1 \in 1 .. Len(Pending(f))
    BY <2>1
  <2>4. IsMessage(f, Pending(f)[n + 1])
    BY <2>2, <2>3
  <2>5. QED
    BY <2>1, <2>4
<1>11. QED
  BY <1>1, <1>3, <1>4, <1>5, <1>6, <1>7, <1>8, <1>9, <1>10

(* A message is never longer than the buffer it arrives in.                 *)
LEMMA NeverTooLong ==
  ASSUME IInv, NEW e \in Ends, DeliverTooLong(e)
  PROVE  FALSE
<1> DEFINE f == Other(e)
           m == mem[e][OutSlot]
           room == posted[f][1].room
<1>1. f \in Ends /\ Arrives(e)
  BY OtherFacts DEF DeliverTooLong
<1>2. /\ setup[f] = "connected" /\ Head(wire[e]) = OutSlot
      /\ Head(posted[f]) = posted[f][1] /\ posted[f][1] \in Requested
      /\ Len(posted[f]) \in Nat /\ Len(posted[f]) > 0
      /\ Len(Pending(f)) = Len(Arrived(f)) + 1
      /\ Pending(f)[Len(Arrived(f)) + 1] = m
      /\ m \in Seq(Nat) /\ IsMessage(f, m)
  BY <1>1, Meeting
<1>3. Len(m) > room /\ room \in Nat /\ Len(m) \in Nat
  BY <1>2 DEF DeliverTooLong, Requested
<1>4. /\ RdmaTypeOK /\ CallsTypeOK /\ CallOf(f) /\ RequestsOf(f) /\ ChainOf(f) /\ Open(f)
  BY <1>1 DEF IInv, EndInv, RdmaTypeOK, Arrives
<1>5. 1 \in 1 .. Len(posted[f])
  BY <1>2
<1>6. CASE ~zero_copy
  <2>1. room = MaxPayload
    BY <1>2, <1>4, <1>5, <1>6 DEF RequestsOf, PoolOf, Whole
  <2>2. PICK j \in 1 .. Len(program[f]) : Len(m) = CutAt(Upto(f, "recv")[j] - Before(m))
    BY <1>2 DEF IsMessage
  <2>3. Upto(f, "recv")[j] \in Nat /\ Before(m) \in Nat
    <3>1. program \in Programs /\ "recv" \in Ops /\ Len(program[f]) \in Nat
      BY <1>1, <1>4, ProgramFacts DEF CallsTypeOK, Ops
    <3>2. Upto(f, "recv") \in [0 .. Len(program[f]) -> Nat] /\ j \in 0 .. Len(program[f])
      BY <1>1, <3>1, UptoFacts
    <3>3. QED
      BY <1>2, <3>2 DEF IsMessage
  <2>4. Upto(f, "recv")[j] - Before(m) \in Int /\ MaxPayload \in Int
    BY <2>3, PoolAssumption
  <2>5. Len(m) <= MaxPayload
    BY <1>6, <2>2, <2>4, MinFacts DEF CutAt
  <2>6. QED
    BY <1>3, <2>1, <2>5
<1>7. CASE zero_copy
  <2>1. ZeroCopyOf(f)
    BY <1>2, <1>4, <1>7 DEF RequestsOf
  <2>2. room = Size(f, "recv")
    BY <1>5, <2>1 DEF ZeroCopyOf
  <2>3. Len(Arrived(f)) = 0 /\ at[f]["recv"] # "idle"
    <3>1. Len(Arrived(f)) \in Nat
      BY <1>1, <1>4, ArrivedFacts
    <3>2. Len(posted[f]) + Len(Arrived(f)) = (IF at[f]["recv"] = "idle" THEN 0 ELSE 1)
      BY <2>1 DEF ZeroCopyOf
    <3>3. QED
      BY <1>2, <3>1, <3>2
  <2>4. Size(f, "recv") > 0
    BY <1>4, <2>3 DEF CallOf, Ops
  <2>5. Before(m) = Read(f)
    <3>1. Len(Pending(f)) = 1 /\ Pending(f)[1] = m
      BY <1>2, <2>3
    <3>2. QED
      BY <1>4, <3>1 DEF ChainOf, Chain
  <2>6. Len(m) <= Left(f, "recv")
    BY <1>1, <1>2, <1>4, <2>4, <2>5, FitsRecv
  <2>7. Left(f, "recv") = Size(f, "recv") - Len(taking[f])
        /\ Size(f, "recv") \in Nat /\ Len(taking[f]) \in Nat
    BY <1>1, <1>4, SizeFacts DEF Left, Ops, CallsTypeOK
  <2>8. QED
    BY <1>3, <2>2, <2>6, <2>7
<1>8. QED
  BY <1>6, <1>7

LEMMA DeliverKeeps ==
  ASSUME IInv, NEW e \in Ends, Deliver(e)
  PROVE  IInv'
<1> DEFINE f == Other(e)
           m == mem[e][OutSlot]
           slot == posted[f][1].slot
           c == Completion("recv", RecvId(slot), TRUE)
           n == Len(Arrived(f))
<1>1. f \in Ends /\ f # e /\ Other(f) = e
  BY OtherFacts
<1>2. /\ RdmaTypeOK /\ CallsTypeOK
      /\ \A x \in Ends : /\ CallOf(x) /\ DataOf(x) /\ QueueOf(x) /\ WorkOf(x)
                         /\ RequestsOf(x) /\ ChainOf(x) /\ CauseOf(x)
  BY DEF IInv, EndInv, RdmaTypeOK
<1>3. /\ setup[f] = "connected" /\ wire[e][1] = OutSlot /\ Head(wire[e]) = OutSlot
      /\ Len(wire[e]) = 1 /\ Tail(wire[e]) = <<>> /\ wire[f] = <<>>
      /\ posted[f] # <<>> /\ Head(posted[f]) = posted[f][1] /\ posted[f][1] \in Requested
      /\ Len(posted[f]) \in Nat /\ Len(posted[f]) > 0
      /\ Len(Pending(f)) = n + 1 /\ Pending(f)[n + 1] = m
      /\ m \in Seq(Nat) /\ IsMessage(f, m)
  BY <1>1, Meeting DEF Deliver
<1>4. /\ Open(e) /\ Open(f) /\ wire[e] # <<>> /\ unacked[f] = 0
      /\ wire' = [wire EXCEPT ![e] = Tail(wire[e])]
      /\ posted' = [posted EXCEPT ![f] = Tail(posted[f])]
      /\ mem' = [mem EXCEPT ![f][slot] = m]
      /\ unacked' = [unacked EXCEPT ![e] = unacked[e] + 1]
      /\ Complete(Only(f, c))
      /\ program' = program /\ pc' = pc /\ returned' = returned /\ handed' = handed
      /\ sent' = sent /\ taking' = taking /\ got' = got /\ zero_copy' = zero_copy
      /\ in_use' = in_use /\ at' = at /\ setup' = setup /\ busy' = busy
      /\ state' = state /\ deaths' = deaths
  BY <1>3 DEF Deliver, Arrives, calls
<1>5. slot \in Slots /\ (zero_copy => slot = UserIn) /\ (~zero_copy => slot \in Buffers)
  <2>1. 1 \in 1 .. Len(posted[f])
    BY <1>3
  <2>2. CASE zero_copy
    <3>1. posted[f][1] = [slot |-> UserIn, room |-> Size(f, "recv")]
      BY <1>1, <1>2, <1>3, <2>1, <2>2 DEF RequestsOf, ZeroCopyOf
    <3>2. QED
      BY <2>2, <3>1, SlotFacts
  <2>3. CASE ~zero_copy
    BY <1>1, <1>2, <1>3, <2>1, <2>3, SlotFacts DEF RequestsOf, PoolOf, Whole
  <2>4. QED
    BY <2>2, <2>3
<1>6. /\ c \in Completions /\ c.op = "recv" /\ c.ok = TRUE /\ c.id \in Buffers
      /\ InSlot(c.id) = slot /\ (~zero_copy => c.id = slot)
  <2>1. CASE zero_copy
    BY <1>5, <2>1, SlotFacts DEF Completion, Completions, RecvId, InSlot, Ops
  <2>2. CASE ~zero_copy
    BY <1>5, <2>2, SlotFacts DEF Completion, Completions, RecvId, InSlot, Ops
  <2>3. QED
    BY <2>1, <2>2
<1>7. /\ at[e]["send"] # "idle" /\ setup[e] = "connected" /\ cq[e] = <<>>
      /\ ~SendDone(e) /\ Len(Arrived(e)) = 0 /\ unacked[e] = 0
  BY <1>2, <1>4, Working
<1> HIDE DEF c, slot, m
<1>8. /\ cq' \in [Ends -> Seq(Completions)] /\ cq'[f] = Append(cq[f], c)
      /\ cq'[e] = cq[e] /\ armed' \in [Ends -> BOOLEAN] /\ events' \in [Ends -> Nat]
  BY <1>1, <1>2, <1>4, <1>6, CompleteFacts
<1>9. SendDone(f)' = SendDone(f) /\ Arrived(f)' = Append(Arrived(f), c)
      /\ (SendDone(f) => cq'[f][1] = cq[f][1])
  BY <1>1, <1>2, <1>6, <1>8, ArrivedAppend
<1>10. SendDone(e)' = SendDone(e) /\ Arrived(e)' = Arrived(e) /\ QueueOf(e)'
  BY <1>2, <1>8, SameQueueOf
<1>11. /\ wire' \in [Ends -> Seq(Slots)] /\ wire'[e] = <<>> /\ wire'[f] = <<>>
       /\ unacked' \in [Ends -> Nat] /\ unacked'[e] = 1 /\ unacked'[f] = 0
       /\ mem' \in [Ends -> [Slots -> Seq(Nat)]] /\ mem'[e] = mem[e]
       /\ mem'[f] = [mem[f] EXCEPT ![slot] = m]
       /\ posted' \in [Ends -> Seq(Requested)] /\ posted'[e] = posted[e]
       /\ posted'[f] = Tail(posted[f])
  <2>1. /\ wire \in [Ends -> Seq(Slots)] /\ unacked \in [Ends -> Nat]
        /\ mem \in [Ends -> [Slots -> Seq(Nat)]] /\ posted \in [Ends -> Seq(Requested)]
    BY <1>2 DEF RdmaTypeOK
  <2>2. Tail(posted[f]) \in Seq(Requested)
    BY <1>1, <1>3, <2>1, HeadTailProperties
  <2>3. wire' \in [Ends -> Seq(Slots)] /\ wire'[e] = <<>> /\ wire'[f] = <<>>
    BY <1>1, <1>3, <1>4, <2>1, EmptySeq
  <2>4. unacked' \in [Ends -> Nat] /\ unacked'[e] = 1 /\ unacked'[f] = 0
    BY <1>1, <1>4, <1>7, <2>1
  <2>5. /\ mem' \in [Ends -> [Slots -> Seq(Nat)]] /\ mem'[e] = mem[e]
        /\ mem'[f] = [mem[f] EXCEPT ![slot] = m]
    BY <1>1, <1>3, <1>4, <1>5, <2>1 DEF m
  <2>6. posted' \in [Ends -> Seq(Requested)] /\ posted'[e] = posted[e]
        /\ posted'[f] = Tail(posted[f])
    BY <1>1, <1>4, <2>1, <2>2
  <2>7. QED
    BY <2>3, <2>4, <2>5, <2>6
<1>12. RdmaTypeOK'
  BY <1>2, <1>4, <1>8, <1>11 DEF RdmaTypeOK, CallsTypeOK
<1>13. TakesTurns' /\ SetupInv'
  BY <1>4 DEF IInv, TakesTurns, SetupInv
<1>14. \A x \in Ends : CallOf(x)'
  BY <1>2, <1>4, SameCallOf DEF Open
<1>15. \A x \in Ends : DataOf(x)' /\ Read(x)' = Read(x)
  <2>1. \A x \in Ends : sent[Other(x)] \in Nat
    BY <1>2, OtherFacts DEF CallsTypeOK
  <2>2. QED
    BY <1>2, <1>4, <2>1, SameDataOf
<1>16. EndInv(e)'
  <2>1. WorkOf(e)'
    <3>1. Len(wire'[e]) = 0
      BY <1>11, EmptySeq
    <3>2. QED
      BY <1>1, <1>4, <1>7, <1>8, <1>10, <1>11, <3>1 DEF WorkOf
  <2>2. RequestsOf(e)'
    BY <1>2, <1>4, <1>8, <1>11, SameRequestsOf
  <2>3. Pending(e)' = Pending(e)
    <3>1. Len(wire[f]) = 0 /\ wire'[f] = wire[f]
      BY <1>3, <1>11, EmptySeq
    <3>2. \A i \in 1 .. Len(Arrived(e)) :
            mem'[e][InSlot(Arrived(e)[i].id)] = mem[e][InSlot(Arrived(e)[i].id)]
      BY <1>11
    <3>3. QED
      BY <1>2, <1>4, <1>10, <3>1, <3>2, SamePending
  <2>4. ChainOf(e)'
    BY <1>2, <1>4, <1>15, <2>3, SameChainOf DEF Open
  <2>5. CauseOf(e)'
    BY <1>2, <1>3, <1>4, <1>8, <1>11, SameCauseOf
  <2>6. QED
    BY <1>10, <1>14, <1>15, <2>1, <2>2, <2>4, <2>5 DEF EndInv
<1>17. n \in Nat /\ Arrived(f) \in Seq(Completions)
       /\ Len(Arrived(f)') = n + 1 /\ Arrived(f)'[n + 1] = c
       /\ \A i \in 1 .. n : Arrived(f)'[i] = Arrived(f)[i]
  <2>1. n \in Nat /\ Arrived(f) \in Seq(Completions)
    BY <1>1, <1>2, ArrivedFacts
  <2>2. QED
    BY <1>6, <1>9, <2>1, AppendProperties
<1>18. QueueOf(f)'
  <2>1. \A i \in 1 .. n : Arrived(f)[i].op = "recv" /\ Arrived(f)[i].ok
                          /\ Arrived(f)[i].id \in Buffers
    BY <1>1, <1>2 DEF QueueOf
  <2> HIDE DEF n
  <2>2. \A i \in 1 .. (n + 1) : i \in 1 .. n \/ i = n + 1
    BY <1>17
  <2>3. QED
    BY <1>6, <1>17, <2>1, <2>2 DEF QueueOf
<1>19. WorkOf(f)'
  <2>1. zero_copy' = zero_copy /\ wire'[f] = wire[f] /\ Len(wire'[f]) = 0
    BY <1>3, <1>4, <1>11, EmptySeq
  <2>2. QED
    <3>1. WorkOf(f) /\ Len(wire[f]) = Len(wire'[f]) /\ unacked'[f] = unacked[f]
      BY <1>1, <1>2, <1>4, <1>11, <2>1
    <3>2. at'[f] = at[f] /\ in_use'[f] = in_use[f]
      BY <1>4
    <3>3. ~(wire'[f] # <<>> \/ unacked'[f] > 0)
      BY <1>11
    <3>4. QED
      BY <1>9, <1>11, <3>1, <3>2, <3>3 DEF WorkOf
<1>20. RequestsOf(f)'
  <2>1. posted[f] \in Seq(Requested) /\ Len(Tail(posted[f])) = Len(posted[f]) - 1
        /\ \A i \in 1 .. Len(Tail(posted[f])) : Tail(posted[f])[i] = posted[f][i + 1]
    <3>1. posted[f] \in Seq(Requested)
      BY <1>1, <1>2 DEF RdmaTypeOK
    <3>2. QED
      BY <1>3, <3>1, HeadTailProperties
  <2>2. CASE zero_copy
    <3>1. ZeroCopyOf(f)
      BY <1>1, <1>2, <1>3, <2>2 DEF RequestsOf
    <3>2. Len(posted[f]) + n = (IF at[f]["recv"] = "idle" THEN 0 ELSE 1)
      BY <3>1 DEF ZeroCopyOf
    <3>3. Len(posted[f]) = 1 /\ n = 0
      BY <1>3, <1>17, <3>2
    <3>4. Len(posted'[f]) = 0 /\ Len(posted'[f]) + Len(Arrived(f)') =
            (IF at[f]["recv"] = "idle" THEN 0 ELSE 1)
      <4>1. Len(posted'[f]) = 0
        BY <1>11, <2>1, <3>3
      <4>2. Len(Arrived(f)') = 1
        BY <1>17, <3>3
      <4>3. at[f]["recv"] # "idle"
        BY <3>2, <3>3
      <4>4. QED
        BY <4>1, <4>2, <4>3
    <3>5. ZeroCopyOf(f)'
      BY <1>4, <3>4 DEF ZeroCopyOf
    <3>6. QED
      BY <1>3, <1>4, <2>2, <3>5 DEF RequestsOf
  <2>3. CASE ~zero_copy
    <3>1. Whole(posted[f], Arrived(f))
      BY <1>1, <1>2, <1>3, <2>3 DEF RequestsOf, PoolOf
    <3>2. c.id = posted[f][1].slot
      BY <1>6, <2>3 DEF slot
    <3>3. Whole(posted'[f], Arrived(f)')
      BY <1>3, <1>6, <1>9, <1>11, <1>17, <2>1, <3>1, <3>2, WholeReceives
    <3>4. PoolOf(f)'
      BY <3>3 DEF PoolOf, Whole
    <3>5. QED
      BY <1>3, <1>4, <2>3, <3>4 DEF RequestsOf
  <2>4. QED
    BY <2>2, <2>3
<1>21. Pending(f)' = Pending(f)
  <2>1. \A i \in 1 .. n : InSlot(Arrived(f)[i].id) # slot
    <3>1. CASE zero_copy
      <4>1. Len(posted[f]) + n = (IF at[f]["recv"] = "idle" THEN 0 ELSE 1)
        BY <1>1, <1>2, <1>3, <3>1 DEF RequestsOf, ZeroCopyOf
      <4>2. n = 0
        BY <1>3, <1>17, <4>1
      <4>3. QED
        BY <4>2
    <3>2. CASE ~zero_copy
      <4>1. Whole(posted[f], Arrived(f)) /\ 1 \in 1 .. Len(posted[f])
        BY <1>1, <1>2, <1>3, <3>2 DEF RequestsOf, PoolOf
      <4>2. QED
        BY <3>2, <4>1 DEF Whole, InSlot, slot
    <3>3. QED
      BY <3>1, <3>2
  <2>2. /\ Pending(f) \in Seq(Seq(Nat))
        /\ \A i \in 1 .. n : Pending(f)[i] = mem[f][InSlot(Arrived(f)[i].id)]
    BY <1>1, <1>2, PendingFacts
  <2>3. /\ Pending(f)' \in Seq(Seq(Nat)) /\ Len(Pending(f)') = Len(Arrived(f)') + Len(wire'[e])
        /\ \A i \in 1 .. Len(Arrived(f)') :
              Pending(f)'[i] = mem'[f][InSlot(Arrived(f)'[i].id)]
    <3>1. \A id : (IF zero_copy' THEN UserIn ELSE id) = InSlot(id)
      BY <1>4 DEF InSlot
    <3>2. PendingIs(f)'
      BY <1>1, PendingNext
    <3>3. /\ Pending(f)' \in Seq(Seq(Nat))
          /\ Len(Pending(f)') = Len(Arrived(f)') + Len(wire'[e])
          /\ \A i \in 1 .. Len(Arrived(f)') :
                Pending(f)'[i] = mem'[f][IF zero_copy' THEN UserIn ELSE Arrived(f)'[i].id]
      <4> HIDE DEF f
      <4>1. Other(f) = e
        BY <1>1
      <4>2. QED
        BY <1>12, <1>18, <3>2, <4>1 DEF PendingIs, InSlot
    <3>4. QED
      BY <3>1, <3>3
  <2>5. Len(wire'[e]) = 0
    BY <1>11, EmptySeq
  <2>6. \A i \in 1 .. n : InSlot(Arrived(f)[i].id) \in Slots
    BY <1>1, <1>2, SlotFacts DEF QueueOf, InSlot
  <2>7. \A s \in Slots : mem'[f][s] = IF s = slot THEN m ELSE mem[f][s]
    BY <1>1, <1>2, <1>5, <1>11 DEF RdmaTypeOK
  <2> HIDE DEF n
  <2>8. Len(Pending(f)') = Len(Pending(f))
    BY <1>3, <1>17, <2>3, <2>5
  <2>9. ASSUME NEW i \in 1 .. (n + 1) PROVE Pending(f)'[i] = Pending(f)[i]
    <3>1. CASE i \in 1 .. n
      <4>1. Pending(f)'[i] = mem'[f][InSlot(Arrived(f)[i].id)]
        BY <1>17, <2>3, <3>1
      <4>2. QED
        BY <2>1, <2>2, <2>6, <2>7, <3>1, <4>1
    <3>2. CASE i = n + 1
      <4>1. n + 1 \in 1 .. (n + 1)
        BY <1>17
      <4>2. Pending(f)'[n + 1] = mem'[f][InSlot(c.id)]
        BY <1>17, <2>3, <4>1
      <4>3. Pending(f)'[n + 1] = m
        BY <1>5, <1>6, <2>7, <4>2
      <4>4. QED
        BY <1>3, <3>2, <4>3
    <3>3. QED
      BY <1>17, <3>1, <3>2
  <2>10. QED
    BY <1>3, <2>2, <2>3, <2>8, <2>9, SeqEqual
<1>22. ChainOf(f)'
  BY <1>1, <1>2, <1>4, <1>15, <1>21, SameChainOf DEF Open
<1>23. CauseOf(f)'
  BY <1>1, <1>2, <1>4, <1>9 DEF CauseOf, Open
<1>24. EndInv(f)'
  BY <1>1, <1>14, <1>15, <1>18, <1>19, <1>20, <1>22, <1>23 DEF EndInv
<1>25. \A x \in Ends : EndInv(x)'
  BY <1>16, <1>24, OtherFacts
<1>26. QED
  BY <1>12, <1>13, <1>25 DEF IInv

-----------------------------------------------------------------------------
(* The calls.  An end has not closed while the other has something to send. *)
LEMMA NotClosed ==
  ASSUME IInv, NEW e \in Ends, NEW f \in Ends, f = Other(e),
         In(e, "send"), handed[e] < Size(e, "send")
  PROVE  state[f] # "closed"
<1> DEFINE L == Len(program[e])
           s == Upto(e, "send")
           i == pc[e]
<1>1. SUFFICES ASSUME state[f] = "closed" PROVE FALSE
  OBVIOUS
<1>2. /\ CallsTypeOK /\ program \in Programs /\ TakesTurns /\ Other(f) = e
      /\ "send" \in Ops /\ "recv" \in Ops
      /\ CallOf(e) /\ CallOf(f) /\ PartsOf(e) /\ PartsOf(f) /\ TotalsOf(f)
      /\ DataOf(f) /\ CauseOf(f)
  BY OtherFacts DEF IInv, EndInv, RdmaTypeOK, CallsTypeOK, CallOf, Ops
<1>3. s = Upto(f, "recv") /\ Len(program[f]) = L
  BY <1>2, Facing
<1>4. Over(f)
  BY <1>1, <1>2 DEF CauseOf
<1>5. Done(f, "recv") = s[L]
  BY <1>2, <1>3, <1>4, DoneBounds
<1>6. Read(f) = s[L]
  BY <1>2, <1>5 DEF TotalsOf, Read
<1>7. s[i] + Size(e, "send") <= s[L]
  BY <1>2, DoneBounds
<1>8. /\ sent[e] = s[i] + handed[e] /\ s[i] \in Nat /\ handed[e] \in Nat
      /\ Size(e, "send") \in Nat /\ Read(f) \in Nat /\ sent[e] \in Nat
  BY <1>2, Position
<1>9. Read(f) <= sent[e]
  BY <1>2 DEF DataOf
<1> HIDE DEF s, i, L
<1>10. QED
  BY <1>6, <1>7, <1>8, <1>9

(* Nothing is left of what came before when a Send begins.                  *)
LEMMA Beginning ==
  ASSUME IInv, NEW e \in Ends, NEW f \in Ends, f = Other(e),
         In(e, "send"), at[e]["send"] = "idle"
  PROVE  /\ handed[e] < Size(e, "send") /\ in_use[e] = {} /\ AllocateBuffer(e) = OutSlot
         /\ cq[e] = <<>> /\ ~SendDone(e) /\ Len(Arrived(e)) = 0 /\ wire[e] = <<>>
         /\ Len(wire[e]) = 0 /\ unacked[e] = 0 /\ wire[f] = <<>> /\ Len(wire[f]) = 0
         /\ Len(Pending(e)) = 0 /\ Read(e) = sent[f] /\ state[f] # "closed"
<1>1. /\ RdmaTypeOK /\ CallsTypeOK /\ TakesTurns /\ CallOf(e) /\ CallOf(f) /\ DataOf(e)
      /\ DataOf(f) /\ QueueOf(e) /\ WorkOf(e) /\ ChainOf(e)
  BY DEF IInv, EndInv, RdmaTypeOK
<1>2. Open(e) /\ Size(e, "send") > 0
  BY DEF In
<1>3. handed[e] < Size(e, "send")
  BY <1>1, <1>2 DEF CallOf
<1>4. Read(e) = sent[f] /\ Len(Pending(e)) = 0
  BY <1>1, <1>2, <1>3, Quiet
<1>5. in_use[e] = {}
  BY <1>1 DEF WorkOf
<1>6. /\ wire[e] \in Seq(Slots) /\ wire[f] \in Seq(Slots) /\ cq[e] \in Seq(Completions)
      /\ unacked[e] \in Nat
      /\ Len(wire[e]) \in Nat /\ Len(wire[f]) \in Nat /\ Len(Arrived(e)) \in Nat
      /\ Len(cq[e]) \in Nat
  BY <1>1, ArrivedFacts DEF RdmaTypeOK
<1>7. Len(wire[e]) + unacked[e] + (IF SendDone(e) THEN 1 ELSE 0) = 0
  BY <1>1 DEF WorkOf
<1>8. Len(Arrived(e)) + Len(wire[f]) = 0
  BY <1>1, <1>4, PendingFacts
<1>9. Len(wire[e]) = 0 /\ unacked[e] = 0 /\ ~SendDone(e)
  <2> DEFINE w == Len(wire[e])
  <2>1. w \in Nat /\ unacked[e] \in Nat /\ w + unacked[e] + (IF SendDone(e) THEN 1 ELSE 0) = 0
    BY <1>6, <1>7
  <2> HIDE DEF w
  <2>2. w = 0 /\ unacked[e] = 0 /\ ~SendDone(e)
    BY <2>1
  <2>3. QED
    BY <2>2 DEF w
<1>10. Len(Arrived(e)) = 0 /\ Len(wire[f]) = 0
  BY <1>6, <1>8
<1>11. Len(cq[e]) = 0
  BY <1>1, <1>9, <1>10, ArrivedFacts
<1>12. cq[e] = <<>> /\ wire[e] = <<>> /\ wire[f] = <<>>
  BY <1>6, <1>9, <1>10, <1>11, EmptySeq
<1>13. QED
  BY <1>3, <1>4, <1>5, <1>9, <1>10, <1>12, FirstBuffer, NotClosed

LEMMA BeginSendKeeps ==
  ASSUME IInv, NEW e \in Ends, BeginSend(e)
  PROVE  IInv'
<1> DEFINE f == Other(e)
           n == Chunk(e, "send")
           m == Bytes(e, n)
<1>1. f \in Ends /\ f # e /\ Other(f) = e /\ "send" \in Ops /\ "recv" \in Ops
  BY OtherFacts DEF Ops
<1>2. /\ RdmaTypeOK /\ CallsTypeOK /\ TakesTurns
      /\ \A x \in Ends : /\ CallOf(x) /\ DataOf(x) /\ QueueOf(x) /\ WorkOf(x)
                         /\ RequestsOf(x) /\ ChainOf(x) /\ CauseOf(x)
  BY DEF IInv, EndInv, RdmaTypeOK
<1>3. In(e, "send") /\ at[e]["send"] = "idle" /\ setup[e] = "connected"
  BY DEF BeginSend, PostsSend, Moves
<1>4. /\ handed[e] < Size(e, "send") /\ in_use[e] = {} /\ AllocateBuffer(e) = OutSlot
      /\ cq[e] = <<>> /\ ~SendDone(e) /\ Len(Arrived(e)) = 0 /\ wire[e] = <<>>
      /\ Len(wire[e]) = 0 /\ unacked[e] = 0 /\ wire[f] = <<>> /\ Len(wire[f]) = 0
      /\ Len(Pending(e)) = 0 /\ Read(e) = sent[f] /\ state[f] # "closed"
  BY <1>1, <1>3, Beginning
<1>5. /\ n \in Nat /\ n > 0 /\ handed[e] + n <= Size(e, "send") /\ IsMessage(f, m)
      /\ m = Run(sent[e], n) /\ Before(m) = sent[e] /\ Len(m) = n
  BY <1>2, <1>3, <1>4, NextMessage DEF In
<1>6. /\ at' = [at EXCEPT ![e]["send"] = "poll"]
      /\ mem' = [mem EXCEPT ![e][OutSlot] = m]
      /\ wire' = [wire EXCEPT ![e] = Append(wire[e], OutSlot)]
      /\ in_use' = [in_use EXCEPT ![e] = in_use[e] \cup ({OutSlot} \cap Buffers)]
      /\ handed' = [handed EXCEPT ![e] = handed[e] + n]
      /\ sent' = [sent EXCEPT ![e] = sent[e] + n]
      /\ program' = program /\ pc' = pc /\ returned' = returned
      /\ taking' = taking /\ got' = got /\ state' = state /\ deaths' = deaths
      /\ zero_copy' = zero_copy /\ busy' = busy /\ setup' = setup /\ posted' = posted
      /\ unacked' = unacked /\ cq' = cq /\ armed' = armed /\ events' = events
  BY <1>4 DEF BeginSend, PostsSend, Moves, TakesChunk, MarksBuffer
<1> HIDE DEF n, m
<1>7. /\ sent[e] \in Nat /\ handed[e] \in Nat /\ sent[f] \in Nat
      /\ sent \in [Ends -> Nat] /\ handed \in [Ends -> Nat]
      /\ mem \in [Ends -> [Slots -> Seq(Nat)]] /\ wire \in [Ends -> Seq(Slots)]
      /\ at \in [Ends -> [Ops -> Places]] /\ in_use \in [Ends -> SUBSET Buffers]
      /\ OutSlot \in Slots
  BY <1>1, <1>2, SlotFacts DEF RdmaTypeOK, CallsTypeOK
<1>8. m \in Seq(Nat)
  BY <1>5, <1>7, RunFacts
<1>9. wire'[e] = <<OutSlot>> /\ Len(wire'[e]) = 1 /\ wire'[e][1] = OutSlot
      /\ wire' \in [Ends -> Seq(Slots)] /\ wire'[f] = <<>>
  <2>1. Append(<<>>, OutSlot) = <<OutSlot>>
    OBVIOUS
  <2>2. wire'[e] = <<OutSlot>>
    BY <1>4, <1>6, <1>7, <2>1
  <2>3. <<OutSlot>> \in Seq(Slots) /\ Len(<<OutSlot>>) = 1 /\ <<OutSlot>>[1] = OutSlot
    BY <1>7
  <2>4. QED
    BY <1>1, <1>4, <1>6, <1>7, <2>2, <2>3
<1>10. /\ sent'[e] = sent[e] + n /\ sent'[f] = sent[f] /\ handed'[e] = handed[e] + n
       /\ handed'[f] = handed[f] /\ sent'[e] \in Nat /\ handed'[e] \in Nat
       /\ sent' \in [Ends -> Nat] /\ handed' \in [Ends -> Nat]
       /\ at'[f] = at[f] /\ at'[e]["send"] = "poll" /\ at'[e]["recv"] = at[e]["recv"]
       /\ mem'[f] = mem[f] /\ mem'[e][OutSlot] = m
       /\ mem' \in [Ends -> [Slots -> Seq(Nat)]]
       /\ at' \in [Ends -> [Ops -> Places]] /\ in_use' \in [Ends -> SUBSET Buffers]
       /\ in_use'[f] = in_use[f]
  <2>1. sent[e] + n \in Nat /\ handed[e] + n \in Nat
    BY <1>5, <1>7
  <2>2. in_use' \in [Ends -> SUBSET Buffers] /\ in_use'[f] = in_use[f]
    BY <1>1, <1>6, <1>7
  <2>3. /\ mem'[f] = mem[f] /\ mem'[e][OutSlot] = m
        /\ mem' \in [Ends -> [Slots -> Seq(Nat)]]
    BY <1>1, <1>6, <1>7, <1>8
  <2>4. /\ at'[f] = at[f] /\ at'[e]["send"] = "poll" /\ at'[e]["recv"] = at[e]["recv"]
        /\ at' \in [Ends -> [Ops -> Places]]
    BY <1>1, <1>6, <1>7 DEF Places
  <2>5. /\ sent'[e] = sent[e] + n /\ sent'[f] = sent[f] /\ handed'[e] = handed[e] + n
        /\ handed'[f] = handed[f]
        /\ sent' \in [Ends -> Nat] /\ handed' \in [Ends -> Nat]
    BY <1>1, <1>6, <1>7, <2>1
  <2>6. QED
    BY <2>1, <2>2, <2>3, <2>4, <2>5
<1>11. RdmaTypeOK'
  BY <1>2, <1>6, <1>9, <1>10 DEF RdmaTypeOK, CallsTypeOK
<1>12. TakesTurns' /\ SetupInv'
  BY <1>6 DEF IInv, TakesTurns, SetupInv
<1>13. \A x \in Ends : SendDone(x)' = SendDone(x) /\ Arrived(x)' = Arrived(x) /\ QueueOf(x)'
  BY <1>2, <1>6, SameQueueOf
<1>14. DataOf(e)' /\ Read(e)' = Read(e) /\ DataOf(f)' /\ Read(f)' = Read(f)
  <2>1. sent[e] <= sent'[e] /\ sent[f] <= sent'[f]
    BY <1>5, <1>7, <1>10
  <2>2. QED
    BY <1>1, <1>2, <1>6, <1>7, <1>10, <2>1, SameDataOf
<1>15. CallOf(f)'
  BY <1>1, <1>2, <1>6, <1>10, SameCallOf DEF Open
<1>16. CallOf(e)'
  <2>1. \A op \in Ops : /\ Size(e, op)' = Size(e, op) /\ Upto(e, op)' = Upto(e, op)
                        /\ Size(e, op) \in Nat
    BY <1>2, <1>6, SameSize, SizeFacts DEF Upto
  <2>2. Part(e, "send")' = handed[e] + n /\ Part(e, "recv")' = Part(e, "recv")
    BY <1>6, <1>10 DEF Part
  <2>3. returned'[e] = {} /\ returned[e] = {}
    BY <1>2, <1>6 DEF CallOf
  <2>4. PartsOf(e)'
    BY <1>2, <1>5, <2>1, <2>2, <2>3 DEF PartsOf, CallOf, Ops
  <2>5. Done(e, "send")' = Upto(e, "send")[pc[e]] + (handed[e] + n)
        /\ Done(e, "recv")' = Done(e, "recv")
    BY <1>1, <1>6, <2>1, <2>2, <2>3 DEF Done
  <2>6. sent[e] = Upto(e, "send")[pc[e]] + handed[e] /\ Upto(e, "send")[pc[e]] \in Nat
    BY <1>1, <1>2, Position
  <2>7. Done(e, "send")' = sent[e] + n
    BY <1>5, <1>7, <2>5, <2>6
  <2>8. TotalsOf(e)'
    BY <1>2, <1>6, <1>10, <2>5, <2>7 DEF TotalsOf, CallOf
  <2>9. QED
    BY <1>2, <1>3, <1>6, <1>10, <2>1, <2>3, <2>4, <2>8 DEF CallOf, In, Ops
<1>17. WorkOf(e)'
  <2>1. cq'[e] = <<>> /\ unacked'[e] = 0 /\ ~SendDone(e)' /\ OutSlot' = OutSlot
    BY <1>4, <1>6, <1>13 DEF OutSlot
  <2>2. QED
    BY <1>9, <1>10, <2>1 DEF WorkOf
<1>18. WorkOf(f)'
  <2>1. WorkOf(f) /\ wire'[f] = wire[f] /\ unacked'[f] = unacked[f] /\ cq'[f] = cq[f]
    BY <1>1, <1>2, <1>4, <1>6, <1>9
  <2>2. wire'[f] = <<>>
    BY <1>9
  <2>3. QED
    BY <1>1, <1>10, <1>13, <2>1, <2>2 DEF WorkOf
<1>19. \A x \in Ends : RequestsOf(x)'
  <2>1. RequestsOf(e)'
    BY <1>2, <1>3, <1>6, <1>10, <1>13, SameArrivedRequests
  <2>2. RequestsOf(f)'
    BY <1>1, <1>2, <1>6, <1>10, SameRequestsOf
  <2>3. QED
    BY <2>1, <2>2, OtherFacts
<1>20. ChainOf(e)'
  <2>1. Pending(e)' = Pending(e)
    <3>1. wire'[f] = wire[f] /\ Len(wire[f]) = 0
      BY <1>4, <1>9
    <3>2. \A i \in 1 .. Len(Arrived(e)) :
            mem'[e][InSlot(Arrived(e)[i].id)] = mem[e][InSlot(Arrived(e)[i].id)]
      BY <1>4
    <3>3. Arrived(e)' = Arrived(e) /\ zero_copy' = zero_copy
      BY <1>6, <1>13
    <3>4. QED
      BY <1>2, <3>1, <3>2, <3>3, SamePending
  <2>2. QED
    BY <1>2, <1>6, <1>10, <1>14, <2>1, SameChainOf DEF Open
<1>21. ASSUME Open(f)' PROVE ChainOf(f)'
  <2> DEFINE q == Pending(f)
             p == Pending(f)'
             k == Len(Arrived(f))
  <2>1. Open(f) /\ Chain(q, Read(f), sent[e]) /\ \A i \in 1 .. Len(q) : IsMessage(f, q[i])
    BY <1>1, <1>2, <1>6, <1>21 DEF ChainOf, Open
  <2>2. /\ q \in Seq(Seq(Nat)) /\ Len(q) = k + 0 /\ k \in Nat
        /\ \A i \in 1 .. k : q[i] = mem[f][InSlot(Arrived(f)[i].id)]
    BY <1>1, <1>2, <1>4, PendingFacts, ArrivedFacts
  <2>3. \A id : (IF zero_copy' THEN UserIn ELSE id) = InSlot(id)
    BY <1>6 DEF InSlot
  <2>4. PendingIs(f)' /\ QueueOf(f)' /\ Arrived(f)' = Arrived(f)
    BY <1>1, <1>13, PendingNext
  <2>5. /\ p \in Seq(Seq(Nat)) /\ Len(p) = k + 1
        /\ \A i \in 1 .. k : p[i] = mem'[f][IF zero_copy' THEN UserIn ELSE Arrived(f)[i].id]
        /\ \A i \in (k + 1) .. (k + 1) : p[i] = mem'[e][wire'[e][1]]
    <3> HIDE DEF f
    <3>1. Other(f) = e
      BY <1>1
    <3>2. QED
      BY <1>9, <1>11, <2>4, <3>1 DEF PendingIs, InSlot
  <2>6. \A i \in 1 .. k : p[i] = q[i]
    BY <1>10, <2>2, <2>3, <2>5
  <2>7. p[k + 1] = m
    <3>1. k + 1 \in (k + 1) .. (k + 1)
      BY <2>2
    <3>2. QED
      BY <1>9, <1>10, <2>5, <3>1
  <2>8. /\ \A i \in 1 .. Len(q) : p[i] = q[i] /\ Len(q[i]) > 0
        /\ Len(p) = Len(q) + 1 /\ p[Len(q) + 1] = m /\ Len(q) = k
    BY <2>1, <2>2, <2>5, <2>6, <2>7 DEF IsMessage
  <2>9. Read(f) \in Nat
    BY <1>1, <1>2, Position
  <2>10. Chain(p, Read(f), sent[e] + Len(m))
    BY <1>5, <1>7, <1>8, <2>1, <2>2, <2>5, <2>8, <2>9, ChainAppend
  <2>11. \A i \in 1 .. Len(p) : IsMessage(f, p[i])
    <3> TAKE i \in 1 .. Len(p)
    <3>1. i \in 1 .. k \/ i = k + 1
      BY <2>2, <2>5
    <3>2. QED
      BY <1>5, <2>1, <2>6, <2>7, <2>8, <3>1
  <2>12. \A i \in 1 .. Len(p) : IsMessage(f, Pending(f)[i])'
    BY <1>1, <1>6, <2>11, SameMessages
  <2>13. Chain(p, Read(f)', sent'[e])
    BY <1>5, <1>10, <1>14, <2>10
  <2>14. QED
    BY <1>1, <2>12, <2>13 DEF ChainOf, Chain, Before, Upon
<1>22. ChainOf(f)'
  BY <1>21 DEF ChainOf
<1>23. CauseOf(e)' /\ CauseOf(f)'
  <2>1. state'[e] = "open" /\ state'[f] # "closed"
    BY <1>3, <1>4, <1>6 DEF In, Open
  <2>2. CauseOf(e) /\ CauseOf(f)
    BY <1>1, <1>2
  <2>3. QED
    BY <1>1, <1>6, <1>13, <2>1, <2>2 DEF CauseOf
<1>24. EndInv(e)' /\ EndInv(f)'
  BY <1>1, <1>13, <1>14, <1>15, <1>16, <1>17, <1>18, <1>19, <1>20, <1>22, <1>23 DEF EndInv
<1>25. \A x \in Ends : EndInv(x)'
  BY <1>24, OtherFacts
<1>26. QED
  BY <1>11, <1>12, <1>25 DEF IInv

LEMMA BeginRecvKeeps ==
  ASSUME IInv, NEW e \in Ends, BeginRecv(e)
  PROVE  IInv'
<1> DEFINE f == Other(e)
           r == [slot |-> UserIn, room |-> Size(e, "recv")]
<1>1. f \in Ends /\ f # e /\ Other(f) = e /\ "send" \in Ops /\ "recv" \in Ops
  BY OtherFacts DEF Ops
<1>2. /\ RdmaTypeOK /\ CallsTypeOK
      /\ \A x \in Ends : /\ CallOf(x) /\ DataOf(x) /\ QueueOf(x) /\ WorkOf(x)
                         /\ RequestsOf(x) /\ ChainOf(x) /\ CauseOf(x)
  BY DEF IInv, EndInv, RdmaTypeOK
<1>3. /\ In(e, "recv") /\ at[e]["recv"] = "idle" /\ setup[e] = "connected"
      /\ at' = [at EXCEPT ![e]["recv"] = "poll"]
      /\ program' = program /\ pc' = pc /\ returned' = returned /\ handed' = handed
      /\ sent' = sent /\ taking' = taking /\ got' = got /\ state' = state
      /\ deaths' = deaths /\ zero_copy' = zero_copy /\ busy' = busy /\ setup' = setup
      /\ in_use' = in_use /\ wire' = wire /\ unacked' = unacked /\ cq' = cq
      /\ armed' = armed /\ events' = events
      /\ zero_copy => /\ posted' = [posted EXCEPT ![e] = Append(posted[e], r)]
                      /\ mem' = [mem EXCEPT ![e][UserIn] = Nothing]
      /\ ~zero_copy => posted' = posted /\ mem' = mem
  BY DEF BeginRecv, Moves, calls
<1>4. /\ at \in [Ends -> [Ops -> Places]] /\ mem \in [Ends -> [Slots -> Seq(Nat)]]
      /\ posted \in [Ends -> Seq(Requested)] /\ wire \in [Ends -> Seq(Slots)]
      /\ Size(e, "recv") \in Nat /\ Size(e, "recv") > 0
  BY <1>1, <1>2, <1>3, SizeFacts DEF RdmaTypeOK, In
<1>5. zero_copy => /\ posted[e] = <<>> /\ Len(Arrived(e)) = 0
                   /\ posted'[e] = <<r>> /\ Len(posted'[e]) = 1 /\ posted'[e][1] = r
                   /\ posted'[e] \in Seq(Requested)
  <2> SUFFICES ASSUME zero_copy
               PROVE  /\ posted[e] = <<>> /\ Len(Arrived(e)) = 0
                      /\ posted'[e] = <<r>> /\ Len(posted'[e]) = 1 /\ posted'[e][1] = r
                      /\ posted'[e] \in Seq(Requested)
    OBVIOUS
  <2>1. Len(posted[e]) + Len(Arrived(e)) = 0
    BY <1>2, <1>3 DEF RequestsOf, ZeroCopyOf
  <2>2. Len(posted[e]) \in Nat /\ Len(Arrived(e)) \in Nat
    BY <1>2, <1>4, ArrivedFacts
  <2>3. Len(posted[e]) = 0 /\ Len(Arrived(e)) = 0
    BY <2>1, <2>2
  <2>4. posted[e] = <<>>
    BY <1>4, <2>3, EmptySeq
  <2>5. r \in Requested
    BY <1>4, SlotFacts DEF Requested
  <2> HIDE DEF r
  <2>6. posted'[e] = Append(<<>>, r)
    BY <1>3, <1>4, <2>4
  <2>7. posted'[e] = <<r>>
    BY <2>6
  <2>8. <<r>> \in Seq(Requested) /\ Len(<<r>>) = 1 /\ <<r>>[1] = r
    BY <2>5
  <2>9. QED
    BY <2>3, <2>4, <2>7, <2>8
<1>6. /\ at' \in [Ends -> [Ops -> Places]] /\ at'[f] = at[f]
      /\ at'[e]["send"] = at[e]["send"] /\ at'[e]["recv"] = "poll"
  BY <1>1, <1>3, <1>4 DEF Places
<1>7. /\ posted' \in [Ends -> Seq(Requested)] /\ posted'[f] = posted[f]
      /\ mem' \in [Ends -> [Slots -> Seq(Nat)]] /\ mem'[f] = mem[f]
      /\ \A s \in Slots : (zero_copy /\ s = UserIn) \/ mem'[e][s] = mem[e][s]
  <2>1. CASE zero_copy
    <3>1. posted' \in [Ends -> Seq(Requested)] /\ posted'[f] = posted[f]
      BY <1>1, <1>3, <1>4, <1>5, <2>1
    <3>2. Nothing \in Seq(Nat)
      BY EmptySeq DEF Nothing
    <3>3. /\ mem' \in [Ends -> [Slots -> Seq(Nat)]] /\ mem'[f] = mem[f]
          /\ \A s \in Slots : s = UserIn \/ mem'[e][s] = mem[e][s]
      <4>1. mem' = [mem EXCEPT ![e] = [mem[e] EXCEPT ![UserIn] = Nothing]]
        BY <1>3, <1>4, <2>1
      <4>2. mem[e] \in [Slots -> Seq(Nat)] /\ UserIn \in Slots
        BY <1>4, SlotFacts
      <4> HIDE DEF Nothing
      <4>3. [mem[e] EXCEPT ![UserIn] = Nothing] \in [Slots -> Seq(Nat)]
        BY <3>2, <4>2
      <4>4. mem' \in [Ends -> [Slots -> Seq(Nat)]] /\ mem'[f] = mem[f]
        BY <1>1, <1>4, <4>1, <4>3
      <4>5. \A s \in Slots : s = UserIn \/ mem'[e][s] = mem[e][s]
        BY <1>4, <4>1, <4>2
      <4>6. QED
        BY <4>4, <4>5
    <3>4. QED
      BY <2>1, <3>1, <3>3
  <2>2. CASE ~zero_copy
    BY <1>3, <1>4, <2>2
  <2>3. QED
    BY <2>1, <2>2
<1> HIDE DEF r
<1>8. RdmaTypeOK'
  BY <1>2, <1>3, <1>6, <1>7 DEF RdmaTypeOK, CallsTypeOK
<1>9. TakesTurns' /\ SetupInv'
  BY <1>3 DEF IInv, TakesTurns, SetupInv
<1>10. \A x \in Ends : SendDone(x)' = SendDone(x) /\ Arrived(x)' = Arrived(x) /\ QueueOf(x)'
  BY <1>2, <1>3, SameQueueOf
<1>11. \A x \in Ends : DataOf(x)' /\ Read(x)' = Read(x)
  <2>1. \A x \in Ends : sent[Other(x)] \in Nat
    BY <1>2, OtherFacts DEF CallsTypeOK
  <2>2. QED
    BY <1>2, <1>3, <2>1, SameDataOf
<1>12. CallOf(f)'
  BY <1>1, <1>2, <1>3, <1>6, SameCallOf DEF Open
<1>13. CallOf(e)'
  <2>1. \A op \in Ops : Size(e, op)' = Size(e, op)
    BY <1>3, SameSize
  <2>2. PartsOf(e)' /\ TotalsOf(e)'
    BY <1>2, <1>3, SameCalls DEF CallOf
  <2>3. QED
    BY <1>2, <1>3, <1>4, <1>6, <2>1, <2>2 DEF CallOf, Open, Ops
<1>14. WorkOf(e)' /\ WorkOf(f)'
  BY <1>1, <1>2, <1>3, <1>6, SameWorkOf
<1>15. RequestsOf(f)'
  BY <1>1, <1>2, <1>3, <1>6, <1>7, SameRequestsOf
<1>16. RequestsOf(e)'
  <2>1. CASE zero_copy
    <3>1. Size(e, "recv")' = Size(e, "recv") /\ Len(Arrived(e)') = 0 /\ Len(posted'[e]) = 1
      BY <1>1, <1>3, <1>5, <1>10, <2>1, SameSize
    <3>2. \A i \in 1 .. 1 : posted'[e][i] = [slot |-> UserIn, room |-> Size(e, "recv")']
      BY <1>5, <2>1, <3>1 DEF r
    <3>3. ZeroCopyOf(e)'
      BY <1>6, <3>1, <3>2 DEF ZeroCopyOf
    <3>4. QED
      BY <1>3, <2>1, <3>3 DEF RequestsOf
  <2>2. CASE ~zero_copy
    <3>1. PoolOf(e)'
      BY <1>2, <1>3, <1>10, <2>2 DEF RequestsOf, PoolOf, Whole
    <3>2. QED
      BY <1>3, <2>2, <3>1 DEF RequestsOf
  <2>3. QED
    BY <2>1, <2>2
<1>17. ChainOf(e)'
  <2>1. wire'[f] = wire[f] /\ mem'[f] = mem[f] /\ Arrived(e)' = Arrived(e)
        /\ zero_copy' = zero_copy
    BY <1>3, <1>7, <1>10
  <2>2. \A i \in 1 .. Len(Arrived(e)) :
          mem'[e][InSlot(Arrived(e)[i].id)] = mem[e][InSlot(Arrived(e)[i].id)]
    <3>1. CASE zero_copy
      <4>1. Len(Arrived(e)) = 0
        BY <1>5, <3>1
      <4>2. QED
        BY <4>1
    <3>2. CASE ~zero_copy
      BY <1>3, <3>2
    <3>3. QED
      BY <3>1, <3>2
  <2>3. Pending(e)' = Pending(e)
    BY <1>2, <2>1, <2>2, SamePending
  <2>4. QED
    BY <1>2, <1>3, <1>11, <2>3, SameChainOf DEF Open
<1>18. ChainOf(f)'
  <2>1. wire'[e] = wire[e] /\ mem'[f] = mem[f] /\ Arrived(f)' = Arrived(f)
        /\ zero_copy' = zero_copy
    BY <1>1, <1>3, <1>7, <1>10
  <2>2. Len(wire[e]) > 0 => mem'[e][wire[e][1]] = mem[e][wire[e][1]]
    <3>1. SUFFICES ASSUME Len(wire[e]) > 0 PROVE mem'[e][wire[e][1]] = mem[e][wire[e][1]]
      OBVIOUS
    <3>2. wire[e] # <<>>
      BY <3>1, EmptySeq
    <3>3. wire[e][1] = OutSlot
      BY <1>2, <3>2, Working
    <3>4. QED
      BY <1>7, <3>3, SlotFacts
  <2>3. Pending(f)' = Pending(f)
    BY <1>1, <1>2, <2>1, <2>2, SamePending
  <2>4. QED
    BY <1>1, <1>2, <1>3, <1>11, <2>3, SameChainOf DEF Open
<1>19. CauseOf(e)' /\ CauseOf(f)'
  BY <1>1, <1>2, <1>3, SameCauseOf
<1>20. EndInv(e)' /\ EndInv(f)'
  BY <1>1, <1>10, <1>11, <1>12, <1>13, <1>14, <1>15, <1>16, <1>17, <1>18, <1>19 DEF EndInv
<1>21. \A x \in Ends : EndInv(x)'
  BY <1>20, OtherFacts
<1>22. QED
  BY <1>8, <1>9, <1>21 DEF IInv

(* A Send that polls takes the completion of its own work request ...       *)
LEMMA OwnSend ==
  ASSUME IInv, NEW e \in Ends, Polling(e, "send")
  PROVE  /\ SendDone(e) /\ Head(cq[e]) = cq[e][1] /\ Head(cq[e]).op = "send"
         /\ Len(wire[e]) = 0 /\ wire[e] = <<>> /\ unacked[e] = 0
         /\ at[e]["recv"] = "idle" /\ Size(e, "recv") = 0 /\ setup[e] = "connected"
<1>1. /\ RdmaTypeOK /\ CallsTypeOK /\ TakesTurns /\ CallOf(e) /\ QueueOf(e) /\ WorkOf(e)
      /\ RequestsOf(e) /\ "send" \in Ops /\ "recv" \in Ops
  BY DEF IInv, EndInv, RdmaTypeOK, Ops
<1>2. Size(e, "send") > 0 /\ at[e]["send"] # "idle" /\ cq[e] # <<>>
  BY DEF Polling, In
<1>3. wire[e] = <<>> /\ ~(unacked[e] > 0)
  BY <1>1, <1>2 DEF WorkOf
<1>4. Len(wire[e]) = 0 /\ unacked[e] = 0
  BY <1>1, <1>3, EmptySeq DEF RdmaTypeOK
<1>5. SendDone(e)
  BY <1>1, <1>2, <1>4 DEF WorkOf
<1>6. Size(e, "recv") = 0
  BY <1>1, <1>2, OneCall
<1>7. at[e]["recv"] = "idle"
  BY <1>1, <1>6 DEF CallOf
<1>8. cq[e] \in Seq(Completions)
  BY <1>1 DEF RdmaTypeOK
<1>9. Head(cq[e]) = cq[e][1]
  BY <1>2, <1>8
<1>10. setup[e] = "connected"
  BY <1>1, <1>2 DEF RequestsOf
<1>11. QED
  BY <1>3, <1>4, <1>5, <1>6, <1>7, <1>9, <1>10 DEF SendDone

(* ... and a Recv that of a message that has arrived.                       *)
LEMMA OwnRecv ==
  ASSUME IInv, NEW e \in Ends, Polling(e, "recv")
  PROVE  /\ ~SendDone(e) /\ Arrived(e) = cq[e] /\ Head(cq[e]) = Arrived(e)[1]
         /\ Len(Arrived(e)) \in Nat \ {0} /\ Head(cq[e]).op = "recv"
         /\ Head(cq[e]).ok /\ Head(cq[e]).id \in Buffers
         /\ at[e]["send"] = "idle" /\ Size(e, "send") = 0 /\ Size(e, "recv") > 0
         /\ setup[e] = "connected" /\ wire[e] = <<>> /\ Len(wire[e]) = 0 /\ unacked[e] = 0
<1>1. /\ RdmaTypeOK /\ CallsTypeOK /\ TakesTurns /\ CallOf(e) /\ QueueOf(e) /\ WorkOf(e)
      /\ RequestsOf(e) /\ "send" \in Ops /\ "recv" \in Ops
  BY DEF IInv, EndInv, RdmaTypeOK, Ops
<1>2. Size(e, "recv") > 0 /\ at[e]["recv"] # "idle" /\ cq[e] # <<>>
  BY DEF Polling, In
<1>3. Size(e, "send") = 0
  BY <1>1, <1>2, OneCall
<1>4. at[e]["send"] = "idle"
  BY <1>1, <1>3 DEF CallOf
<1>5. wire[e] = <<>> /\ ~(unacked[e] > 0)
  BY <1>1, <1>2 DEF WorkOf
<1>6. Len(wire[e]) = 0 /\ unacked[e] = 0
  BY <1>1, <1>5, EmptySeq DEF RdmaTypeOK
<1>7. ~SendDone(e)
  BY <1>1, <1>4, <1>6 DEF WorkOf
<1>8. cq[e] \in Seq(Completions) /\ Len(cq[e]) \in Nat \ {0} /\ Head(cq[e]) = cq[e][1]
  BY <1>1, <1>2, EmptySeq DEF RdmaTypeOK
<1>9. Arrived(e) = cq[e]
  BY <1>7 DEF Arrived
<1>10. 1 \in 1 .. Len(Arrived(e))
  BY <1>8, <1>9
<1>11. Head(cq[e]).op = "recv" /\ Head(cq[e]).ok /\ Head(cq[e]).id \in Buffers
  BY <1>1, <1>8, <1>9, <1>10 DEF QueueOf
<1>12. setup[e] = "connected"
  BY <1>1, <1>2 DEF RequestsOf
<1>13. QED
  BY <1>2, <1>3, <1>4, <1>5, <1>6, <1>7, <1>8, <1>9, <1>11, <1>12

(* What a Send that polls leaves, however its call ends.                    *)
LEMMA SendPolled ==
  ASSUME IInv, NEW e \in Ends, Polls(e, "send"), in_use' = [in_use EXCEPT ![e] = {}],
         UNCHANGED <<taking, got, deaths, mem, posted>>,
         pc' \in [Ends -> Nat], \A x \in Ends : pc'[x] <= Len(program[x]),
         returned' \in [Ends -> SUBSET Ops], handed' \in [Ends -> Nat],
         \A x \in Ends : x # e => /\ pc'[x] = pc[x] /\ returned'[x] = returned[x]
                                  /\ handed'[x] = handed[x] /\ state'[x] = state[x],
         state' \in [Ends -> {"open", "closed", "failed", "dead"}],
         state'[e] \in {"open", "failed"},
         CallOf(e)', deaths = 0 => state'[e] = "open"
  PROVE  IInv'
<1> DEFINE f == Other(e)
<1>1. f \in Ends /\ f # e /\ Other(f) = e /\ "send" \in Ops /\ "recv" \in Ops
  BY OtherFacts DEF Ops
<1>2. /\ RdmaTypeOK /\ CallsTypeOK
      /\ \A x \in Ends : /\ CallOf(x) /\ DataOf(x) /\ QueueOf(x) /\ WorkOf(x)
                         /\ RequestsOf(x) /\ ChainOf(x) /\ CauseOf(x)
  BY DEF IInv, EndInv, RdmaTypeOK
<1>3. /\ Polling(e, "send") /\ Open(e) /\ cq[e] # <<>>
      /\ cq' = [cq EXCEPT ![e] = Tail(cq[e])]
      /\ at' = [at EXCEPT ![e]["send"] = "idle"]
      /\ program' = program /\ sent' = sent /\ taking' = taking /\ got' = got
      /\ deaths' = deaths /\ zero_copy' = zero_copy /\ busy' = busy /\ setup' = setup
      /\ mem' = mem /\ posted' = posted /\ wire' = wire /\ unacked' = unacked
      /\ armed' = armed /\ events' = events
  BY DEF Polls, Polling, In
<1>4. /\ SendDone(e) /\ Len(wire[e]) = 0 /\ wire[e] = <<>> /\ unacked[e] = 0
      /\ at[e]["recv"] = "idle" /\ setup[e] = "connected"
  BY <1>3, OwnSend
<1>5. /\ at \in [Ends -> [Ops -> Places]] /\ in_use \in [Ends -> SUBSET Buffers]
      /\ cq \in [Ends -> Seq(Completions)] /\ posted[e] \in Seq(Requested)
  BY <1>2 DEF RdmaTypeOK
<1>6. /\ cq' \in [Ends -> Seq(Completions)] /\ cq'[e] = Tail(cq[e]) /\ cq'[f] = cq[f]
      /\ at' \in [Ends -> [Ops -> Places]] /\ at'[f] = at[f]
      /\ at'[e]["send"] = "idle" /\ at'[e]["recv"] = "idle"
      /\ in_use' \in [Ends -> SUBSET Buffers] /\ in_use'[e] = {} /\ in_use'[f] = in_use[f]
  <2>1. Tail(cq[e]) \in Seq(Completions)
    BY <1>3, <1>5, HeadTailProperties
  <2>2. cq' \in [Ends -> Seq(Completions)] /\ cq'[e] = Tail(cq[e]) /\ cq'[f] = cq[f]
    BY <1>1, <1>3, <1>5, <2>1
  <2>3. /\ at' \in [Ends -> [Ops -> Places]] /\ at'[f] = at[f]
        /\ at'[e]["send"] = "idle" /\ at'[e]["recv"] = "idle"
    BY <1>1, <1>3, <1>4, <1>5 DEF Places
  <2>4. in_use' \in [Ends -> SUBSET Buffers] /\ in_use'[e] = {} /\ in_use'[f] = in_use[f]
    BY <1>1, <1>5
  <2>5. QED
    BY <2>2, <2>3, <2>4
<1>7. RdmaTypeOK'
  BY <1>2, <1>3, <1>6 DEF RdmaTypeOK, CallsTypeOK
<1>8. TakesTurns' /\ SetupInv'
  BY <1>3 DEF IInv, TakesTurns, SetupInv
<1>9. ~SendDone(e)' /\ Arrived(e)' = Arrived(e)
  BY <1>2, <1>3, <1>4, <1>6, ArrivedPolled
<1>10. SendDone(f)' = SendDone(f) /\ Arrived(f)' = Arrived(f) /\ QueueOf(f)'
  BY <1>1, <1>2, <1>6, SameQueueOf
<1>11. QueueOf(e)'
  BY <1>2, <1>9 DEF QueueOf
<1>12. \A x \in Ends : DataOf(x)' /\ Read(x)' = Read(x)
  <2>1. \A x \in Ends : sent[Other(x)] \in Nat
    BY <1>2, OtherFacts DEF CallsTypeOK
  <2>2. QED
    BY <1>2, <1>3, <2>1, SameDataOf
<1>13. CallOf(f)'
  BY <1>1, <1>2, <1>3, <1>6, SameCallOf DEF Open
<1>14. WorkOf(e)'
  BY <1>3, <1>4, <1>6, <1>9 DEF WorkOf
<1>15. WorkOf(f)'
  BY <1>1, <1>2, <1>3, <1>6, SameWorkOf
<1>16. RequestsOf(f)'
  BY <1>1, <1>2, <1>3, <1>6, SameRequestsOf
<1>17. RequestsOf(e)'
  <2>1. CASE zero_copy
    <3>1. Len(posted[e]) + Len(Arrived(e)) = 0
      BY <1>2, <1>4, <2>1 DEF RequestsOf, ZeroCopyOf
    <3>2. Len(posted[e]) \in Nat /\ Len(Arrived(e)) \in Nat
      BY <1>2, <1>5, ArrivedFacts
    <3>3. Len(posted'[e]) = 0 /\ Len(Arrived(e)') = 0
      BY <1>3, <1>9, <3>1, <3>2
    <3>4. ZeroCopyOf(e)'
      BY <1>6, <3>3 DEF ZeroCopyOf
    <3>5. QED
      BY <1>3, <1>4, <2>1, <3>4 DEF RequestsOf
  <2>2. CASE ~zero_copy
    <3>1. PoolOf(e)
      BY <1>2, <1>4, <2>2 DEF RequestsOf
    <3>2. PoolOf(e)'
      BY <1>3, <1>9, <3>1, SamePoolOf
    <3>3. QED
      BY <1>3, <1>4, <2>2, <3>2 DEF RequestsOf
  <2>3. QED
    BY <2>1, <2>2
<1>18. \A x \in Ends : ChainOf(x)'
  <2> TAKE x \in Ends
  <2>1. Arrived(x)' = Arrived(x)
    BY <1>1, <1>9, <1>10, OtherFacts
  <2>2. Pending(x)' = Pending(x)
    BY <1>2, <1>3, <2>1, SamePending
  <2>3. Open(x)' => Open(x)
    BY <1>3 DEF Open
  <2>4. QED
    BY <1>2, <1>3, <1>12, <2>2, <2>3, SameChainOf
<1>19. CauseOf(e)'
  BY <1>3, <1>9 DEF CauseOf
<1>20. CauseOf(f)'
  BY <1>1, <1>2, <1>3, <1>6, SameCauseOf
<1>21. EndInv(e)' /\ EndInv(f)'
  BY <1>1, <1>10, <1>11, <1>12, <1>13, <1>14, <1>15, <1>16, <1>17, <1>18, <1>19, <1>20
     DEF EndInv
<1>22. \A x \in Ends : EndInv(x)'
  BY <1>21, OtherFacts
<1>23. QED
  BY <1>7, <1>8, <1>22 DEF IInv

(* Only a death makes it fail.                                              *)
LEMMA FailSendKeeps ==
  ASSUME IInv, NEW e \in Ends, FailSend(e)
  PROVE  IInv'
<1>1. /\ Polls(e, "send") /\ Polling(e, "send") /\ ~Head(cq[e]).ok
      /\ in_use' = [in_use EXCEPT ![e] = {}] /\ state' = [state EXCEPT ![e] = "failed"]
      /\ pc' = pc /\ returned' = returned /\ handed' = handed /\ sent' = sent
      /\ program' = program
      /\ UNCHANGED <<taking, got, deaths, mem, posted>>
      /\ at' = [at EXCEPT ![e]["send"] = "idle"]
  BY DEF FailSend, Polls, Polled
<1>2. CallsTypeOK /\ CallOf(e) /\ CauseOf(e) /\ at \in [Ends -> [Ops -> Places]]
  BY DEF IInv, EndInv, RdmaTypeOK
<1>3. deaths # 0
  BY <1>1, <1>2, OwnSend DEF CauseOf
<1>4. /\ state' \in [Ends -> {"open", "closed", "failed", "dead"}] /\ state'[e] = "failed"
      /\ \A x \in Ends : x # e => state'[x] = state[x]
  BY <1>1, <1>2 DEF CallsTypeOK
<1>5. CallOf(e)'
  <2>1. ~Open(e)'
    BY <1>4 DEF Open
  <2>2. \A op \in Ops : at'[e][op] # "idle" => at[e][op] # "idle"
    BY <1>1, <1>2
  <2>3. QED
    BY <1>1, <1>2, <2>1, <2>2, SameCallOf
<1>6. /\ pc' \in [Ends -> Nat] /\ \A x \in Ends : pc'[x] <= Len(program[x])
      /\ returned' \in [Ends -> SUBSET Ops] /\ handed' \in [Ends -> Nat]
  BY <1>1, <1>2 DEF CallsTypeOK
<1>7. QED
  BY <1>1, <1>3, <1>4, <1>5, <1>6, SendPolled

(* A step of one call is done when the call returns.                        *)
LEMMA ReturnsAlone ==
  ASSUME CallsTypeOK, TakesTurns, NEW e \in Ends, CallOf(e), NEW op \in Ops,
         In(e, op), Returns(e, op)
  PROVE  /\ pc' = [pc EXCEPT ![e] = pc[e] + 1]
         /\ returned' = [returned EXCEPT ![e] = {}]
<1>1. Size(e, op) > 0 /\ \A o \in Ops : o # op => Size(e, o) = 0
  BY OneCall DEF In, Ops
<1>2. {o \in Ops : Size(e, o) > 0} = {op}
  BY <1>1
<1>3. returned[e] = {}
  BY DEF CallOf
<1>4. {o \in Ops : Size(e, o) > 0} = returned[e] \cup {op}
  BY <1>2, <1>3
<1>5. QED
  BY <1>4 DEF Returns

LEMMA EndSendKeeps ==
  ASSUME IInv, NEW e \in Ends, EndSend(e)
  PROVE  IInv'
<1>1. /\ Polls(e, "send") /\ Polling(e, "send") /\ In(e, "send") /\ Open(e)
      /\ in_use' = [in_use EXCEPT ![e] = {}]
      /\ \/ /\ Left(e, "send") = 0 /\ Returns(e, "send")
            /\ handed' = [handed EXCEPT ![e] = 0]
         \/ /\ Left(e, "send") > 0 /\ pc' = pc /\ returned' = returned /\ handed' = handed
      /\ program' = program /\ sent' = sent /\ taking' = taking /\ got' = got
      /\ state' = state
      /\ UNCHANGED <<taking, got, deaths, mem, posted>>
      /\ at' = [at EXCEPT ![e]["send"] = "idle"]
  BY DEF EndSend, Polls, Polling, In
<1>2. /\ CallsTypeOK /\ TakesTurns /\ CallOf(e) /\ at \in [Ends -> [Ops -> Places]]
      /\ "send" \in Ops /\ "recv" \in Ops /\ handed \in [Ends -> Nat]
      /\ state \in [Ends -> {"open", "closed", "failed", "dead"}]
  BY DEF IInv, EndInv, RdmaTypeOK, CallsTypeOK, Ops
<1>3. at[e]["recv"] = "idle" /\ Size(e, "recv") = 0
  BY <1>1, OwnSend
<1>4. \A op \in Ops : at'[e][op] = "idle"
  BY <1>1, <1>2, <1>3 DEF Ops
<1>5. /\ Left(e, "send") = Size(e, "send") - handed[e]
      /\ handed[e] \in Nat /\ Size(e, "send") \in Nat /\ handed[e] <= Size(e, "send")
      /\ Size(e, "send") > 0 /\ Len(taking[e]) = 0
      /\ sent[e] = Upto(e, "send")[pc[e]] + handed[e]
      /\ Upto(e, "send")[pc[e]] \in Nat
  <2>1. Len(taking[e]) \in Nat /\ Len(taking[e]) <= 0
    BY <1>2, <1>3, Position
  <2>2. Len(taking[e]) = 0
    BY <2>1
  <2>3. QED
    BY <1>1, <1>2, <2>2, Position DEF Left, In
<1>6. CASE Left(e, "send") > 0 /\ pc' = pc /\ returned' = returned /\ handed' = handed
  <2>1. /\ pc' \in [Ends -> Nat] /\ \A x \in Ends : pc'[x] <= Len(program[x])
        /\ returned' \in [Ends -> SUBSET Ops] /\ handed' \in [Ends -> Nat]
    BY <1>2, <1>6 DEF CallsTypeOK
  <2>2. handed[e] < Size(e, "send")
    BY <1>5, <1>6
  <2>3. \A op \in Ops : Size(e, op)' = Size(e, op)
    BY <1>1, <1>6, SameSize
  <2>4. PartsOf(e)' /\ TotalsOf(e)'
    BY <1>1, <1>2, <1>6, SameCalls DEF CallOf
  <2>5. CallOf(e)'
    BY <1>1, <1>2, <1>4, <1>6, <2>2, <2>3, <2>4 DEF CallOf
  <2>6. QED
    BY <1>1, <1>2, <1>6, <2>1, <2>5, SendPolled DEF Open
<1>7. CASE /\ Left(e, "send") = 0 /\ Returns(e, "send")
           /\ handed' = [handed EXCEPT ![e] = 0]
  <2>1. /\ pc' = [pc EXCEPT ![e] = pc[e] + 1] /\ returned' = [returned EXCEPT ![e] = {}]
    BY <1>1, <1>2, <1>7, ReturnsAlone
  <2>2. /\ pc' \in [Ends -> Nat] /\ returned' \in [Ends -> SUBSET Ops]
        /\ \A x \in Ends : pc'[x] <= Len(program[x])
        /\ \A x \in Ends : x # e => pc'[x] = pc[x] /\ returned'[x] = returned[x]
    BY <1>1, <1>2, <1>7, ReturnsFacts
  <2>3. /\ handed' \in [Ends -> Nat] /\ handed'[e] = 0 /\ returned'[e] = {}
        /\ \A x \in Ends : x # e => handed'[x] = handed[x]
    BY <1>2, <1>7, <2>1 DEF CallsTypeOK
  <2>4. Part(e, "send")' = 0 /\ \A o \in Ops : o # "send" => Part(e, o)' = Part(e, o)
    BY <1>1, <2>3 DEF Part
  <2>5. /\ PartsOf(e)' /\ Done(e, "send")' = Upto(e, "send")[pc[e]] + Size(e, "send")
        /\ Done(e, "recv")' = Done(e, "recv")
    BY <1>1, <1>2, <1>7, <2>4, ReturnsDone DEF CallOf
  <2>6. TotalsOf(e)'
    <3>1. handed[e] = Size(e, "send")
      BY <1>5, <1>7
    <3>2. Done(e, "send")' = sent'[e]
      BY <1>1, <1>5, <2>5, <3>1
    <3>3. QED
      BY <1>1, <1>2, <2>5, <3>2 DEF TotalsOf, CallOf
  <2>7. CallOf(e)'
    <3>1. Len(taking'[e]) = 0 /\ handed'[e] = 0
      BY <1>1, <1>5, <2>3
    <3>2. QED
      BY <1>4, <2>3, <2>5, <2>6, <3>1 DEF CallOf
  <2>8. QED
    BY <1>1, <1>2, <2>2, <2>3, <2>7, SendPolled DEF Open
<1>8. QED
  BY <1>1, <1>6, <1>7

(* The message a Recv takes is the first of those on their way, cut as the  *)
(* Recv expects: no Recv fails on a completion.                             *)
LEMMA Taken ==
  ASSUME IInv, NEW e \in Ends, Polling(e, "recv")
  PROVE  /\ Found(e) = Pending(e)[1] /\ Found(e) \in Seq(Nat)
         /\ Len(Pending(e)) \in Nat /\ Len(Pending(e)) > 0
         /\ Chain(Pending(e), Read(e), sent[Other(e)])
         /\ Found(e) = Run(Read(e), Chunk(e, "recv"))
         /\ Len(Found(e)) = Chunk(e, "recv") /\ Chunk(e, "recv") \in Nat
         /\ Chunk(e, "recv") > 0 /\ Chunk(e, "recv") <= Left(e, "recv")
         /\ zero_copy => Chunk(e, "recv") = Left(e, "recv")
         /\ AsExpected(e)
<1> DEFINE m == Found(e)
<1>1. /\ RdmaTypeOK /\ CallsTypeOK /\ CallOf(e) /\ QueueOf(e) /\ ChainOf(e) /\ Open(e)
      /\ Other(e) \in Ends
  BY OtherFacts DEF IInv, EndInv, RdmaTypeOK, Polling, In
<1>2. /\ Head(cq[e]) = Arrived(e)[1] /\ Len(Arrived(e)) \in Nat \ {0}
      /\ Head(cq[e]).ok /\ Head(cq[e]).id \in Buffers /\ Size(e, "recv") > 0
  BY OwnRecv
<1>3. 1 \in 1 .. Len(Arrived(e)) /\ Len(wire[Other(e)]) \in Nat
  BY <1>1, <1>2 DEF RdmaTypeOK
<1>4. /\ Pending(e) \in Seq(Seq(Nat))
      /\ Len(Pending(e)) = Len(Arrived(e)) + Len(wire[Other(e)])
      /\ Pending(e)[1] = mem[e][InSlot(Arrived(e)[1].id)]
  BY <1>1, <1>3, PendingFacts
<1>5. m = Pending(e)[1]
  BY <1>2, <1>4 DEF Found, Polled, InSlot
<1>6. Len(Pending(e)) \in Nat /\ Len(Pending(e)) > 0
  BY ONLY <1>2, <1>3, <1>4
<1>7. 1 \in 1 .. Len(Pending(e))
  BY <1>6
<1>8. /\ Chain(Pending(e), Read(e), sent[Other(e)]) /\ m \in Seq(Nat)
      /\ IsMessage(e, m) /\ Before(m) = Read(e)
  <2>1. Chain(Pending(e), Read(e), sent[Other(e)]) /\ IsMessage(e, Pending(e)[1])
    BY <1>1, <1>7 DEF ChainOf
  <2>2. Before(Pending(e)[1]) = Read(e)
    BY <1>6, <2>1 DEF Chain
  <2>3. Pending(e)[1] \in Seq(Nat)
    BY <1>4, <1>7, ElementOfSeq
  <2>4. QED
    BY <1>5, <2>1, <2>2, <2>3
<1>9. /\ m = Run(Read(e), Chunk(e, "recv")) /\ Len(m) = Chunk(e, "recv")
      /\ Len(m) <= Left(e, "recv") /\ (zero_copy => Len(m) = Left(e, "recv"))
  BY <1>1, <1>2, <1>8, FitsRecv
<1>10. Len(m) \in Nat /\ Len(m) > 0
  BY <1>8 DEF IsMessage
<1>11. AsExpected(e)
  BY <1>2, <1>9 DEF AsExpected, Polled
<1>12. QED
  BY <1>5, <1>6, <1>8, <1>9, <1>10, <1>11

(* What its bytes make of the call.                                         *)
LEMMA RecvReads ==
  ASSUME IInv, NEW e \in Ends, Polling(e, "recv"), Reads(e, Found(e)),
         program' = program, handed' = handed, sent' = sent, state' = state,
         at' = [at EXCEPT ![e]["recv"] = "idle"]
  PROVE  /\ pc' \in [Ends -> Nat] /\ \A x \in Ends : pc'[x] <= Len(program[x])
         /\ returned' \in [Ends -> SUBSET Ops]
         /\ taking' \in [Ends -> Seq(Nat)] /\ got' \in [Ends -> Seq(Nat)]
         /\ \A x \in Ends : x # e => /\ pc'[x] = pc[x] /\ returned'[x] = returned[x]
                                     /\ taking'[x] = taking[x] /\ got'[x] = got[x]
         /\ Read(e)' = Read(e) + Chunk(e, "recv") /\ DataOf(e)' /\ CallOf(e)'
         /\ \/ pc' = pc /\ returned' = returned /\ got' = got
            \/ /\ Returns(e, "recv")
               /\ got' = [got EXCEPT ![e] = @ \o Run(Len(got[e]), Size(e, "recv"))]
               /\ Len(got[e]) + Size(e, "recv") <= sent[Other(e)]
<1> DEFINE n == Chunk(e, "recv")
           k == Len(got[e])
           t == Len(taking[e])
           r == Size(e, "recv")
           all == taking[e] \o Found(e)
<1>1. /\ CallsTypeOK /\ TakesTurns /\ CallOf(e) /\ DataOf(e) /\ at \in [Ends -> [Ops -> Places]]
      /\ "send" \in Ops /\ "recv" \in Ops /\ In(e, "recv") /\ Other(e) \in Ends
  BY OtherFacts DEF IInv, EndInv, RdmaTypeOK, CallsTypeOK, Ops, Polling
<1>2. /\ at[e]["send"] = "idle" /\ Size(e, "send") = 0 /\ r > 0
  BY OwnRecv
<1>3. \A op \in Ops : at'[e][op] = "idle"
  BY <1>1, <1>2 DEF Ops
<1>4. /\ Found(e) = Run(Read(e), n) /\ n \in Nat /\ n > 0 /\ n <= Left(e, "recv")
      /\ Len(Pending(e)) > 0 /\ Found(e) = Pending(e)[1] /\ Len(Pending(e)) \in Nat
      /\ Chain(Pending(e), Read(e), sent[Other(e)])
  BY Taken
<1>5. /\ k \in Nat /\ t \in Nat /\ r \in Nat /\ Read(e) = k + t
      /\ Upto(e, "recv")[pc[e]] = k /\ handed[e] \in Nat /\ Read(e) \in Nat
      /\ Left(e, "recv") = r - t /\ sent[Other(e)] \in Nat
  <2>1. /\ k \in Nat /\ t \in Nat /\ r \in Nat /\ Upto(e, "recv")[pc[e]] \in Nat
        /\ Read(e) = Upto(e, "recv")[pc[e]] + t /\ handed[e] \in Nat /\ Read(e) \in Nat
    BY <1>1, Position
  <2>2. Read(e) = k + t /\ Left(e, "recv") = r - t
    BY DEF Read, Left
  <2>3. sent[Other(e)] \in Nat
    BY <1>1 DEF CallsTypeOK
  <2>4. Upto(e, "recv")[pc[e]] = k
    <3> DEFINE u == Upto(e, "recv")[pc[e]]
    <3>1. u \in Nat /\ k \in Nat /\ t \in Nat /\ u + t = k + t
      BY <2>1, <2>2
    <3> HIDE DEF u, k, t
    <3>2. u = k
      BY <3>1
    <3>3. QED
      BY <3>2 DEF u
  <2>5. QED
    BY <2>1, <2>2, <2>3, <2>4
<1>6. Read(e) + n <= sent[Other(e)]
  <2>1. 1 \in 1 .. Len(Pending(e))
    BY <1>4
  <2>2. Upon(Pending(e)[1]) <= sent[Other(e)]
    BY <1>4, <2>1 DEF Chain
  <2>3. Upon(Found(e)) = Read(e) + n
    BY <1>4, <1>5, RunBounds
  <2>4. QED
    BY <1>4, <2>2, <2>3
<1> HIDE DEF n, k, t, r
<1>7. all = Run(k, t + n) /\ all \in Seq(Nat) /\ Len(all) = t + n
  <2>1. taking[e] = Run(k, t)
    BY <1>1 DEF DataOf, k, t
  <2>2. Run(k, t) \o Run(k + t, n) = Run(k, t + n)
    <3>1. k \in Nat /\ t \in Nat /\ n \in Nat
      BY <1>4, <1>5
    <3>2. QED
      BY ONLY <3>1, RunConcat
  <2>3. t + n \in Nat
    BY <1>4, <1>5
  <2>4. Run(k, t + n) \in Seq(Nat) /\ Len(Run(k, t + n)) = t + n
    BY <1>5, <2>3, RunFacts
  <2>5. QED
    BY <1>4, <1>5, <2>1, <2>2, <2>4
<1>8. /\ taking \in [Ends -> Seq(Nat)] /\ got \in [Ends -> Seq(Nat)]
      /\ handed[e] = 0 /\ got[e] = Run(0, k) /\ Part(e, "send") = handed[e]
  <2>1. handed[e] <= Size(e, "send")
    BY <1>1, Position
  <2>2. handed[e] = 0
    BY <1>2, <1>5, <2>1
  <2>3. QED
    BY <1>1, <2>2 DEF CallsTypeOK, DataOf, Part, k
<1> HIDE DEF all
<1>9. CASE /\ t + n < r /\ taking' = [taking EXCEPT ![e] = all]
           /\ pc' = pc /\ returned' = returned /\ got' = got
  <2>1. taking'[e] = all /\ got'[e] = got[e] /\ taking' \in [Ends -> Seq(Nat)]
        /\ \A x \in Ends : x # e => taking'[x] = taking[x]
    BY <1>7, <1>8, <1>9
  <2>2. Len(taking'[e]) = t + n /\ Len(got'[e]) = k
    BY <1>7, <2>1 DEF k
  <2>3. Read(e)' = k + (t + n) /\ k + (t + n) = Read(e) + n
    <3>1. Read(e)' = k + (t + n)
      BY <2>2 DEF Read
    <3>2. k + (t + n) = Read(e) + n
      BY <1>4, <1>5
    <3>3. QED
      BY <3>1, <3>2
  <2>4. DataOf(e)'
    <3>1. got'[e] = Run(0, Len(got'[e])) /\ taking'[e] = Run(Len(got'[e]), Len(taking'[e]))
      BY <1>7, <1>8, <2>1, <2>2
    <3>2. Read(e)' <= sent'[Other(e)]
      BY <1>6, <2>3
    <3>3. QED
      BY <3>1, <3>2 DEF DataOf
  <2>5. \A op \in Ops : Size(e, op)' = Size(e, op) /\ Upto(e, op)' = Upto(e, op)
    BY <1>9, SameSize DEF Upto
  <2>6. Part(e, "send")' = Part(e, "send") /\ Part(e, "recv")' = t + n
    BY <2>2 DEF Part
  <2>7. PartsOf(e)'
    <3>1. PartsOf(e) /\ returned[e] = {} /\ t + n <= Size(e, "recv")
      BY <1>1, <1>4, <1>5, <1>9 DEF CallOf, r
    <3>2. QED
      BY <1>1, <1>9, <2>5, <2>6, <3>1 DEF PartsOf, Ops
  <2>8. TotalsOf(e)'
    <3>1. TotalsOf(e) /\ returned[e] = {}
      BY <1>1 DEF CallOf
    <3>2. Done(e, "send")' = Done(e, "send")
      BY <1>1, <1>9, <2>5, <2>6 DEF Done
    <3>3. Done(e, "recv")' = Upto(e, "recv")[pc[e]] + (t + n)
      BY <1>1, <1>9, <2>5, <2>6, <3>1 DEF Done
    <3>4. Upto(e, "recv")[pc[e]] + (t + n) = k + (t + n)
      BY <1>4, <1>5
    <3>5. QED
      BY <2>2, <3>1, <3>2, <3>3, <3>4 DEF TotalsOf
  <2>9. CallOf(e)'
    <3>1. Len(taking'[e]) < Size(e, "recv")'
      BY <1>1, <1>9, <2>2, <2>5 DEF r
    <3>2. Size(e, "send")' = 0
      BY <1>1, <1>2, <2>5
    <3>3. returned'[e] = {}
      BY <1>1, <1>9 DEF CallOf
    <3>4. QED
      BY <1>3, <2>7, <2>8, <3>1, <3>2, <3>3 DEF CallOf
  <2>10. QED
    BY <1>1, <1>8, <1>9, <2>1, <2>3, <2>4, <2>9 DEF CallsTypeOK, n
<1>10. CASE /\ t + n = r /\ taking' = [taking EXCEPT ![e] = <<>>]
            /\ got' = [got EXCEPT ![e] = got[e] \o all] /\ Returns(e, "recv")
  <2>1. all = Run(k, r) /\ Len(all) = r
    BY <1>7, <1>10
  <2>2. got[e] \o all = Run(0, k + r) /\ Run(0, k + r) \in Seq(Nat) /\ Len(Run(0, k + r)) = k + r
        /\ k + r \in Nat
    <3>1. Run(0, k) \o Run(k, r) = Run(0, k + r)
      BY <1>5, RunFromStart
    <3>2. k + r \in Nat
      BY <1>5
    <3> DEFINE w == k + r
    <3>3. w \in Nat
      BY <3>2
    <3> HIDE DEF w
    <3>4. Run(0, w) \in Seq(Nat) /\ Len(Run(0, w)) = w
      BY <3>3, RunFacts
    <3>5. QED
      BY <1>8, <2>1, <3>1, <3>2, <3>4 DEF w
  <2>3. /\ taking' \in [Ends -> Seq(Nat)] /\ taking'[e] = <<>> /\ Len(taking'[e]) = 0
        /\ \A x \in Ends : x # e => taking'[x] = taking[x]
    BY <1>8, <1>10, EmptySeq
  <2>4. /\ got' \in [Ends -> Seq(Nat)] /\ got'[e] = Run(0, k + r) /\ Len(got'[e]) = k + r
        /\ \A x \in Ends : x # e => got'[x] = got[x]
    BY <1>8, <1>10, <2>2
  <2>5. Read(e)' = k + r /\ k + r = Read(e) + n
    BY <1>4, <1>5, <1>10, <2>2, <2>3, <2>4 DEF Read
  <2>6. DataOf(e)'
    <3>1. taking'[e] = Run(k + r, 0)
      BY <2>2, <2>3, RunEmpty
    <3>2. Read(e)' <= sent'[Other(e)]
      BY <1>6, <2>5
    <3>3. QED
      BY <2>3, <2>4, <3>1, <3>2 DEF DataOf
  <2>7. /\ pc' = [pc EXCEPT ![e] = pc[e] + 1] /\ returned' = [returned EXCEPT ![e] = {}]
    BY <1>1, <1>10, ReturnsAlone
  <2>8. /\ pc' \in [Ends -> Nat] /\ returned' \in [Ends -> SUBSET Ops]
        /\ \A x \in Ends : pc'[x] <= Len(program[x])
        /\ \A x \in Ends : x # e => pc'[x] = pc[x] /\ returned'[x] = returned[x]
    BY <1>1, <1>10, ReturnsFacts
  <2>9. Part(e, "recv")' = 0 /\ \A o \in Ops : o # "recv" => Part(e, o)' = Part(e, o)
    BY <2>3 DEF Part, Ops
  <2>10. /\ PartsOf(e)' /\ Done(e, "recv")' = Upto(e, "recv")[pc[e]] + r
         /\ Done(e, "send")' = Done(e, "send")
    BY <1>1, <1>10, <2>9, ReturnsDone DEF CallOf, r
  <2>11. TotalsOf(e)'
    <3>1. Upto(e, "recv")[pc[e]] + r = k + r
      BY <1>5
    <3>2. Len(got'[e]) + Len(taking'[e]) = k + r
      BY <2>2, <2>3, <2>4
    <3>3. sent[e] = Done(e, "send")
      BY <1>1 DEF CallOf, TotalsOf
    <3>4. QED
      BY <2>10, <3>1, <3>2, <3>3 DEF TotalsOf
  <2>12. CallOf(e)'
    <3>1. handed'[e] = 0 /\ returned'[e] = {}
      BY <1>1, <1>8, <2>7 DEF CallsTypeOK
    <3>2. QED
      BY <1>3, <2>3, <2>10, <2>11, <3>1 DEF CallOf
  <2>13. k + r <= sent[Other(e)]
    BY <1>6, <2>5
  <2>14. QED
    BY <1>10, <2>1, <2>3, <2>4, <2>5, <2>6, <2>8, <2>12, <2>13 DEF n, k, r
<1>11. QED
  <2>1. Len(all) = t + n
    BY <1>7
  <2>2. QED
    BY <1>9, <1>10, <2>1 DEF Reads, all, r

(* The next message is then the first of those on their way, and its buffer *)
(* is posted again.                                                         *)
LEMMA EndRecvKeeps ==
  ASSUME IInv, NEW e \in Ends, EndRecv(e)
  PROVE  IInv'
<1> DEFINE f == Other(e)
           id == Head(cq[e]).id
           repost == IF zero_copy THEN <<>> ELSE <<PoolRequest(id)>>
<1>1. f \in Ends /\ f # e /\ Other(f) = e /\ "send" \in Ops /\ "recv" \in Ops
  BY OtherFacts DEF Ops
<1>2. /\ RdmaTypeOK /\ CallsTypeOK
      /\ \A x \in Ends : /\ CallOf(x) /\ DataOf(x) /\ QueueOf(x) /\ WorkOf(x)
                         /\ RequestsOf(x) /\ ChainOf(x) /\ CauseOf(x)
  BY DEF IInv, EndInv, RdmaTypeOK
<1>3. /\ Polling(e, "recv") /\ Open(e) /\ cq[e] # <<>> /\ at[e]["recv"] # "idle"
      /\ cq' = [cq EXCEPT ![e] = Tail(cq[e])]
      /\ at' = [at EXCEPT ![e]["recv"] = "idle"] /\ Reads(e, Found(e))
      /\ posted' = [posted EXCEPT ![e] = posted[e] \o repost]
      /\ program' = program /\ sent' = sent /\ handed' = handed /\ state' = state
      /\ deaths' = deaths /\ zero_copy' = zero_copy /\ busy' = busy /\ setup' = setup
      /\ mem' = mem /\ in_use' = in_use /\ wire' = wire /\ unacked' = unacked
      /\ armed' = armed /\ events' = events
  BY DEF EndRecv, Receives, Polls, Polling, Polled, In
<1>4. /\ ~SendDone(e) /\ Arrived(e) = cq[e] /\ Head(cq[e]) = Arrived(e)[1]
      /\ Len(Arrived(e)) \in Nat \ {0} /\ id \in Buffers /\ id = Arrived(e)[1].id
      /\ at[e]["send"] = "idle" /\ setup[e] = "connected"
      /\ wire[e] = <<>> /\ Len(wire[e]) = 0 /\ unacked[e] = 0
  BY <1>3, OwnRecv
<1>5. /\ pc' \in [Ends -> Nat] /\ \A x \in Ends : pc'[x] <= Len(program[x])
      /\ returned' \in [Ends -> SUBSET Ops]
      /\ taking' \in [Ends -> Seq(Nat)] /\ got' \in [Ends -> Seq(Nat)]
      /\ pc'[f] = pc[f] /\ returned'[f] = returned[f]
      /\ taking'[f] = taking[f] /\ got'[f] = got[f]
      /\ Read(e)' = Read(e) + Chunk(e, "recv") /\ DataOf(e)' /\ CallOf(e)'
  BY <1>1, <1>3, RecvReads
<1>6. /\ at \in [Ends -> [Ops -> Places]] /\ in_use \in [Ends -> SUBSET Buffers]
      /\ cq \in [Ends -> Seq(Completions)] /\ posted \in [Ends -> Seq(Requested)]
      /\ wire \in [Ends -> Seq(Slots)] /\ Arrived(e) \in Seq(Completions)
  BY <1>2, ArrivedFacts DEF RdmaTypeOK
<1>7. /\ zero_copy => posted'[e] = posted[e]
      /\ ~zero_copy => posted'[e] = Append(posted[e], PoolRequest(id))
      /\ PoolRequest(id) \in Requested /\ posted'[f] = posted[f]
      /\ posted' \in [Ends -> Seq(Requested)]
  <2>1. PoolRequest(id) \in Requested
    BY <1>4, SlotFacts, PoolAssumption DEF PoolRequest, Requested
  <2>2. posted'[e] = posted[e] \o repost /\ posted'[f] = posted[f]
    BY <1>1, <1>3, <1>6
  <2>3. posted[e] \o <<>> = posted[e]
        /\ posted[e] \o <<PoolRequest(id)>> = Append(posted[e], PoolRequest(id))
        /\ Append(posted[e], PoolRequest(id)) \in Seq(Requested)
    BY <1>6, <2>1, AppendOne
  <2>4. posted[e] \o repost \in Seq(Requested)
    BY <1>6, <2>3
  <2>5. posted' \in [Ends -> Seq(Requested)]
    BY <1>3, <1>6, <2>4
  <2>6. QED
    BY <2>1, <2>2, <2>3, <2>5
<1> HIDE DEF repost
<1>8. /\ cq' \in [Ends -> Seq(Completions)] /\ cq'[e] = Tail(cq[e]) /\ cq'[f] = cq[f]
      /\ at' \in [Ends -> [Ops -> Places]] /\ at'[f] = at[f]
      /\ at'[e]["send"] = "idle" /\ at'[e]["recv"] = "idle"
  <2>1. Tail(cq[e]) \in Seq(Completions)
    BY <1>3, <1>6, HeadTailProperties
  <2>2. cq' \in [Ends -> Seq(Completions)] /\ cq'[e] = Tail(cq[e]) /\ cq'[f] = cq[f]
    BY <1>1, <1>3, <1>6, <2>1
  <2>3. /\ at' \in [Ends -> [Ops -> Places]] /\ at'[f] = at[f]
        /\ at'[e]["send"] = "idle" /\ at'[e]["recv"] = "idle"
    BY <1>1, <1>3, <1>4, <1>6 DEF Places
  <2>4. QED
    BY <2>2, <2>3
<1>9. RdmaTypeOK'
  BY <1>2, <1>3, <1>5, <1>7, <1>8 DEF RdmaTypeOK, CallsTypeOK
<1>10. TakesTurns' /\ SetupInv'
  BY <1>3 DEF IInv, TakesTurns, SetupInv
<1>11. ~SendDone(e)' /\ Arrived(e)' = Tail(Arrived(e))
  BY <1>2, <1>3, <1>4, <1>8, ArrivedPolled
<1>12. /\ Len(Arrived(e)') \in Nat /\ Len(Arrived(e)') = Len(Arrived(e)) - 1
       /\ \A i \in 1 .. Len(Arrived(e)') :
            Arrived(e)'[i] = Arrived(e)[i + 1] /\ i + 1 \in 1 .. Len(Arrived(e))
  <2> DEFINE a == Arrived(e)
  <2>1. a \in Seq(Completions) /\ a # <<>> /\ Len(a) \in Nat \ {0}
    BY <1>3, <1>4, <1>6
  <2> HIDE DEF a
  <2>2. Len(Tail(a)) = Len(a) - 1 /\ \A i \in 1 .. Len(Tail(a)) : Tail(a)[i] = a[i + 1]
    BY <2>1, HeadTailProperties
  <2>3. Len(a) - 1 \in Nat /\ \A i \in 1 .. (Len(a) - 1) : i + 1 \in 1 .. Len(a)
    BY <2>1
  <2>4. QED
    BY <1>11, <2>2, <2>3 DEF a
<1>13. QueueOf(e)'
  BY <1>2, <1>12 DEF QueueOf
<1>14. SendDone(f)' = SendDone(f) /\ Arrived(f)' = Arrived(f) /\ QueueOf(f)'
  BY <1>1, <1>2, <1>8, SameQueueOf
<1>15. DataOf(f)' /\ Read(f)' = Read(f)
  <2>1. sent[Other(f)] \in Nat
    BY <1>1, <1>2 DEF CallsTypeOK
  <2>2. QED
    BY <1>1, <1>2, <1>3, <1>5, <2>1, SameDataOf
<1>16. CallOf(f)'
  BY <1>1, <1>2, <1>3, <1>5, <1>8, SameCallOf DEF Open
<1>17. WorkOf(e)'
  BY <1>2, <1>3, <1>4, <1>8, <1>11 DEF WorkOf
<1>18. WorkOf(f)'
  BY <1>1, <1>2, <1>3, <1>8, SameWorkOf
<1>19. RequestsOf(f)'
  BY <1>1, <1>2, <1>3, <1>5, <1>7, <1>8, SameRequestsOf
<1>20. RequestsOf(e)'
  <2>1. CASE zero_copy
    <3>1. Len(posted[e]) + Len(Arrived(e)) = 1
      BY <1>2, <1>3, <1>4, <2>1 DEF RequestsOf, ZeroCopyOf
    <3>2. Len(posted[e]) \in Nat
      BY <1>6
    <3> DEFINE p == Len(posted[e])
               a == Len(Arrived(e))
    <3>3. p + a = 1 /\ p \in Nat /\ a \in Nat \ {0}
      BY <1>4, <3>1, <3>2
    <3> HIDE DEF p, a
    <3>4. p = 0 /\ a - 1 = 0
      BY <3>3
    <3>5. Len(posted'[e]) = 0 /\ Len(Arrived(e)') = 0
      BY <1>7, <1>12, <2>1, <3>4 DEF p, a
    <3>6. ZeroCopyOf(e)'
      BY <1>8, <3>5 DEF ZeroCopyOf
    <3>7. QED
      BY <1>3, <1>4, <2>1, <3>6 DEF RequestsOf
  <2>2. CASE ~zero_copy
    <3>1. Whole(posted[e], Arrived(e))
      BY <1>2, <1>4, <2>2 DEF RequestsOf, PoolOf
    <3>2. /\ PoolRequest(id).slot = Arrived(e)[1].id /\ PoolRequest(id).room = MaxPayload
          /\ PoolRequest(id).slot \in Buffers
      BY <1>4 DEF PoolRequest
    <3>3. posted[e] \in Seq(Requested) /\ Arrived(e) # <<>>
      BY <1>3, <1>4, <1>6
    <3>4. Whole(Append(posted[e], PoolRequest(id)), Tail(Arrived(e)))
      BY <1>6, <1>7, <3>1, <3>2, <3>3, WholeReposts
    <3>5. posted'[e] = Append(posted[e], PoolRequest(id))
      BY <1>7, <2>2
    <3>6. PoolOf(e)'
      BY <1>11, <3>4, <3>5 DEF PoolOf, Whole
    <3>7. QED
      BY <1>3, <1>4, <2>2, <3>6 DEF RequestsOf
  <2>3. QED
    BY <2>1, <2>2
<1>21. ChainOf(e)'
  <2> DEFINE q == Pending(e)
             n == Chunk(e, "recv")
             w == Len(wire[f])
             a == Len(Arrived(e))
  <2>1. /\ q[1] = Run(Read(e), n) /\ n \in Nat /\ n > 0 /\ Len(q) > 0
        /\ Chain(q, Read(e), sent[f])
    BY <1>3, Taken
  <2>2. Read(e) \in Nat /\ sent[f] \in Nat
    BY <1>1, <1>2, Position DEF CallsTypeOK
  <2>3. Upon(q[1]) = Read(e)'
    BY <1>5, <2>1, <2>2, RunBounds
  <2>4. /\ q \in Seq(Seq(Nat)) /\ Len(q) = a + w
        /\ \A i \in 1 .. a : q[i] = mem[e][InSlot(Arrived(e)[i].id)]
        /\ \A i \in (a + 1) .. (a + w) : q[i] = mem[f][wire[f][1]]
    BY <1>2, PendingFacts
  <2>5. /\ Pending(e)' \in Seq(Seq(Nat)) /\ Len(Pending(e)') = Len(Arrived(e)') + w
        /\ \A i \in 1 .. Len(Arrived(e)') :
             Pending(e)'[i] = mem[e][InSlot(Arrived(e)'[i].id)]
        /\ \A i \in (Len(Arrived(e)') + 1) .. (Len(Arrived(e)') + w) :
             Pending(e)'[i] = mem[f][wire[f][1]]
    BY <1>3, <1>9, <1>13, PendingNext DEF PendingIs, InSlot
  <2>6. w \in Nat /\ a \in Nat \ {0} /\ Len(Arrived(e)') = a - 1
    BY <1>1, <1>4, <1>6, <1>12
  <2> HIDE DEF a, w, q, n
  <2>7. Len(Pending(e)') = Len(q) - 1
    BY <2>4, <2>5, <2>6
  <2>8. \A i \in 1 .. Len(Pending(e)') : Pending(e)'[i] = q[i + 1] /\ i + 1 \in 1 .. Len(q)
    <3> TAKE i \in 1 .. Len(Pending(e)')
    <3>1. i + 1 \in 1 .. Len(q) /\ i \in 1 .. (a - 1 + w)
      BY <2>4, <2>5, <2>6
    <3>2. CASE i <= a - 1
      <4>1. i \in 1 .. Len(Arrived(e)') /\ i + 1 \in 1 .. a
        BY <2>6, <3>1, <3>2
      <4>2. Pending(e)'[i] = mem[e][InSlot(Arrived(e)'[i].id)]
        BY <2>5, <4>1
      <4>3. Arrived(e)'[i] = Arrived(e)[i + 1]
        BY <1>12, <4>1
      <4>4. q[i + 1] = mem[e][InSlot(Arrived(e)[i + 1].id)]
        BY <2>4, <4>1
      <4>5. QED
        BY <3>1, <4>2, <4>3, <4>4
    <3>3. CASE ~(i <= a - 1)
      <4>1. i \in (Len(Arrived(e)') + 1) .. (Len(Arrived(e)') + w)
            /\ i + 1 \in (a + 1) .. (a + w)
        BY <2>6, <3>1, <3>3
      <4>2. QED
        BY <2>4, <2>5, <3>1, <4>1
    <3>4. QED
      BY <3>2, <3>3
  <2>9. Chain(Pending(e)', Upon(q[1]), sent[f])
    <3> DEFINE p == Pending(e)'
    <3>1. p \in Seq(Seq(Nat)) /\ Len(p) = Len(q) - 1 /\ \A i \in 1 .. Len(p) : p[i] = q[i + 1]
      BY <2>5, <2>7, <2>8
    <3> HIDE DEF p
    <3>2. Chain(p, Upon(q[1]), sent[f])
      BY <2>1, <2>2, <2>4, <3>1, ChainTail
    <3>3. QED
      BY <3>2 DEF p
  <2>10. \A i \in 1 .. Len(q) : IsMessage(e, q[i])
    BY <1>2, <1>3 DEF ChainOf, q
  <2>11. \A i \in 1 .. Len(Pending(e)') : IsMessage(e, Pending(e)[i])'
    <3>1. \A i \in 1 .. Len(Pending(e)') : IsMessage(e, Pending(e)'[i])
      BY <2>8, <2>10
    <3>2. QED
      BY <1>3, <3>1, SameMessages
  <2>12. /\ Chain(Pending(e)', Read(e)', sent'[f])
         /\ \A i \in 1 .. Len(Pending(e)') : IsMessage(e, Pending(e)[i])'
    BY <1>3, <2>3, <2>9, <2>11
  <2>13. QED
    BY <2>12 DEF ChainOf, Chain, Before, Upon
<1>22. ChainOf(f)'
  <2>1. Pending(f)' = Pending(f)
    BY <1>1, <1>2, <1>3, <1>14, SamePending
  <2>2. QED
    BY <1>1, <1>2, <1>3, <1>15, <2>1, SameChainOf DEF Open
<1>23. CauseOf(e)'
  BY <1>3, <1>11 DEF CauseOf, Open
<1>24. CauseOf(f)'
  BY <1>1, <1>2, <1>3, <1>5, <1>8, SameCauseOf
<1>25. EndInv(e)' /\ EndInv(f)'
  BY <1>5, <1>13, <1>14, <1>15, <1>16, <1>17, <1>18, <1>19, <1>20, <1>21, <1>22,
     <1>23, <1>24 DEF EndInv
<1>26. \A x \in Ends : EndInv(x)'
  BY <1>25, OtherFacts
<1>27. QED
  BY <1>9, <1>10, <1>26 DEF IInv

-----------------------------------------------------------------------------
LEMMA NextKeeps == IInv /\ [Next]_vars => IInv'
<1> SUFFICES ASSUME IInv, [Next]_vars PROVE IInv'
  OBVIOUS
<1>1. ASSUME NEW e \in Ends, EndStep(e) PROVE IInv'
  <2>1. "send" \in Ops /\ "recv" \in Ops
    BY DEF Ops
  <2>2. CASE SetupStep(e)
    BY <2>2, ExchangeKeeps, ExchangeFailsKeeps, PostKeeps DEF SetupStep
  <2>3. CASE SendStep(e)
    BY <2>1, <2>3, BeginSendKeeps, PollKeeps, EndSendKeeps, FailSendKeeps DEF SendStep
  <2>4. ~FailRecv(e)
    BY Taken DEF FailRecv, Polls
  <2>5. CASE RecvStep(e)
    BY <2>1, <2>4, <2>5, BeginRecvKeeps, PollKeeps, EndRecvKeeps, CloseKeeps DEF RecvStep
  <2>6. QED
    BY <1>1, <2>2, <2>3, <2>5, CrashKeeps DEF EndStep
<1>2. ASSUME NEW e \in Ends, Hardware(e) PROVE IInv'
  BY <1>2, DeliverKeeps, NeverTooLong, AcknowledgeKeeps, RetriesKeeps DEF Hardware
<1>3. CASE UNCHANGED vars
  <2>1. /\ UNCHANGED moving
        /\ UNCHANGED <<state, deaths, at, setup, busy, armed, events>>
    BY <1>3 DEF vars, calls, qp, moving
  <2>2. RdmaTypeOK'
    BY <2>1 DEF moving, IInv, RdmaTypeOK, CallsTypeOK
  <2>3. TakesTurns' /\ SetupInv'
    BY <2>1 DEF moving, IInv, TakesTurns, SetupInv
  <2>4. ASSUME NEW e \in Ends PROVE EndInv(e)'
    <3>1. /\ CallOf(e)' /\ DataOf(e)' /\ QueueOf(e)' /\ WorkOf(e)' /\ ChainOf(e)'
          /\ RequestsOf(e)'
      BY <2>1, Untouched DEF Open
    <3>2. CauseOf(e)'
      BY <2>1, SameCauseOf DEF moving, IInv, EndInv
    <3>3. QED
      BY <3>1, <3>2 DEF EndInv
  <2>5. QED
    BY <2>2, <2>3, <2>4 DEF IInv
<1>4. QED
  BY <1>1, <1>2, <1>3 DEF Next

(* The invariant holds from the exchange of queue pairs to the last Close   *)
(* or the first death.                                                      *)
THEOREM Invariance == Spec /\ TakesTurns => []IInv
<1>1. QED
  BY RdmaInit, NextKeeps, PTL DEF Spec

(* PollCompletion hands a call the next completion whatever it completes,   *)
(* and Send and Recv look at no more than its status and its id; between    *)
(* ends that take turns it is always one of the call's own kind, a Recv's   *)
(* always of a message of the length it expects.                            *)
THEOREM OwnCompletionCorrect == Spec /\ TakesTurns => []OwnCompletion
<1>1. IInv => OwnCompletion
  <2> SUFFICES ASSUME IInv, NEW e \in Ends, NEW op \in Ops, Polling(e, op)
               PROVE  Polled(e).op = op
    BY DEF OwnCompletion
  <2>1. op = "send" \/ op = "recv"
    BY DEF Ops
  <2>2. QED
    BY <2>1, OwnSend, OwnRecv DEF Polled
<1>2. QED
  BY <1>1, Invariance, PTL

(* A Send or a Recv of one of these ends returns false only after a process *)
(* has died: no message is too long for its request, none finds the pool    *)
(* empty, and an end that is through breaks no Send of the other.           *)
THEOREM FailsForCauseCorrect == Spec /\ TakesTurns => []FailsForCause
<1>1. IInv => FailsForCause
  <2> SUFFICES ASSUME IInv, NEW e \in Ends, state[e] = "failed" PROVE deaths > 0
    BY DEF FailsForCause
  <2>1. deaths \in Nat
    BY ProgramTypes DEF IInv, RdmaTypeOK, CallsTypeOK
  <2>2. CauseOf(e)
    BY DEF IInv, EndInv
  <2>3. QED
    BY <2>1, <2>2 DEF CauseOf
<1>2. QED
  BY <1>1, Invariance, PTL

(* "All buffers have posted recv WR": after every Recv the buffer it has    *)
(* read is posted again, however many messages have come and gone, so that  *)
(* each buffer is posted once or holds one message not read yet.            *)
THEOREM PoolWholeCorrect == Spec /\ TakesTurns => []PoolWhole
<1>1. IInv => PoolWhole
  <2> SUFFICES ASSUME IInv, NEW e \in Ends, ~zero_copy, setup[e] = "connected"
               PROVE  {r.slot : r \in Range(posted[e])} \cup Unread(e) = Buffers
    BY DEF PoolWhole
  <2> DEFINE p == posted[e]
             a == Arrived(e)
             q == cq[e]
  <2>1. RdmaTypeOK /\ QueueOf(e) /\ Whole(p, a)
    BY DEF IInv, EndInv, RequestsOf, PoolOf
  <2>2. /\ p \in Seq(Requested) /\ DOMAIN p = 1 .. Len(p)
        /\ q \in Seq(Completions) /\ DOMAIN q = 1 .. Len(q)
        /\ a \in Seq(Completions) /\ Len(a) \in Nat
    BY <2>1, ArrivedFacts DEF RdmaTypeOK
  <2>3. \A i \in 1 .. Len(q) : q[i].op = "recv" => \E j \in 1 .. Len(a) : a[j] = q[i]
    <3>1. CASE SendDone(e)
      <4>1. q # <<>> /\ q[1].op = "send" /\ a = Tail(q)
        BY <3>1 DEF SendDone, Arrived
      <4>2. Len(a) = Len(q) - 1 /\ \A j \in 1 .. Len(a) : a[j] = q[j + 1]
        BY <2>2, <4>1, HeadTailProperties
      <4>3. SUFFICES ASSUME NEW i \in 1 .. Len(q), q[i].op = "recv"
                     PROVE  \E j \in 1 .. Len(a) : a[j] = q[i]
        OBVIOUS
      <4>4. i # 1
        BY <4>1, <4>3
      <4>5. PICK j \in Nat : j + 1 = i
        <5>1. i - 1 \in Nat /\ (i - 1) + 1 = i
          BY <4>4
        <5>2. QED
          BY <5>1
      <4>6. j \in 1 .. Len(a)
        BY <2>2, <4>2, <4>4, <4>5
      <4>7. QED
        BY <4>2, <4>5, <4>6
    <3>2. CASE ~SendDone(e)
      BY <3>2 DEF Arrived
    <3>3. QED
      BY <3>1, <3>2
  <2>4. \A j \in 1 .. Len(a) : a[j].op = "recv" /\ a[j].id \in Buffers
                               /\ \E i \in 1 .. Len(q) : a[j] = q[i]
    <3>1. CASE SendDone(e)
      <4>1. q # <<>> /\ a = Tail(q)
        BY <3>1 DEF SendDone, Arrived
      <4>2. Len(a) = Len(q) - 1 /\ \A j \in 1 .. Len(a) : a[j] = q[j + 1]
        BY <2>2, <4>1, HeadTailProperties
      <4>3. \A j \in 1 .. Len(a) : j + 1 \in 1 .. Len(q)
        BY <2>2, <4>2
      <4>4. QED
        BY <2>1, <4>2, <4>3 DEF QueueOf
    <3>2. CASE ~SendDone(e)
      BY <2>1, <3>2 DEF Arrived, QueueOf
    <3>3. QED
      BY <3>1, <3>2
  <2> HIDE DEF p, a, q
  <2>5. Unread(e) = {a[j].id : j \in 1 .. Len(a)}
    <3>1. Unread(e) = {c.id : c \in {d \in {q[i] : i \in 1 .. Len(q)} : d.op = "recv"}}
      BY <2>2 DEF Unread, Range, q
    <3>2. ASSUME NEW i \in 1 .. Len(q), q[i].op = "recv"
          PROVE  q[i].id \in {a[j].id : j \in 1 .. Len(a)}
      BY <2>3, <3>2
    <3>3. Unread(e) \subseteq {a[j].id : j \in 1 .. Len(a)}
      BY <3>1, <3>2
    <3>4. ASSUME NEW j \in 1 .. Len(a) PROVE a[j].id \in Unread(e)
      <4>1. PICK i \in 1 .. Len(q) : a[j] = q[i]
        BY <2>4
      <4>2. a[j] \in {d \in {q[x] : x \in 1 .. Len(q)} : d.op = "recv"}
        BY <2>4, <4>1
      <4>3. QED
        BY <3>1, <4>2
    <3>5. QED
      BY <3>3, <3>4
  <2>6. {r.slot : r \in Range(p)} = {p[i].slot : i \in 1 .. Len(p)}
    BY <2>2 DEF Range
  <2>7. /\ \A i \in 1 .. Len(p) : p[i].slot \in Buffers
        /\ \A b \in Buffers : \/ \E i \in 1 .. Len(p) : p[i].slot = b
                              \/ \E j \in 1 .. Len(a) : a[j].id = b
    BY <2>1 DEF Whole
  <2>8. {p[i].slot : i \in 1 .. Len(p)} \cup {a[j].id : j \in 1 .. Len(a)} = Buffers
    BY <2>4, <2>7
  <2>9. QED
    BY <2>5, <2>6, <2>8 DEF p
<1>2. QED
  BY <1>1, Invariance, PTL

(* Types, and the least the code relies on: no buffer is posted twice, and  *)
(* an end has at most one work request for sending under way.               *)
THEOREM TypeCorrect == Spec /\ TakesTurns => []TypeOK
<1>1. IInv => TypeOK
  <2> SUFFICES ASSUME IInv PROVE TypeOK
    OBVIOUS
  <2>1. RdmaTypeOK /\ CallsTypeOK
    BY DEF IInv, RdmaTypeOK
  <2>2. CallsOK
    <3>1. ASSUME NEW e \in Ends
          PROVE  /\ pc[e] \in 0 .. Len(program[e]) /\ returned[e] \subseteq Ops
                 /\ state[e] \in {"open", "closed", "failed", "dead"}
                 /\ Len(got[e]) + Len(taking[e]) <= sent[Other(e)]
                 /\ handed[e] \in 0 .. Size(e, "send") /\ handed[e] <= sent[e]
      <4>1. CallOf(e) /\ DataOf(e)
        BY DEF IInv, EndInv
      <4>2. /\ sent[e] = Upto(e, "send")[pc[e]] + handed[e]
            /\ handed[e] <= Size(e, "send") /\ handed[e] \in Nat
            /\ Upto(e, "send")[pc[e]] \in Nat /\ Size(e, "send") \in Nat
        BY <2>1, <4>1, Position DEF Ops
      <4>3. handed[e] \in 0 .. Size(e, "send") /\ handed[e] <= sent[e]
        BY <4>2
      <4>4. pc[e] \in 0 .. Len(program[e])
        BY <2>1, ProgramFacts DEF CallsTypeOK
      <4>5. QED
        BY <2>1, <4>1, <4>3, <4>4 DEF CallsTypeOK, DataOf, Read
    <3>2. QED
      BY <2>1, <3>1 DEF CallsOK, CallsTypeOK
  <2>3. ASSUME NEW e \in Ends
        PROVE  /\ \A i \in DOMAIN posted[e] : posted[e][i].slot \in Slots
               /\ IsInjective([i \in DOMAIN posted[e] |-> posted[e][i].slot])
    <3> DEFINE p == posted[e]
    <3>1. p \in Seq(Requested) /\ DOMAIN p = 1 .. Len(p) /\ Len(p) \in Nat
      BY <2>1 DEF RdmaTypeOK
    <3>2. \A i \in 1 .. Len(p) : p[i].slot \in Slots
      <4>1. \A i \in 1 .. Len(p) : p[i] \in Requested
        BY <3>1, ElementOfSeq
      <4>2. QED
        BY <4>1 DEF Requested
    <3>3. \A i, j \in 1 .. Len(p) : p[i].slot = p[j].slot => i = j
      <4>1. RequestsOf(e)
        BY DEF IInv, EndInv
      <4>2. CASE setup[e] # "connected"
        <5>1. Len(p) = 0
          BY <4>1, <4>2, EmptySeq DEF RequestsOf
        <5>2. QED
          BY <5>1
      <4>3. CASE setup[e] = "connected" /\ ~zero_copy
        BY <4>1, <4>3 DEF RequestsOf, PoolOf, Whole
      <4>4. CASE setup[e] = "connected" /\ zero_copy
        <5> DEFINE l == Len(p)
                   a == Len(Arrived(e))
        <5>1. l + a = (IF at[e]["recv"] = "idle" THEN 0 ELSE 1)
          BY <4>1, <4>4 DEF RequestsOf, ZeroCopyOf
        <5>2. l \in Nat /\ a \in Nat
          BY <2>1, <3>1, ArrivedFacts
        <5> HIDE DEF l, a
        <5>3. l <= 1
          BY <5>1, <5>2
        <5>4. \A i, j \in 1 .. l : i = j
          BY <5>2, <5>3
        <5>5. QED
          BY <5>4 DEF l
      <4>5. QED
        BY <4>2, <4>3, <4>4
    <3>4. QED
      BY <3>1, <3>2, <3>3 DEF IsInjective
  <2>4. ASSUME NEW e \in Ends PROVE Len(wire[e]) + unacked[e] <= 1
    <3> DEFINE w == Len(wire[e])
               u == unacked[e]
               d == IF SendDone(e) THEN 1 ELSE 0
               b == IF at[e]["send"] = "idle" THEN 0 ELSE 1
    <3>1. w + u + d = b
      BY DEF IInv, EndInv, WorkOf
    <3>2. w \in Nat /\ u \in Nat /\ d \in {0, 1} /\ b \in {0, 1}
      BY <2>1 DEF RdmaTypeOK
    <3> HIDE DEF w, u, d, b
    <3>3. w + u <= 1
      BY <3>1, <3>2
    <3>4. QED
      BY <3>3 DEF w, u
  <2>5. QED
    BY <2>1, <2>2, <2>3, <2>4 DEF TypeOK, RdmaTypeOK, Places
<1>2. QED
  BY <1>1, Invariance, PTL

-----------------------------------------------------------------------------
(* To its callers it is a Transport.  A chunk's Send takes bytes when it    *)
(* posts them and returns on the completion of the last one; a Recv returns *)
(* on the chunk that makes it complete; all other steps are hidden.         *)
LEMMA StepRefines == IInv /\ [Next]_vars => [T!Next]_tvars
<1> SUFFICES ASSUME IInv, [Next]_vars PROVE T!Next \/ UNCHANGED tvars
  BY DEF tvars
<1>1. /\ CallsTypeOK /\ TakesTurns /\ T!Ends = Ends /\ "send" \in Ops /\ "recv" \in Ops
      /\ \A e \in Ends : CallOf(e)
  BY TSame DEF IInv, EndInv, RdmaTypeOK, Ops
<1>2. ASSUME NEW e \in Ends, BeginSend(e) PROVE T!Take(e)
  <2> DEFINE n == Chunk(e, "send")
             s == Size(e, "send")
             h == handed[e]
  <2>1. /\ In(e, "send") /\ at[e]["send"] = "idle" /\ program' = program /\ got' = got
        /\ handed' = [handed EXCEPT ![e] = h + n] /\ sent' = [sent EXCEPT ![e] = sent[e] + n]
        /\ pc' = pc /\ returned' = returned
    BY <1>2 DEF BeginSend, PostsSend, TakesChunk, Moves
  <2>2. Size(e, "send") > 0 /\ handed[e] < Size(e, "send")
    BY <2>1, OtherFacts, Beginning DEF In
  <2>3. n \in Nat /\ h + n <= s
    BY <1>1, <2>2, NextMessage
  <2>4. h \in Nat /\ s \in Nat
    BY <1>1, Position
  <2>5. T!In(e, "send") /\ T!Size(e, "send") = s
    BY <1>1, <2>1, TSame
  <2> HIDE DEF n, s, h
  <2>6. n \in 0 .. (s - h)
    BY <2>3, <2>4
  <2>7. QED
    BY <2>1, <2>5, <2>6 DEF T!Take, h
<1>3. ASSUME NEW e \in Ends, EndSend(e) PROVE T!Take(e) \/ UNCHANGED tvars
  <2>1. /\ In(e, "send") /\ program' = program /\ got' = got /\ sent' = sent
        /\ \/ /\ Left(e, "send") = 0 /\ Returns(e, "send")
              /\ handed' = [handed EXCEPT ![e] = 0]
           \/ pc' = pc /\ returned' = returned /\ handed' = handed
    BY <1>3 DEF EndSend, Polls, Polling
  <2>2. CASE pc' = pc /\ returned' = returned /\ handed' = handed
    BY <2>1, <2>2 DEF tvars
  <2>3. CASE /\ Left(e, "send") = 0 /\ Returns(e, "send")
             /\ handed' = [handed EXCEPT ![e] = 0]
    <3> DEFINE s == Size(e, "send")
               h == handed[e]
    <3>1. h \in Nat /\ s \in Nat /\ s - h = 0
      BY <1>1, <2>3, Position DEF Left
    <3>2. T!In(e, "send") /\ T!Size(e, "send") = s /\ T!Returns(e, "send")
      BY <1>1, <2>1, <2>3, TSame
    <3>3. sent' = [sent EXCEPT ![e] = sent[e] + 0]
      <4>1. sent \in [Ends -> Nat]
        BY <1>1 DEF CallsTypeOK
      <4>2. sent[e] + 0 = sent[e]
        BY <4>1
      <4>3. QED
        BY <2>1, <4>1, <4>2
    <3> HIDE DEF s, h
    <3>4. 0 \in 0 .. (s - h) /\ h + 0 = s
      BY <3>1
    <3>5. QED
      BY <2>1, <2>3, <3>2, <3>3, <3>4 DEF T!Take, h
  <2>4. QED
    BY <2>1, <2>2, <2>3
<1>4. ASSUME NEW e \in Ends, EndRecv(e) PROVE T!RecvReturns(e) \/ UNCHANGED tvars
  <2>1. /\ Polling(e, "recv") /\ Reads(e, Found(e)) /\ program' = program
        /\ handed' = handed /\ sent' = sent /\ state' = state
        /\ at' = [at EXCEPT ![e]["recv"] = "idle"] /\ In(e, "recv")
    BY <1>4 DEF EndRecv, Receives, Polls, Polling
  <2>2. CASE pc' = pc /\ returned' = returned /\ got' = got
    BY <2>1, <2>2 DEF tvars
  <2>3. CASE /\ Returns(e, "recv")
             /\ got' = [got EXCEPT ![e] = @ \o Run(Len(got[e]), Size(e, "recv"))]
             /\ Len(got[e]) + Size(e, "recv") <= sent[Other(e)]
    <3>1. /\ T!In(e, "recv") /\ T!Size(e, "recv") = Size(e, "recv")
          /\ T!Returns(e, "recv") /\ T!Other(e) = Other(e)
      BY <1>1, <2>1, <2>3, TSame
    <3>2. QED
      BY <2>1, <2>3, <3>1 DEF T!RecvReturns, Run
  <2>4. QED
    BY <2>1, <2>2, <2>3, RecvReads
<1>5. ASSUME NEW e \in Ends, EndStep(e) PROVE T!Next \/ UNCHANGED tvars
  <2>1. CASE BeginSend(e) \/ EndSend(e) \/ EndRecv(e)
    BY <1>1, <1>2, <1>3, <1>4, <2>1 DEF T!Next
  <2>2. CASE SetupStep(e) \/ Crash(e) \/ Close(e)
    BY <2>2 DEF SetupStep, SendQPInfo, RecvQPInfo, Exchanges, ExchangeFails,
       PostRecvWRsForBufferPool, Crash, Die, Close, Finish, Fail, Leave, calls, tvars
  <2>3. CASE FailSend(e) \/ FailRecv(e) \/ BeginRecv(e)
    BY <2>3 DEF FailSend, FailRecv, Polls, BeginRecv, calls, tvars
  <2>4. CASE Poll(e, "send") \/ Poll(e, "recv")
    BY <2>4 DEF Poll, FindNothing, RequestNotify, Requests, Block, Wake, still, calls, tvars
  <2>5. QED
    BY <1>5, <2>1, <2>2, <2>3, <2>4 DEF EndStep, SendStep, RecvStep
<1>6. ASSUME NEW e \in Ends, Hardware(e) PROVE UNCHANGED tvars
  BY <1>6 DEF Hardware, Deliver, DeliverTooLong, Acknowledge, RetriesExceeded, calls, tvars
<1>7. CASE UNCHANGED vars
  BY <1>7 DEF vars, calls, tvars
<1>8. QED
  BY <1>5, <1>6, <1>7 DEF Next

(* Whatever the sizes and the length of a buffer, in both modes, with both  *)
(* ways to poll and whatever dies, each Recv returns the bytes that follow  *)
(* those of the one before, as the other end sent them.                     *)
THEOREM Refinement == Spec /\ TakesTurns => RefinesTransport
<1>1. InitRdma => T!Init
  BY TSame DEF InitRdma, Init, T!Init, T!Ends, Ends
<1>2. IInv /\ [Next]_vars => [T!Next]_tvars
  BY StepRefines
<1>3. Spec /\ TakesTurns => []IInv
  BY Invariance
<1>4. QED
  BY <1>1, <1>2, <1>3, PTL DEF Spec, RefinesTransport, T!Spec, tvars
=============================================================================
