---------------------------- MODULE MCCollectives ----------------------------
(* Instances of Collectives for TLC: which calls the ranks make, over which *)
(* topology, and what may go wrong.                                         *)
EXTENDS CollectiveData

Topologies == {"ring", "fullmesh"}
Setup(t, w, cap, crashes) ==
  [topology |-> t, work |-> w, cap |-> cap, crashes |-> crashes]

(* The recursive doubling of the full mesh is left out where N is not a     *)
(* power of two: run mesh3_allreduce shows what it does there.              *)
CallsOn(t) == {c \in Calls : Fits(t, c)}

BarrierCall == [op |-> "Barrier", root |-> 0]

(* Every call followed by every call, with streams that buffer everything:  *)
(* what one leaves behind meets the next.                                   *)
CallPairs ==
  UNION {{Setup(t, <<c, d>>, 9, 0) : c \in CallsOn(t), d \in CallsOn(t)} : t \in Topologies}

(* Each call, then the Barrier that test_ccl.cpp runs after it.             *)
CallThenBarrier(cap, crashes) ==
  UNION {{Setup(t, <<c, BarrierCall>>, cap, crashes) : c \in CallsOn(t)} : t \in Topologies}

PairsAndCrashes == CallPairs \cup CallThenBarrier(9, 1)
Blocking == CallThenBarrier(0, 0)

AllReduceCall == [op |-> "AllReduce", root |-> 0]
LoneMeshAllReduce == {Setup("fullmesh", <<AllReduceCall>>, 0, 0)}

(* Only connected ranks talk: the peer of every transport call is one the   *)
(* topology's GetNeighbors lists, so GetTransport finds it.                 *)
ASSUME OnlyNeighbors ==
  \A c \in Calls, r \in Ranks :
    /\ \A i \in DOMAIN RingCode[c][r].steps :
         \A p \in RingCode[c][r].steps[i].parts : p.peer \in RingNeighbors(r)
    /\ \A i \in DOMAIN MeshCode[c][r].steps :
         \A p \in MeshCode[c][r].steps[i].parts : p.peer \in MeshNeighbors(r)
=============================================================================
