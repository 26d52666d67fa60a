----------------------------- MODULE MCBarriers -----------------------------
(* One instance for TLC of the barriers of both topologies: `topology` says *)
(* which of them the ranks run.                                             *)
EXTENDS RingBarrier

VARIABLES topology, hello, heard, answered, acked

Mesh == INSTANCE MeshBarrier

InitEither == topology \in {"ring", "fullmesh"} /\ Init /\ Mesh!Init

OverRing(step) ==
  topology = "ring" /\ step /\ UNCHANGED <<topology, hello, heard, answered, acked>>
OverMesh(step) == topology = "fullmesh" /\ step /\ UNCHANGED <<topology, sent, got>>

NextEither == \/ OverRing(Next)
              \/ OverMesh(Mesh!Next)

SpecEither ==
  /\ InitEither /\ [][NextEither]_<<topology, vars, Mesh!vars>>
  /\ topology = "ring" => Fairness
  /\ topology = "fullmesh" => Mesh!Fairness

(* The counters of a Barrier keep the relations its proof rests on: no rank *)
(* has read more than was sent, or is ahead of the ranks it waits for.      *)
IndInv == IF topology = "ring" THEN IInv ELSE Mesh!IInv

(* On the mesh an acknowledgement is taken by the call it answers (see      *)
(* MeshBarrier).                                                            *)
AckOfThisCall == topology = "fullmesh" => Mesh!AckOfThisCall
=============================================================================
