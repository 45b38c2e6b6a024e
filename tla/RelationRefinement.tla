------------------------- MODULE RelationRefinement -------------------------
(* What the mutations of a relation implement.                              *)
EXTENDS RelationMutations

Contract == INSTANCE RelationContract WITH
    live <- settled.live, rel <- settled.rel

(* One mutation at a time, without faults: between mutations the relation   *)
(* changes as RelationContract says, for every kind of relation.            *)
KeepsRelation == Contract!Spec
=============================================================================
