----------------------------- MODULE MCRelation -----------------------------
(* Instances of RelationMutations for TLC.                                  *)
EXTENDS RelationRefinement, TLC

CONSTANTS a1, a2, b1, b2, r1, r2, r3

OneA == {a1}
TwoA == {a1, a2}
OneB == {b1}
TwoB == {b1, b2}
OneRequest == {r1}
TwoRequests == {r1, r2}
ThreeRequests == {r1, r2, r3}
AnyOp == {"add", "remove", "delete"}
Additions == {"add"}
Deletions == {"delete"}

Updating == {s \in Schema : s.hasUpdate}
OneToOne == {s \in Updating : ~s.listA /\ ~s.listB /\ s.twoWay}
Installed == {s \in Schema : ~s.hasUpdate /\ ~s.listA /\ ~s.listB /\ s.twoWay}

RequestSymmetry == Permutations(Requests)
=============================================================================
