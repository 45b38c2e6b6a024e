------------------------------ MODULE MCNested ------------------------------
(* Instances of NestedMutations for TLC. *)
EXTENDS NestedMutations, TLC

CONSTANTS p1, p2, k1, k2, m1, m2, m3, r1, r2

TwoParents == {p1, p2}
FiveKids == {k1, k2, m1, m2, m3}
ThereBefore == {p1, k1, m1, m2}
TwoRequests == {r1, r2}

(* The k belong to the first field, the m to the second. *)
KidField == [k \in FiveKids |-> IF k \in {k1, k2} THEN 1 ELSE 2]
OwnNames == <<"first", "second">>

ListThenSingle ==
    {[list |-> <<TRUE, FALSE>>, backList |-> <<b, ~b>>] : b \in BOOLEAN}

Symmetry == Permutations(TwoRequests) \cup Permutations({m1, m2})
=============================================================================
