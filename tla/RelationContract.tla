-------------------------- MODULE RelationContract --------------------------
(***************************************************************************)
(* What the mutations of a relation promise when they do not overlap: the  *)
(* relation is one set of pairs, a single field keeps one partner and a    *)
(* new partner replaces the old one, and deleted documents take part in    *)
(* nothing.                                                                *)
(***************************************************************************)
EXTENDS Naturals

CONSTANTS As, Bs, Schemas

VARIABLES schema, live, rel

vars == <<schema, live, rel>>

Init ==
    /\ schema \in Schemas
    /\ live = As \cup Bs
    /\ rel \in SUBSET (As \X Bs)

(* The pairs that a new pair <<a, b>> displaces.  An addition displaces     *)
(* them even if its other end does not exist, and then adds nothing.        *)
Displaced(a, b) ==
    {p \in rel : \/ ~schema.listA /\ p[1] = a
                 \/ schema.twoWay /\ ~schema.listB /\ p[2] = b}

Connect(a, b) ==
    /\ <<a, b>> \notin rel
    /\ rel' = (rel \ Displaced(a, b)) \cup {p \in {<<a, b>>} : a \in live /\ b \in live}
    /\ UNCHANGED <<schema, live>>

Disconnect(a, b) ==
    /\ <<a, b>> \in rel
    /\ rel' = rel \ {<<a, b>>}
    /\ UNCHANGED <<schema, live>>

Delete(d) ==
    /\ live' = live \ {d}
    /\ rel' = {p \in rel : p[1] # d /\ p[2] # d}
    /\ UNCHANGED schema

Next ==
    \/ \E a \in As, b \in Bs : Connect(a, b) \/ Disconnect(a, b)
    \/ \E d \in live : Delete(d)

Spec == Init /\ [][Next]_vars
=============================================================================
