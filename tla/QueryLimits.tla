---------------------------- MODULE QueryLimits ----------------------------
(***************************************************************************)
(* The two validation rules that bound a query before it is executed:      *)
(* depthLimit.js and complexityLimit.js.                                   *)
(*                                                                         *)
(* A selection is a sequence of nodes [kind, args, sub]: a "leaf" field, a *)
(* "field" with a selection of its own, or a "fragment", inline or spread. *)
(* args are the values of first and last in their order, a literal number  *)
(* or Variable.  The ignored fields __schema and __type are no nodes.       *)
(***************************************************************************)
EXTENDS Integers, Sequences, FiniteSetsExt

CONSTANT Variable, Capped, ScalarCost, ObjectCost

SumOver(s, Value(_)) == MapThenSumSet(LAMBDA i : Value(s[i]), DOMAIN s)

(* Of first and last the one that is written first; a variable, 0 and a     *)
(* negative number count once.                                              *)
Multiplier(args) ==
    IF args # <<>> /\ args[1] # Variable /\ args[1] > 0
    THEN IF args[1] < Capped THEN args[1] ELSE Capped
    ELSE 1

(* Variant: the answers of a list are counted once. *)
RECURSIVE CostOnce(_)
CostOnce(selection) ==
    SumOver(selection, LAMBDA node :
        CASE node.kind = "leaf" -> ScalarCost
          [] node.kind = "fragment" -> CostOnce(node.sub)
          [] node.kind = "field" -> ObjectCost + CostOnce(node.sub))

(* calculateCost *)
RECURSIVE Cost(_)
Cost(selection) ==
    SumOver(selection, LAMBDA node :
        CASE node.kind = "leaf" -> ScalarCost
          [] node.kind = "fragment" -> Cost(node.sub)
          [] node.kind = "field" -> ObjectCost + Cost(node.sub) * Multiplier(node.args))

(* checkDepth *)
RECURSIVE Depth(_)
Depth(selection) ==
    Max({0} \cup {LET node == selection[i]
                  IN CASE node.kind = "leaf" -> 1
                       [] node.kind = "fragment" -> Depth(node.sub)
                       [] node.kind = "field" -> 1 + Depth(node.sub)
                   : i \in DOMAIN selection})

Allowed(selection, maxDepth, maxCost) ==
    Depth(selection) <= maxDepth /\ Cost(selection) <= maxCost
=============================================================================
