----------------------------- MODULE FilterTests -----------------------------
(***************************************************************************)
(* The tests of which filters are made, what MongoDB makes of them, and    *)
(* the filters by a relation (filters.js).                                 *)
(*                                                                         *)
(* A test <field>_<op> is an entry [on, op, arg]: arg is a set, a          *)
(* singleton for operators that take one value.  A field's value is the    *)
(* set of its elements, empty when the field is absent.                    *)
(***************************************************************************)
EXTENDS Naturals, SequencesExt

Leaf(on, op, arg) == [on |-> on, op |-> op, arg |-> arg]
Connective(op, parts) == [op |-> op, parts |-> parts]

Bounds == {"lt", "lte", "gt", "gte"}
Connectives == {"and", "or"}

-----------------------------------------------------------------------------
(* What the operators mean, for a field that holds the elements S.  Texts   *)
(* are compared in one of four ways: as they are written ("exact"), without *)
(* regard to capitals ("folded"), as the pattern of a regular expression    *)
(* that ignores case ("regex"; of its special characters there is the one   *)
(* that stands for any) and as that of ILIKE ("like", which has its own).   *)

Folded(c) == CASE c = "A" -> "a" [] c = "B" -> "b" [] OTHER -> c

SameLetter(way, p, c) ==
    \/ p = c
    \/ way # "exact" /\ Folded(p) = Folded(c)
    \/ <<way, p>> \in {<<"regex", ".">>, <<"like", "_">>}

\* The pattern is found in the text after its first i letters.
FoundAt(way, part, text, i) ==
    /\ i + Len(part) <= Len(text)
    /\ \A k \in DOMAIN part : SameLetter(way, part[k], text[i + k])

Occurs(way, part, text) == \E i \in 0 .. Len(text) : FoundAt(way, part, text, i)

Compare(way, op, x, y) ==
    CASE op = "lt" -> x < y [] op = "lte" -> x <= y
      [] op = "gt" -> x > y [] op = "gte" -> x >= y
      [] op = "contains" -> Occurs(way, y, x)
      [] op = "startsWith" -> FoundAt(way, y, x, 0)

Means(way, op, arg, S) ==
    CASE op = "" -> arg \cap S # {}
      [] op = "array" -> S = arg
      [] op = "notArray" -> S # arg
      [] op = "in" -> arg \cap S # {}
      [] op \in {"not", "not_in"} -> arg \cap S = {}
      [] op = "exists" -> (S # {}) = (arg # {})
      [] op = "not_contains" -> \A x \in S, y \in arg : ~Occurs(way, y, x)
      [] OTHER -> \E x \in S, y \in arg : Compare(way, op, x, y)

-----------------------------------------------------------------------------
(* MongoDB.  A condition is what stands beside a path of the query.         *)

(* generateQueryParamsForFilter and ...ForNotFilter.  A bound of 0 becomes  *)
(* '', which Mongoose casts to null; an unknown operator (array, notArray)  *)
(* is taken for equality.  The tests of texts put their argument, as it is, *)
(* into a regular expression with the option i.                             *)
Condition(op, arg) ==
    CASE op \in Bounds -> [test |-> op, to |-> arg \ {0}]
      [] op = "in" -> [test |-> "in", to |-> arg]
      [] op = "not_in" -> [test |-> "nin", to |-> arg]
      [] op = "not" -> [test |-> "ne", to |-> arg]
      [] op \in {"array", "notArray"} -> [test |-> "whole", to |-> arg]
      [] op \in {"contains", "startsWith", "not_contains"} ->
            [test |-> "regex", of |-> op, to |-> arg]
      [] OTHER -> [test |-> op, to |-> arg]

(* The server's meaning of a condition: of an array some element must meet  *)
(* it, a negation holds of all; null stands for absence.  A field that is   *)
(* not there matches no regular expression, one that excludes included.     *)
Meets(c, S) ==
    CASE c.test \in Bounds ->
            IF c.to = {} THEN c.test \in {"lte", "gte"} /\ S = {}
            ELSE \E x \in S, y \in c.to : Compare("exact", c.test, x, y)
      [] c.test \in {"", "in"} -> c.to \cap S # {}
      [] c.test \in {"ne", "nin"} -> c.to \cap S = {}
      [] c.test = "whole" -> S = c.to
      [] c.test = "exists" -> (S # {}) = (c.to # {})
      [] c.test = "regex" ->
            \E x \in S, y \in c.to :
               IF c.of = "not_contains" THEN ~Occurs("regex", y, x)
               ELSE Compare("regex", c.of, x, y)

-----------------------------------------------------------------------------
(* Relation filters <field>_some and <field>_none.  A document's links are  *)
(* pairs of a related id and the value of an additional field; the related  *)
(* collection is a function from the ids that exist to their values.  The   *)
(* inner filter is one test, or an and / or of tests; a test asks about the *)
(* related document ("own") or about the link ("extra", equality only).     *)

(* getRelatedTypeIdsFromRelationFilter: the ids that meet the tests.        *)
RelatedIds(op, tests, coll) ==
    {k \in DOMAIN coll :
        \/ tests = {}
        \/ op = "and" /\ \A t \in tests : Meets(Condition(t.op, t.arg), coll[k])
        \/ op = "or" /\ \E t \in tests : Meets(Condition(t.op, t.arg), coll[k])}

(* Variant: links to documents that are gone count as matching. *)
SubsetHoldsDangling(isNone, op, tests, links, coll) ==
    LET ids == RelatedIds(op, tests, coll)
    IN IF isNone THEN \A l \in links : l[1] \in DOMAIN coll \ ids
       ELSE \E l \in links : l[1] \in ids

(* { <field>.typeId: { $in / $nin: ids } }                                  *)
SubsetHolds(isNone, op, tests, links, coll) ==
    LET ids == RelatedIds(op, tests, coll)
    IN IF isNone THEN \A l \in links : l[1] \notin ids
       ELSE \E l \in links : l[1] \in ids

(* A test of an additional field, and its negation for <field>_none.        *)
OnLinks(isNone, links, t) == isNone # (\E l \in links : {l[2]} \cap t.arg # {})

(* getAndOrArrayRelationFilterValue: the tests of the related documents are *)
(* one query, those of additional fields a condition each, and the list of  *)
(* all of them is and-ed or or-ed.                                          *)
CombinedHolds(isNone, op, tests, links, coll) ==
    LET own == {t \in tests : t.on = "own"}
        related == SubsetHolds(isNone, op, own, links, coll)
    IN IF op = "and" THEN related /\ \A t \in tests \ own : OnLinks(isNone, links, t)
       ELSE related \/ \E t \in tests \ own : OnLinks(isNone, links, t)

(* generateQueryParamsForRelationFilter: and, or, or one test.              *)
RelationHolds(isNone, op, tests, links, coll) ==
    IF op \in Connectives THEN CombinedHolds(isNone, op, tests, links, coll)
    ELSE \A t \in tests : IF t.on = "extra" THEN OnLinks(isNone, links, t)
                          ELSE SubsetHolds(isNone, "and", {t}, links, coll)
=============================================================================
