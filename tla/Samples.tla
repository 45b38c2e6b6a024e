------------------------------- MODULE Samples -------------------------------
(***************************************************************************)
(* All pure parts of the system, checked on every input of small families: *)
(* besides those of PlainSamples the ones whose inputs are nested, filters *)
(* and queries.                                                            *)
(***************************************************************************)
EXTENDS PlainSamples

Fi == INSTANCE Filters
Qu == INSTANCE QueryLimits WITH Variable <- -1, Capped <- 3, ScalarCost <- 1, ObjectCost <- 2

-----------------------------------------------------------------------------
(* Filters.  The fields: n a number, s a text, e a list of an enumeration.  *)

Typed == [n |-> "Int", s |-> "String", e |-> "Enum"]

Arguments(on, op) ==
    CASE op = "exists" -> {{}, {1}}
      [] on = "n" -> IF op \in {"in", "not_in"} THEN {{0, 1}} ELSE {{1}}
      [] on = "s" -> {{<<"a">>}, {<<"B">>}, {<<"a", ".">>}}
      [] on = "e" -> IF op = "array" THEN {{1, 2}} ELSE {{1}}

Tests(on) ==
    {Fi!Leaf(on, op, arg) : <<op, arg>> \in UNION {{o} \X Arguments(on, o) :
        o \in Fi!Offered(Typed[on], on = "e") \ {"notArray"}}}

SampleRecords == [n : {{}, {0}, {1}, {2}},
                  s : {{}, {<<"a">>}, {<<"B">>}, {<<"a", "b">>}, {<<"b", "A", ".">>}},
                  e : {{}, {1}, {1, 2}}]

(* One test, two tests, or two tests beside the negation of a third.        *)
PickFilter ==
    Fresh /\ \E rec \in SampleRecords, a \in Tests("n"), b \in Tests("s"), c \in Tests("e"),
                op \in Fi!Connectives :
        \E F \in {<<>>, <<a>>, <<b>>, <<c>>,
                  <<Fi!Connective(op, {<<a>>, <<b>>})>>,
                  <<Fi!Connective(op, {<<c>>, <<Fi!Connective("and", {<<a>>, <<b>>})>>})>>} :
            Pick([of |-> "filter", filter |-> F, rec |-> rec])

RECURSIVE Meaning(_, _, _)
Meaning(way, F, rec) ==
    \/ F = <<>>
    \/ CASE F[1].op = "and" -> \A p \in F[1].parts : Meaning(way, p, rec)
         [] F[1].op = "or" -> \E p \in F[1].parts : Meaning(way, p, rec)
         [] F[1].op = "not_contains" ->
               rec[F[1].on] # {} /\ Fi!Means(way, F[1].op, F[1].arg, rec[F[1].on])
         [] OTHER -> Fi!Means(way, F[1].op, F[1].arg, rec[F[1].on])

\* The tests of a filter, at all of its levels.
RECURSIVE TestsOf(_)
TestsOf(F) ==
    UNION {IF F[i].op \in Fi!Connectives THEN UNION {TestsOf(p) : p \in F[i].parts} ELSE {F[i]} :
             i \in DOMAIN F}

(* A filter with one key at each level selects in MongoDB the records that  *)
(* its operators say, texts compared without regard to capitals and         *)
(* not_contains only where the field is there - but for a special character *)
(* in an argument, which is not taken for itself; without not_contains it   *)
(* selects at least the records that fit it as written.  The in-memory      *)
(* interpreter of embedded arrays selects, on single fields that are there, *)
(* just those that fit it as written, so no more than MongoDB does          *)
(* (filters.js:241-510, compileFilter.js:11-67).  Bounds of 0, notArray and *)
(* not_contains on lists are left out: see the hazards.                     *)
FiltersAgree ==
    sample.of = "filter" =>
        LET F == sample.filter
            rec == sample.rec
            searches == {t \in TestsOf(F) : t.op \in {"contains", "startsWith", "not_contains"}}
            special == \E t \in searches : \E y \in t.arg : "." \in Range(y)
            excludes == \E t \in searches : t.op = "not_contains"
            known == \A t \in TestsOf(F) : t.op \in Fi!Recognised
        IN /\ Fi!MongoAccepts(F)
           /\ ~special => Fi!MongoHolds(F, rec) = Meaning("folded", F, rec)
           /\ ~excludes => (Meaning("exact", F, rec) => Fi!MongoHolds(F, rec))
           /\ (known /\ \A on \in DOMAIN rec : Cardinality(rec[on]) = 1) =>
                 /\ Fi!MemoryMatches(F, rec) = Meaning("exact", F, rec)
                 /\ ~excludes => (Fi!MemoryMatches(F, rec) => Fi!MongoHolds(F, rec))

-----------------------------------------------------------------------------
(* Queries: three nested fields, the innermost in a fragment or not.        *)

Node(kind, args, sub) == [kind |-> kind, args |-> args, sub |-> sub]
ALeaf == Node("leaf", <<>>, <<>>)
ArgsOf == {<<>>, <<1>>, <<2>>, <<3>>, <<2, 3>>}

PickQuery ==
    Fresh /\ \E outer, middle, inner, beside \in ArgsOf, framed \in BOOLEAN, depth \in 1 .. 4,
                cost \in {5, 20, 60} :
        LET last == Node("field", inner, <<ALeaf, ALeaf>>)
            low == IF framed THEN Node("fragment", <<>>, <<last>>) ELSE last
        IN Pick([of |-> "query", depth |-> depth, cost |-> cost, selection |->
                 <<Node("field", outer,
                        <<ALeaf, Node("field", beside, <<ALeaf>>),
                          Node("field", middle, <<low>>)>>)>>])

RECURSIVE Answers(_), Nesting(_)
\* The fields of the largest answer, and how deep it is.
Answers(selection) ==
    Qu!SumOver(selection, LAMBDA node :
        IF node.kind = "leaf" THEN 1
        ELSE Answers(node.sub) * (IF node.args = <<>> THEN 1 ELSE node.args[1]))
Nesting(selection) ==
    IF selection = <<>> THEN 0
    ELSE LET node == Head(selection)
             own == Nesting(node.sub) + (IF node.kind = "fragment" THEN 0 ELSE 1)
         IN IF own > Nesting(Tail(selection)) THEN own ELSE Nesting(Tail(selection))

(* Where every list is asked for with a literal first of at most the cap: a *)
(* query that passes both rules answers no more fields than the limit of    *)
(* complexity and nests no deeper than the limit of depth, fragments or not *)
(* (complexityLimit.js:26-68, depthLimit.js:16-80).                         *)
CostCoversAnswer ==
    sample.of = "query" =>
        (Qu!Allowed(sample.selection, sample.depth, sample.cost) =>
            /\ Answers(sample.selection) <= sample.cost
            /\ Nesting(sample.selection) <= sample.depth)

-----------------------------------------------------------------------------
SampleNext ==
    \/ PickFilter \/ PickQuery \/ PlainNext
=============================================================================
