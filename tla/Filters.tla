------------------------------ MODULE Filters ------------------------------
(***************************************************************************)
(* Nested filters: filters.js makes a MongoDB query of one, and            *)
(* compileFilter.js applies it to elements of an array in memory (the      *)
(* third interpreter is in RowSecurity).  query.js decides which operators *)
(* a client may use.                                                       *)
(*                                                                         *)
(* A filter is a sequence of entries, one for each key of the object:      *)
(* tests (FilterTests), and entries and / or, which have a set of filters  *)
(* as their parts.                                                         *)
(***************************************************************************)
EXTENDS FilterTests

(* The operators that query.js generates for a field; "" is the bare name.  *)
Offered(type, isList) ==
    CASE type = "Boolean" -> {"", "not", "exists"}
      [] type \in {"Int", "Date"} -> {"", "not", "in", "not_in", "exists"} \cup Bounds
      [] type = "ID" -> {"", "not", "in", "not_in"}
      [] type = "String" -> {"", "not", "in", "not_in", "contains", "not_contains",
                             "exists", "startsWith"}
      [] type = "Enum" -> {"", "not", "in", "not_in", "exists"} \cup
                              (IF isList THEN {"array", "notArray"} ELSE {})

-----------------------------------------------------------------------------
(* At every level a filter has at most one key; two are an error.           *)
RECURSIVE MongoAccepts(_)
MongoAccepts(F) ==
    /\ Len(F) <= 1
    /\ \A i \in DOMAIN F : F[i].op \in Connectives =>
          \A p \in F[i].parts : MongoAccepts(p)

(* Variant: a disjunction is compiled as the conjunction of its parts. *)
RECURSIVE MongoHoldsAll(_, _)
MongoHoldsAll(F, rec) ==
    \/ F = <<>>
    \/ IF F[1].op \in Connectives THEN \A p \in F[1].parts : MongoHoldsAll(p, rec)
       ELSE Meets(Condition(F[1].op, F[1].arg), rec[F[1].on])

(* getQueryParams and getResolvedQuery: no key, or an empty and / or, asks  *)
(* for everything.                                                          *)
RECURSIVE MongoHolds(_, _)
MongoHolds(F, rec) ==
    \/ F = <<>>
    \/ CASE F[1].op = "and" -> \A p \in F[1].parts : MongoHolds(p, rec)
         [] F[1].op = "or" -> F[1].parts = {} \/ \E p \in F[1].parts : MongoHolds(p, rec)
         [] OTHER -> Meets(Condition(F[1].op, F[1].arg), rec[F[1].on])

-----------------------------------------------------------------------------
(* In memory, on the elements of an embedded array.                         *)

Recognised == {"", "not", "in", "not_in", "lt", "gt", "contains", "not_contains",
               "startsWith"}

(* recursiveFilter and compileFilter, on a field that is there: "some"      *)
(* element passes the test, texts as they are written; an operator that is  *)
(* not known is looked up as a field of that name, which is undefined.      *)
MemoryHolds(op, arg, S) ==
    CASE op \notin Recognised -> FALSE
      [] op \in {"not", "not_in"} -> S \ arg # {}
      [] op = "not_contains" -> \E x \in S, y \in arg : ~Occurs("exact", y, x)
      [] op \in {"", "in"} -> S \cap arg # {}
      [] OTHER -> \E x \in S, y \in arg : Compare("exact", op, x, y)

(* and / or: of each part only the first key is looked at; at the top level *)
(* processFilter makes a part of each key.                                  *)
RECURSIVE MemoryPart(_, _)
MemoryPart(e, rec) ==
    LET first(p) == MemoryPart(p[1], rec)
    IN CASE e.op = "and" -> \A p \in e.parts : first(p)
         [] e.op = "or" -> \E p \in e.parts : first(p)
         [] OTHER -> MemoryHolds(e.op, e.arg, rec[e.on])

MemoryMatches(F, rec) == \A i \in DOMAIN F : MemoryPart(F[i], rec)
=============================================================================
