---------------------------- MODULE RowSecurity ----------------------------
(***************************************************************************)
(* Row-level security in PostgreSQL: rls.js puts the policy of a model     *)
(* into the filter of a request, and sqlModelGenerator.js makes a Sequelize *)
(* clause of it.                                                           *)
(*                                                                         *)
(* A filter is a sequence of entries, one for each key of the object in    *)
(* the order of its keys, which decides what Sequelize gets: tests         *)
(* (FilterTests), and entries and / or.  These have a set of filters as    *)
(* their parts, of which only counts whether a record passes them.         *)
(***************************************************************************)
EXTENDS FilterTests

CONSTANT None

(* The operators that the clause knows.  not_in and not_contains are not    *)
(* among them: a key is cut at its last underscore.                         *)
Translated == {"", "not", "in", "contains", "startsWith", "exists"} \cup Bounds

Symbol(e) ==
    CASE e.op \in {"contains", "startsWith"} -> "iLike"
      [] e.op = "not" \/ (e.op = "exists" /\ e.arg # {}) -> "ne"
      [] OTHER -> e.op

(* Two keys of one field share an object of conditions; the later of two    *)
(* with one symbol replaces the earlier, a bare key replaces the object.    *)
Later(F, i) == {F[j] : j \in {k \in i + 1 .. Len(F) :
                                F[k].op \notin Connectives /\ F[k].on = F[i].on}}
Overwritten(F, i) ==
    \E e \in Later(F, i) : e.op = "" \/ Symbol(e) = Symbol(F[i])

(* After a bare key there is no object to add to: the assignment throws.    *)
SqlThrows(F) ==
    \E i \in DOMAIN F : F[i].op = "" /\ Later(F, i) # {}

(* Comparisons with NULL are not true; texts are compared by ILIKE.  The    *)
(* other special character of its patterns, %, is left out.                 *)
SqlMeets(op, arg, S) ==
    IF op = "exists" THEN (S # {}) = (arg # {}) ELSE S # {} /\ Means("like", op, arg, S)

(* buildSequelizeWhereClause: the keys of one object are a conjunction; the *)
(* parts of and / or are filters of their own, held are those rec passes.   *)
SqlHolds(F, rec, held) ==
    \A i \in DOMAIN F :
        CASE F[i].op = "and" -> F[i].parts \subseteq held
          [] F[i].op = "or" -> F[i].parts \cap held # {}
          [] OTHER -> Overwritten(F, i) \/ SqlMeets(F[i].op, F[i].arg, rec[F[i].on])

-----------------------------------------------------------------------------
(* Row-level security.  A request has what its context says (ctx) and, for  *)
(* user and app, what their records say: claims are functions from names.   *)

(* getClaimValueFromContext: the first that is there, of the context, the   *)
(* user and the app.                                                        *)
Claim(request, claim) ==
    LET places == <<request.ctx, request.user, request.app>>
        has == {i \in DOMAIN places : places[i][claim] # None}
    IN IF has = {} THEN None
       ELSE places[CHOOSE i \in has : \A j \in has : i <= j][claim]

(* isRLSExempt *)
Exempt(request) == request.bypass \/ request.role \in {"ADMIN", "SYSTEM"}

(* Variant: the client's own value of the field is kept. *)
SecuredIfAbsent(F, field, claim) ==
    LET own == {i \in DOMAIN F : F[i].op = "" /\ F[i].on = field}
    IN IF own # {} THEN F ELSE Append(F, Leaf(field, "", {claim}))

(* The field is set to the claim, in its place if the client had sent it.   *)
Secured(F, field, claim) ==
    LET own == {i \in DOMAIN F : F[i].op = "" /\ F[i].on = field}
        entry == Leaf(field, "", {claim})
    IN IF own # {} THEN [i \in DOMAIN F |-> IF i \in own THEN entry ELSE F[i]]
       ELSE Append(F, entry)

(* applyRowLevelSecurity for one policy: without a claim an error is thrown. *)
Refuses(request, claim) == ~Exempt(request) /\ Claim(request, claim) = None

SecuredFor(request, F, field, claim) ==
    IF Exempt(request) THEN F ELSE Secured(F, field, Claim(request, claim))

(* What the database is asked: by lists, counts and reads by a key for what *)
(* the policy makes of the filter (fetchMany, fetchCount, fetchOne); by     *)
(* fetchById for the id as it came, since only the refusal is heeded there. *)
AskedFor(by, request, F, field, claim) ==
    IF by = "id" THEN F ELSE SecuredFor(request, F, field, claim)
=============================================================================
