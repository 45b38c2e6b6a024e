------------------------------- MODULE Reads -------------------------------
(***************************************************************************)
(* The read resolvers over a type whose fields live in two applications:   *)
(* part of a record in this application's database, part of it in a remote *)
(* application that is asked over HTTP.  One client read runs through its  *)
(* awaits while other clients add and delete records on both sides:        *)
(*                                                                         *)
(*   "list"     fetchList.js, the filter names no remote field             *)
(*   "byremote" fetchList.js, the filter names a remote field              *)
(*   "one"      fetchSingle.js, the parameter is a local field             *)
(*   "oneremote" fetchSingle.js, the parameter is a remote field           *)
(*   "field"    a list relation: commonFunctionForRelationAndMeta.js       *)
(*   "count"    its _Meta field with a filter                              *)
(*                                                                         *)
(* A part of a record is represented by the id of the record it belongs    *)
(* to, so a part put on the wrong record shows.  ModeKnown says whether    *)
(* constants/index.js defines DB_AGGREGATION_MODE_STATUS.OPTIONS, which    *)
(* every list and single read looks up first; at this commit it does not.  *)
(***************************************************************************)
EXTENDS Common, Naturals, FiniteSets, Sequences

CONSTANTS RecordIds, ModeKnown, MaxWrites

ASSUME RecordsAssumption == IsFiniteSet(RecordIds)

VARIABLES here,    \* ids of the records of the local database
          there,   \* ids of the records of the remote application
          refs,    \* the references of the root record's list relation
          op,      \* the read under way
          steady,  \* ids on both sides ever since the read began
          edits   \* writes of other clients so far

readVars == <<here, there, refs, op, steady, edits>>

Kinds == {"list", "byremote", "one", "oneremote", "field", "count"}
NoRead == [kind |-> None, at |-> "idle", wanted |-> {}, rows |-> <<>>, far |-> <<>>, back |-> {},
           faulty |-> FALSE, answer |-> <<>>]

\* The sequences that hold each element of S once: the order of a find is not promised.
Orders(S) == {s \in [1..Cardinality(S) -> S] : \A i, j \in DOMAIN s : s[i] = s[j] => i = j}

ReadInit == /\ here \in SUBSET RecordIds
            /\ there \in SUBSET RecordIds
            /\ refs \in UNION {Orders(S) : S \in SUBSET RecordIds}
            /\ op = NoRead
            /\ steady = {}
            /\ edits = 0

RefIds == {refs[i] : i \in DOMAIN refs}
Go(at) == op' = [op EXCEPT !.at = at]

\* Where a read that goes on begins: hasParamFilterRemoteFields, and remoteFields of a parameter.
Route(kind) == IF kind \in {"byremote", "oneremote"} THEN "remote" ELSE "local"

\* A client asks: every record, the records a filter matches, one record, or a relation.
StartRead == /\ op.at = "idle"
             /\ \E kind \in Kinds, S \in SUBSET RecordIds :
                  /\ S # {}
                  /\ kind \in {"one", "oneremote"} => Cardinality(S) = 1
                  /\ kind \in {"field", "count"} => S = RefIds
                  /\ op' = [NoRead EXCEPT !.kind = kind, !.wanted = S,
                                        !.at = IF kind = "count" THEN "local" ELSE "check"]
                  /\ steady' = S \cap here \cap there
             /\ UNCHANGED <<here, there, refs, edits>>

\* checkIfDatabaseAggregationAllowedOnType: with OPTIONS the type's mode is "cascade" and the
\* resolvers go on; without it the lookup of OPTIONS.FORCE throws a TypeError.
Check == /\ op.at = "check"
         /\ Go(IF ModeKnown THEN Route(op.kind) ELSE "broken")
         /\ UNCHANGED <<here, there, refs, steady, edits>>

Elem(id, far) == [id |-> id, far |-> far, extra |-> None]

\* The local read by filter, by id_in or by id; a missing single record answers null.
ReadLocal == /\ op.at = "local"
             /\ \E rows \in Orders(op.wanted \cap here) :
                  op' = IF op.kind = "count" \/ rows = <<>>
                        THEN [op EXCEPT !.at = "done",
                                        !.answer = [i \in DOMAIN rows |-> Elem(rows[i], None)]]
                        ELSE [op EXCEPT !.rows = rows, !.at = "parts",
                                        !.far = [i \in DOMAIN rows |-> None]]
             /\ UNCHANGED <<here, there, refs, steady, edits>>

\* One of the parallel remote reads of a row comes back, in any order: the record's remote part,
\* null, or the errors, which RemoteController.query returns as a value like any other.
RemotePart == /\ op.at = "parts"
              /\ \E i \in DOMAIN op.rows \ op.back :
                   \/ op' = [op EXCEPT !.back = @ \cup {i},
                                       !.far[i] = IF op.rows[i] \in there THEN op.rows[i] ELSE None]
                   \/ op' = [op EXCEPT !.back = @ \cup {i}, !.faulty = TRUE]
              /\ UNCHANGED <<here, there, refs, steady, edits>>

\* addAdditionalRelationFieldsToResponse: a relation's own fields join the record they point to.
Extended(elems) ==
    [i \in DOMAIN elems |->
        [elems[i] EXCEPT !.extra = IF elems[i].id \in RefIds THEN elems[i].id ELSE None]]

\* Promise.all over the rows: each row is spread together with its own remote parts.
Assemble == /\ op.at = "parts"
            /\ op.back = DOMAIN op.rows
            /\ LET elems == [i \in DOMAIN op.rows |-> Elem(op.rows[i], op.far[i])]
               IN op' = [op EXCEPT !.at = "done",
                                   !.answer = IF op.kind = "field" THEN Extended(elems) ELSE elems]
            /\ UNCHANGED <<here, there, refs, steady, edits>>

\* A read by a remote field asks the remote application first.  Nothing found ends the read;
\* GraphQL errors have no ids, so a list goes on to find no row and a single read is null.
ReadRemote ==
    /\ op.at = "remote"
    /\ \/ \E far \in Orders(op.wanted \cap there) :
            op' = IF far = <<>> THEN [op EXCEPT !.at = "done"]
                  ELSE [op EXCEPT !.far = far, !.at = "byid"]
       \/ op' = [op EXCEPT !.at = "done", !.faulty = TRUE]
    /\ UNCHANGED <<here, there, refs, steady, edits>>

\* Variant: the remote value of the same position.
JoinedInOrder(rows, far) == [i \in DOMAIN rows |-> Elem(rows[i], far[i])]

\* find(values, ['id', localValue.id]): each local row with the remote value of its id.
Joined(rows, far) ==
    [i \in DOMAIN rows |->
        Elem(rows[i], IF \E j \in DOMAIN far : far[j] = rows[i] THEN rows[i] ELSE None)]

\* Then the local rows of the ids found: a list keeps those the local database has, a single read
\* spreads the local record, or nothing, over the remote one.
ReadById ==
    /\ op.at = "byid"
    /\ LET ids == {op.far[i] : i \in DOMAIN op.far}
       IN IF op.kind = "oneremote"
          THEN op' = [op EXCEPT !.at = "done", !.answer = <<Elem(op.far[1], op.far[1])>>]
          ELSE \E rows \in Orders(ids \cap here) :
                 op' = [op EXCEPT !.at = "done", !.answer = Joined(rows, op.far)]
    /\ UNCHANGED <<here, there, refs, steady, edits>>

\* Other clients add and delete records, on either side (bounded by MaxWrites).
Edit == /\ edits < MaxWrites
        /\ op.at # "idle" /\ op.at \notin {"done", "broken"}
        /\ \E id \in RecordIds :
             \/ /\ here' = (here \ {id}) \cup ({id} \ here)
                /\ UNCHANGED there
                /\ steady' = IF id \in here THEN steady \ {id} ELSE steady
             \/ /\ there' = (there \ {id}) \cup ({id} \ there)
                /\ UNCHANGED here
                /\ steady' = IF id \in there THEN steady \ {id} ELSE steady
        /\ edits' = edits + 1
        /\ UNCHANGED <<refs, op>>

ReadNext ==
    \/ StartRead \/ Check \/ ReadLocal \/ RemotePart \/ Assemble \/ ReadRemote \/ ReadById
    \/ Edit

ReadSpec == ReadInit /\ [][ReadNext]_readVars

AnsweredIds == {op.answer[i].id : i \in DOMAIN op.answer}

\* Records are assembled whole: an answered record carries remote and relation parts of its own
\* id or none, is answered once, and was asked for; and unless a remote call failed, a record
\* that was on both sides throughout the read is answered, with its remote part.
\* fetchList.js:122-182, fetchSingle.js:37-63, addAdditionalRelationFieldsToResponse.js.
AnswersBelongTogether ==
    op.at = "done" =>
        /\ AnsweredIds \subseteq op.wanted
        /\ Cardinality(AnsweredIds) = Len(op.answer)
        /\ \A i \in DOMAIN op.answer :
             LET e == op.answer[i]
             IN /\ e.far \in {e.id, None}
                /\ op.kind = "field" => e.extra = e.id
                /\ (e.id \in steady /\ ~op.faulty /\ op.kind # "count") => e.far = e.id
        /\ ~op.faulty => steady \subseteq AnsweredIds

\* No read ends in a TypeError: docs/directives-reference.md:62 has a type without the directive
\* read in "cascade" mode.
ReadsAreServed == op.at # "broken"
=============================================================================
