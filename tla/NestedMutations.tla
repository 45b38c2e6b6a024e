--------------------------- MODULE NestedMutations ---------------------------
(***************************************************************************)
(* add<Type> and update<Type> with nested input: for each relation field   *)
(* the client may create related records and connect existing ones.  One   *)
(* mutation creates the related records, counts the connected ones, calls  *)
(* the connection prehooks, saves its own record and then writes the       *)
(* references back, all as separate database calls; an error on the way    *)
(* answers the client and deletes, unobserved, what was noted as saved.    *)
(***************************************************************************)
EXTENDS Naturals, FiniteSets

CONSTANTS
    Parents,     \* the records that add and update are about
    Kids,        \* the related records
    Existing,    \* the records that are there at the start
    Requests,    \* mutations
    NumFields,   \* relation fields of the parents' type, in input order
    FieldOf,     \* the field a kid belongs to: each field has a type of its own
    BackName,    \* the name of the field that refers back, in a field's type
    Schemas,     \* the kinds of relation to consider
    MaxOpen,     \* bound: mutations in progress together
    MaxInput,    \* bound: related records that one mutation names
    MaxFaults    \* bound: rejected operations and other clients' deletions

Fields == 1 .. NumFields
Docs == Parents \cup Kids

ASSUME DocsAssumption ==
    Parents # {} /\ Parents \cap Kids = {} /\ Existing \subseteq Docs
ASSUME FieldsAssumption == NumFields \in Nat /\ FieldOf \in [Kids -> Fields]
ASSUME SchemasAssumption ==
    Schemas \subseteq [list : [Fields -> BOOLEAN], backList : [Fields -> BOOLEAN]]
ASSUME BoundsAssumption == {MaxOpen, MaxInput, MaxFaults} \subseteq Nat

(* A database call in flight.  "cut" is the $pull or $unset on a former     *)
(* partner, "undo" the deletion of a roll-back.                             *)
Job == [req : Requests, kind : {"save", "link", "cut", "undo"}, on : Docs,
        found : BOOLEAN]

Request == [op : {"none", "add", "update"}, p : Parents,
            news : SUBSET Kids, connects : SUBSET Kids,
            at : {"idle", "create", "count", "fetch", "hook", "save", "link", "done"},
            todo : SUBSET Fields,      \* fields whose input is being validated
            broken : SUBSET Fields,    \* fields for which a creation was rejected
            saved : SUBSET Docs,       \* allSavedRelationRecords
            adding : SUBSET Kids,      \* the kids whose reference the parent takes
            former : SUBSET Kids,      \* partners that a connect replaces
            failed : BOOLEAN,          \* a reference could not be written
            answer : {"none", "ok", "error"},
            brokeAt : {"none", "create", "count", "fetch", "hook", "save", "link"}]

VARIABLES
    schema,   \* which fields are lists, at either end
    live,     \* the records that exist
    ref,      \* ref[p]: the kids that parent p refers to
    back,     \* back[k]: the parents that kid k refers to
    req, jobs,
    faults,   \* rejected operations and deletions so far
    gone,     \* kids that other clients deleted
    blurred   \* history: mutations with an operation that was rejected but took
              \* effect, or with a rejected cut or deletion of the roll-back

vars == <<schema, live, ref, back, req, jobs, faults, gone, blurred>>
db == <<live, ref, back>>

OfField(S, f) == {k \in S : FieldOf[k] = f}
IsList(k) == schema.list[FieldOf[k]]
Running(r) == req[r].at \notin {"idle", "done"} \/ req[r].todo # {}
                \/ \E j \in jobs : j.req = r
Quiet == \A r \in Requests : ~Running(r)

Init ==
    /\ schema \in Schemas
    /\ live = Existing
    /\ \E rel \in SUBSET ((Parents \cap Existing) \X (Kids \cap Existing)) :
          /\ \A x, y \in rel :
                /\ ~IsList(x[2]) /\ x[1] = y[1] /\ FieldOf[x[2]] = FieldOf[y[2]] => x = y
                /\ ~schema.backList[FieldOf[x[2]]] /\ x[2] = y[2] => x = y
          /\ ref = [p \in Parents |-> {k \in Kids : <<p, k>> \in rel}]
          /\ back = [k \in Kids |-> {p \in Parents : <<p, k>> \in rel}]
    /\ req = [r \in Requests |->
                 [op |-> "none", p |-> CHOOSE p \in Parents : TRUE, news |-> {},
                  connects |-> {}, at |-> "idle", todo |-> {}, broken |-> {},
                  saved |-> {}, adding |-> {}, former |-> {}, failed |-> FALSE,
                  answer |-> "none", brokeAt |-> "none"]]
    /\ jobs = {}
    /\ faults = 0
    /\ gone = {}
    /\ blurred = {}

Fault == faults < MaxFaults /\ faults' = faults + 1

(* Variant: a kind of call that nothing carries out. *)
NewJobUnknown(r, kind, d) ==
    [req |-> r, kind |-> IF kind = "undo" THEN "delete" ELSE kind, on |-> d, found |-> FALSE]

NewJob(r, kind, d) == [req |-> r, kind |-> kind, on |-> d, found |-> FALSE]
JobsFor(r, kind, S) == {NewJob(r, kind, d) : d \in S}
Goes(r, place) == req' = [req EXCEPT ![r].at = place]

(* The caught error: rollBackDocumentSaves starts a deletion for every      *)
(* noted record and nobody waits for it; the error is the answer.           *)
RollsBack(r, noted) ==
    /\ jobs' = jobs \cup JobsFor(r, "undo", noted)
    /\ req' = [req EXCEPT ![r].at = "done", ![r].answer = "error",
                          ![r].brokeAt = req[r].at]

-----------------------------------------------------------------------------
Used == Existing \cup UNION {req[q].news \cup
            (IF req[q].op = "add" THEN {req[q].p} ELSE {}) : q \in Requests}

AtMostOne(S, f) == schema.list[f] \/ \A k, x \in OfField(S, f) : k = x

(* A client's mutation.  Every record to be created gets an id of its own   *)
(* (generateCuid); ids to connect are those of records seen somewhere, and  *)
(* need not exist any longer.                                               *)
Submit(r) ==
    /\ req[r].at = "idle"
    /\ Cardinality({q \in Requests : Running(q)}) < MaxOpen
    /\ \E op \in {"add", "update"}, p \in Parents,
          N \in SUBSET (Kids \ Used),
          K \in SUBSET (Kids \cap (Existing \cup live)) :
          /\ (op = "update") <=> (p \in Used)
          /\ Cardinality(N \cup K) \in 1 .. MaxInput
          /\ \A f \in Fields : AtMostOne(N, f) /\ AtMostOne(K, f)
          /\ req' = [req EXCEPT ![r].op = op, ![r].p = p, ![r].news = N,
                        ![r].connects = K, ![r].at = "create",
                        ![r].todo = {FieldOf[k] : k \in N}]
    /\ UNCHANGED <<schema, db, jobs, faults, gone, blurred>>

(* createAndReturnRelationObject: the field's input is valid, so all its    *)
(* records are saved at once.                                               *)
Validates(r, f) ==
    /\ f \in req[r].todo
    /\ req' = [req EXCEPT ![r].todo = @ \ {f}]
    /\ jobs' = jobs \cup JobsFor(r, "save", OfField(req[r].news, f))
    /\ UNCHANGED <<schema, db, faults, gone, blurred>>

(* It is not valid, or a read or prehook is rejected: so is the whole       *)
(* promise, with nothing noted yet, while the other fields go on.           *)
Invalid(r, f) ==
    /\ f \in req[r].todo
    /\ Fault
    /\ req' = [req EXCEPT ![r].todo = @ \ {f}, ![r].at = "done",
                  ![r].answer = IF req[r].at = "done" THEN @ ELSE "error",
                  ![r].brokeAt = IF req[r].at = "done" THEN @ ELSE "create"]
    /\ UNCHANGED <<schema, db, jobs, gone, blurred>>

Saves(j) ==
    /\ j.kind = "save"
    /\ live' = live \cup {j.on}
    /\ jobs' = jobs \ {j}
    /\ UNCHANGED <<schema, ref, back, req, faults, gone, blurred>>

(* Rejected, before or after it took effect: the error becomes the value    *)
(* of the field.                                                            *)
SaveFails(j) ==
    /\ j.kind = "save"
    /\ Fault
    /\ \/ UNCHANGED <<live, blurred>>
       \/ live' = live \cup {j.on} /\ blurred' = blurred \cup {j.req}
    /\ jobs' = jobs \ {j}
    /\ req' = [req EXCEPT ![j.req].broken = @ \cup {FieldOf[j.on]}]
    /\ UNCHANGED <<schema, ref, back, gone>>

-----------------------------------------------------------------------------
(* A field has its value when all its records are saved, or as soon as one  *)
(* of them is rejected (the inner Promise.all).                             *)
Resolved(r, f) ==
    f \in req[r].broken \/ \A j \in jobs :
        ~(j.req = r /\ j.kind = "save" /\ FieldOf[j.on] = f)

(* Variant: all records that were to be created are noted beforehand. *)
ProcessesNoted(r) ==
    /\ req[r].at = "create" /\ req[r].todo = {}
    /\ \A f \in Fields : Resolved(r, f)
    /\ IF req[r].broken # {}
       THEN RollsBack(r, req[r].news \cup req[r].connects)
       ELSE /\ req' = [req EXCEPT ![r].saved = req[r].news, ![r].at = "count"]
            /\ UNCHANGED jobs
    /\ UNCHANGED <<schema, db, faults, gone, blurred>>

(* processRelationInputFields: the values are gone through in order, and    *)
(* the first error ends that: only earlier fields' records are noted.       *)
Processes(r) ==
    /\ req[r].at = "create" /\ req[r].todo = {}
    /\ \A f \in Fields : Resolved(r, f)
    /\ IF req[r].broken # {}
       THEN RollsBack(r, {k \in req[r].news : \A f \in req[r].broken : FieldOf[k] < f})
       ELSE /\ req' = [req EXCEPT ![r].saved = req[r].news, ![r].at = "count"]
            /\ UNCHANGED jobs
    /\ UNCHANGED <<schema, db, faults, gone, blurred>>

(* Both a nested record and a connect for one single field.                 *)
Clash(r) ==
    \E f \in Fields : /\ ~schema.list[f]
                      /\ OfField(req[r].news, f) # {}
                      /\ OfField(req[r].connects, f) # {}

(* validateConnectRecordCount counts what is to be connected and what was   *)
(* just created.                                                            *)
Counts(r) ==
    /\ req[r].at = "count"
    /\ \/ /\ req[r].connects \cup req[r].news \subseteq live
          /\ req[r].op = "add" => ~Clash(r)
          /\ req' = [req EXCEPT ![r].adding = req[r].news \cup req[r].connects,
                                ![r].at = IF req[r].op = "add" THEN "hook" ELSE "fetch"]
          /\ UNCHANGED jobs
       \/ /\ ~(req[r].connects \cup req[r].news \subseteq live)
                \/ (req[r].op = "add" /\ Clash(r))
          /\ RollsBack(r, req[r].saved)
    /\ UNCHANGED <<schema, db, faults, gone, blurred>>

(* The single partners that a connect replaces.                             *)
Replaced(r) ==
    {old \in ref[req[r].p] :
        /\ ~IsList(old)
        /\ \E k \in req[r].connects : FieldOf[k] = FieldOf[old] /\ k # old}

(* generateObjectToBeDisconnected notes them under the name of the field    *)
(* that refers back: of two with one name the later stays.                  *)
Disconnected(S) ==
    {k \in S : \A x \in S : BackName[FieldOf[x]] = BackName[FieldOf[k]] =>
                              FieldOf[x] <= FieldOf[k]}

(* Variant: the present partner is taken for a former one. *)
FetchesNew(r) ==
    /\ req[r].at = "fetch"
    /\ IF Clash(r) THEN RollsBack(r, req[r].saved)
       ELSE /\ req' = [req EXCEPT
                 ![r].adding = @ \ {k \in req[r].connects : IsList(k) /\ k \in ref[req[r].p]},
                 ![r].former = {k \in req[r].connects : Replaced(r) # {}},
                 ![r].at = "hook"]
            /\ UNCHANGED jobs
    /\ UNCHANGED <<schema, db, faults, gone, blurred>>

(* update: the record is fetched.  A connect that a list already holds is   *)
(* skipped, a single partner that a connect replaces is noted; a nested     *)
(* record notes nobody.                                                     *)
Fetches(r) ==
    /\ req[r].at = "fetch"
    /\ IF Clash(r) THEN RollsBack(r, req[r].saved)
       ELSE /\ req' = [req EXCEPT
                 ![r].adding = @ \ {k \in req[r].connects : IsList(k) /\ k \in ref[req[r].p]},
                 ![r].former = Disconnected(Replaced(r)),
                 ![r].at = "hook"]
            /\ UNCHANGED jobs
    /\ UNCHANGED <<schema, db, faults, gone, blurred>>

(* callPrehooksForRelationsAddedInRecord.                                   *)
Hooks(r) ==
    /\ req[r].at = "hook"
    /\ Goes(r, "save")
    /\ UNCHANGED <<schema, db, jobs, faults, gone, blurred>>

(* It is awaited outside of any catch: nothing is rolled back.              *)
HookRejects(r) ==
    /\ req[r].at = "hook"
    /\ Fault
    /\ req' = [req EXCEPT ![r].at = "done", ![r].answer = "error",
                          ![r].brokeAt = "hook"]
    /\ UNCHANGED <<schema, db, jobs, gone, blurred>>

(* A read is rejected.                                                      *)
ReadFails(r) ==
    /\ req[r].at \in {"count", "fetch"}
    /\ Fault
    /\ RollsBack(r, req[r].saved)
    /\ UNCHANGED <<schema, db, gone, blurred>>

-----------------------------------------------------------------------------
(* addDocument, and updateDocument with what getUpdatedRecordObject makes   *)
(* of the two kinds of field.                                               *)
Written(r) ==
    req[r].adding \cup
    (IF req[r].op = "add" THEN {}
     ELSE {k \in ref[req[r].p] : IsList(k) \/ OfField(req[r].adding, FieldOf[k]) = {}})

(* Variant: the new record itself is not noted. *)
SavesRecordUnnoted(r) ==
    /\ req[r].at = "save"
    /\ IF req[r].op = "update" /\ req[r].p \notin live
       THEN RollsBack(r, req[r].saved) /\ UNCHANGED db
       ELSE /\ live' = live \cup {req[r].p}
            /\ ref' = [ref EXCEPT ![req[r].p] = Written(r)]
            /\ req' = [req EXCEPT ![r].at = "link"]
            /\ jobs' = jobs \cup JobsFor(r, "link", req[r].adding)
            /\ UNCHANGED back
    /\ UNCHANGED <<schema, faults, gone, blurred>>

(* The record is saved and, if it is new, noted; then all references to it  *)
(* are written.                                                             *)
SavesRecord(r) ==
    /\ req[r].at = "save"
    /\ IF req[r].op = "update" /\ req[r].p \notin live
       THEN RollsBack(r, req[r].saved) /\ UNCHANGED db
       ELSE /\ live' = live \cup {req[r].p}
            /\ ref' = [ref EXCEPT ![req[r].p] = Written(r)]
            /\ req' = [req EXCEPT ![r].at = "link",
                          ![r].saved = @ \cup {x \in {req[r].p} : req[r].op = "add"}]
            /\ jobs' = jobs \cup JobsFor(r, "link", req[r].adding)
            /\ UNCHANGED back
    /\ UNCHANGED <<schema, faults, gone, blurred>>

(* Rejected, before or after it took effect.                                *)
RecordFails(r) ==
    /\ req[r].at = "save"
    /\ Fault
    /\ \/ UNCHANGED <<db, blurred>>
       \/ /\ req[r].op = "update" => req[r].p \in live
          /\ live' = live \cup {req[r].p}
          /\ ref' = [ref EXCEPT ![req[r].p] = Written(r)]
          /\ blurred' = blurred \cup {r}
          /\ UNCHANGED back
    /\ RollsBack(r, req[r].saved)
    /\ UNCHANGED <<schema, gone>>

Reject(j) == jobs' = jobs \ {j} /\ req' = [req EXCEPT ![j.req].failed = TRUE]

(* saveReferenceInRelatedTypeField: fetchById; without the record the next  *)
(* access throws, and a reference that is there is not written again.       *)
LinkFinds(j) ==
    /\ j.kind = "link" /\ ~j.found
    /\ IF j.on \notin live THEN Reject(j)
       ELSE /\ jobs' = (jobs \ {j}) \cup
                       {[x EXCEPT !.found = TRUE] :
                           x \in {y \in {j} : req[j.req].p \notin back[j.on]}}
            /\ UNCHANGED req
    /\ UNCHANGED <<schema, db, faults, gone, blurred>>

(* Variant: a reference to another parent is left alone. *)
LinkedIfFree(k, p) == IF back[k] = {} THEN {p} ELSE back[k]

Linked(k, p) == IF schema.backList[FieldOf[k]] THEN back[k] \cup {p} ELSE {p}

(* updateOne: $addToSet or $set, on a record that may have gone.            *)
LinkWrites(j) ==
    /\ j.kind = "link" /\ j.found
    /\ back' = [back EXCEPT ![j.on] = IF j.on \in live THEN Linked(j.on, req[j.req].p)
                                      ELSE @]
    /\ jobs' = jobs \ {j}
    /\ UNCHANGED <<schema, live, ref, req, faults, gone, blurred>>

LinkFails(j) ==
    /\ j.kind = "link"
    /\ Fault
    /\ \/ UNCHANGED back
       \/ /\ j.found /\ j.on \in live
          /\ back' = [back EXCEPT ![j.on] = Linked(j.on, req[j.req].p)]
    /\ Reject(j)
    /\ UNCHANGED <<schema, live, ref, gone, blurred>>

Linking(r) == \E j \in jobs : j.req = r /\ j.kind = "link"

(* All references are written: former partners are cut off, unawaited.      *)
Answers(r) ==
    /\ req[r].at = "link" /\ ~req[r].failed /\ ~Linking(r)
    /\ jobs' = jobs \cup JobsFor(r, "cut", req[r].former)
    /\ req' = [req EXCEPT ![r].at = "done", ![r].answer = "ok"]
    /\ UNCHANGED <<schema, db, faults, gone, blurred>>

(* One of them was rejected; the others go on.                              *)
GivesUp(r) ==
    /\ req[r].at = "link" /\ req[r].failed
    /\ RollsBack(r, req[r].saved)
    /\ UNCHANGED <<schema, db, faults, gone, blurred>>

-----------------------------------------------------------------------------
(* What nobody waits for.                                                   *)

(* A single field is unset whoever it refers to by now.                     *)
Cut(k, p) == IF schema.backList[FieldOf[k]] THEN back[k] \ {p} ELSE {}

Cuts(j) ==
    /\ j.kind = "cut"
    /\ back' = [back EXCEPT ![j.on] = Cut(j.on, req[j.req].p)]
    /\ jobs' = jobs \ {j}
    /\ UNCHANGED <<schema, live, ref, req, faults, gone, blurred>>

(* findOneAndRemove.                                                        *)
Undoes(j) ==
    /\ j.kind = "undo"
    /\ live' = live \ {j.on}
    /\ ref' = [p \in Parents |-> IF p = j.on THEN {} ELSE ref[p]]
    /\ back' = [k \in Kids |-> IF k = j.on THEN {} ELSE back[k]]
    /\ jobs' = jobs \ {j}
    /\ UNCHANGED <<schema, req, faults, gone, blurred>>

(* The rejection of either is swallowed, or unhandled and only logged.      *)
LooseFails(j) ==
    /\ j.kind \in {"cut", "undo"}
    /\ Fault
    /\ jobs' = jobs \ {j}
    /\ blurred' = blurred \cup {j.req}
    /\ UNCHANGED <<schema, db, req, gone>>

(* Another client deletes a kid, as delete<Type> does with an installed     *)
(* Mongoose: no reference to it is removed (RelationMutations).             *)
Vanishes(k) ==
    /\ k \in live
    /\ Fault
    /\ live' = live \ {k}
    /\ back' = [back EXCEPT ![k] = {}]
    /\ gone' = gone \cup {k}
    /\ UNCHANGED <<schema, ref, req, jobs, blurred>>

-----------------------------------------------------------------------------
Resolver(r) ==
    \/ \E f \in Fields : Validates(r, f)
    \/ Processes(r) \/ Counts(r) \/ Fetches(r) \/ Hooks(r) \/ SavesRecord(r)
    \/ Answers(r) \/ GivesUp(r)

Database(j) == Saves(j) \/ LinkFinds(j) \/ LinkWrites(j) \/ Cuts(j) \/ Undoes(j)

Failure ==
    \/ \E r \in Requests : \/ \E f \in Fields : Invalid(r, f)
                           \/ HookRejects(r) \/ ReadFails(r) \/ RecordFails(r)
    \/ \E j \in jobs : SaveFails(j) \/ LinkFails(j) \/ LooseFails(j)

Finished == Quiet /\ \A r \in Requests : req[r].at = "done"
Idle == Finished /\ UNCHANGED vars

Next ==
    \/ \E r \in Requests : Submit(r) \/ Resolver(r)
    \/ \E j \in jobs : Database(j)
    \/ \E k \in Kids : Vanishes(k)
    \/ Failure
    \/ Idle

Spec == Init /\ [][Next]_vars

-----------------------------------------------------------------------------
(* Every variable has its type. *)
TypeOK ==
    /\ schema \in Schemas
    /\ live \subseteq Docs
    /\ ref \in [Parents -> SUBSET Kids]
    /\ back \in [Kids -> SUBSET Parents]
    /\ req \in [Requests -> Request]
    /\ jobs \subseteq Job
    /\ faults \in 0 .. MaxFaults
    /\ gone \subseteq Kids
    /\ blurred \subseteq Requests

(* A roll-back (rollBackDocumentSaves) never deletes a record that was      *)
(* there before: not one that was only connected, and not the record that   *)
(* an update is about.                                                      *)
KeepsExisting == Existing \subseteq live \cup gone

(* When creation went well and the mutation failed later, on the count, the *)
(* fetch, the save or a reference, the roll-back leaves none of its new     *)
(* records, whatever other mutations do, unless a deletion is itself        *)
(* rejected or the rejected save took effect.                               *)
RollBackUndoes ==
    \A r \in Requests :
        /\ req[r].answer = "error" /\ ~Running(r)
        /\ req[r].brokeAt \in {"count", "fetch", "save", "link"}
        /\ r \notin blurred
        => /\ req[r].news \cap live = {}
           /\ req[r].op = "add" => req[r].p \notin live

Names(q, p) == req[q].op # "none" /\ req[q].p = p

(* Nobody else names the kid, nor the parent if its field holds one value.  *)
Undisturbed(r, k) ==
    /\ k \notin gone /\ req[r].p \in live
    /\ \A q \in Requests \ {r} :
          /\ k \notin req[q].news \cup req[q].connects \cup req[q].former
          /\ IsList(k) \/ ~Names(q, req[r].p)

(* A mutation answered without an error has written both ends of every      *)
(* nested and every connected record, whatever other mutations do meanwhile *)
(* with other records.                                                      *)
AnsweredIsLinked ==
    \A r \in Requests :
        req[r].answer = "ok" =>
            \A k \in req[r].news \cup req[r].connects :
                Undisturbed(r, k) => /\ k \in live /\ k \in ref[req[r].p]
                                     /\ req[r].p \in back[k]

(* "two way connection for replacing existing connection" (update): when a  *)
(* mutation without an error is over, only the partner that a single field  *)
(* names refers back to the record, unless the cut was rejected, another    *)
(* mutation names the record, or the new partner was a nested record.  The  *)
(* types of the fields use different names to refer back (Disconnected).    *)
FormerIsFree ==
    \A r \in Requests :
        /\ req[r].answer = "ok" /\ ~Running(r) /\ r \notin blurred
        /\ \A q \in Requests \ {r} : ~Names(q, req[r].p)
        => \A k \in Kids :
              /\ ~IsList(k) /\ req[r].p \in back[k]
              /\ OfField(req[r].news, FieldOf[k]) = {}
              => k \in ref[req[r].p]
=============================================================================
