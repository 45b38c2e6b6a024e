------------------------- MODULE RelationMutations -------------------------
(***************************************************************************)
(* The mutations of one relation between two types: addTo<Relation>,       *)
(* removeFrom<Relation> and delete<Type>, run concurrently on a database   *)
(* without transactions.  Both ends keep references to each other (the     *)
(* fields typeField and relatedTypeField), so every mutation is several    *)
(* independent writes that Promise.all only waits for.                     *)
(***************************************************************************)
EXTENDS Naturals, FiniteSets

CONSTANTS
    As, Bs,      \* the documents of typeName and of relatedType
    Schemas,     \* the kinds of relation to consider
    Requests,    \* mutations
    Ops,         \* the mutations to consider: "add", "remove", "delete"
    MaxOpen,     \* bound: mutations in progress together
    MaxFaults    \* bound: database operations that are rejected

Docs == As \cup Bs

(* Which ends are lists, whether the far end refers back, and whether the   *)
(* model classes have the method update.                                    *)
Schema == [listA : BOOLEAN, listB : BOOLEAN, twoWay : BOOLEAN, hasUpdate : BOOLEAN]

ASSUME SidesAssumption == As \cap Bs = {} /\ As # {} /\ Bs # {}
ASSUME SchemasAssumption == Schemas \subseteq Schema
ASSUME OpsAssumption == Ops \subseteq {"add", "remove", "delete"}
ASSUME BoundsAssumption == MaxOpen \in Nat /\ MaxFaults \in Nat

(* A database operation in flight: "link" is addConnectionToType on a       *)
(* document, "unlink" the update that removes a reference.  at: a link has  *)
(* yet to find its document, or holds it without or with the reference.     *)
Job == [req : Requests, kind : {"link", "unlink"}, on : Docs, to : Docs,
        at : {"start", "absent", "present"}]

Request == [op : {"none", "add", "remove", "delete"}, a : Docs, b : Docs,
            at : {"idle", "check", "oldA", "oldB", "await", "done"},
            failed : BOOLEAN,      \* one of its jobs was rejected
            answer : {"none", "ok", "error"}]

VARIABLES
    schema,    \* the relation as generated from the type definitions
    live,      \* the documents that exist
    ref,       \* ref[d][x]: how many references to x document d holds
    req, jobs, \* the mutations, and their database operations in flight
    faults,    \* rejected operations so far
    settled    \* history: documents and relation when last nothing was running

vars == <<schema, live, ref, req, jobs, faults, settled>>

IsList(d) == IF d \in As THEN schema.listA ELSE schema.listB
NoRef == [x \in Docs |-> 0]
Holds(d, x) == ref[d][x] > 0
Related(a, b) == a \in live /\ b \in live /\ Holds(a, b)

Running(r) == req[r].at \notin {"idle", "done"} \/ \E j \in jobs : j.req = r
Quiet == \A r \in Requests : ~Running(r)
Pairs == {p \in As \X Bs : Related(p[1], p[2])}

(* A single field on either side has at most one partner.                  *)
Legal(rel) ==
    \A p, q \in rel :
        /\ ~schema.listA /\ p[1] = q[1] => p = q
        /\ schema.twoWay /\ ~schema.listB /\ p[2] = q[2] => p = q

(* Every document exists, and both ends agree on some legal relation.       *)
Init ==
    /\ schema \in Schemas
    /\ live = Docs
    /\ \E rel \in SUBSET (As \X Bs) :
          /\ Legal(rel)
          /\ ref = [d \in Docs |-> [x \in Docs |->
                       IF <<d, x>> \in rel \/ (schema.twoWay /\ <<x, d>> \in rel)
                       THEN 1 ELSE 0]]
    /\ req = [r \in Requests |->
                 [op |-> "none", a |-> CHOOSE d \in Docs : TRUE,
                  b |-> CHOOSE d \in Docs : TRUE,
                  at |-> "idle", failed |-> FALSE, answer |-> "none"]]
    /\ jobs = {}
    /\ faults = 0
    /\ settled = [live |-> live, rel |-> Pairs]

Fault == faults < MaxFaults /\ faults' = faults + 1

Link(r, d, x) == [req |-> r, kind |-> "link", on |-> d, to |-> x, at |-> "start"]
Unlink(r, d, x) == [req |-> r, kind |-> "unlink", on |-> d, to |-> x, at |-> "start"]
Goes(r, place) == req' = [req EXCEPT ![r].at = place]
Ends(r, ans) == req' = [req EXCEPT ![r].at = "done", ![r].answer = ans]

-----------------------------------------------------------------------------
(* A client's mutation arrives.  Its arguments need not name documents      *)
(* that exist.                                                              *)
Submit(r) ==
    /\ req[r].at = "idle"
    /\ Cardinality({q \in Requests : Running(q)}) < MaxOpen
    /\ \E op \in Ops, a \in Docs, b \in Bs :
          /\ op # "delete" => a \in As
          /\ req' = [req EXCEPT ![r] = [op |-> op, a |-> a, b |-> b, at |-> "check",
                                        failed |-> FALSE, answer |-> "none"]]
    /\ UNCHANGED <<schema, live, ref, jobs, faults>>

(* What follows the first side of addRelation: the far side of a two-way    *)
(* relation is linked at once, or its old partner fetched first.            *)
FarSide(r) ==
    IF schema.twoWay /\ schema.listB THEN {Link(r, req[r].b, req[r].a)} ELSE {}
AfterNearSide == IF schema.twoWay /\ ~schema.listB THEN "oldB" ELSE "await"

(* addRelation: isConnectionAlreadyPresentBetweenModels, then the near side *)
(* when its field is a list.                                                *)
AddChecks(r) ==
    /\ req[r].op = "add" /\ req[r].at = "check"
    /\ IF Related(req[r].a, req[r].b)
       THEN Ends(r, "error") /\ UNCHANGED jobs
       ELSE IF schema.listA
       THEN /\ jobs' = jobs \cup {Link(r, req[r].a, req[r].b)} \cup FarSide(r)
            /\ Goes(r, AfterNearSide)
       ELSE Goes(r, "oldA") /\ UNCHANGED jobs
    /\ UNCHANGED <<schema, live, ref, faults>>

(* fetchOldRelatedTypeId: a reference to a deleted document resolves to     *)
(* nothing.                                                                 *)
OldPartners(d) == {x \in live : d \in live /\ Holds(d, x)}

(* Single near field: its old partner is cut off, in the related type.      *)
FetchOldA(r) ==
    /\ req[r].at = "oldA"
    /\ jobs' = jobs \cup {Link(r, req[r].a, req[r].b)} \cup FarSide(r)
                    \cup {Unlink(r, x, req[r].a) :
                             x \in IF schema.twoWay THEN OldPartners(req[r].a) ELSE {}}
    /\ Goes(r, AfterNearSide)
    /\ UNCHANGED <<schema, live, ref, faults>>

(* Variant: the old partner of the far side is not looked up. *)
FetchOldBKeepsOld(r) ==
    /\ req[r].at = "oldB"
    /\ jobs' = jobs \cup {Link(r, req[r].b, req[r].a)}
    /\ Goes(r, "await")
    /\ UNCHANGED <<schema, live, ref, faults>>

FetchOldB(r) ==
    /\ req[r].at = "oldB"
    /\ jobs' = jobs \cup {Link(r, req[r].b, req[r].a)}
                    \cup {Unlink(r, x, req[r].b) : x \in OldPartners(req[r].b)}
    /\ Goes(r, "await")
    /\ UNCHANGED <<schema, live, ref, faults>>

(* Variant: only the near side is removed. *)
RemoveChecksNear(r) ==
    /\ req[r].op = "remove" /\ req[r].at = "check"
    /\ IF Related(req[r].a, req[r].b)
       THEN /\ jobs' = jobs \cup {Unlink(r, req[r].a, req[r].b)}
            /\ Goes(r, "await")
       ELSE Ends(r, "error") /\ UNCHANGED jobs
    /\ UNCHANGED <<schema, live, ref, faults>>

(* removeRelation: isRelationBetweenTwoModelsOrNot, then both ends.         *)
RemoveChecks(r) ==
    /\ req[r].op = "remove" /\ req[r].at = "check"
    /\ IF Related(req[r].a, req[r].b)
       THEN /\ jobs' = jobs \cup {Unlink(r, req[r].a, req[r].b)}
                            \cup {Unlink(r, x, req[r].a) :
                                     x \in IF schema.twoWay THEN {req[r].b} ELSE {}}
            /\ Goes(r, "await")
       ELSE Ends(r, "error") /\ UNCHANGED jobs
    /\ UNCHANGED <<schema, live, ref, faults>>

(* deleteRecordReferences: the documents that the deleted one referred to,  *)
(* as far as they refer back.                                               *)
References(d) == {x \in Docs : schema.twoWay /\ Holds(d, x)}

(* Variant: the update is not told to change several documents. *)
DeletesCutOne(r) ==
    /\ req[r].op = "delete" /\ req[r].at = "check"
    /\ IF req[r].a \in live
       THEN /\ live' = live \ {req[r].a}
            /\ ref' = [ref EXCEPT ![req[r].a] = NoRef]
            /\ jobs' = jobs \cup {Unlink(r, x, req[r].a) :
                          x \in {y \in References(req[r].a) :
                                    y = CHOOSE z \in References(req[r].a) : TRUE}}
            /\ Goes(r, "await")
       ELSE Ends(r, "ok") /\ UNCHANGED <<live, ref, jobs>>
    /\ UNCHANGED <<schema, faults>>

(* delete: findOneAndRemove, then the references in the copy that it        *)
(* returned are cut.  A missing record answers null.                        *)
Deletes(r) ==
    /\ req[r].op = "delete" /\ req[r].at = "check"
    /\ IF req[r].a \in live
       THEN /\ live' = live \ {req[r].a}
            /\ ref' = [ref EXCEPT ![req[r].a] = NoRef]
            /\ jobs' = jobs \cup {Unlink(r, x, req[r].a) : x \in References(req[r].a)}
            /\ Goes(r, "await")
       ELSE Ends(r, "ok") /\ UNCHANGED <<live, ref, jobs>>
    /\ UNCHANGED <<schema, faults>>

(* A read (or findOneAndRemove) before the writes is rejected.  Writes that *)
(* were started go on.                                                      *)
ReadFails(r) ==
    /\ req[r].at \in {"check", "oldA", "oldB"}
    /\ Fault
    /\ Ends(r, "error")
    /\ UNCHANGED <<schema, live, ref, jobs>>

-----------------------------------------------------------------------------
(* Database operations.                                                     *)
Finish(j) == jobs' = jobs \ {j} /\ UNCHANGED req
Reject(j) == jobs' = jobs \ {j} /\ req' = [req EXCEPT ![j.req].failed = TRUE]

(* updateDocument: findOne, and whether the reference is there already.     *)
LinkFinds(j) ==
    /\ j.kind = "link" /\ j.at = "start"
    /\ IF j.on \in live
       THEN /\ jobs' = (jobs \ {j}) \cup
                       {[j EXCEPT !.at = IF Holds(j.on, j.to) THEN "present" ELSE "absent"]}
            /\ UNCHANGED req
       ELSE Reject(j)
    /\ UNCHANGED <<schema, live, ref, faults>>

(* Variant: the whole array is written back, with the one new reference. *)
LinkedAlone(j) == IF j.at = "present" THEN ref[j.on] ELSE [NoRef EXCEPT ![j.to] = 1]

Linked(j) ==
    IF j.at = "present" THEN ref[j.on]
    ELSE IF IsList(j.on) THEN [ref[j.on] EXCEPT ![j.to] = @ + 1]
    ELSE [NoRef EXCEPT ![j.to] = 1]

(* Variant: a document that is gone leaves the save waiting. *)
LinkSavesOnlyLive(j) ==
    /\ j.kind = "link" /\ j.at # "start"
    /\ j.on \in live
    /\ ref' = [ref EXCEPT ![j.on] = Linked(j)]
    /\ Finish(j)
    /\ UNCHANGED <<schema, live, faults>>

(* updateDocument: save writes what changed: it pushes onto a list, sets a  *)
(* single field, and rejects if the document is gone.                       *)
LinkSaves(j) ==
    /\ j.kind = "link" /\ j.at # "start"
    /\ IF j.on \in live
       THEN ref' = [ref EXCEPT ![j.on] = Linked(j)] /\ Finish(j)
       ELSE Reject(j) /\ UNCHANGED ref
    /\ UNCHANGED <<schema, live, faults>>

(* Variant: one reference is taken away, present or not. *)
UnlinkedOne(j) == [ref[j.on] EXCEPT ![j.to] = @ - 1]

Unlinked(j) == IF IsList(j.on) THEN [ref[j.on] EXCEPT ![j.to] = 0] ELSE NoRef

(* removeConnectionFromType: $pull the reference, or set a single field to  *)
(* {} whatever it holds; a missing document is not an error.                *)
Unlinks(j) ==
    /\ j.kind = "unlink" /\ schema.hasUpdate
    /\ ref' = [ref EXCEPT ![j.on] = Unlinked(j)]
    /\ Finish(j)
    /\ UNCHANGED <<schema, live, faults>>

(* Model.update is not a function. *)
UpdateMissing(j) ==
    /\ j.kind = "unlink" /\ ~schema.hasUpdate
    /\ Reject(j)
    /\ UNCHANGED <<schema, live, ref, faults>>

(* An operation is rejected, before or after it took effect.                *)
JobFails(j) ==
    /\ Fault
    /\ \/ UNCHANGED ref
       \/ /\ j.kind = "unlink" /\ schema.hasUpdate
          /\ ref' = [ref EXCEPT ![j.on] = Unlinked(j)]
       \/ /\ j.kind = "link" /\ j.at # "start" /\ j.on \in live
          /\ ref' = [ref EXCEPT ![j.on] = Linked(j)]
    /\ Reject(j)
    /\ UNCHANGED <<schema, live>>

(* Variant: the answer does not depend on how the writes went. *)
AnswersAnyway(r) ==
    /\ req[r].at = "await"
    /\ req[r].failed \/ ~ \E j \in jobs : j.req = r
    /\ Ends(r, "ok")
    /\ UNCHANGED <<schema, live, ref, jobs, faults>>

(* Promise.all: everything is done, or something was rejected and the rest  *)
(* goes on unobserved.  delete swallows the rejection.                      *)
Answers(r) ==
    /\ req[r].at = "await"
    /\ req[r].failed \/ ~ \E j \in jobs : j.req = r
    /\ Ends(r, IF req[r].failed /\ req[r].op # "delete" THEN "error" ELSE "ok")
    /\ UNCHANGED <<schema, live, ref, jobs, faults>>

-----------------------------------------------------------------------------
Resolver(r) ==
    \/ AddChecks(r) \/ FetchOldA(r) \/ FetchOldB(r)
    \/ RemoveChecks(r) \/ Deletes(r) \/ Answers(r)
Database(j) == LinkFinds(j) \/ LinkSaves(j) \/ Unlinks(j) \/ UpdateMissing(j)

(* Nothing is left to do. *)
Finished == Quiet /\ \A r \in Requests : req[r].at = "done"
Idle == Finished /\ UNCHANGED vars

Step ==
    \/ \E r \in Requests : Submit(r) \/ Resolver(r) \/ ReadFails(r)
    \/ \E j \in jobs : Database(j) \/ JobFails(j)

Settles ==
    settled' = IF Quiet' THEN [live |-> live', rel |-> Pairs'] ELSE settled

Next == (Step /\ Settles) \/ Idle

Spec == Init /\ [][Next]_vars

(* Promise callbacks run, and the database answers. *)
Fairness ==
    /\ \A r \in Requests : WF_vars(Resolver(r) /\ Settles)
    /\ WF_vars((\E j \in jobs : Database(j)) /\ Settles)
FairSpec == Spec /\ Fairness

-----------------------------------------------------------------------------
(* Every variable has its type. *)
TypeOK ==
    /\ schema \in Schemas
    /\ live \subseteq Docs
    /\ ref \in [Docs -> [Docs -> Nat]]
    /\ req \in [Requests -> Request]
    /\ jobs \subseteq Job
    /\ faults \in 0 .. MaxFaults
    /\ settled \in [live : SUBSET Docs, rel : SUBSET (As \X Bs)]

(* Both ends of a two-way relation agree whenever no mutation is running:   *)
(* what addRelation, removeRelation and delete write on the two sides.      *)
BothEndsAgree ==
    Quiet /\ schema.twoWay =>
        \A a \in As, b \in Bs :
            a \in live /\ b \in live => (Holds(a, b) <=> Holds(b, a))

(* An addition to lists that was answered without an error stays in both    *)
(* documents, whatever else runs and fails, unless somebody asks to remove  *)
(* that pair or to delete one of the two.                                   *)
KeptLinks ==
    \A r \in Requests :
        LET a == req[r].a
            b == req[r].b
        IN  /\ req[r].op = "add" /\ req[r].answer = "ok"
            /\ \A q \in Requests :
                  /\ ~(req[q].op = "remove" /\ req[q].a = a /\ req[q].b = b)
                  /\ ~(req[q].op = "delete" /\ req[q].a \in {a, b})
            => /\ schema.listA /\ (schema.listB \/ ~schema.twoWay) => Holds(a, b)
               /\ schema.listA /\ schema.listB /\ schema.twoWay => Holds(b, a)

(* A removal that was answered without an error leaves no trace at either   *)
(* end, whatever else runs and fails, unless somebody asks to add the pair. *)
RemovedStays ==
    \A r \in Requests :
        LET a == req[r].a
            b == req[r].b
        IN  /\ req[r].op = "remove" /\ req[r].answer = "ok"
            /\ \A q \in Requests :
                  ~(req[q].op = "add" /\ req[q].a = a /\ req[q].b = b)
            => ~Holds(a, b) /\ (schema.twoWay => ~Holds(b, a))

(* "delete record references in referenced types" (checkAndDeleteReferences) *)
(* once deletions are over, no two-way reference names a deleted document,  *)
(* unless an addition asked for that very reference.                        *)
DeleteLeavesNoReference ==
    Quiet /\ schema.twoWay =>
        \A d, x \in Docs :
            Holds(d, x) /\ x \notin live =>
                \E r \in Requests : req[r].op = "add" /\ {req[r].a, req[r].b} = {d, x}

(* Every mutation is answered and its writes come to an end, also those     *)
(* that outlive an early error.                                             *)
EveryMutationEnds ==
    \A r \in Requests :
        (req[r].at # "idle") ~> (req[r].answer # "none" /\ ~Running(r))
=============================================================================
