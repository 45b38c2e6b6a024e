---------------------------- MODULE NestedProofs ----------------------------
(***************************************************************************)
(* Theorems about NestedMutations for any records, fields and kinds of     *)
(* relation, any number of overlapping mutations, of rejected operations   *)
(* and of deletions by other clients: what a roll-back deletes and leaves, *)
(* then the references that the mutations write.                           *)
(***************************************************************************)
EXTENDS NestedMutations, TLAPS

-----------------------------------------------------------------------------
(* Lemmas about the operators. *)

(* What a step may change of a request: not what it is about.               *)
SameInput ==
    /\ req' \in [Requests -> Request]
    /\ \A q \in Requests : /\ req'[q].op = req[q].op /\ req'[q].p = req[q].p
                           /\ req'[q].news = req[q].news
                           /\ req'[q].connects = req[q].connects

SameSaved == \A q \in Requests : req'[q].saved = req[q].saved

(* A request is replaced by one with the same input.                        *)
LEMMA Replaces ==
  ASSUME NEW r \in Requests, req \in [Requests -> Request],
         NEW q \in Request, req' = [req EXCEPT ![r] = q],
         q.op = req[r].op, q.p = req[r].p, q.news = req[r].news,
         q.connects = req[r].connects
  PROVE  SameInput /\ (q.saved = req[r].saved => SameSaved)
  BY DEF SameInput, SameSaved

(* New calls have their type.                                               *)
LEMMA JobsIntro ==
  ASSUME NEW r \in Requests, NEW kind \in {"save", "link", "cut", "undo"},
         NEW S \in SUBSET Docs
  PROVE  \A j \in JobsFor(r, kind, S) :
            j \in Job /\ j.kind = kind /\ j.on \in S /\ j.req = r
  <1> SUFFICES ASSUME NEW j \in JobsFor(r, kind, S)
               PROVE  j \in Job /\ j.kind = kind /\ j.on \in S /\ j.req = r
    OBVIOUS
  <1>1. PICK d \in S : j = NewJob(r, kind, d)
    BY DEF JobsFor
  <1>2. NewJob(r, kind, d) \in Job
    BY DEF NewJob, Job
  <1>3. /\ NewJob(r, kind, d).kind = kind /\ NewJob(r, kind, d).on = d
        /\ NewJob(r, kind, d).req = r
    BY DEF NewJob
  <1> QED BY <1>1, <1>2, <1>3

(* A change of place only.                                                  *)
LEMMA GoesEffect ==
  ASSUME NEW r \in Requests, NEW place \in {"idle", "create", "count", "fetch", "hook",
                                            "save", "link", "done"},
         req \in [Requests -> Request], Goes(r, place)
  PROVE  SameInput /\ SameSaved
  BY DEF Goes, Request, SameInput, SameSaved

Places == {"none", "create", "count", "fetch", "hook", "save", "link"}

(* A mutation that is over.                                                 *)
LEMMA Finishes ==
  ASSUME NEW r \in Requests, NEW ans \in {"none", "ok", "error"}, NEW place \in Places,
         req \in [Requests -> Request],
         req' = [req EXCEPT ![r].at = "done", ![r].answer = ans, ![r].brokeAt = place]
  PROVE  SameInput /\ SameSaved
  <1> DEFINE q == [req[r] EXCEPT !.at = "done", !.answer = ans, !.brokeAt = place]
  <1>1. q \in Request
    BY DEF Request, Places
  <1>2. /\ q.op = req[r].op /\ q.p = req[r].p /\ q.news = req[r].news
        /\ q.connects = req[r].connects /\ q.saved = req[r].saved
    BY DEF Request
  <1>3. req' = [req EXCEPT ![r] = q]
    OBVIOUS
  <1> QED BY <1>1, <1>2, <1>3, Replaces

(* A roll-back deletes what was noted.                                      *)
LEMMA RollsBackEffect ==
  ASSUME NEW r \in Requests, NEW noted \in SUBSET Docs, req[r].at \in Places,
         req \in [Requests -> Request], jobs \subseteq Job, RollsBack(r, noted)
  PROVE  /\ SameInput /\ SameSaved
         /\ jobs' \subseteq Job
         /\ \A j \in jobs' \ jobs : j.kind = "undo" /\ j.on \in noted /\ j.req = r
  <1>1. SameInput /\ SameSaved
    BY Finishes DEF RollsBack
  <1>2. /\ jobs' \subseteq Job
        /\ \A j \in jobs' \ jobs : j.kind = "undo" /\ j.on \in noted /\ j.req = r
    BY JobsIntro DEF RollsBack
  <1> QED BY <1>1, <1>2

(* A reference that could not be written marks the request.                 *)
LEMMA RejectEffect ==
  ASSUME NEW j \in jobs, jobs \subseteq Job, req \in [Requests -> Request], Reject(j)
  PROVE  SameInput /\ SameSaved /\ jobs' = jobs \ {j}
  <1>1. PICK r \in Requests : r = j.req
    BY DEF Job
  <1>2. req' = [req EXCEPT ![r].failed = TRUE] /\ jobs' = jobs \ {j}
    BY <1>1 DEF Reject
  <1> DEFINE q == [req[r] EXCEPT !.failed = TRUE]
  <1>3. q \in Request
    <2>1. \A b \in BOOLEAN : [req[r] EXCEPT !.failed = b] \in Request
      BY DEF Request
    <2> QED BY <2>1, Zenon
  <1>4. /\ q.op = req[r].op /\ q.p = req[r].p /\ q.news = req[r].news
        /\ q.connects = req[r].connects /\ q.saved = req[r].saved
    BY DEF Request
  <1>5. req' = [req EXCEPT ![r] = q]
    BY <1>2
  <1> QED BY <1>2, <1>3, <1>4, <1>5, Replaces

(* A fault is counted.                                                      *)
LEMMA FaultEffect ==
  ASSUME faults \in 0 .. MaxFaults, Fault
  PROVE  faults' \in 0 .. MaxFaults
  BY BoundsAssumption DEF Fault

(* What a save writes are kids.                                             *)
LEMMA WrittenEffect ==
  ASSUME NEW r \in Requests, req \in [Requests -> Request], ref \in [Parents -> SUBSET Kids]
  PROVE  Written(r) \subseteq Kids /\ req[r].p \in Parents
  <1>1. req[r].p \in Parents /\ req[r].adding \subseteq Kids
    BY DEF Request
  <1> QED BY <1>1 DEF Written

-----------------------------------------------------------------------------
(* The invariant: nothing that was there before is new to a mutation, noted *)
(* as saved by one, or about to be deleted by a roll-back; and all calls    *)
(* but those deletions are about kids.                                      *)
Fresh(S) == S \cap Existing = {}

FreshInv ==
    /\ \A r \in Requests : /\ Fresh(req[r].news) /\ Fresh(req[r].saved)
                           /\ req[r].op = "add" => req[r].p \notin Existing
    /\ \A j \in jobs : IF j.kind = "undo" THEN j.on \notin Existing ELSE j.on \in Kids

NestedInv == TypeOK /\ FreshInv /\ KeepsExisting

(* What all steps do but the beginning of a mutation and the two deletions. *)
Ordinary ==
    /\ SameInput
    /\ \A q \in Requests :
          req'[q].saved \subseteq req[q].saved \cup req[q].news \cup
                                  {x \in {req[q].p} : req[q].op = "add"}
    /\ jobs' \subseteq Job
    /\ \A j \in jobs' \ jobs :
          IF j.kind = "undo" THEN \E q \in Requests : j.on \in req[q].saved \cup req[q].news
          ELSE j.on \in Kids
    /\ live \subseteq live' /\ live' \subseteq Docs
    /\ ref' \in [Parents -> SUBSET Kids] /\ back' \in [Kids -> SUBSET Parents]
    /\ schema' = schema /\ gone' = gone
    /\ faults' \in 0 .. MaxFaults /\ blurred' \subseteq Requests

(* Such steps keep the invariant.                                           *)
LEMMA OrdinaryKeeps ==
  ASSUME NestedInv, Ordinary
  PROVE  NestedInv'
  <1>1. TypeOK'
    BY DEF NestedInv, TypeOK, Ordinary, SameInput
  <1>2. ASSUME NEW r \in Requests
        PROVE  /\ Fresh(req'[r].news) /\ Fresh(req'[r].saved)
               /\ req'[r].op = "add" => req'[r].p \notin Existing
    BY <1>2 DEF NestedInv, FreshInv, Ordinary, SameInput, Fresh
  <1>3. ASSUME NEW j \in jobs'
        PROVE  IF j.kind = "undo" THEN j.on \notin Existing ELSE j.on \in Kids
    BY <1>3 DEF NestedInv, FreshInv, Ordinary, Fresh
  <1>4. FreshInv'
    BY <1>2, <1>3 DEF FreshInv, Fresh
  <1>5. KeepsExisting'
    BY DEF NestedInv, KeepsExisting, Ordinary
  <1> QED BY <1>1, <1>4, <1>5 DEF NestedInv

(* A mutation begins: its new records and its own record are new.           *)
LEMMA SubmitKeeps ==
  ASSUME NestedInv, NEW r \in Requests, Submit(r)
  PROVE  NestedInv'
  <1>1. PICK op \in {"add", "update"}, p \in Parents, N \in SUBSET (Kids \ Used),
             K \in SUBSET (Kids \cap (Existing \cup live)) :
          /\ (op = "update") <=> (p \in Used)
          /\ Cardinality(N \cup K) \in 1 .. MaxInput
          /\ \A f \in Fields : AtMostOne(N, f) /\ AtMostOne(K, f)
          /\ req' = [req EXCEPT ![r].op = op, ![r].p = p, ![r].news = N,
                        ![r].connects = K, ![r].at = "create",
                        ![r].todo = {FieldOf[k] : k \in N}]
    BY Zenon DEF Submit
  <1>2. Existing \subseteq Used /\ Fresh(N) /\ (op = "add" => p \notin Existing)
    BY <1>1 DEF Used, Fresh
  <1> DEFINE T == {FieldOf[k] : k \in N}
  <1>3. T \subseteq Fields
    BY FieldsAssumption
  <1> HIDE DEF T
  <1> DEFINE q == [req[r] EXCEPT !.op = op, !.p = p, !.news = N, !.connects = K,
                                 !.at = "create", !.todo = T]
  <1>4. req' = [req EXCEPT ![r] = q]
    BY <1>1 DEF T
  <1>5. q \in Request
    <2>1. req[r] \in Request /\ N \in SUBSET Kids /\ K \in SUBSET Kids
      BY DEF NestedInv, TypeOK
    <2> QED BY <1>3, <2>1 DEF Request
  <1>6. q.op = op /\ q.p = p /\ q.news = N /\ q.saved = req[r].saved
    BY DEF NestedInv, TypeOK, Request
  <1> HIDE DEF q
  <1>7. req' \in [Requests -> Request]
    BY <1>4, <1>5 DEF NestedInv, TypeOK
  <1>8. TypeOK'
    BY <1>7 DEF NestedInv, TypeOK, Submit, db
  <1>9. FreshInv'
    BY <1>2, <1>4, <1>6 DEF NestedInv, TypeOK, FreshInv, Submit, Fresh
  <1>10. KeepsExisting'
    BY DEF NestedInv, KeepsExisting, Submit, db
  <1> QED BY <1>8, <1>9, <1>10 DEF NestedInv

(* A roll-back deletes a record that is not one of the first.               *)
LEMMA UndoesKeeps ==
  ASSUME NestedInv, NEW j \in jobs, Undoes(j)
  PROVE  NestedInv'
  <1>1. TypeOK'
    BY DEF NestedInv, TypeOK, Undoes
  <1>2. FreshInv'
    BY DEF NestedInv, FreshInv, Undoes, Fresh
  <1>3. KeepsExisting'
    BY DEF NestedInv, FreshInv, KeepsExisting, Undoes
  <1> QED BY <1>1, <1>2, <1>3 DEF NestedInv

(* Another client's deletion is remembered.                                 *)
LEMMA VanishesKeeps ==
  ASSUME NestedInv, NEW k \in Kids, Vanishes(k)
  PROVE  NestedInv'
  <1>1. TypeOK'
    BY FaultEffect DEF NestedInv, TypeOK, Vanishes
  <1>2. FreshInv'
    BY DEF NestedInv, FreshInv, Vanishes, Fresh
  <1>3. KeepsExisting'
    BY DEF NestedInv, KeepsExisting, Vanishes
  <1> QED BY <1>1, <1>2, <1>3 DEF NestedInv

-----------------------------------------------------------------------------
(* The steps of a mutation.                                                 *)

(* A step that ends in a roll-back, or changes its place only.              *)
LEMMA PlainSteps ==
  ASSUME NestedInv, NEW r \in Requests, faults' \in 0 .. MaxFaults,
         UNCHANGED <<schema, gone>>, blurred' \subseteq Requests,
         live \subseteq live', live' \subseteq Docs, back' \in [Kids -> SUBSET Parents],
         ref' \in [Parents -> SUBSET Kids], req[r].at \in Places,
         \/ RollsBack(r, req[r].saved)
         \/ \E S \in SUBSET req[r].news : RollsBack(r, S)
         \/ SameInput /\ SameSaved /\ UNCHANGED jobs
  PROVE  Ordinary
  <1>1. req[r] \in Request /\ req \in [Requests -> Request] /\ jobs \subseteq Job
    BY DEF NestedInv, TypeOK
  <1>2. req[r].saved \in SUBSET Docs /\ req[r].news \in SUBSET Docs
    BY <1>1 DEF Request, Docs
  <1>3. ASSUME NEW S \in SUBSET (req[r].saved \cup req[r].news), RollsBack(r, S)
        PROVE  Ordinary
    <2>1. S \in SUBSET Docs
      BY <1>2
    <2>2. /\ SameInput /\ SameSaved
          /\ jobs' \subseteq Job
          /\ \A j \in jobs' \ jobs : j.kind = "undo" /\ j.on \in S /\ j.req = r
      BY <1>1, <1>3, <2>1, RollsBackEffect
    <2> QED BY <2>2 DEF Ordinary, SameSaved
  <1>4. CASE SameInput /\ SameSaved /\ UNCHANGED jobs
    BY <1>1, <1>4 DEF Ordinary, SameSaved
  <1> QED BY <1>3, <1>4

(* Records to be created are saved: they are the mutation's new kids.       *)
LEMMA ValidatesStep ==
  ASSUME NestedInv, NEW r \in Requests, NEW f \in Fields, Validates(r, f)
  PROVE  Ordinary
  <1>1. req[r] \in Request /\ req \in [Requests -> Request] /\ jobs \subseteq Job
    BY DEF NestedInv, TypeOK
  <1> DEFINE q == [req[r] EXCEPT !.todo = @ \ {f}]
  <1>2. /\ q \in Request
        /\ q.op = req[r].op /\ q.p = req[r].p /\ q.news = req[r].news
        /\ q.connects = req[r].connects /\ q.saved = req[r].saved
    BY <1>1 DEF Request
  <1>3. req' = [req EXCEPT ![r] = q]
    BY DEF Validates
  <1>4. SameInput /\ SameSaved
    BY <1>1, <1>2, <1>3, Replaces
  <1>5. OfField(req[r].news, f) \in SUBSET Kids /\ Kids \subseteq Docs
    BY <1>1 DEF Request, OfField, Docs
  <1>6. jobs' \subseteq Job /\ \A j \in jobs' \ jobs : j.kind = "save" /\ j.on \in Kids
    BY <1>1, <1>5, JobsIntro DEF Validates
  <1> QED BY <1>4, <1>6 DEF Ordinary, SameSaved, Validates, NestedInv, TypeOK, db

(* Input that is not valid ends the mutation.                               *)
LEMMA InvalidStep ==
  ASSUME NestedInv, NEW r \in Requests, NEW f \in Fields, Invalid(r, f)
  PROVE  Ordinary
  <1>1. req[r] \in Request /\ req \in [Requests -> Request] /\ jobs \subseteq Job
    BY DEF NestedInv, TypeOK
  <1>2. PICK ans \in {"none", "ok", "error"}, place \in Places :
           /\ ans = IF req[r].at = "done" THEN req[r].answer ELSE "error"
           /\ place = IF req[r].at = "done" THEN req[r].brokeAt ELSE "create"
    BY <1>1 DEF Request, Places
  <1> DEFINE q == [req[r] EXCEPT !.todo = @ \ {f}, !.at = "done", !.answer = ans,
                                 !.brokeAt = place]
  <1>3. /\ q \in Request
        /\ q.op = req[r].op /\ q.p = req[r].p /\ q.news = req[r].news
        /\ q.connects = req[r].connects /\ q.saved = req[r].saved
    BY <1>1 DEF Request, Places
  <1>4. req' = [req EXCEPT ![r] = q]
    BY <1>2 DEF Invalid
  <1>5. SameInput /\ SameSaved
    BY <1>1, <1>3, <1>4, Replaces
  <1>6. faults' \in 0 .. MaxFaults
    BY FaultEffect DEF Invalid, NestedInv, TypeOK
  <1> QED BY <1>5, <1>6 DEF Ordinary, SameSaved, Invalid, NestedInv, TypeOK, db

(* What is noted, or rolled back, are new kids.                             *)
LEMMA ProcessesStep ==
  ASSUME NestedInv, NEW r \in Requests, Processes(r)
  PROVE  Ordinary
  <1>1. req[r] \in Request /\ req \in [Requests -> Request] /\ jobs \subseteq Job
    BY DEF NestedInv, TypeOK
  <1>2. /\ UNCHANGED <<schema, live, ref, back, faults, gone, blurred>>
        /\ req[r].at \in Places
    BY DEF Processes, db, Places
  <1>3. CASE req[r].broken # {}
    <2> DEFINE S == {k \in req[r].news : \A f \in req[r].broken : FieldOf[k] < f}
    <2>1. RollsBack(r, S)
      BY <1>3, Zenon DEF Processes
    <2>2. S \in SUBSET req[r].news
      OBVIOUS
    <2> HIDE DEF S
    <2> QED BY <1>2, <2>1, <2>2, PlainSteps DEF NestedInv, TypeOK
  <1>4. CASE req[r].broken = {}
    <2> DEFINE q == [req[r] EXCEPT !.saved = req[r].news, !.at = "count"]
    <2>1. req' = [req EXCEPT ![r] = q] /\ UNCHANGED jobs
      BY <1>4 DEF Processes
    <2>2. req[r].news \in SUBSET Docs
      BY <1>1 DEF Request, Docs
    <2>3. /\ q \in Request
          /\ q.op = req[r].op /\ q.p = req[r].p /\ q.news = req[r].news
          /\ q.connects = req[r].connects /\ q.saved = req[r].news
      BY <1>1, <2>2 DEF Request
    <2> HIDE DEF q
    <2>4. SameInput
      BY <1>1, <2>1, <2>3, Replaces
    <2>5. \A x \in Requests : req'[x].saved \subseteq req[x].saved \cup req[x].news
      BY <1>1, <2>1, <2>3
    <2> QED BY <1>2, <2>1, <2>4, <2>5 DEF Ordinary, NestedInv, TypeOK
  <1> QED BY <1>3, <1>4

(* The count goes on, or rolls back what is noted.                          *)
LEMMA CountsStep ==
  ASSUME NestedInv, NEW r \in Requests, Counts(r)
  PROVE  Ordinary
  <1>1. req[r] \in Request /\ req \in [Requests -> Request] /\ jobs \subseteq Job
    BY DEF NestedInv, TypeOK
  <1>2. /\ UNCHANGED <<schema, live, ref, back, faults, gone, blurred>>
        /\ req[r].at \in Places
    BY DEF Counts, db, Places
  <1>3. CASE RollsBack(r, req[r].saved)
    BY <1>2, <1>3, PlainSteps DEF NestedInv, TypeOK
  <1>4. CASE /\ req' = [req EXCEPT ![r].adding = req[r].news \cup req[r].connects,
                                   ![r].at = IF req[r].op = "add" THEN "hook" ELSE "fetch"]
             /\ UNCHANGED jobs
    <2>1. PICK place \in {"hook", "fetch"} :
             place = IF req[r].op = "add" THEN "hook" ELSE "fetch"
      OBVIOUS
    <2>2. PICK S \in SUBSET Kids : S = req[r].news \cup req[r].connects
      BY <1>1 DEF Request
    <2> DEFINE q == [req[r] EXCEPT !.adding = S, !.at = place]
    <2>3. req' = [req EXCEPT ![r] = q]
      BY <1>4, <2>1, <2>2
    <2>4. /\ q \in Request
          /\ q.op = req[r].op /\ q.p = req[r].p /\ q.news = req[r].news
          /\ q.connects = req[r].connects /\ q.saved = req[r].saved
      BY <1>1 DEF Request
    <2> HIDE DEF q
    <2>5. SameInput /\ SameSaved
      BY <1>1, <2>3, <2>4, Replaces
    <2> QED BY <1>2, <1>4, <2>5, PlainSteps DEF NestedInv, TypeOK
  <1> QED BY <1>3, <1>4, Zenon DEF Counts

(* Former partners are kids, and nothing is noted.                          *)
LEMMA FetchesStep ==
  ASSUME NestedInv, NEW r \in Requests, Fetches(r)
  PROVE  Ordinary
  <1>1. req[r] \in Request /\ req \in [Requests -> Request] /\ jobs \subseteq Job
    BY DEF NestedInv, TypeOK
  <1>2. /\ UNCHANGED <<schema, live, ref, back, faults, gone, blurred>>
        /\ req[r].at \in Places
    BY DEF Fetches, db, Places
  <1>3. CASE RollsBack(r, req[r].saved)
    BY <1>2, <1>3, PlainSteps DEF NestedInv, TypeOK
  <1> DEFINE A == req[r].adding \ {k \in req[r].connects : IsList(k) /\ k \in ref[req[r].p]}
             F == Disconnected(Replaced(r))
  <1>4. CASE /\ req' = [req EXCEPT ![r].adding = A, ![r].former = F, ![r].at = "hook"]
             /\ UNCHANGED jobs
    <2>1. req[r].p \in Parents /\ A \in SUBSET Kids
      BY <1>1 DEF Request
    <2>2. F \in SUBSET Kids
      BY <2>1 DEF Disconnected, Replaced, NestedInv, TypeOK
    <2> HIDE DEF A, F
    <2> DEFINE q == [req[r] EXCEPT !.adding = A, !.former = F, !.at = "hook"]
    <2>3. req' = [req EXCEPT ![r] = q]
      BY <1>4
    <2>4. /\ q \in Request
          /\ q.op = req[r].op /\ q.p = req[r].p /\ q.news = req[r].news
          /\ q.connects = req[r].connects /\ q.saved = req[r].saved
      BY <1>1, <2>1, <2>2 DEF Request
    <2> HIDE DEF q
    <2>5. SameInput /\ SameSaved
      BY <1>1, <2>3, <2>4, Replaces
    <2> QED BY <1>2, <1>4, <2>5, PlainSteps DEF NestedInv, TypeOK
  <1> QED BY <1>3, <1>4, Zenon DEF Fetches

(* The connection prehooks note nothing.                                    *)
LEMMA HookSteps ==
  ASSUME NestedInv, NEW r \in Requests, Hooks(r) \/ HookRejects(r)
  PROVE  Ordinary
  <1>1. req \in [Requests -> Request]
    BY DEF NestedInv, TypeOK
  <1>2. /\ UNCHANGED <<schema, live, ref, back, jobs, gone, blurred>>
        /\ req[r].at \in Places
    BY DEF Hooks, HookRejects, db, Places
  <1>3. faults' \in 0 .. MaxFaults
    BY FaultEffect DEF Hooks, HookRejects, NestedInv, TypeOK
  <1>4. SameInput /\ SameSaved
    <2>1. CASE Hooks(r)
      BY <1>1, <2>1, GoesEffect DEF Hooks
    <2>2. CASE HookRejects(r)
      BY <1>1, <2>2, Finishes DEF HookRejects, Places
    <2> QED BY <2>1, <2>2
  <1> QED BY <1>2, <1>3, <1>4, PlainSteps DEF NestedInv, TypeOK

(* A rejected read and a rejected reference roll back what is noted.        *)
LEMMA RollBackSteps ==
  ASSUME NestedInv, NEW r \in Requests, ReadFails(r) \/ GivesUp(r)
  PROVE  Ordinary
  <1>1. /\ UNCHANGED <<schema, live, ref, back, gone, blurred>>
        /\ req[r].at \in Places /\ RollsBack(r, req[r].saved)
    BY DEF ReadFails, GivesUp, db, Places
  <1>2. faults' \in 0 .. MaxFaults
    BY FaultEffect DEF ReadFails, GivesUp, NestedInv, TypeOK
  <1> QED BY <1>1, <1>2, PlainSteps DEF NestedInv, TypeOK

(* The record is saved, by SavesRecord or by a save that is rejected.       *)
LEMMA RecordSaved ==
  ASSUME NestedInv, NEW r \in Requests
  PROVE  /\ live \cup {req[r].p} \subseteq Docs
         /\ [ref EXCEPT ![req[r].p] = Written(r)] \in [Parents -> SUBSET Kids]
  <1>1. Written(r) \subseteq Kids /\ req[r].p \in Parents
    BY WrittenEffect DEF NestedInv, TypeOK
  <1> QED BY <1>1 DEF NestedInv, TypeOK, Docs

(* The record itself is noted only if it is new.                            *)
LEMMA SavesRecordStep ==
  ASSUME NestedInv, NEW r \in Requests, SavesRecord(r)
  PROVE  Ordinary
  <1>1. req[r] \in Request /\ req \in [Requests -> Request] /\ jobs \subseteq Job
    BY DEF NestedInv, TypeOK
  <1>2. /\ UNCHANGED <<schema, faults, gone, blurred>>
        /\ req[r].at \in Places
    BY DEF SavesRecord, Places
  <1>3. CASE RollsBack(r, req[r].saved) /\ UNCHANGED db
    BY <1>2, <1>3, PlainSteps DEF NestedInv, TypeOK, db
  <1> DEFINE S == req[r].saved \cup {x \in {req[r].p} : req[r].op = "add"}
  <1>4. CASE /\ live' = live \cup {req[r].p}
             /\ ref' = [ref EXCEPT ![req[r].p] = Written(r)]
             /\ req' = [req EXCEPT ![r].at = "link", ![r].saved = S]
             /\ jobs' = jobs \cup JobsFor(r, "link", req[r].adding)
             /\ UNCHANGED back
    <2>1. /\ S \in SUBSET Docs /\ Kids \subseteq Docs
          /\ req[r].adding \in SUBSET Kids
      BY <1>1 DEF Request, Docs
    <2>2. \A x \in S : x \in req[r].saved \/ (x = req[r].p /\ req[r].op = "add")
      OBVIOUS
    <2> HIDE DEF S
    <2> DEFINE q == [req[r] EXCEPT !.at = "link", !.saved = S]
    <2>3. req' = [req EXCEPT ![r] = q]
      BY <1>4
    <2>4. /\ q \in Request
          /\ q.op = req[r].op /\ q.p = req[r].p /\ q.news = req[r].news
          /\ q.connects = req[r].connects /\ q.saved = S
      BY <1>1, <2>1 DEF Request
    <2> HIDE DEF q
    <2>5. SameInput
      BY <1>1, <2>3, <2>4, Replaces
    <2>6. \A x \in Requests : req'[x].saved = IF x = r THEN S ELSE req[x].saved
      BY <1>1, <2>3, <2>4
    <2>7. \A x \in Requests :
             req'[x].saved \subseteq req[x].saved \cup req[x].news \cup
                                     {y \in {req[x].p} : req[x].op = "add"}
      BY <2>2, <2>6
    <2>8. jobs' \subseteq Job /\ \A j \in jobs' \ jobs : j.kind = "link" /\ j.on \in Kids
      BY <1>1, <1>4, <2>1, JobsIntro
    <2>9. live' \subseteq Docs /\ ref' \in [Parents -> SUBSET Kids]
      BY <1>4, RecordSaved
    <2> QED BY <1>2, <1>4, <2>5, <2>7, <2>8, <2>9 DEF Ordinary, NestedInv, TypeOK
  <1> QED BY <1>3, <1>4, Zenon DEF SavesRecord

(* A rejected save does not note the record.                                *)
LEMMA RecordFailsStep ==
  ASSUME NestedInv, NEW r \in Requests, RecordFails(r)
  PROVE  Ordinary
  <1>1. UNCHANGED <<schema, gone>> /\ req[r].at \in Places /\ RollsBack(r, req[r].saved)
    BY DEF RecordFails, Places
  <1>2. faults' \in 0 .. MaxFaults
    BY FaultEffect DEF RecordFails, NestedInv, TypeOK
  <1>3. CASE UNCHANGED <<live, ref, back, blurred>>
    BY <1>1, <1>2, <1>3, PlainSteps DEF NestedInv, TypeOK
  <1>4. CASE /\ live' = live \cup {req[r].p}
             /\ ref' = [ref EXCEPT ![req[r].p] = Written(r)]
             /\ blurred' = blurred \cup {r} /\ UNCHANGED back
    BY <1>1, <1>2, <1>4, RecordSaved, PlainSteps DEF NestedInv, TypeOK
  <1> QED BY <1>3, <1>4 DEF RecordFails, db

(* An answer cuts former partners off, which are kids.                      *)
LEMMA AnswersStep ==
  ASSUME NestedInv, NEW r \in Requests, Answers(r)
  PROVE  Ordinary
  <1>1. req[r] \in Request /\ req \in [Requests -> Request] /\ jobs \subseteq Job
    BY DEF NestedInv, TypeOK
  <1> DEFINE q == [req[r] EXCEPT !.at = "done", !.answer = "ok"]
  <1>2. /\ q \in Request
        /\ q.op = req[r].op /\ q.p = req[r].p /\ q.news = req[r].news
        /\ q.connects = req[r].connects /\ q.saved = req[r].saved
    BY <1>1 DEF Request
  <1>3. req' = [req EXCEPT ![r] = q]
    BY DEF Answers
  <1>4. SameInput /\ SameSaved
    BY <1>1, <1>2, <1>3, Replaces
  <1>5. req[r].former \in SUBSET Kids /\ Kids \subseteq Docs
    BY <1>1 DEF Request, Docs
  <1>6. jobs' \subseteq Job /\ \A j \in jobs' \ jobs : j.kind = "cut" /\ j.on \in Kids
    BY <1>1, <1>5, JobsIntro DEF Answers
  <1> QED BY <1>4, <1>6 DEF Ordinary, SameSaved, Answers, NestedInv, TypeOK, db

-----------------------------------------------------------------------------
(* The calls in flight.                                                     *)

(* A call that is over, with what it wrote.                                 *)
LEMMA CallEnds ==
  ASSUME NestedInv, NEW j \in jobs, jobs' \subseteq Job,
         \A x \in jobs' \ jobs : x.kind # "undo" /\ x.on \in Kids,
         live \subseteq live', live' \subseteq Docs,
         ref' = ref, back' \in [Kids -> SUBSET Parents],
         UNCHANGED <<schema, gone>>, faults' \in 0 .. MaxFaults, blurred' \subseteq Requests,
         UNCHANGED req \/ (SameInput /\ SameSaved)
  PROVE  Ordinary
  <1>1. SameInput /\ SameSaved
    BY DEF SameInput, SameSaved, NestedInv, TypeOK
  <1> QED BY <1>1 DEF Ordinary, SameSaved, NestedInv, TypeOK

(* A call in flight has its type.                                           *)
LEMMA CallTyped ==
  ASSUME NestedInv, NEW j \in jobs
  PROVE  j \in Job /\ j.req \in Requests /\ j.on \in Docs /\ jobs \ {j} \subseteq Job
  BY DEF NestedInv, TypeOK, Job

(* A save makes a record exist.                                             *)
LEMMA SaveSteps ==
  ASSUME NestedInv, NEW j \in jobs, Saves(j) \/ SaveFails(j)
  PROVE  Ordinary
  <1>1. j.on \in Docs /\ j.req \in Requests /\ jobs' = jobs \ {j} /\ jobs' \subseteq Job
    BY CallTyped DEF Saves, SaveFails
  <1>2. UNCHANGED <<schema, ref, back, gone>>
    BY DEF Saves, SaveFails
  <1>3. live \subseteq live' /\ live' \subseteq Docs /\ blurred' \subseteq Requests
    BY <1>1 DEF Saves, SaveFails, NestedInv, TypeOK
  <1>4. faults' \in 0 .. MaxFaults
    BY FaultEffect DEF Saves, SaveFails, NestedInv, TypeOK
  <1>5. UNCHANGED req \/ (SameInput /\ SameSaved)
    <2>1. CASE Saves(j)
      BY <2>1 DEF Saves
    <2>2. CASE SaveFails(j)
      <3>1. PICK r \in Requests : r = j.req
        BY <1>1
      <3>2. req[r] \in Request /\ req \in [Requests -> Request]
        BY DEF NestedInv, TypeOK
      <3>3. PICK B \in SUBSET Fields : B = req[r].broken \cup {FieldOf[j.on]}
        <4>1. j.on \in Kids
          BY <2>2 DEF SaveFails, NestedInv, FreshInv
        <4>2. FieldOf[j.on] \in Fields
          BY <4>1, FieldsAssumption
        <4>3. req[r].broken \in SUBSET Fields
          BY <3>2 DEF Request
        <4> QED BY <4>2, <4>3
      <3> DEFINE q == [req[r] EXCEPT !.broken = B]
      <3>4. /\ q \in Request
            /\ q.op = req[r].op /\ q.p = req[r].p /\ q.news = req[r].news
            /\ q.connects = req[r].connects /\ q.saved = req[r].saved
        BY <3>2 DEF Request
      <3>5. req' = [req EXCEPT ![r] = q]
        BY <2>2, <3>1, <3>3 DEF SaveFails
      <3> QED BY <3>2, <3>4, <3>5, Replaces
    <2> QED BY <2>1, <2>2
  <1> QED BY <1>1, <1>2, <1>3, <1>4, <1>5, CallEnds DEF NestedInv, TypeOK

(* What a reference back is set to.                                         *)
LEMMA LinkedTyped ==
  ASSUME NestedInv, NEW k \in Kids, NEW p \in Parents
  PROVE  Linked(k, p) \in SUBSET Parents /\ Cut(k, p) \in SUBSET Parents
  BY DEF NestedInv, TypeOK, Linked, Cut

(* A reference back is looked for, written or rejected.                     *)
LEMMA LinkSteps ==
  ASSUME NestedInv, NEW j \in jobs, LinkFinds(j) \/ LinkWrites(j) \/ LinkFails(j)
  PROVE  Ordinary
  <1>1. /\ j \in Job /\ j.req \in Requests /\ jobs \ {j} \subseteq Job /\ j.on \in Kids
        /\ jobs \subseteq Job /\ req \in [Requests -> Request]
    BY CallTyped DEF LinkFinds, LinkWrites, LinkFails, NestedInv, FreshInv, TypeOK
  <1>2. /\ UNCHANGED <<schema, live, ref, gone, blurred>>
        /\ faults' \in 0 .. MaxFaults
    BY FaultEffect DEF LinkFinds, LinkWrites, LinkFails, NestedInv, TypeOK, db
  <1>3. Linked(j.on, req[j.req].p) \in SUBSET Parents
    <2>1. req[j.req].p \in Parents
      BY <1>1 DEF Request
    <2> QED BY <1>1, <2>1, LinkedTyped
  <1>4. back' \in [Kids -> SUBSET Parents]
    BY <1>1, <1>3 DEF LinkFinds, LinkWrites, LinkFails, NestedInv, TypeOK, db
  <1>5. CASE Reject(j)
    BY <1>1, <1>2, <1>4, <1>5, RejectEffect, CallEnds DEF NestedInv, TypeOK
  <1>6. CASE jobs' = jobs \ {j} /\ UNCHANGED req
    BY <1>1, <1>2, <1>4, <1>6, CallEnds DEF NestedInv, TypeOK
  <1>7. CASE /\ jobs' = (jobs \ {j}) \cup
                        {[x EXCEPT !.found = TRUE] :
                            x \in {y \in {j} : req[j.req].p \notin back[j.on]}}
             /\ UNCHANGED req
             /\ j.kind = "link"
    <2>1. PICK y : y = [j EXCEPT !.found = TRUE]
      OBVIOUS
    <2>2. y \in Job /\ y.kind = j.kind /\ y.on = j.on
      <3>1. \A b \in BOOLEAN : /\ [j EXCEPT !.found = b] \in Job
                               /\ [j EXCEPT !.found = b].kind = j.kind
                               /\ [j EXCEPT !.found = b].on = j.on
        BY <1>1 DEF Job
      <3> QED BY <2>1, <3>1, Zenon
    <2>3. jobs' \subseteq (jobs \ {j}) \cup {y}
      BY <1>7, <2>1
    <2>4. jobs' \subseteq Job /\ \A x \in jobs' \ jobs : x.kind # "undo" /\ x.on \in Kids
      BY <1>1, <1>7, <2>2, <2>3
    <2> QED BY <1>2, <1>4, <1>7, <2>4, CallEnds DEF NestedInv, TypeOK
  <1>8. CASE LinkFinds(j)
    <2>1. Reject(j) \/ (/\ jobs' = (jobs \ {j}) \cup
                           {[x EXCEPT !.found = TRUE] :
                               x \in {y \in {j} : req[j.req].p \notin back[j.on]}}
                        /\ UNCHANGED req)
      BY <1>8, Zenon DEF LinkFinds
    <2> QED BY <1>5, <1>7, <1>8, <2>1, Zenon DEF LinkFinds
  <1>9. CASE LinkWrites(j)
    BY <1>6, <1>9 DEF LinkWrites
  <1>10. CASE LinkFails(j)
    BY <1>5, <1>10, Zenon DEF LinkFails
  <1> QED BY <1>8, <1>9, <1>10

(* A cut, and a rejection nobody sees.                                      *)
LEMMA LooseSteps ==
  ASSUME NestedInv, NEW j \in jobs, Cuts(j) \/ LooseFails(j)
  PROVE  Ordinary
  <1>1. j \in Job /\ j.req \in Requests /\ jobs \ {j} \subseteq Job
    BY CallTyped
  <1>2. /\ UNCHANGED <<schema, live, ref, gone, req>> /\ jobs' = jobs \ {j}
        /\ faults' \in 0 .. MaxFaults /\ blurred' \subseteq Requests
    BY <1>1, FaultEffect DEF Cuts, LooseFails, NestedInv, TypeOK, db
  <1>3. back' \in [Kids -> SUBSET Parents]
    <2>1. CASE LooseFails(j)
      BY <2>1 DEF LooseFails, NestedInv, TypeOK, db
    <2>2. CASE Cuts(j)
      <3>1. j.on \in Kids
        BY <2>2 DEF Cuts, NestedInv, FreshInv
      <3>2. req[j.req].p \in Parents
        BY <1>1 DEF NestedInv, TypeOK, Request
      <3>3. Cut(j.on, req[j.req].p) \in SUBSET Parents
        BY <3>1, <3>2, LinkedTyped
      <3> QED BY <2>2, <3>3 DEF Cuts, NestedInv, TypeOK
    <2> QED BY <2>1, <2>2
  <1> QED BY <1>1, <1>2, <1>3, CallEnds DEF NestedInv, TypeOK

-----------------------------------------------------------------------------
(* At the beginning there are no mutations.                                 *)
LEMMA InitNested == Init => NestedInv
  <1> SUFFICES ASSUME Init
               PROVE  NestedInv
    OBVIOUS
  <1>1. PICK p \in Parents : p = CHOOSE x \in Parents : TRUE
    BY DocsAssumption
  <1> DEFINE q == [op |-> "none", p |-> p, news |-> {},
                   connects |-> {}, at |-> "idle", todo |-> {}, broken |-> {},
                   saved |-> {}, adding |-> {}, former |-> {}, failed |-> FALSE,
                   answer |-> "none", brokeAt |-> "none"]
  <1>2. q \in Request
    <2>1. \A b \in BOOLEAN :
             [op |-> "none", p |-> p, news |-> {},
              connects |-> {}, at |-> "idle", todo |-> {}, broken |-> {},
              saved |-> {}, adding |-> {}, former |-> {}, failed |-> b,
              answer |-> "none", brokeAt |-> "none"] \in Request
      BY DEF Request
    <2> QED BY <2>1, Zenon
  <1>3. req = [r \in Requests |-> q]
    BY <1>1, Zenon DEF Init
  <1>4. q.op = "none" /\ q.news = {} /\ q.saved = {}
    OBVIOUS
  <1> HIDE DEF q
  <1>5. /\ schema \in Schemas /\ live = Existing /\ jobs = {} /\ faults = 0
        /\ gone = {} /\ blurred = {}
    BY Zenon DEF Init
  <1>6. \E rel : /\ ref = [x \in Parents |-> {k \in Kids : <<x, k>> \in rel}]
                 /\ back = [k \in Kids |-> {x \in Parents : <<x, k>> \in rel}]
    BY Zenon DEF Init
  <1>7. ref \in [Parents -> SUBSET Kids] /\ back \in [Kids -> SUBSET Parents]
    BY <1>6
  <1>8. TypeOK
    BY <1>2, <1>3, <1>5, <1>7, DocsAssumption, BoundsAssumption DEF TypeOK
  <1>9. FreshInv
    BY <1>3, <1>4, <1>5 DEF FreshInv, Fresh
  <1> QED BY <1>5, <1>8, <1>9 DEF NestedInv, KeepsExisting

(* Every step keeps the invariant.                                          *)
LEMMA NestedStep ==
  ASSUME NestedInv, [Next]_vars
  PROVE  NestedInv'
  <1>1. ASSUME NEW r \in Requests, Resolver(r)
        PROVE  NestedInv'
    BY <1>1, ValidatesStep, ProcessesStep, CountsStep, FetchesStep, HookSteps,
       SavesRecordStep, AnswersStep, RollBackSteps, OrdinaryKeeps DEF Resolver
  <1>2. ASSUME NEW j \in jobs, Database(j)
        PROVE  NestedInv'
    BY <1>2, SaveSteps, LinkSteps, LooseSteps, UndoesKeeps, OrdinaryKeeps DEF Database
  <1>3. CASE Failure
    BY <1>3, InvalidStep, HookSteps, RollBackSteps, RecordFailsStep, SaveSteps,
       LinkSteps, LooseSteps, OrdinaryKeeps DEF Failure
  <1>4. CASE UNCHANGED vars
    BY <1>4 DEF vars, NestedInv, TypeOK, FreshInv, KeepsExisting
  <1> QED BY <1>1, <1>2, <1>3, <1>4, SubmitKeeps, VanishesKeeps DEF Next, Idle

(* The invariant holds in every behaviour.                                  *)
LEMMA NestedInvHolds == Spec => []NestedInv
  BY InitNested, NestedStep, PTL DEF Spec

(* Every variable has its type, for all constants.                          *)
THEOREM NestedTypeCorrect == Spec => []TypeOK
  <1>1. NestedInv => TypeOK
    BY DEF NestedInv
  <1> QED BY <1>1, NestedInvHolds, PTL

(* No roll-back (rollBackDocumentSaves) deletes a record that was there     *)
(* before, however many mutations overlap, whatever they name and whichever *)
(* operations are rejected: what is noted as saved is always new.           *)
THEOREM ExistingAreKept == Spec => []KeepsExisting
  <1>1. NestedInv => KeepsExisting
    BY DEF NestedInv
  <1> QED BY <1>1, NestedInvHolds, PTL

-----------------------------------------------------------------------------
(* What a roll-back leaves: the invariant.                                  *)

(* The records that a mutation makes.                                       *)
Makes(r) == req[r].news \cup {x \in {req[r].p} : req[r].op = "add"}

Later == {"count", "fetch", "hook", "save", "link"}

(* Nothing of it is noted yet, and nothing will be.                         *)
Creates(r) == req[r].at = "create" \/ req[r].brokeAt = "create"

(* Each record is made by one mutation, and none exists that nobody made.   *)
OwnRight ==
    /\ \A q, r \in Requests : q # r => Makes(q) \cap Makes(r) = {}
    /\ \A x \in live : x \in Existing \/ \E q \in Requests : x \in Makes(q)

(* Related records are saved only before the first of them is noted.        *)
SavesRight ==
    \A j \in jobs : j.kind = "save" => j.on \in req[j.req].news /\ Creates(j.req)

(* What a roll-back has yet to delete is about to be deleted.               *)
UndoRight(r) ==
    /\ req[r].answer = "error" /\ req[r].brokeAt \in {"count", "fetch", "save", "link"}
    /\ r \notin blurred
    => \A x \in Makes(r) \cap live : \E j \in jobs : j.req = r /\ j.kind = "undo" /\ j.on = x

(* From the creation on all new records are noted, the mutation's own as    *)
(* soon as it exists.                                                       *)
NotedRight(r) ==
    /\ req[r].at = "idle" => Makes(r) = {}
    /\ req[r].op = "none" => req[r].at = "idle"
    /\ req[r].todo # {} => Creates(r)
    /\ req[r].brokeAt # "none" => req[r].at = "done"
    /\ req[r].at \in Later => req[r].news \subseteq req[r].saved
    /\ req[r].op = "add" => /\ req[r].at = "link" => req[r].p \in req[r].saved
                            /\ req[r].at \in {"create", "count", "fetch", "hook", "save"}
                                  => req[r].p \notin live

RequestRight(r) == NotedRight(r) /\ UndoRight(r)

UndoInv ==
    /\ NestedInv /\ OwnRight /\ SavesRight
    /\ \A r \in Requests : RequestRight(r)

OtherReqs(r) == \A q \in Requests \ {r} : req'[q] = req[q]

(* A roll-back starts a deletion for every record noted.                    *)
LEMMA UndoJob ==
  ASSUME NEW r, NEW S, NEW x \in S
  PROVE  \E j \in JobsFor(r, "undo", S) : j.req = r /\ j.kind = "undo" /\ j.on = x
  <1>1. NewJob(r, "undo", x) \in JobsFor(r, "undo", S)
    BY DEF JobsFor
  <1>2. /\ NewJob(r, "undo", x).req = r /\ NewJob(r, "undo", x).kind = "undo"
        /\ NewJob(r, "undo", x).on = x
    BY DEF NewJob
  <1> QED BY <1>1, <1>2

(* A step of one mutation that is right for itself is right for the others. *)
LEMMA OthersKeep ==
  ASSUME UndoInv, NestedInv', NEW r \in Requests, OtherReqs(r), SameInput,
         \A x \in live' \ live : x \in Makes(r), live \subseteq live',
         jobs \subseteq jobs', blurred \subseteq blurred',
         RequestRight(r)', SavesRight'
  PROVE  UndoInv'
  <1>1. \A q \in Requests : Makes(q)' = Makes(q)
    BY DEF Makes, SameInput
  <1>2. OwnRight'
    BY <1>1 DEF OwnRight, UndoInv
  <1>3. ASSUME NEW q \in Requests \ {r}
        PROVE  RequestRight(q)'
    <2>1. req'[q] = req[q] /\ RequestRight(q) /\ Makes(q) \cap Makes(r) = {}
      BY DEF OtherReqs, UndoInv, OwnRight
    <2>2. NotedRight(q)'
      <3>1. req[q].op = "add" => req[q].p \in Makes(q)
        BY DEF Makes
      <3> HIDE DEF Makes
      <3> QED BY <1>1, <2>1, <3>1 DEF RequestRight, NotedRight, Creates
    <2>3. UndoRight(q)'
      <3>1. \A x \in Makes(q) : x \in live' => x \in live
        BY <2>1
      <3> HIDE DEF Makes
      <3> QED BY <1>1, <2>1, <3>1 DEF RequestRight, UndoRight
    <2> QED BY <2>2, <2>3 DEF RequestRight
  <1>4. \A q \in Requests : RequestRight(q)'
    BY <1>3
  <1> QED BY <1>2, <1>4 DEF UndoInv

(* New calls for saves are for new records of a mutation that creates.      *)
LEMMA SavesKeep ==
  ASSUME UndoInv, NEW r \in Requests, OtherReqs(r), SameInput,
         \A j \in jobs' : j.kind = "save" =>
            \/ j \in jobs /\ j.req \in Requests \ {r}
            \/ j.req = r /\ j.on \in req[r].news /\ Creates(r)'
  PROVE  SavesRight'
  BY DEF SavesRight, UndoInv, OtherReqs, SameInput, Creates

(* The control of a mutation that is over.                                  *)
LEMMA FinishesControl ==
  ASSUME NEW r \in Requests, NEW ans \in {"none", "ok", "error"}, NEW place \in Places,
         req \in [Requests -> Request],
         req' = [req EXCEPT ![r].at = "done", ![r].answer = ans, ![r].brokeAt = place]
  PROVE  /\ OtherReqs(r)
         /\ req'[r].at = "done" /\ req'[r].answer = ans /\ req'[r].brokeAt = place
         /\ req'[r].todo = req[r].todo
  <1> DEFINE q == [req[r] EXCEPT !.at = "done", !.answer = ans, !.brokeAt = place]
  <1>1. q.at = "done" /\ q.answer = ans /\ q.brokeAt = place /\ q.todo = req[r].todo
    BY DEF Request
  <1>2. req' = [req EXCEPT ![r] = q]
    OBVIOUS
  <1> HIDE DEF q
  <1> QED BY <1>1, <1>2 DEF OtherReqs

(* What was noted when a mutation rolls back is all that it has made.       *)
LEMMA RollBackRight ==
  ASSUME UndoInv, NestedInv', NEW r \in Requests, req[r].at \in Later,
         RollsBack(r, req[r].saved), live \subseteq live',
         live' = live \/ r \in blurred', \A x \in live' \ live : x \in Makes(r),
         blurred \subseteq blurred'
  PROVE  UndoInv'
  <1>1. /\ req \in [Requests -> Request] /\ req[r] \in Request /\ jobs \subseteq Job
        /\ req[r].at \in Places /\ req[r].saved \in SUBSET Docs
    BY DEF UndoInv, NestedInv, TypeOK, Request, Later, Places
  <1>2. SameInput /\ SameSaved
    BY <1>1, RollsBackEffect
  <1>3. /\ OtherReqs(r)
        /\ req'[r].at = "done" /\ req'[r].answer = "error" /\ req'[r].brokeAt = req[r].at
        /\ req'[r].todo = req[r].todo
    BY <1>1, FinishesControl DEF RollsBack
  <1>4. /\ req[r].brokeAt = "none" /\ ~Creates(r) /\ req[r].todo = {}
        /\ req[r].news \subseteq req[r].saved
    BY DEF UndoInv, RequestRight, NotedRight, Creates, Later
  <1>5. NotedRight(r)'
    <2>1. req[r].op # "none"
      BY DEF UndoInv, RequestRight, NotedRight, Later
    <2> QED BY <1>2, <1>3, <1>4, <2>1 DEF NotedRight, Later, SameInput
  <1>6. UndoRight(r)'
    <2> SUFFICES ASSUME live' = live, NEW x \in Makes(r)', x \in live
                 PROVE  \E j \in jobs' : j.req = r /\ j.kind = "undo" /\ j.on = x
      BY DEF UndoRight
    <2>1. x \in Makes(r)
      BY <1>2 DEF Makes, SameInput
    <2>2. CASE x \in req[r].news
      BY <1>4, <2>2, UndoJob DEF RollsBack
    <2>3. CASE x = req[r].p /\ req[r].op = "add"
      <3>1. x \in req[r].saved
        BY <2>3 DEF UndoInv, RequestRight, NotedRight, Later
      <3> QED BY <3>1, UndoJob DEF RollsBack
    <2> QED BY <2>1, <2>2, <2>3 DEF Makes
  <1>7. SavesRight'
    <2>1. \A j \in jobs' \ jobs : j.kind = "undo"
      BY <1>1, RollsBackEffect
    <2>2. \A j \in jobs : j.kind = "save" => j.req \in Requests \ {r}
      BY <1>1, <1>4 DEF UndoInv, SavesRight, Job
    <2> QED BY <1>2, <1>3, <2>1, <2>2, SavesKeep
  <1>8. jobs \subseteq jobs'
    BY DEF RollsBack
  <1> QED BY <1>2, <1>3, <1>5, <1>6, <1>7, <1>8, OthersKeep DEF RequestRight

-----------------------------------------------------------------------------
(* Every step of a mutation but its beginning.                              *)
MutationStep(r) ==
    \/ Resolver(r) \/ HookRejects(r) \/ ReadFails(r) \/ RecordFails(r)
    \/ \E f \in Fields : Invalid(r, f)

(* They keep the first invariant, and what the mutation is about.           *)
LEMMA MutationStepOrdinary ==
  ASSUME NestedInv, NEW r \in Requests, MutationStep(r)
  PROVE  Ordinary /\ NestedInv' /\ SameInput
  <1>1. Ordinary
    BY ValidatesStep, ProcessesStep, CountsStep, FetchesStep, HookSteps, SavesRecordStep,
       AnswersStep, RollBackSteps, InvalidStep, RecordFailsStep DEF MutationStep, Resolver
  <1> QED BY <1>1, OrdinaryKeeps DEF Ordinary

(* A mutation that is past the creation has no saves of related records.    *)
LEMMA PastCreation ==
  ASSUME UndoInv, NEW r \in Requests, req[r].at \in Later
  PROVE  /\ req[r].brokeAt = "none" /\ ~Creates(r) /\ req[r].todo = {}
         /\ req[r].news \subseteq req[r].saved
         /\ \A j \in jobs : j.kind = "save" => j.req \in Requests \ {r}
  <1>1. /\ req[r].brokeAt = "none" /\ ~Creates(r) /\ req[r].todo = {}
        /\ req[r].news \subseteq req[r].saved
    BY DEF UndoInv, RequestRight, NotedRight, Creates, Later
  <1>2. \A j \in jobs : j.kind = "save" => j.req \in Requests \ {r}
    BY <1>1 DEF UndoInv, SavesRight, NestedInv, TypeOK, Job
  <1> QED BY <1>1, <1>2

(* A step within the later places that rolls nothing back.                  *)
LEMMA LaterStep ==
  ASSUME UndoInv, NestedInv', SameInput, NEW r \in Requests, req[r].at \in Later,
         OtherReqs(r), jobs \subseteq jobs', \A j \in jobs' \ jobs : j.kind # "save",
         live \subseteq live', blurred \subseteq blurred',
         \A x \in live' \ live : x \in Makes(r),
         req'[r].todo = req[r].todo, req[r].saved \subseteq req'[r].saved,
         \/ /\ req'[r].at \in Later /\ req'[r].brokeAt = "none"
            /\ req'[r].at = "link" => (req[r].op = "add" => req[r].p \in req'[r].saved)
            /\ req'[r].at # "link" => req[r].at # "link" /\ live' = live
         \/ req'[r].at = "done" /\ req'[r].brokeAt \in {"none", "hook"}
  PROVE  UndoInv'
  <1>1. /\ req[r].brokeAt = "none" /\ ~Creates(r) /\ req[r].todo = {}
        /\ req[r].news \subseteq req[r].saved
        /\ \A j \in jobs : j.kind = "save" => j.req \in Requests \ {r}
    BY PastCreation
  <1>2. /\ req'[r].news = req[r].news /\ req'[r].op = req[r].op /\ req'[r].p = req[r].p
    BY DEF SameInput
  <1>3. /\ req[r].op = "add" /\ req[r].at # "link" => req[r].p \notin live
        /\ req[r].op # "none"
    BY DEF UndoInv, RequestRight, NotedRight, Later
  <1>4. NotedRight(r)'
    BY <1>1, <1>2, <1>3 DEF NotedRight, Later
  <1>5. UndoRight(r)'
    BY DEF UndoRight, Later
  <1>6. SavesRight'
    BY <1>1, SavesKeep
  <1> QED BY <1>4, <1>5, <1>6, OthersKeep DEF RequestRight

(* The count.                                                               *)
LEMMA CountsUndo ==
  ASSUME UndoInv, NEW r \in Requests, Counts(r)
  PROVE  UndoInv'
  <1>1. NestedInv' /\ SameInput /\ req \in [Requests -> Request] /\ req[r] \in Request
    BY MutationStepOrdinary DEF MutationStep, Resolver, UndoInv, NestedInv, TypeOK
  <1>2. req[r].at = "count" /\ UNCHANGED <<live, blurred>>
    BY DEF Counts, db
  <1>3. CASE RollsBack(r, req[r].saved)
    BY <1>1, <1>2, <1>3, RollBackRight DEF Later
  <1>4. CASE /\ req' = [req EXCEPT ![r].adding = req[r].news \cup req[r].connects,
                                   ![r].at = IF req[r].op = "add" THEN "hook" ELSE "fetch"]
             /\ UNCHANGED jobs
    <2>1. PICK place \in {"hook", "fetch"} :
             place = IF req[r].op = "add" THEN "hook" ELSE "fetch"
      OBVIOUS
    <2>2. PICK S : S = req[r].news \cup req[r].connects
      OBVIOUS
    <2> DEFINE q == [req[r] EXCEPT !.adding = S, !.at = place]
    <2>3. req' = [req EXCEPT ![r] = q]
      BY <1>4, <2>1, <2>2
    <2>4. /\ q.at = place /\ q.todo = req[r].todo /\ q.saved = req[r].saved
          /\ q.brokeAt = req[r].brokeAt
      BY <1>1 DEF Request
    <2> HIDE DEF q
    <2>5. OtherReqs(r) /\ req'[r] = q
      BY <1>1, <2>3 DEF OtherReqs
    <2>6. req[r].brokeAt = "none"
      BY <1>2, PastCreation DEF Later
    <2> QED BY <1>1, <1>2, <1>4, <2>4, <2>5, <2>6, LaterStep DEF Later
  <1> QED BY <1>3, <1>4, Zenon DEF Counts

(* The fetch of the record.                                                 *)
LEMMA FetchesUndo ==
  ASSUME UndoInv, NEW r \in Requests, Fetches(r)
  PROVE  UndoInv'
  <1>1. NestedInv' /\ SameInput /\ req \in [Requests -> Request] /\ req[r] \in Request
    BY MutationStepOrdinary DEF MutationStep, Resolver, UndoInv, NestedInv, TypeOK
  <1>2. req[r].at = "fetch" /\ UNCHANGED <<live, blurred>>
    BY DEF Fetches, db
  <1>3. CASE RollsBack(r, req[r].saved)
    BY <1>1, <1>2, <1>3, RollBackRight DEF Later
  <1> DEFINE A == req[r].adding \ {k \in req[r].connects : IsList(k) /\ k \in ref[req[r].p]}
             F == Disconnected(Replaced(r))
  <1>4. CASE /\ req' = [req EXCEPT ![r].adding = A, ![r].former = F, ![r].at = "hook"]
             /\ UNCHANGED jobs
    <2> HIDE DEF A, F
    <2> DEFINE q == [req[r] EXCEPT !.adding = A, !.former = F, !.at = "hook"]
    <2>3. req' = [req EXCEPT ![r] = q]
      BY <1>4
    <2>4. /\ q.at = "hook" /\ q.todo = req[r].todo /\ q.saved = req[r].saved
          /\ q.brokeAt = req[r].brokeAt
      BY <1>1 DEF Request
    <2> HIDE DEF q
    <2>5. OtherReqs(r) /\ req'[r] = q
      BY <1>1, <2>3 DEF OtherReqs
    <2>6. req[r].brokeAt = "none"
      BY <1>2, PastCreation DEF Later
    <2> QED BY <1>1, <1>2, <1>4, <2>4, <2>5, <2>6, LaterStep DEF Later
  <1> QED BY <1>3, <1>4, Zenon DEF Fetches

(* The connection prehooks: a rejection rolls nothing back.                 *)
LEMMA HooksUndo ==
  ASSUME UndoInv, NEW r \in Requests, Hooks(r) \/ HookRejects(r)
  PROVE  UndoInv'
  <1>1. NestedInv' /\ SameInput /\ req \in [Requests -> Request] /\ req[r] \in Request
    BY MutationStepOrdinary DEF MutationStep, Resolver, UndoInv, NestedInv, TypeOK
  <1>2. req[r].at = "hook" /\ UNCHANGED <<live, blurred, jobs>>
    BY DEF Hooks, HookRejects, db
  <1>3. req[r].brokeAt = "none"
    BY <1>2, PastCreation DEF Later
  <1>4. CASE Hooks(r)
    <2> DEFINE q == [req[r] EXCEPT !.at = "save"]
    <2>1. req' = [req EXCEPT ![r] = q]
      BY <1>4 DEF Hooks, Goes
    <2>2. /\ q.at = "save" /\ q.todo = req[r].todo /\ q.saved = req[r].saved
          /\ q.brokeAt = req[r].brokeAt
      BY <1>1 DEF Request
    <2> HIDE DEF q
    <2>3. OtherReqs(r) /\ req'[r] = q
      BY <1>1, <2>1 DEF OtherReqs
    <2> QED BY <1>1, <1>2, <1>3, <2>2, <2>3, LaterStep DEF Later
  <1>5. CASE HookRejects(r)
    <2>1. SameSaved
      BY <1>1, <1>5, Finishes DEF HookRejects, Places
    <2>2. /\ OtherReqs(r)
          /\ req'[r].at = "done" /\ req'[r].brokeAt = "hook" /\ req'[r].todo = req[r].todo
      BY <1>1, <1>5, FinishesControl DEF HookRejects, Places
    <2> QED BY <1>1, <1>2, <2>1, <2>2, LaterStep DEF Later, SameSaved
  <1> QED BY <1>4, <1>5

(* What rolls back what is noted.                                           *)
LEMMA RollBacksUndo ==
  ASSUME UndoInv, NEW r \in Requests, ReadFails(r) \/ GivesUp(r)
  PROVE  UndoInv'
  <1>1. NestedInv'
    BY MutationStepOrdinary DEF MutationStep, Resolver, UndoInv
  <1>2. req[r].at \in Later /\ RollsBack(r, req[r].saved) /\ UNCHANGED <<live, blurred>>
    BY DEF ReadFails, GivesUp, db, Later
  <1> QED BY <1>1, <1>2, RollBackRight

(* The save of the record, which is noted with it.                          *)
LEMMA SavesRecordUndo ==
  ASSUME UndoInv, NEW r \in Requests, SavesRecord(r)
  PROVE  UndoInv'
  <1>1. /\ NestedInv' /\ SameInput /\ req \in [Requests -> Request] /\ req[r] \in Request
        /\ jobs \subseteq Job
    BY MutationStepOrdinary DEF MutationStep, Resolver, UndoInv, NestedInv, TypeOK
  <1>2. req[r].at = "save" /\ UNCHANGED blurred
    BY DEF SavesRecord
  <1>3. CASE RollsBack(r, req[r].saved) /\ UNCHANGED db
    BY <1>1, <1>2, <1>3, RollBackRight DEF Later, db
  <1> DEFINE S == req[r].saved \cup {x \in {req[r].p} : req[r].op = "add"}
  <1>4. CASE /\ ~(req[r].op = "update" /\ req[r].p \notin live)
             /\ live' = live \cup {req[r].p}
             /\ req' = [req EXCEPT ![r].at = "link", ![r].saved = S]
             /\ jobs' = jobs \cup JobsFor(r, "link", req[r].adding)
    <2>1. req[r].saved \subseteq S /\ (req[r].op = "add" => req[r].p \in S)
      OBVIOUS
    <2>2. req[r].adding \in SUBSET Docs
      BY <1>1 DEF Request, Docs
    <2>3. \A x \in live' \ live : x \in Makes(r)
      <3>1. req[r].op \in {"none", "add", "update"}
        BY <1>1 DEF Request
      <3>2. req[r].op # "none"
        BY <1>2 DEF UndoInv, RequestRight, NotedRight
      <3> QED BY <1>4, <3>1, <3>2 DEF Makes
    <2> HIDE DEF S
    <2> DEFINE q == [req[r] EXCEPT !.at = "link", !.saved = S]
    <2>4. req' = [req EXCEPT ![r] = q]
      BY <1>4
    <2>5. /\ q.at = "link" /\ q.todo = req[r].todo /\ q.saved = S
          /\ q.brokeAt = req[r].brokeAt
      BY <1>1 DEF Request
    <2> HIDE DEF q
    <2>6. OtherReqs(r) /\ req'[r] = q
      BY <1>1, <2>4 DEF OtherReqs
    <2>7. req[r].brokeAt = "none"
      BY <1>2, PastCreation DEF Later
    <2>8. \A j \in jobs' \ jobs : j.kind = "link"
      BY <1>4, <2>2, JobsIntro
    <2> QED BY <1>1, <1>2, <1>4, <2>1, <2>3, <2>5, <2>6, <2>7, <2>8, LaterStep DEF Later
  <1> QED BY <1>3, <1>4, Zenon DEF SavesRecord

(* The save is rejected: with effect, the mutation is blurred.              *)
LEMMA RecordFailsUndo ==
  ASSUME UndoInv, NEW r \in Requests, RecordFails(r)
  PROVE  UndoInv'
  <1>1. NestedInv' /\ req[r] \in Request
    BY MutationStepOrdinary DEF MutationStep, UndoInv, NestedInv, TypeOK
  <1>2. req[r].at = "save" /\ RollsBack(r, req[r].saved)
    BY DEF RecordFails
  <1>3. CASE UNCHANGED <<live, blurred>>
    BY <1>1, <1>2, <1>3, RollBackRight DEF Later
  <1>4. CASE /\ req[r].op = "update" => req[r].p \in live
             /\ live' = live \cup {req[r].p} /\ blurred' = blurred \cup {r}
    <2>1. req[r].op \in {"add", "update"}
      BY <1>1, <1>2 DEF Request, UndoInv, RequestRight, NotedRight
    <2>2. \A x \in live' \ live : x \in Makes(r)
      BY <1>4, <2>1 DEF Makes
    <2> QED BY <1>1, <1>2, <1>4, <2>2, RollBackRight DEF Later
  <1> QED BY <1>3, <1>4 DEF RecordFails, db

(* The answer.                                                              *)
LEMMA AnswersUndo ==
  ASSUME UndoInv, NEW r \in Requests, Answers(r)
  PROVE  UndoInv'
  <1>1. /\ NestedInv' /\ SameInput /\ req \in [Requests -> Request] /\ req[r] \in Request
        /\ jobs \subseteq Job
    BY MutationStepOrdinary DEF MutationStep, Resolver, UndoInv, NestedInv, TypeOK
  <1>2. req[r].at = "link" /\ UNCHANGED <<live, blurred>>
    BY DEF Answers, db
  <1>3. req[r].brokeAt = "none"
    BY <1>2, PastCreation DEF Later
  <1> DEFINE q == [req[r] EXCEPT !.at = "done", !.answer = "ok"]
  <1>4. req' = [req EXCEPT ![r] = q]
    BY DEF Answers
  <1>5. /\ q.at = "done" /\ q.todo = req[r].todo /\ q.saved = req[r].saved
        /\ q.brokeAt = req[r].brokeAt
    BY <1>1 DEF Request
  <1> HIDE DEF q
  <1>6. OtherReqs(r) /\ req'[r] = q
    BY <1>1, <1>4 DEF OtherReqs
  <1>7. req[r].former \in SUBSET Docs
    BY <1>1 DEF Request, Docs
  <1>8. jobs \subseteq jobs' /\ \A j \in jobs' \ jobs : j.kind = "cut"
    BY <1>7, JobsIntro DEF Answers
  <1> QED BY <1>1, <1>2, <1>3, <1>5, <1>6, <1>8, LaterStep DEF Later

(* While related records are created, errors note nothing.                  *)
LEMMA CreationStep ==
  ASSUME UndoInv, NestedInv', SameInput, NEW r \in Requests, Creates(r), Creates(r)',
         OtherReqs(r), UNCHANGED <<live, blurred>>, jobs \subseteq jobs',
         \A j \in jobs' \ jobs : j.kind = "save" => j.req = r /\ j.on \in req[r].news,
         \/ req'[r].at = "done" /\ req'[r].brokeAt = "create"
         \/ req'[r].at = req[r].at /\ req'[r].brokeAt = req[r].brokeAt
  PROVE  UndoInv'
  <1>1. /\ req'[r].news = req[r].news /\ req'[r].op = req[r].op /\ req'[r].p = req[r].p
    BY DEF SameInput
  <1>2. NotedRight(r) /\ req[r].op # "none" /\ req[r].at \notin {"idle", "link"}
        /\ req[r].at \notin Later /\ req[r].brokeAt \in {"none", "create"}
    BY DEF UndoInv, RequestRight, NotedRight, Creates, Later
  <1>3. NotedRight(r)'
    BY <1>1, <1>2 DEF NotedRight, Later, Creates
  <1>4. UndoRight(r)'
    BY <1>2 DEF UndoRight
  <1>5. SavesRight'
    <2>1. \A j \in jobs : j.kind = "save" /\ j.req = r => j.on \in req[r].news
      BY DEF UndoInv, SavesRight
    <2>2. \A j \in jobs : j.req \in Requests
      BY DEF UndoInv, NestedInv, TypeOK, Job
    <2> QED BY <2>1, <2>2, SavesKeep
  <1> QED BY <1>3, <1>4, <1>5, OthersKeep DEF RequestRight

(* The records of a field are saved.                                        *)
LEMMA ValidatesUndo ==
  ASSUME UndoInv, NEW r \in Requests, NEW f \in Fields, Validates(r, f)
  PROVE  UndoInv'
  <1>1. /\ NestedInv' /\ SameInput /\ req \in [Requests -> Request] /\ req[r] \in Request
        /\ jobs \subseteq Job
    BY MutationStepOrdinary DEF MutationStep, Resolver, UndoInv, NestedInv, TypeOK
  <1>2. Creates(r) /\ UNCHANGED <<live, blurred>>
    BY DEF Validates, db, UndoInv, RequestRight, NotedRight
  <1> DEFINE q == [req[r] EXCEPT !.todo = @ \ {f}]
  <1>3. req' = [req EXCEPT ![r] = q]
    BY DEF Validates
  <1>4. q.at = req[r].at /\ q.brokeAt = req[r].brokeAt
    BY <1>1 DEF Request
  <1> HIDE DEF q
  <1>5. OtherReqs(r) /\ req'[r] = q
    BY <1>1, <1>3 DEF OtherReqs
  <1>6. OfField(req[r].news, f) \in SUBSET Docs /\ OfField(req[r].news, f) \subseteq req[r].news
    BY <1>1 DEF Request, OfField, Docs
  <1>7. /\ jobs \subseteq jobs'
        /\ \A j \in jobs' \ jobs : j.req = r /\ j.on \in req[r].news
    BY <1>6, JobsIntro DEF Validates
  <1>8. Creates(r)'
    BY <1>2, <1>4, <1>5 DEF Creates
  <1> QED BY <1>1, <1>2, <1>4, <1>5, <1>7, <1>8, CreationStep

(* The input of a field is not valid.                                       *)
LEMMA InvalidUndo ==
  ASSUME UndoInv, NEW r \in Requests, NEW f \in Fields, Invalid(r, f)
  PROVE  UndoInv'
  <1>1. NestedInv' /\ SameInput /\ req \in [Requests -> Request] /\ req[r] \in Request
    BY MutationStepOrdinary DEF MutationStep, UndoInv, NestedInv, TypeOK
  <1>2. Creates(r) /\ UNCHANGED <<live, blurred, jobs>>
    BY DEF Invalid, db, UndoInv, RequestRight, NotedRight
  <1>3. PICK ans : ans = IF req[r].at = "done" THEN req[r].answer ELSE "error"
    OBVIOUS
  <1>4. PICK place : place = IF req[r].at = "done" THEN req[r].brokeAt ELSE "create"
    OBVIOUS
  <1>5. place = "create"
    BY <1>2, <1>4 DEF Creates
  <1> DEFINE q == [req[r] EXCEPT !.todo = @ \ {f}, !.at = "done", !.answer = ans,
                                 !.brokeAt = place]
  <1>6. req' = [req EXCEPT ![r] = q]
    BY <1>3, <1>4 DEF Invalid
  <1>7. q.at = "done" /\ q.brokeAt = place
    BY <1>1 DEF Request
  <1> HIDE DEF q
  <1>8. OtherReqs(r) /\ req'[r] = q
    BY <1>1, <1>6 DEF OtherReqs
  <1>9. Creates(r)'
    BY <1>5, <1>7, <1>8 DEF Creates
  <1> QED BY <1>1, <1>2, <1>5, <1>7, <1>8, <1>9, CreationStep

(* When all are noted, none is on its way.                                  *)
LEMMA ProcessesUndo ==
  ASSUME UndoInv, NEW r \in Requests, Processes(r)
  PROVE  UndoInv'
  <1>1. /\ NestedInv' /\ SameInput /\ req \in [Requests -> Request] /\ req[r] \in Request
        /\ jobs \subseteq Job
    BY MutationStepOrdinary DEF MutationStep, Resolver, UndoInv, NestedInv, TypeOK
  <1>2. /\ req[r].at = "create" /\ req[r].todo = {} /\ Creates(r)
        /\ UNCHANGED <<live, blurred>>
    BY DEF Processes, db, Creates
  <1>3. CASE req[r].broken # {}
    <2> DEFINE S == {k \in req[r].news : \A f \in req[r].broken : FieldOf[k] < f}
    <2>1. RollsBack(r, S)
      BY <1>3, Zenon DEF Processes
    <2>2. S \in SUBSET Docs
      BY <1>1 DEF Request, Docs
    <2> HIDE DEF S
    <2>3. /\ OtherReqs(r) /\ req'[r].at = "done" /\ req'[r].brokeAt = "create"
      BY <1>1, <1>2, <2>1, FinishesControl DEF RollsBack, Places
    <2>4. jobs \subseteq jobs' /\ \A j \in jobs' \ jobs : j.kind = "undo"
      BY <1>1, <1>2, <2>1, <2>2, RollsBackEffect DEF RollsBack, Places
    <2>5. Creates(r)'
      BY <2>3 DEF Creates
    <2> QED BY <1>1, <1>2, <2>3, <2>4, <2>5, CreationStep
  <1>4. CASE req[r].broken = {}
    <2> DEFINE q == [req[r] EXCEPT !.saved = req[r].news, !.at = "count"]
    <2>1. req' = [req EXCEPT ![r] = q] /\ UNCHANGED jobs
      BY <1>4 DEF Processes
    <2>2. /\ q.at = "count" /\ q.todo = {} /\ q.saved = req[r].news
          /\ q.brokeAt = req[r].brokeAt
      BY <1>1, <1>2 DEF Request
    <2> HIDE DEF q
    <2>3. OtherReqs(r) /\ req'[r] = q
      BY <1>1, <2>1 DEF OtherReqs
    <2>4. /\ req'[r].news = req[r].news /\ req'[r].op = req[r].op /\ req'[r].p = req[r].p
      BY <1>1 DEF SameInput
    <2>5. /\ req[r].brokeAt = "none" /\ req[r].op # "none"
          /\ req[r].op = "add" => req[r].p \notin live
      BY <1>2 DEF UndoInv, RequestRight, NotedRight
    <2>6. NotedRight(r)'
      BY <1>2, <2>2, <2>3, <2>4, <2>5 DEF NotedRight, Later
    <2>7. UndoRight(r)'
      BY <2>2, <2>3, <2>5 DEF UndoRight
    <2>8. ASSUME NEW j \in jobs, j.kind = "save"
          PROVE  j.req \in Requests \ {r}
      <3>1. j.on \in Kids /\ j.req \in Requests
        BY <2>8 DEF UndoInv, NestedInv, FreshInv, TypeOK, Job
      <3>2. FieldOf[j.on] \in Fields
        BY <3>1, FieldsAssumption
      <3>3. Resolved(r, FieldOf[j.on])
        BY <3>2 DEF Processes
      <3> QED BY <1>4, <2>8, <3>1, <3>3 DEF Resolved
    <2>9. SavesRight'
      BY <1>1, <2>1, <2>3, <2>8, SavesKeep
    <2> QED BY <1>1, <1>2, <2>1, <2>3, <2>6, <2>7, <2>9, OthersKeep DEF RequestRight
  <1> QED BY <1>3, <1>4

(* What a new mutation makes, nobody has made.                              *)
LEMMA SubmitUndo ==
  ASSUME UndoInv, NEW r \in Requests, Submit(r)
  PROVE  UndoInv'
  <1>1. NestedInv' /\ req \in [Requests -> Request] /\ req[r] \in Request
    BY SubmitKeeps DEF UndoInv, NestedInv, TypeOK
  <1>2. req[r].at = "idle" /\ UNCHANGED <<live, blurred, jobs>>
    BY DEF Submit, db
  <1>3. PICK op \in {"add", "update"}, p \in Parents, N \in SUBSET (Kids \ Used),
             K \in SUBSET (Kids \cap (Existing \cup live)) :
          /\ (op = "update") <=> (p \in Used)
          /\ Cardinality(N \cup K) \in 1 .. MaxInput
          /\ \A f \in Fields : AtMostOne(N, f) /\ AtMostOne(K, f)
          /\ req' = [req EXCEPT ![r].op = op, ![r].p = p, ![r].news = N,
                        ![r].connects = K, ![r].at = "create",
                        ![r].todo = {FieldOf[k] : k \in N}]
    BY Zenon DEF Submit
  <1> DEFINE T == {FieldOf[k] : k \in N}
  <1> HIDE DEF T
  <1> DEFINE q == [req[r] EXCEPT !.op = op, !.p = p, !.news = N, !.connects = K,
                                 !.at = "create", !.todo = T]
  <1>4. req' = [req EXCEPT ![r] = q]
    BY <1>3 DEF T
  <1>5. q.op = op /\ q.p = p /\ q.news = N /\ q.at = "create" /\ q.brokeAt = req[r].brokeAt
    BY <1>1 DEF Request
  <1> HIDE DEF q
  <1>6. OtherReqs(r) /\ req'[r] = q
    BY <1>1, <1>4 DEF OtherReqs
  <1>7. Makes(r) = {} /\ req[r].brokeAt = "none"
    BY <1>2 DEF UndoInv, RequestRight, NotedRight
  <1>8. \A x : x \in Existing \/ (\E y \in Requests : x \in Makes(y)) => x \in Used
    BY DEF Used, Makes
  <1>9. \A x \in Makes(r)' : x \notin Used
    BY <1>3, <1>5, <1>6 DEF Makes
  <1>10. \A y \in Requests \ {r} : Makes(y)' = Makes(y)
    BY <1>6 DEF Makes, OtherReqs
  <1>11. OwnRight'
    <2> HIDE DEF Makes
    <2>1. \A y \in Requests \ {r} : Makes(r)' \cap Makes(y)' = {}
      BY <1>8, <1>9, <1>10
    <2>2. \A x, y \in Requests : x # y => (Makes(x) \cap Makes(y))' = {}
      BY <1>10, <2>1 DEF UndoInv, OwnRight
    <2>3. \A x \in live' : x \in Existing \/ \E y \in Requests : x \in Makes(y)'
      BY <1>2, <1>7, <1>10 DEF UndoInv, OwnRight
    <2> QED BY <2>2, <2>3 DEF OwnRight
  <1>12. SavesRight'
    <2>1. \A j \in jobs : j.kind = "save" => j.req \in Requests \ {r}
      <3>1. ~Creates(r)
        BY <1>2, <1>7 DEF Creates
      <3> QED BY <3>1 DEF UndoInv, SavesRight, NestedInv, TypeOK, Job
    <2> QED BY <1>2, <1>6, <2>1 DEF UndoInv, SavesRight, OtherReqs, Creates
  <1>13. RequestRight(r)'
    <2>1. op = "add" => p \notin live
      BY <1>3, <1>8 DEF UndoInv, OwnRight
    <2> QED BY <1>2, <1>3, <1>5, <1>6, <1>7, <2>1
            DEF RequestRight, NotedRight, UndoRight, Creates, Later
  <1>14. ASSUME NEW y \in Requests \ {r}
         PROVE  RequestRight(y)'
    <2>1. req'[y] = req[y] /\ RequestRight(y) /\ Makes(y)' = Makes(y)
      BY <1>6, <1>10 DEF OtherReqs, UndoInv
    <2> HIDE DEF Makes
    <2> QED BY <1>2, <2>1 DEF RequestRight, NotedRight, UndoRight, Creates
  <1>15. \A y \in Requests : RequestRight(y)'
    BY <1>13, <1>14
  <1> QED BY <1>1, <1>11, <1>12, <1>15 DEF UndoInv

(* What the calls in flight leave of a mutation as it is.                   *)
SameControl ==
    \A q \in Requests :
        /\ req'[q].at = req[q].at /\ req'[q].answer = req[q].answer
        /\ req'[q].brokeAt = req[q].brokeAt /\ req'[q].todo = req[q].todo
        /\ req'[q].op = req[q].op /\ req'[q].p = req[q].p
        /\ req'[q].news = req[q].news /\ req'[q].saved = req[q].saved

(* A call that ends, or moves on: only a save makes a record exist, and an  *)
(* undo that is over has deleted its record, or its failure is remembered.  *)
LEMMA CallKeeps ==
  ASSUME UndoInv, NestedInv', NEW j \in jobs, SameControl,
         \A x \in live' \ live : j.kind = "save" /\ x = j.on,
         j.kind = "undo" => j.on \notin live' \/ j.req \in blurred',
         jobs \ {j} \subseteq jobs', \A x \in jobs' \ jobs : x.kind # "save",
         blurred \subseteq blurred'
  PROVE  UndoInv'
  <1>1. \A q \in Requests : Makes(q)' = Makes(q) /\ (Creates(q)' <=> Creates(q))
    BY DEF Makes, Creates, SameControl
  <1>2. j.req \in Requests /\ req \in [Requests -> Request]
    BY CallTyped DEF UndoInv, NestedInv, TypeOK
  <1>3. \A x \in live' \ live : x \in Kids /\ x \in Makes(j.req) /\ Creates(j.req)
    BY DEF UndoInv, SavesRight, NestedInv, FreshInv, Makes
  <1>4. OwnRight'
    <2> HIDE DEF Makes
    <2> QED BY <1>1, <1>2, <1>3 DEF UndoInv, OwnRight
  <1>5. SavesRight'
    <2> SUFFICES ASSUME NEW x \in jobs', x.kind = "save"
                 PROVE  (x.on \in req[x.req].news /\ Creates(x.req))'
      BY DEF SavesRight
    <2>1. x \in jobs /\ x.req \in Requests
      BY DEF UndoInv, NestedInv, TypeOK, Job
    <2> QED BY <1>1, <2>1 DEF UndoInv, SavesRight, SameControl
  <1>6. ASSUME NEW r \in Requests
        PROVE  NotedRight(r)'
    <2>1. req[r].p \notin Kids
      BY <1>2, DocsAssumption DEF Request
    <2>2. req[r].p \in live' => req[r].p \in live
      BY <1>3, <2>1
    <2>3. NotedRight(r)
      BY DEF UndoInv, RequestRight
    <2> HIDE DEF Makes, Creates
    <2> QED BY <1>1, <2>2, <2>3 DEF NotedRight, SameControl
  <1>7. ASSUME NEW r \in Requests
        PROVE  UndoRight(r)'
    <2> SUFFICES ASSUME req[r].answer = "error", r \notin blurred', NEW x \in Makes(r),
                        req[r].brokeAt \in {"count", "fetch", "save", "link"}, x \in live'
                 PROVE  \E i \in jobs' : i.req = r /\ i.kind = "undo" /\ i.on = x
      BY <1>1 DEF UndoRight, SameControl
    <2>1. ~Creates(r)
      BY DEF UndoInv, RequestRight, NotedRight, Creates
    <2>2. x \in live
      <3> HIDE DEF Makes
      <3> QED BY <1>2, <1>3, <2>1 DEF UndoInv, OwnRight
    <2>3. PICK i \in jobs : i.req = r /\ i.kind = "undo" /\ i.on = x
      BY <2>2 DEF UndoInv, RequestRight, UndoRight
    <2>4. i # j
      BY <2>3
    <2> QED BY <2>3, <2>4
  <1>8. \A r \in Requests : RequestRight(r)'
    BY <1>6, <1>7 DEF RequestRight
  <1> QED BY <1>4, <1>5, <1>8 DEF UndoInv

(* A related record is saved.                                               *)
LEMMA SavesUndo ==
  ASSUME UndoInv, NestedInv', NEW j \in jobs, Saves(j) \/ SaveFails(j)
  PROVE  UndoInv'
  <1>1. /\ j.kind = "save" /\ jobs' = jobs \ {j} /\ blurred \subseteq blurred'
        /\ \A x \in live' \ live : x = j.on
    BY DEF Saves, SaveFails
  <1>2. SameControl
    <2>1. CASE Saves(j)
      BY <2>1 DEF Saves, SameControl
    <2>2. CASE SaveFails(j)
      <3>1. PICK r \in Requests : r = j.req
        BY CallTyped DEF UndoInv
      <3>2. req[r] \in Request /\ req \in [Requests -> Request]
        BY DEF UndoInv, NestedInv, TypeOK
      <3>3. PICK B : B = req[r].broken \cup {FieldOf[j.on]}
        OBVIOUS
      <3> DEFINE q == [req[r] EXCEPT !.broken = B]
      <3>4. /\ q.at = req[r].at /\ q.answer = req[r].answer /\ q.brokeAt = req[r].brokeAt
            /\ q.todo = req[r].todo /\ q.op = req[r].op /\ q.p = req[r].p
            /\ q.news = req[r].news /\ q.saved = req[r].saved
        BY <3>2 DEF Request
      <3>5. req' = [req EXCEPT ![r] = q]
        BY <2>2, <3>1, <3>3 DEF SaveFails
      <3> HIDE DEF q
      <3> QED BY <3>2, <3>4, <3>5 DEF SameControl
    <2> QED BY <2>1, <2>2
  <1> QED BY <1>1, <1>2, CallKeeps

(* References back make no record exist.                                    *)
LEMMA LinksUndo ==
  ASSUME UndoInv, NestedInv', NEW j \in jobs, LinkFinds(j) \/ LinkWrites(j) \/ LinkFails(j)
  PROVE  UndoInv'
  <1>1. j.kind = "link" /\ UNCHANGED <<live, blurred>>
    BY DEF LinkFinds, LinkWrites, LinkFails, db
  <1>2. j \in Job /\ j.req \in Requests /\ req \in [Requests -> Request]
    BY CallTyped DEF UndoInv, NestedInv, TypeOK
  <1>3. CASE Reject(j)
    <2>1. PICK r \in Requests : r = j.req
      BY <1>2
    <2> DEFINE q == [req[r] EXCEPT !.failed = TRUE]
    <2>2. /\ q.at = req[r].at /\ q.answer = req[r].answer /\ q.brokeAt = req[r].brokeAt
          /\ q.todo = req[r].todo /\ q.op = req[r].op /\ q.p = req[r].p
          /\ q.news = req[r].news /\ q.saved = req[r].saved
      BY <1>2 DEF Request
    <2>3. req' = [req EXCEPT ![r] = q]
      BY <1>3, <2>1 DEF Reject
    <2> HIDE DEF q
    <2>4. SameControl
      BY <1>2, <2>2, <2>3 DEF SameControl
    <2> QED BY <1>1, <1>3, <2>4, CallKeeps DEF Reject
  <1>4. CASE jobs' = jobs \ {j} /\ UNCHANGED req
    BY <1>1, <1>4, CallKeeps DEF SameControl
  <1>5. CASE /\ jobs' = (jobs \ {j}) \cup
                        {[x EXCEPT !.found = TRUE] :
                            x \in {y \in {j} : req[j.req].p \notin back[j.on]}}
             /\ UNCHANGED req
    <2>1. PICK y : y = [j EXCEPT !.found = TRUE]
      OBVIOUS
    <2>2. y.kind = "link"
      BY <1>1, <1>2, <2>1 DEF Job
    <2>3. jobs \ {j} \subseteq jobs' /\ \A x \in jobs' \ jobs : x = y
      BY <1>5, <2>1
    <2> QED BY <1>1, <1>5, <2>2, <2>3, CallKeeps DEF SameControl
  <1>6. CASE LinkFinds(j)
    <2>1. Reject(j) \/ (/\ jobs' = (jobs \ {j}) \cup
                           {[x EXCEPT !.found = TRUE] :
                               x \in {y \in {j} : req[j.req].p \notin back[j.on]}}
                        /\ UNCHANGED req)
      BY <1>6, Zenon DEF LinkFinds
    <2> QED BY <1>3, <1>5, <2>1, Zenon
  <1>7. CASE LinkWrites(j)
    BY <1>4, <1>7 DEF LinkWrites
  <1>8. CASE LinkFails(j)
    BY <1>3, <1>8, Zenon DEF LinkFails
  <1> QED BY <1>6, <1>7, <1>8

(* A cut, the deletion of a roll-back, and a rejection of either.           *)
LEMMA LooseUndo ==
  ASSUME UndoInv, NestedInv', NEW j \in jobs, Cuts(j) \/ Undoes(j) \/ LooseFails(j)
  PROVE  UndoInv'
  <1>1. /\ jobs' = jobs \ {j} /\ UNCHANGED req /\ blurred \subseteq blurred'
        /\ live' \subseteq live
    BY DEF Cuts, Undoes, LooseFails, db
  <1>2. j.kind = "undo" => j.on \notin live' \/ j.req \in blurred'
    BY DEF Cuts, Undoes, LooseFails
  <1> QED BY <1>1, <1>2, CallKeeps DEF SameControl

(* A deletion by another client leaves less to undo.                        *)
LEMMA VanishesUndo ==
  ASSUME UndoInv, NestedInv', NEW k \in Kids, Vanishes(k)
  PROVE  UndoInv'
  <1>1. UNCHANGED <<req, jobs, blurred>> /\ live' \subseteq live
    BY DEF Vanishes
  <1>2. \A q \in Requests : Makes(q)' = Makes(q) /\ (Creates(q)' <=> Creates(q))
    BY <1>1 DEF Makes, Creates
  <1>3. OwnRight'
    <2> HIDE DEF Makes
    <2> QED BY <1>1, <1>2 DEF UndoInv, OwnRight
  <1>4. SavesRight'
    BY <1>1 DEF UndoInv, SavesRight, Creates
  <1>5. ASSUME NEW r \in Requests
        PROVE  RequestRight(r)'
    <2> HIDE DEF Makes, Creates
    <2> QED BY <1>1, <1>2 DEF UndoInv, RequestRight, NotedRight, UndoRight
  <1>6. \A r \in Requests : RequestRight(r)'
    BY <1>5
  <1> QED BY <1>3, <1>4, <1>6 DEF UndoInv

-----------------------------------------------------------------------------
(* At the beginning there are no mutations.                                 *)
LEMMA InitUndo == Init => UndoInv
  <1> SUFFICES ASSUME Init
               PROVE  UndoInv
    OBVIOUS
  <1>1. NestedInv
    BY InitNested
  <1>2. live = Existing /\ jobs = {} /\ blurred = {}
    BY Zenon DEF Init
  <1> DEFINE q == [op |-> "none", p |-> CHOOSE p \in Parents : TRUE, news |-> {},
                   connects |-> {}, at |-> "idle", todo |-> {}, broken |-> {},
                   saved |-> {}, adding |-> {}, former |-> {}, failed |-> FALSE,
                   answer |-> "none", brokeAt |-> "none"]
  <1>3. req = [r \in Requests |-> q]
    BY Zenon DEF Init
  <1>4. /\ q.op = "none" /\ q.news = {} /\ q.at = "idle" /\ q.todo = {}
        /\ q.answer = "none" /\ q.brokeAt = "none"
    OBVIOUS
  <1> HIDE DEF q
  <1>5. \A r \in Requests : Makes(r) = {} /\ RequestRight(r)
    BY <1>3, <1>4 DEF Makes, RequestRight, NotedRight, UndoRight, Later
  <1>6. OwnRight /\ SavesRight
    <2> HIDE DEF Makes
    <2> QED BY <1>2, <1>5 DEF OwnRight, SavesRight
  <1> QED BY <1>1, <1>5, <1>6 DEF UndoInv

(* Every step keeps the invariant.                                          *)
LEMMA UndoStep ==
  ASSUME UndoInv, [Next]_vars
  PROVE  UndoInv'
  <1>1. NestedInv'
    BY NestedStep DEF UndoInv
  <1>2. ASSUME NEW r \in Requests, Resolver(r)
        PROVE  UndoInv'
    BY <1>2, ValidatesUndo, ProcessesUndo, CountsUndo, FetchesUndo, HooksUndo,
       SavesRecordUndo, AnswersUndo, RollBacksUndo DEF Resolver
  <1>3. ASSUME NEW j \in jobs, Database(j)
        PROVE  UndoInv'
    BY <1>1, <1>3, SavesUndo, LinksUndo, LooseUndo DEF Database
  <1>4. CASE Failure
    BY <1>1, <1>4, InvalidUndo, HooksUndo, RollBacksUndo, RecordFailsUndo, SavesUndo,
       LinksUndo, LooseUndo DEF Failure
  <1>5. CASE UNCHANGED vars
    BY <1>1, <1>5 DEF vars, UndoInv, OwnRight, SavesRight, RequestRight, NotedRight,
                      UndoRight, Makes, Creates
  <1> QED BY <1>1, <1>2, <1>3, <1>4, <1>5, SubmitUndo, VanishesUndo DEF Next, Idle

(* The invariant holds in every behaviour.                                  *)
LEMMA UndoInvHolds == Spec => []UndoInv
  BY InitUndo, UndoStep, PTL DEF Spec

(* When a mutation has created its related records and fails later, on the  *)
(* count, the fetch, the save or a reference, its roll-back leaves none of  *)
(* its new records, whatever other mutations do, unless an operation was    *)
(* rejected that took effect, or the deletion itself.                       *)
THEOREM NothingIsLeftBehind == Spec => []RollBackUndoes
  <1>1. UndoInv => RollBackUndoes
    <2> SUFFICES ASSUME UndoInv, NEW r \in Requests,
                        req[r].answer = "error", ~Running(r),
                        req[r].brokeAt \in {"count", "fetch", "save", "link"},
                        r \notin blurred
                 PROVE  /\ req[r].news \cap live = {}
                        /\ req[r].op = "add" => req[r].p \notin live
      BY DEF RollBackUndoes
    <2>1. \A j \in jobs : j.req # r
      BY DEF Running
    <2>2. Makes(r) \cap live = {}
      BY <2>1 DEF UndoInv, RequestRight, UndoRight
    <2> QED BY <2>2 DEF Makes
  <1> QED BY <1>1, UndoInvHolds, PTL

-----------------------------------------------------------------------------
(* The references. *)

(* The invariant. *)

(* The kids that a mutation is to connect with its record.                  *)
Related(r) == req[r].news \cup req[r].connects

(* A request that has not begun names nothing; an update is about a record  *)
(* that was there, or that some mutation is to add.                         *)
Begun ==
    \A r \in Requests : /\ req[r].at = "idle" => req[r].op = "none" /\ req[r].connects = {}
                        /\ req[r].op = "update" => req[r].p \in Used

(* Every call in flight belongs to a mutation that had a reason to make it. *)
CallsRight ==
    \A j \in jobs :
        /\ j.kind = "link" => /\ j.on \in req[j.req].adding
                              /\ req[j.req].at \in {"link", "done"}
        /\ j.kind = "cut" => j.on \in req[j.req].former
        /\ j.kind = "undo" => /\ j.on \in Makes(j.req)
                              /\ req[j.req].at = "done" /\ req[j.req].answer = "error"

Before == {"idle", "create", "count", "fetch"}

(* What a mutation notes on its way.  No former partner is to be connected: *)
(* one single field takes one record.                                       *)
NotesRight(r) ==
    /\ req[r].saved \subseteq Makes(r)
    /\ req[r].news \cap req[r].connects = {}
    /\ req[r].adding \subseteq Related(r)
    /\ req[r].at = "fetch" => req[r].op = "update" /\ req[r].adding = Related(r)
    /\ req[r].at \in Before => req[r].former = {}
    /\ req[r].former \cap Related(r) = {}
    /\ req[r].answer = "ok" => req[r].at = "done" /\ req[r].brokeAt = "none"
    /\ \A k, x \in req[r].connects : ~IsList(k) /\ FieldOf[k] = FieldOf[x] => k = x

(* Nobody else has anything to do with the kid.                             *)
Alone(r, k) ==
    /\ k \notin gone
    /\ \A q \in Requests \ {r} : k \notin Related(q) \cup req[q].former

Counted(r) == req[r].at \in {"fetch", "hook", "save", "link"} \/ req[r].answer = "ok"
Recorded(r) == req[r].at = "link" \/ req[r].answer = "ok"

(* Whoever adds the parent has saved it, or will not.                       *)
Made(p) ==
    \A q \in Requests : req[q].op = "add" /\ req[q].p = p => req[q].at \in {"link", "done"}

(* What was counted is still there.                                         *)
AreLive(r) == Counted(r) => \A k \in Related(r) : Alone(r, k) => k \in live

(* A kid that an update skips is connected already, at both ends.           *)
Skips(r) ==
    req[r].at \in {"hook", "save"} =>
        \A k \in Related(r) \ req[r].adding :
            /\ req[r].op = "update" /\ IsList(k) /\ Made(req[r].p)
            /\ Undisturbed(r, k) => k \in ref[req[r].p]
            /\ Alone(r, k) => req[r].p \in back[k]

(* The saved record has its references.                                     *)
Refs(r) ==
    Recorded(r) =>
        /\ Made(req[r].p)
        /\ \A k \in Related(r) : Undisturbed(r, k) => k \in ref[req[r].p]

(* The reference back is there, to be written, or was rejected.             *)
LinkOf(r, k) == \E j \in jobs : j.kind = "link" /\ j.req = r /\ j.on = k
Pending(r, k) == req[r].at = "link" /\ (req[r].failed \/ LinkOf(r, k))
Backs(r) ==
    Recorded(r) =>
        \A k \in Related(r) : Alone(r, k) => req[r].p \in back[k] \/ Pending(r, k)

(* Only records that exist have references.                                 *)
OfLive == \A p \in Parents : ref[p] # {} => p \in live

(* References that no mutation had a hand in are those of the beginning:    *)
(* they are at both ends.                                                   *)
Untouched(k) ==
    /\ k \notin gone
    /\ \A q \in Requests : /\ k \notin req[q].news \cup req[q].former
                           /\ k \in req[q].connects => req[q].at \in Before
Symmetric == \A p \in Parents, k \in Kids : k \in ref[p] /\ Untouched(k) => p \in back[k]

DataRight(r) == AreLive(r) /\ Skips(r) /\ Refs(r) /\ Backs(r)

LinkInv ==
    /\ UndoInv /\ Begun /\ CallsRight /\ OfLive /\ Symmetric
    /\ \A r \in Requests : NotesRight(r) /\ DataRight(r)

-----------------------------------------------------------------------------
(* The steps of one mutation. *)

(* A mutation goes on, and what it is about stays as it is.                 *)
Moves(r) ==
    /\ SameInput /\ OtherReqs(r) /\ UNCHANGED <<schema, gone>>
    /\ jobs \subseteq jobs'
    /\ req[r].former \subseteq req'[r].former
    /\ req'[r].at # "idle" /\ (req'[r].at \in Before => req[r].at \in Before)
    /\ req[r].at \in {"link", "done"} => /\ req'[r].at \in {"link", "done"}
                                         /\ req'[r].adding = req[r].adding
    /\ req[r].at = "done" => req'[r].at = "done" /\ req'[r].answer = req[r].answer

(* Its own record is saved.                                                 *)
Puts(r) ==
    /\ req[r].at = "save" /\ req'[r].at \in {"link", "done"}
    /\ req[r].op = "update" => req[r].p \in live
    /\ live' = live \cup {req[r].p}
    /\ ref' = [ref EXCEPT ![req[r].p] = Written(r)]

(* What every step of a mutation does with the database.                    *)
Mutates(r) == Moves(r) /\ back' = back /\ (UNCHANGED <<live, ref>> \/ Puts(r))

(* What the invariant is about, before and after such a step.               *)
LEMMA MovesView ==
  ASSUME LinkInv, NEW r \in Requests, Moves(r)
  PROVE  /\ \A q \in Requests : /\ Related(q)' = Related(q) /\ Makes(q)' = Makes(q)
                                /\ req'[q].p = req[q].p /\ req'[q].op = req[q].op
                                /\ req[q].former \subseteq req'[q].former
         /\ \A q \in Requests, k \in Kids : Alone(q, k)' => Alone(q, k)
         /\ \A p \in Parents : Made(p) => Made(p)'
         /\ \A k \in Kids : Untouched(k)' => Untouched(k)
         /\ \A k \in Kids : IsList(k)' <=> IsList(k)
  <1>1. ASSUME NEW q \in Requests
        PROVE  /\ Related(q)' = Related(q) /\ Makes(q)' = Makes(q)
               /\ req'[q].p = req[q].p /\ req'[q].op = req[q].op
               /\ req'[q].news = req[q].news /\ req'[q].connects = req[q].connects
               /\ req[q].former \subseteq req'[q].former
               /\ req'[q].at \in Before => req[q].at \in Before
               /\ req[q].at \in {"link", "done"} => req'[q].at \in {"link", "done"}
    BY <1>1 DEF Moves, SameInput, OtherReqs, Related, Makes
  <1>2. gone' = gone /\ schema' = schema
    BY DEF Moves
  <1>3. \A q \in Requests, k \in Kids : Alone(q, k)' => Alone(q, k)
    <2> HIDE DEF Related, Makes
    <2> QED BY <1>1, <1>2 DEF Alone
  <1>4. \A p \in Parents : Made(p) => Made(p)'
    BY <1>1 DEF Made
  <1>5. \A k \in Kids : Untouched(k)' => Untouched(k)
    BY <1>1, <1>2 DEF Untouched
  <1>6. \A k \in Kids : IsList(k)' <=> IsList(k)
    BY <1>2 DEF IsList
  <1> QED BY <1>1, <1>3, <1>4, <1>5, <1>6

(* Nobody who was disturbed is undisturbed after it.                        *)
LEMMA DisturbedStays ==
  ASSUME LinkInv, NEW r \in Requests, Moves(r), NEW q \in Requests, NEW k \in Kids,
         Undisturbed(q, k)', req[q].p \in live' => req[q].p \in live
  PROVE  Undisturbed(q, k)
  <1>1. gone' = gone /\ schema' = schema
    BY DEF Moves
  <1>2. \A x \in Requests :
           /\ req'[x].p = req[x].p /\ req'[x].op = req[x].op
           /\ req'[x].news = req[x].news /\ req'[x].connects = req[x].connects
           /\ req[x].former \subseteq req'[x].former
    BY DEF Moves, SameInput, OtherReqs
  <1> QED BY <1>1, <1>2 DEF Undisturbed, Names, IsList

(* Who is undisturbed is alone.                                             *)
LEMMA UndisturbedAlone ==
  ASSUME NEW q, NEW k, Undisturbed(q, k)
  PROVE  Alone(q, k) /\ req[q].p \in live
  BY DEF Undisturbed, Alone, Related

(* A save of a record that somebody else's reference is about keeps it.     *)
LEMMA PutsKeeps ==
  ASSUME LinkInv, NEW r \in Requests, Moves(r), Puts(r),
         NEW q \in Requests \ {r}, NEW k \in Kids, Made(req[q].p), Undisturbed(q, k)'
  PROVE  Undisturbed(q, k) /\ (k \in ref[req[q].p] => k \in ref'[req[q].p])
  <1>1. /\ req \in [Requests -> Request] /\ ref \in [Parents -> SUBSET Kids]
        /\ req[r].p \in Parents /\ req[q].p \in Parents
        /\ req[r].op \in {"none", "add", "update"}
    BY DEF LinkInv, UndoInv, NestedInv, TypeOK, Request
  <1>2. CASE req[q].p # req[r].p
    <2>1. req[q].p \in live' => req[q].p \in live
      BY <1>2 DEF Puts
    <2> QED BY <1>1, <1>2, <2>1, DisturbedStays DEF Puts
  <1>3. CASE req[q].p = req[r].p
    <2>1. req[r].at = "save" /\ req[r].op # "none"
      BY DEF Puts, LinkInv, UndoInv, RequestRight, NotedRight
    <2>2. req[r].op # "add"
      BY <1>3, <2>1 DEF Made
    <2>3. req[r].op = "update"
      BY <1>1, <2>1, <2>2
    <2>4. Undisturbed(q, k)
      BY <1>3, <2>3, DisturbedStays DEF Puts
    <2>5. Names(r, req[q].p)
      BY <1>3, <2>1 DEF Names
    <2>6. IsList(k)
      BY <2>4, <2>5 DEF Undisturbed
    <2>7. k \in ref[req[r].p] => k \in Written(r)
      BY <2>3, <2>6 DEF Written
    <2> QED BY <1>1, <1>3, <2>4, <2>7 DEF Puts
  <1> QED BY <1>2, <1>3

(* A step of one mutation is right for the others.                          *)
LEMMA OthersLinked ==
  ASSUME LinkInv, NEW r \in Requests, Moves(r), back' = back,
         UNCHANGED <<live, ref>> \/ Puts(r)
  PROVE  \A q \in Requests \ {r} : NotesRight(q)' /\ DataRight(q)'
  <1> SUFFICES ASSUME NEW q \in Requests \ {r}
               PROVE  NotesRight(q)' /\ DataRight(q)'
    OBVIOUS
  <1>1. /\ Related(q)' = Related(q) /\ Makes(q)' = Makes(q)
        /\ \A k \in Kids : Alone(q, k)' => Alone(q, k)
        /\ \A p \in Parents : Made(p) => Made(p)'
        /\ \A k \in Kids : IsList(k)' <=> IsList(k)
    BY MovesView
  <1>2. /\ req'[q] = req[q] /\ live \subseteq live' /\ schema' = schema
        /\ NotesRight(q) /\ AreLive(q) /\ Skips(q) /\ Refs(q) /\ Backs(q)
    BY DEF Moves, OtherReqs, LinkInv, DataRight, Puts
  <1>3. Related(q) \subseteq Kids /\ req[q].p \in Parents
    BY DEF LinkInv, UndoInv, NestedInv, TypeOK, Request, Related
  <1>4. NotesRight(q)'
    <2> HIDE DEF Related, Makes
    <2> QED BY <1>1, <1>2 DEF NotesRight, IsList
  <1>5. ASSUME NEW k \in Kids, Made(req[q].p), Undisturbed(q, k)'
        PROVE  Undisturbed(q, k) /\ (k \in ref[req[q].p] => k \in ref'[req[q].p])
    <2>1. CASE UNCHANGED <<live, ref>>
      BY <1>5, <2>1, DisturbedStays
    <2>2. CASE Puts(r)
      BY <1>5, <2>2, PutsKeeps
    <2> QED BY <2>1, <2>2
  <1> HIDE DEF Related
  <1>6. AreLive(q)'
    BY <1>1, <1>2, <1>3 DEF AreLive, Counted
  <1>7. Skips(q)'
    <2> SUFFICES ASSUME req[q].at \in {"hook", "save"}, NEW k \in Related(q) \ req[q].adding
                 PROVE  /\ req[q].op = "update" /\ IsList(k)' /\ Made(req[q].p)'
                        /\ Undisturbed(q, k)' => k \in ref'[req[q].p]
                        /\ Alone(q, k)' => req[q].p \in back[k]
      BY <1>1, <1>2 DEF Skips
    <2>1. /\ req[q].op = "update" /\ IsList(k) /\ Made(req[q].p)
          /\ Undisturbed(q, k) => k \in ref[req[q].p]
          /\ Alone(q, k) => req[q].p \in back[k]
      BY <1>2 DEF Skips
    <2>2. k \in Kids
      BY <1>3
    <2>3. Undisturbed(q, k)' => k \in ref'[req[q].p]
      BY <1>5, <2>1, <2>2
    <2>4. Alone(q, k)' => req[q].p \in back[k]
      BY <1>1, <2>1, <2>2
    <2>5. IsList(k)'
      BY <1>1, <2>1, <2>2, Zenon
    <2>6. Made(req[q].p)'
      <3>1. \A p \in Parents : p = req[q].p => Made(p)'
        BY <1>1, <2>1
      <3>2. req'[q].p = req[q].p
        BY <1>2
      <3> QED BY <1>3, <2>1, <3>1, <3>2 DEF Made
    <2> QED BY <1>2, <2>1, <2>3, <2>4, <2>5, <2>6
  <1>8. Refs(q)'
    BY <1>1, <1>2, <1>3, <1>5 DEF Refs, Recorded
  <1>9. Backs(q)'
    BY <1>1, <1>2, <1>3 DEF Backs, Recorded, Pending, LinkOf, Moves
  <1> QED BY <1>4, <1>6, <1>7, <1>8, <1>9 DEF DataRight

(* And it leaves the references of untouched kids symmetric.                *)
LEMMA RefsStaySymmetric ==
  ASSUME LinkInv, NEW r \in Requests, Moves(r), back' = back,
         UNCHANGED <<live, ref>> \/ Puts(r)
  PROVE  OfLive' /\ Symmetric'
  <1>1. /\ req \in [Requests -> Request] /\ ref \in [Parents -> SUBSET Kids]
        /\ req[r].p \in Parents
    BY DEF LinkInv, UndoInv, NestedInv, TypeOK, Request
  <1>2. \A k \in Kids : Untouched(k)' => Untouched(k)
    BY MovesView
  <1>3. CASE UNCHANGED <<live, ref>>
    BY <1>2, <1>3 DEF LinkInv, OfLive, Symmetric
  <1>4. CASE Puts(r)
    <2>1. OfLive'
      BY <1>1, <1>4 DEF Puts, LinkInv, OfLive
    <2>2. ASSUME NEW k \in Written(r), Untouched(k)'
          PROVE  k \in ref[req[r].p]
      <3>1. k \notin Related(r)
        BY <1>4, <2>2 DEF Puts, Untouched, Moves, SameInput, Related, Before
      <3>2. k \notin req[r].adding
        BY <3>1 DEF LinkInv, NotesRight
      <3> QED BY <2>2, <3>2 DEF Written
    <2>3. Symmetric'
      BY <1>1, <1>2, <1>4, <2>2 DEF Puts, LinkInv, Symmetric
    <2> QED BY <2>1, <2>3
  <1> QED BY <1>3, <1>4

(* What is in use stays in use.                                             *)
LEMMA UsedStays ==
  ASSUME \A q \in Requests : /\ req'[q].op = req[q].op /\ req'[q].p = req[q].p
                             /\ req'[q].news = req[q].news
  PROVE  Used' = Used
  <1> DEFINE U(q) == req[q].news \cup (IF req[q].op = "add" THEN {req[q].p} ELSE {})
  <1>1. \A q \in Requests : U(q)' = U(q)
    OBVIOUS
  <1>2. UNION {U(q)' : q \in Requests} = UNION {U(q) : q \in Requests}
    <2> HIDE DEF U
    <2> QED BY <1>1
  <1> QED BY <1>2 DEF Used

(* It is left to see that the step is right for the mutation itself.        *)
LEMMA MutationLinked ==
  ASSUME LinkInv, UndoInv', NEW r \in Requests, Moves(r), back' = back,
         UNCHANGED <<live, ref>> \/ Puts(r), CallsRight', NotesRight(r)', DataRight(r)'
  PROVE  LinkInv' /\ Mutates(r)
  <1>1. OfLive' /\ Symmetric'
    BY RefsStaySymmetric
  <1>2. \A q \in Requests : NotesRight(q)' /\ DataRight(q)'
    BY OthersLinked
  <1>3. Used' = Used
    BY UsedStays DEF Moves, SameInput
  <1>4. Begun'
    BY <1>3 DEF Begun, LinkInv, Moves, SameInput, OtherReqs
  <1> QED BY <1>1, <1>2, <1>4 DEF LinkInv, Mutates

(* A mutation that is at none of these places, or ends with an error.       *)
LEMMA Uncounted ==
  ASSUME NEW r \in Requests, ~Counted(r)'
  PROVE  DataRight(r)'
  BY DEF Counted, DataRight, AreLive, Skips, Refs, Backs, Recorded

(* New calls have a reason.                                                 *)
LEMMA CallsMove ==
  ASSUME LinkInv, NEW r \in Requests, Moves(r),
         \A j \in jobs' \ jobs :
            /\ j.req = r
            /\ j.kind = "link" => j.on \in req'[r].adding /\ req'[r].at \in {"link", "done"}
            /\ j.kind = "cut" => j.on \in req'[r].former
            /\ j.kind = "undo" => /\ j.on \in Makes(r)
                                  /\ req'[r].at = "done" /\ req'[r].answer = "error"
  PROVE  CallsRight'
  <1> SUFFICES ASSUME NEW j \in jobs'
               PROVE  /\ j.kind = "link" => /\ j.on \in req'[j.req].adding
                                            /\ req'[j.req].at \in {"link", "done"}
                      /\ j.kind = "cut" => j.on \in req'[j.req].former
                      /\ j.kind = "undo" => /\ j.on \in Makes(j.req)'
                                            /\ req'[j.req].at = "done"
                                            /\ req'[j.req].answer = "error"
    BY DEF CallsRight
  <1>1. \A q \in Requests : /\ Related(q)' = Related(q) /\ Makes(q)' = Makes(q)
                            /\ req[q].former \subseteq req'[q].former
    BY MovesView
  <1>2. \A q \in Requests :
           /\ req[q].at \in {"link", "done"} => /\ req'[q].at \in {"link", "done"}
                                                /\ req'[q].adding = req[q].adding
           /\ req[q].at = "done" => req'[q].at = "done" /\ req'[q].answer = req[q].answer
    BY DEF Moves, OtherReqs
  <1> HIDE DEF Related, Makes
  <1>3. CASE j \notin jobs
    BY <1>1, <1>3
  <1>4. CASE j \in jobs
    <2>1. j.req \in Requests
      BY <1>4 DEF LinkInv, UndoInv, NestedInv, TypeOK, Job
    <2> QED BY <1>1, <1>2, <1>4, <2>1 DEF LinkInv, CallsRight
  <1> QED BY <1>3, <1>4

-----------------------------------------------------------------------------
(* The steps of one mutation, one by one. *)

(* What a mutation notes stays right while it stays the same.               *)
LEMMA NotesStay ==
  ASSUME LinkInv, NEW r \in Requests, Moves(r),
         req'[r].saved \subseteq Makes(r), req'[r].adding = req[r].adding,
         req'[r].former = req[r].former, req'[r].at # "fetch",
         req'[r].answer = "ok" => req'[r].at = "done" /\ req'[r].brokeAt = "none"
  PROVE  NotesRight(r)'
  <1>1. /\ Related(r)' = Related(r) /\ Makes(r)' = Makes(r)
        /\ req'[r].news = req[r].news /\ req'[r].connects = req[r].connects
        /\ req'[r].at \in Before => req[r].at \in Before
        /\ schema' = schema
    BY MovesView DEF Moves, SameInput
  <1>2. NotesRight(r)
    BY DEF LinkInv
  <1> HIDE DEF Related, Makes
  <1> QED BY <1>1, <1>2 DEF NotesRight, IsList

(* What a mutation notes when it is over.                                   *)
LEMMA FinishesNotes ==
  ASSUME NEW r \in Requests, NEW ans \in {"none", "ok", "error"}, NEW place \in Places,
         req \in [Requests -> Request],
         req' = [req EXCEPT ![r].at = "done", ![r].answer = ans, ![r].brokeAt = place]
  PROVE  /\ req'[r].saved = req[r].saved /\ req'[r].adding = req[r].adding
         /\ req'[r].former = req[r].former
  <1> DEFINE q == [req[r] EXCEPT !.at = "done", !.answer = ans, !.brokeAt = place]
  <1>1. q.saved = req[r].saved /\ q.adding = req[r].adding /\ q.former = req[r].former
    BY DEF Request
  <1>2. req' = [req EXCEPT ![r] = q]
    OBVIOUS
  <1> HIDE DEF q
  <1> QED BY <1>1, <1>2

(* The types that the steps need.                                           *)
LEMMA LinkTypes ==
  ASSUME LinkInv
  PROVE  /\ req \in [Requests -> Request] /\ jobs \subseteq Job
         /\ ref \in [Parents -> SUBSET Kids] /\ back \in [Kids -> SUBSET Parents]
         /\ \A r \in Requests : /\ req[r] \in Request /\ req[r].p \in Parents
                                /\ Related(r) \subseteq Kids /\ Makes(r) \subseteq Docs
                                /\ req[r].former \in SUBSET Kids
                                /\ req[r].adding \in SUBSET Kids
  <1>1. /\ req \in [Requests -> Request] /\ jobs \subseteq Job
        /\ ref \in [Parents -> SUBSET Kids] /\ back \in [Kids -> SUBSET Parents]
    BY DEF LinkInv, UndoInv, NestedInv, TypeOK
  <1>2. ASSUME NEW r \in Requests
        PROVE  /\ req[r] \in Request /\ req[r].p \in Parents
               /\ Related(r) \subseteq Kids /\ Makes(r) \subseteq Docs
               /\ req[r].former \in SUBSET Kids /\ req[r].adding \in SUBSET Kids
    BY <1>1 DEF Request, Related, Makes, Docs
  <1> QED BY <1>1, <1>2

(* The end of a mutation without a database change, and with an error.      *)
LEMMA EndsWrong ==
  ASSUME LinkInv, NEW r \in Requests, NEW place \in Places,
         req[r].at # "done", UNCHANGED <<schema, gone>>, jobs \subseteq jobs',
         req' = [req EXCEPT ![r].at = "done", ![r].answer = "error", ![r].brokeAt = place]
  PROVE  /\ Moves(r) /\ NotesRight(r)' /\ DataRight(r)' /\ ~Counted(r)'
         /\ req'[r].at = "done" /\ req'[r].answer = "error"
  <1>1. req \in [Requests -> Request]
    BY LinkTypes
  <1>2. /\ OtherReqs(r) /\ SameInput
        /\ req'[r].at = "done" /\ req'[r].answer = "error"
        /\ req'[r].saved = req[r].saved /\ req'[r].adding = req[r].adding
        /\ req'[r].former = req[r].former
    BY <1>1, Finishes, FinishesControl, FinishesNotes
  <1>3. Moves(r)
    BY <1>2 DEF Moves, Before
  <1>4. NotesRight(r)'
    BY <1>2, <1>3, NotesStay DEF LinkInv, NotesRight
  <1>5. ~Counted(r)'
    BY <1>2 DEF Counted
  <1> QED BY <1>2, <1>3, <1>4, <1>5, Uncounted

(* A roll-back.                                                             *)
LEMMA RollBackLinks ==
  ASSUME LinkInv, UndoInv', NEW r \in Requests, NEW S \in SUBSET Makes(r),
         req[r].at \in Places, RollsBack(r, S), UNCHANGED <<schema, gone>>,
         back' = back, UNCHANGED <<live, ref>> \/ Puts(r)
  PROVE  LinkInv' /\ Mutates(r) /\ ~Counted(r)'
  <1>1. jobs \subseteq jobs' /\ req[r].at # "done" /\ S \in SUBSET Docs
    BY LinkTypes DEF RollsBack, Places
  <1>2. /\ Moves(r) /\ NotesRight(r)' /\ DataRight(r)' /\ ~Counted(r)'
        /\ req'[r].at = "done" /\ req'[r].answer = "error"
    BY <1>1, EndsWrong DEF RollsBack
  <1>3. \A j \in jobs' \ jobs : j.kind = "undo" /\ j.on \in S /\ j.req = r
    BY <1>1, JobsIntro DEF RollsBack
  <1>4. CallsRight'
    BY <1>2, <1>3, CallsMove
  <1> QED BY <1>2, <1>4, MutationLinked

(* A mutation that is still creating, or failed while it was.               *)
LEMMA CreatingLinks ==
  ASSUME LinkInv, NEW r \in Requests, NEW f \in req[r].todo
  PROVE  req[r].at \in {"create", "done"} /\ req[r].answer # "ok"
  <1>1. NotedRight(r) /\ NotesRight(r)
    BY DEF LinkInv, UndoInv, RequestRight
  <1> QED BY <1>1 DEF NotedRight, NotesRight, Creates

(* Input is validated.                                                      *)
LEMMA ValidatesLinks ==
  ASSUME LinkInv, UndoInv', NEW r \in Requests, NEW f \in Fields, Validates(r, f)
  PROVE  LinkInv' /\ Mutates(r) /\ ~Counted(r)'
  <1>1. req \in [Requests -> Request] /\ req[r] \in Request /\ Related(r) \subseteq Kids
    BY LinkTypes
  <1>2. req[r].at \in {"create", "done"} /\ req[r].answer # "ok"
    BY CreatingLinks DEF Validates
  <1> DEFINE q == [req[r] EXCEPT !.todo = @ \ {f}]
  <1>3. /\ q.at = req[r].at /\ q.answer = req[r].answer /\ q.saved = req[r].saved
        /\ q.adding = req[r].adding /\ q.former = req[r].former
    BY <1>1 DEF Request
  <1>4. req' = [req EXCEPT ![r] = q]
    BY DEF Validates
  <1> HIDE DEF q
  <1>5. OtherReqs(r) /\ req'[r] = q
    BY <1>1, <1>4 DEF OtherReqs
  <1>6. SameInput /\ UNCHANGED <<schema, live, ref, back, gone>>
    BY MutationStepOrdinary DEF MutationStep, Resolver, LinkInv, UndoInv, Validates, db
  <1>7. jobs \subseteq jobs' /\ \A j \in jobs' \ jobs : j.kind = "save" /\ j.req = r
    <2>1. OfField(req[r].news, f) \in SUBSET Docs
      BY <1>1 DEF OfField, Request, Docs
    <2> QED BY <2>1, JobsIntro DEF Validates
  <1>8. Moves(r)
    BY <1>2, <1>3, <1>5, <1>6, <1>7 DEF Moves
  <1>9. NotesRight(r)'
    BY <1>2, <1>3, <1>5, <1>8, NotesStay DEF LinkInv, NotesRight
  <1>10. CallsRight'
    BY <1>7, <1>8, CallsMove
  <1>11. ~Counted(r)'
    BY <1>2, <1>3, <1>5 DEF Counted
  <1> QED BY <1>6, <1>8, <1>9, <1>10, <1>11, Uncounted, MutationLinked

(* It is not valid.                                                         *)
LEMMA InvalidLinks ==
  ASSUME LinkInv, UndoInv', NEW r \in Requests, NEW f \in Fields, Invalid(r, f)
  PROVE  LinkInv' /\ Mutates(r) /\ ~Counted(r)'
  <1>1. req \in [Requests -> Request] /\ req[r] \in Request
    BY LinkTypes
  <1>2. req[r].at \in {"create", "done"} /\ req[r].answer # "ok"
    BY CreatingLinks DEF Invalid
  <1>3. PICK ans \in {"none", "ok", "error"}, place \in Places :
           /\ ans = IF req[r].at = "done" THEN req[r].answer ELSE "error"
           /\ place = IF req[r].at = "done" THEN req[r].brokeAt ELSE "create"
    BY <1>1 DEF Request, Places
  <1> DEFINE q == [req[r] EXCEPT !.todo = @ \ {f}, !.at = "done", !.answer = ans,
                                 !.brokeAt = place]
  <1>4. /\ q.at = "done" /\ q.answer = ans /\ q.saved = req[r].saved
        /\ q.adding = req[r].adding /\ q.former = req[r].former
    BY <1>1 DEF Request
  <1>5. req' = [req EXCEPT ![r] = q]
    BY <1>3 DEF Invalid
  <1> HIDE DEF q
  <1>6. OtherReqs(r) /\ req'[r] = q
    BY <1>1, <1>5 DEF OtherReqs
  <1>7. SameInput /\ UNCHANGED <<schema, live, ref, back, gone, jobs>>
    BY MutationStepOrdinary DEF MutationStep, LinkInv, UndoInv, Invalid, db
  <1>8. Moves(r)
    BY <1>3, <1>4, <1>6, <1>7 DEF Moves, Before
  <1>9. ans # "ok"
    BY <1>2, <1>3
  <1>10. NotesRight(r)'
    BY <1>4, <1>6, <1>8, <1>9, NotesStay DEF LinkInv, NotesRight
  <1>11. CallsRight'
    BY <1>7, <1>8, CallsMove
  <1>12. ~Counted(r)'
    BY <1>4, <1>6, <1>9 DEF Counted
  <1> QED BY <1>7, <1>8, <1>10, <1>11, <1>12, Uncounted, MutationLinked

(* What was created is noted, or part of it deleted.                        *)
LEMMA ProcessesLinks ==
  ASSUME LinkInv, UndoInv', NEW r \in Requests, Processes(r)
  PROVE  LinkInv' /\ Mutates(r) /\ ~Counted(r)'
  <1>1. req \in [Requests -> Request] /\ req[r] \in Request /\ NotesRight(r)
    BY LinkTypes DEF LinkInv
  <1>2. req[r].at = "create" /\ UNCHANGED <<schema, live, ref, back, gone>>
    BY DEF Processes, db
  <1>3. CASE req[r].broken # {}
    <2> DEFINE S == {k \in req[r].news : \A f \in req[r].broken : FieldOf[k] < f}
    <2>1. RollsBack(r, S)
      BY <1>3, Zenon DEF Processes
    <2>2. S \in SUBSET Makes(r)
      BY DEF Makes
    <2> HIDE DEF S
    <2> QED BY <1>2, <2>1, <2>2, RollBackLinks DEF Places
  <1>4. CASE req[r].broken = {}
    <2> DEFINE q == [req[r] EXCEPT !.saved = req[r].news, !.at = "count"]
    <2>1. req' = [req EXCEPT ![r] = q] /\ UNCHANGED jobs
      BY <1>4 DEF Processes
    <2>2. /\ q.at = "count" /\ q.saved = req[r].news /\ q.adding = req[r].adding
          /\ q.former = req[r].former /\ q.answer = req[r].answer
      BY <1>1 DEF Request
    <2> HIDE DEF q
    <2>3. OtherReqs(r) /\ req'[r] = q
      BY <1>1, <2>1 DEF OtherReqs
    <2>4. SameInput
      BY MutationStepOrdinary DEF MutationStep, Resolver, LinkInv, UndoInv
    <2>5. Moves(r)
      BY <1>2, <2>1, <2>2, <2>3, <2>4 DEF Moves, Before
    <2>6. req[r].answer # "ok"
      BY <1>1, <1>2 DEF NotesRight
    <2>7. NotesRight(r)'
      BY <2>2, <2>3, <2>5, <2>6, NotesStay DEF Makes
    <2>8. CallsRight'
      BY <2>1, <2>5, CallsMove
    <2>9. ~Counted(r)'
      BY <2>2, <2>3, <2>6 DEF Counted
    <2> QED BY <1>2, <2>5, <2>7, <2>8, <2>9, Uncounted, MutationLinked
  <1> QED BY <1>3, <1>4

(* What a roll-back after the creation deletes was made by the mutation.    *)
LEMMA LaterRollBacks ==
  ASSUME LinkInv, UndoInv', NEW r \in Requests, req[r].at \in Later,
         RollsBack(r, req[r].saved), UNCHANGED <<schema, gone>>,
         back' = back, UNCHANGED <<live, ref>> \/ Puts(r)
  PROVE  LinkInv' /\ Mutates(r) /\ ~Counted(r)'
  <1>1. req[r].saved \in SUBSET Makes(r) /\ req[r].at \in Places
    BY DEF LinkInv, NotesRight, Later, Places
  <1> QED BY <1>1, RollBackLinks

(* What was counted is there.                                               *)
LEMMA CountsLinks ==
  ASSUME LinkInv, UndoInv', NEW r \in Requests, Counts(r)
  PROVE  /\ LinkInv' /\ Mutates(r)
         /\ ~Recorded(r)' /\ (req'[r].at \in {"hook", "save"} => req'[r].op = "add")
  <1>1. /\ req \in [Requests -> Request] /\ req[r] \in Request /\ NotesRight(r)
        /\ req[r].op \in {"none", "add", "update"} /\ Related(r) \subseteq Kids
    BY LinkTypes DEF LinkInv, Request
  <1>2. req[r].at = "count" /\ UNCHANGED <<schema, live, ref, back, gone>>
    BY DEF Counts, db
  <1>3. CASE RollsBack(r, req[r].saved)
    BY <1>2, <1>3, LaterRollBacks DEF Later, Counted, Recorded
  <1>4. CASE /\ req[r].connects \cup req[r].news \subseteq live
             /\ req' = [req EXCEPT ![r].adding = req[r].news \cup req[r].connects,
                                   ![r].at = IF req[r].op = "add" THEN "hook" ELSE "fetch"]
             /\ UNCHANGED jobs
    <2>1. PICK place \in {"hook", "fetch"} :
             place = IF req[r].op = "add" THEN "hook" ELSE "fetch"
      OBVIOUS
    <2>2. PICK S : S = Related(r)
      OBVIOUS
    <2> DEFINE q == [req[r] EXCEPT !.adding = S, !.at = place]
    <2>3. req' = [req EXCEPT ![r] = q]
      BY <1>4, <2>1, <2>2 DEF Related
    <2>4. /\ q.at = place /\ q.saved = req[r].saved /\ q.adding = S
          /\ q.former = req[r].former /\ q.answer = req[r].answer
      BY <1>1 DEF Request
    <2> HIDE DEF q
    <2>5. OtherReqs(r) /\ req'[r] = q
      BY <1>1, <2>3 DEF OtherReqs
    <2>6. SameInput
      BY MutationStepOrdinary DEF MutationStep, Resolver, LinkInv, UndoInv
    <2>7. Moves(r)
      BY <1>2, <1>4, <2>4, <2>5, <2>6 DEF Moves, Before
    <2>8. req[r].answer # "ok" /\ req[r].former = {}
      BY <1>1, <1>2 DEF NotesRight, Before
    <2>9. /\ Related(r)' = Related(r) /\ Makes(r)' = Makes(r)
          /\ req'[r].news = req[r].news /\ req'[r].connects = req[r].connects
          /\ req'[r].op = req[r].op /\ schema' = schema
      BY <2>6, <2>7, MovesView DEF SameInput, Moves
    <2>10. req[r].op # "none"
      BY <1>2 DEF LinkInv, UndoInv, RequestRight, NotedRight
    <2>11. NotesRight(r)'
      <3>1. place = "fetch" => req[r].op = "update"
        BY <1>1, <2>1, <2>10
      <3> HIDE DEF Related, Makes
      <3> QED BY <1>1, <2>2, <2>4, <2>5, <2>8, <2>9, <3>1 DEF NotesRight, IsList
    <2>12. CallsRight'
      BY <1>4, <2>7, CallsMove
    <2>13. AreLive(r)'
      <3>1. Related(r)' \subseteq live'
        BY <1>2, <1>4, <2>9 DEF Related
      <3> HIDE DEF Related
      <3> QED BY <3>1 DEF AreLive
    <2>14. Skips(r)'
      <3>1. Related(r)' = req'[r].adding
        BY <2>2, <2>4, <2>5, <2>9
      <3> HIDE DEF Related
      <3> QED BY <3>1 DEF Skips
    <2>15. ~Recorded(r)'
      BY <2>1, <2>4, <2>5, <2>8 DEF Recorded
    <2>16. DataRight(r)'
      BY <2>13, <2>14, <2>15 DEF DataRight, Refs, Backs
    <2>17. req'[r].at \in {"hook", "save"} => req'[r].op = "add"
      BY <1>1, <2>1, <2>4, <2>5, <2>9, <2>10
    <2> QED BY <1>2, <2>7, <2>11, <2>12, <2>15, <2>16, <2>17, MutationLinked
  <1> QED BY <1>3, <1>4, Zenon DEF Counts

(* The connection prehooks.                                                 *)
LEMMA HooksLinks ==
  ASSUME LinkInv, UndoInv', NEW r \in Requests, Hooks(r)
  PROVE  /\ LinkInv' /\ Mutates(r) /\ ~Recorded(r)'
         /\ req[r].at = "hook" /\ req'[r].former = req[r].former /\ ref' = ref
  <1>1. /\ req \in [Requests -> Request] /\ req[r] \in Request
        /\ NotesRight(r) /\ DataRight(r) /\ req[r].p \in Parents
    BY LinkTypes DEF LinkInv
  <1>2. /\ req[r].at = "hook" /\ UNCHANGED <<schema, live, ref, back, gone, jobs>>
        /\ req' = [req EXCEPT ![r].at = "save"]
    BY DEF Hooks, db, Goes
  <1> DEFINE q == [req[r] EXCEPT !.at = "save"]
  <1>3. /\ q.at = "save" /\ q.saved = req[r].saved /\ q.adding = req[r].adding
        /\ q.former = req[r].former /\ q.answer = req[r].answer
    BY <1>1 DEF Request
  <1>4. req' = [req EXCEPT ![r] = q]
    BY <1>2
  <1> HIDE DEF q
  <1>5. OtherReqs(r) /\ req'[r] = q
    BY <1>1, <1>4 DEF OtherReqs
  <1>6. SameInput
    BY MutationStepOrdinary DEF MutationStep, Resolver, LinkInv, UndoInv
  <1>7. Moves(r)
    BY <1>2, <1>3, <1>5, <1>6 DEF Moves, Before
  <1>8. req[r].answer # "ok"
    BY <1>1, <1>2 DEF NotesRight
  <1>9. NotesRight(r)'
    BY <1>1, <1>3, <1>5, <1>7, <1>8, NotesStay DEF NotesRight
  <1>10. CallsRight'
    BY <1>2, <1>7, CallsMove
  <1>11. /\ Related(r)' = Related(r) /\ req'[r].p = req[r].p /\ req'[r].op = req[r].op
         /\ \A k \in Kids : Alone(r, k)' => Alone(r, k)
         /\ \A p \in Parents : Made(p) => Made(p)'
         /\ \A k \in Kids : IsList(k)' <=> IsList(k)
         /\ \A k \in Kids : Undisturbed(r, k)' => Undisturbed(r, k)
    BY <1>2, <1>7, MovesView, DisturbedStays
  <1>12. Related(r) \subseteq Kids
    BY LinkTypes
  <1> HIDE DEF Related
  <1>13. AreLive(r)'
    BY <1>1, <1>2, <1>11, <1>12 DEF AreLive, DataRight, Counted
  <1>14. Skips(r)'
    <2> SUFFICES ASSUME NEW k \in Related(r) \ req[r].adding
                 PROVE  /\ req[r].op = "update" /\ IsList(k)' /\ Made(req[r].p)'
                        /\ Undisturbed(r, k)' => k \in ref[req[r].p]
                        /\ Alone(r, k)' => req[r].p \in back[k]
      BY <1>2, <1>3, <1>5, <1>11 DEF Skips
    <2>1. /\ req[r].op = "update" /\ IsList(k) /\ Made(req[r].p)
          /\ Undisturbed(r, k) => k \in ref[req[r].p]
          /\ Alone(r, k) => req[r].p \in back[k]
      BY <1>1, <1>2 DEF Skips, DataRight
    <2>2. k \in Kids
      BY <1>12
    <2>3. IsList(k)'
      BY <1>11, <2>1, <2>2, Zenon
    <2>4. Made(req[r].p)'
      <3>1. \A p \in Parents : p = req[r].p => Made(p)'
        BY <1>11, <2>1
      <3> QED BY <1>1, <1>11, <3>1 DEF Made
    <2> QED BY <1>11, <2>1, <2>2, <2>3, <2>4
  <1>15. ~Recorded(r)'
    BY <1>3, <1>5, <1>8 DEF Recorded
  <1>16. DataRight(r)'
    BY <1>13, <1>14, <1>15 DEF DataRight, Refs, Backs
  <1> QED BY <1>2, <1>3, <1>5, <1>7, <1>9, <1>10, <1>15, <1>16, MutationLinked

(* They are rejected, or a read is, or a reference was.                     *)
LEMMA FailuresLink ==
  ASSUME LinkInv, UndoInv', NEW r \in Requests, HookRejects(r) \/ ReadFails(r) \/ GivesUp(r)
  PROVE  LinkInv' /\ Mutates(r) /\ ~Counted(r)'
  <1>1. CASE HookRejects(r)
    <2>1. /\ UNCHANGED <<schema, live, ref, back, gone, jobs>> /\ req[r].at # "done"
          /\ req' = [req EXCEPT ![r].at = "done", ![r].answer = "error",
                                ![r].brokeAt = "hook"]
      BY <1>1 DEF HookRejects, db
    <2>2. Moves(r) /\ NotesRight(r)' /\ DataRight(r)' /\ ~Counted(r)'
      BY <2>1, EndsWrong DEF Places
    <2>3. CallsRight'
      BY <2>1, <2>2, CallsMove
    <2> QED BY <2>1, <2>2, <2>3, MutationLinked
  <1>2. CASE ReadFails(r) \/ GivesUp(r)
    BY <1>2, LaterRollBacks DEF ReadFails, GivesUp, Later, db
  <1> QED BY <1>1, <1>2

(* A record that has references is there, so whoever adds it has saved it.  *)
LEMMA ReferencesAreMade ==
  ASSUME LinkInv, NEW p \in Parents, p \in live
  PROVE  Made(p)
  <1> SUFFICES ASSUME NEW q \in Requests, req[q].op = "add", req[q].p = p
               PROVE  req[q].at \in {"link", "done"}
    BY DEF Made
  <1>1. NotedRight(q) /\ req[q] \in Request
    BY LinkTypes DEF LinkInv, UndoInv, RequestRight
  <1>2. req[q].at # "idle"
    BY <1>1 DEF NotedRight, Makes
  <1> QED BY <1>1, <1>2 DEF NotedRight, Request

(* A partner that is replaced is not one that the mutation connects.        *)
LEMMA ReplacedAreOthers ==
  ASSUME LinkInv, NEW r \in Requests, ~Clash(r)
  PROVE  Disconnected(Replaced(r)) \cap Related(r) = {}
  <1> SUFFICES ASSUME NEW old \in Replaced(r), old \in Related(r)
               PROVE  FALSE
    BY DEF Disconnected
  <1>1. /\ old \in Kids /\ ~IsList(old)
        /\ \E k \in req[r].connects : FieldOf[k] = FieldOf[old] /\ k # old
    BY LinkTypes DEF Replaced
  <1>2. PICK k \in req[r].connects : FieldOf[k] = FieldOf[old] /\ k # old
    BY <1>1
  <1>3. old \notin req[r].connects
    BY <1>1, <1>2 DEF LinkInv, NotesRight
  <1>4. old \in req[r].news
    BY <1>3 DEF Related
  <1>5. /\ FieldOf[old] \in Fields /\ ~schema.list[FieldOf[old]]
        /\ old \in OfField(req[r].news, FieldOf[old])
        /\ k \in OfField(req[r].connects, FieldOf[old])
    BY <1>1, <1>2, <1>4, FieldsAssumption DEF IsList, OfField
  <1> QED BY <1>5 DEF Clash

(* An untouched kid's reference is at both ends when it is fetched.         *)
LEMMA SkippedIsLinked ==
  ASSUME LinkInv, NEW r \in Requests, req[r].at = "fetch", NEW k \in req[r].connects,
         k \in ref[req[r].p], Alone(r, k)
  PROVE  req[r].p \in back[k]
  <1>1. req[r].p \in Parents /\ k \in Kids /\ NotesRight(r)
    BY LinkTypes DEF LinkInv, Request, Related
  <1>2. k \notin req[r].news \cup req[r].former
    BY <1>1 DEF NotesRight, Before
  <1>3. Untouched(k)
    BY <1>2 DEF Alone, Untouched, Related, Before
  <1> QED BY <1>1, <1>3 DEF LinkInv, Symmetric

(* The fetch of the record.                                                 *)
LEMMA FetchesLinks ==
  ASSUME LinkInv, UndoInv', NEW r \in Requests, Fetches(r)
  PROVE  /\ LinkInv' /\ Mutates(r) /\ ~Recorded(r)'
         /\ req'[r].at \in {"hook", "save"} =>
               /\ req[r].at = "fetch" /\ req'[r].former = Disconnected(Replaced(r))
               /\ UNCHANGED <<ref, schema>>
  <1>1. /\ req \in [Requests -> Request] /\ req[r] \in Request
        /\ NotesRight(r) /\ DataRight(r) /\ req[r].p \in Parents /\ Related(r) \subseteq Kids
        /\ ref \in [Parents -> SUBSET Kids]
    BY LinkTypes DEF LinkInv
  <1>2. req[r].at = "fetch" /\ UNCHANGED <<schema, live, ref, back, gone>>
    BY DEF Fetches, db
  <1>3. CASE RollsBack(r, req[r].saved)
    BY <1>2, <1>3, LaterRollBacks DEF Later, Counted, Recorded
  <1> DEFINE K == {k \in req[r].connects : IsList(k) /\ k \in ref[req[r].p]}
             A == req[r].adding \ K
             F == Disconnected(Replaced(r))
  <1>4. CASE /\ ~Clash(r)
             /\ req' = [req EXCEPT ![r].adding = A, ![r].former = F, ![r].at = "hook"]
             /\ UNCHANGED jobs
    <2>1. F \cap Related(r) = {}
      BY <1>4, ReplacedAreOthers
    <2>2. \A k \in Related(r) \ A : k \in req[r].connects /\ IsList(k) /\ k \in ref[req[r].p]
      BY <1>1, <1>2 DEF NotesRight
    <2>3. A \subseteq Related(r)
      BY <1>1 DEF NotesRight
    <2> HIDE DEF A, F, K
    <2> DEFINE q == [req[r] EXCEPT !.adding = A, !.former = F, !.at = "hook"]
    <2>4. req' = [req EXCEPT ![r] = q]
      BY <1>4
    <2>5. /\ q.at = "hook" /\ q.saved = req[r].saved /\ q.adding = A
          /\ q.former = F /\ q.answer = req[r].answer
      BY <1>1 DEF Request
    <2> HIDE DEF q
    <2>6. OtherReqs(r) /\ req'[r] = q
      BY <1>1, <2>4 DEF OtherReqs
    <2>7. SameInput
      BY MutationStepOrdinary DEF MutationStep, Resolver, LinkInv, UndoInv
    <2>8. req[r].answer # "ok" /\ req[r].former = {} /\ req[r].op = "update"
      BY <1>1, <1>2 DEF NotesRight, Before
    <2>9. Moves(r)
      BY <1>2, <1>4, <2>5, <2>6, <2>7, <2>8 DEF Moves, Before
    <2>10. /\ Related(r)' = Related(r) /\ Makes(r)' = Makes(r)
           /\ req'[r].news = req[r].news /\ req'[r].connects = req[r].connects
           /\ req'[r].op = req[r].op /\ req'[r].p = req[r].p /\ schema' = schema
           /\ \A k \in Kids : Alone(r, k)' => Alone(r, k)
           /\ \A p \in Parents : Made(p) => Made(p)'
           /\ \A k \in Kids : IsList(k)' <=> IsList(k)
      BY <2>7, <2>9, MovesView DEF SameInput, Moves
    <2>11. NotesRight(r)'
      <3> HIDE DEF Related, Makes
      <3> QED BY <1>1, <2>1, <2>3, <2>5, <2>6, <2>8, <2>10 DEF NotesRight, IsList, Before
    <2>12. CallsRight'
      BY <1>4, <2>9, CallsMove
    <2>13. AreLive(r)'
      <3> HIDE DEF Related
      <3> QED BY <1>1, <1>2, <2>10 DEF AreLive, DataRight, Counted
    <2>14. Skips(r)'
      <3> SUFFICES ASSUME NEW k \in Related(r) \ A
                   PROVE  /\ req[r].op = "update" /\ IsList(k)' /\ Made(req[r].p)'
                          /\ Undisturbed(r, k)' => k \in ref[req[r].p]
                          /\ Alone(r, k)' => req[r].p \in back[k]
        <4> HIDE DEF Related
        <4> QED BY <1>2, <2>5, <2>6, <2>10 DEF Skips
      <3>1. k \in Kids /\ k \in req[r].connects /\ IsList(k) /\ k \in ref[req[r].p]
        BY <1>1, <2>2
      <3>2. IsList(k)'
        BY <2>10, <3>1, Zenon
      <3>3. req[r].p \in live
        BY <1>1, <3>1 DEF LinkInv, OfLive
      <3>4. Made(req[r].p)'
        <4>1. \A p \in Parents : p = req[r].p => Made(p)'
          BY <2>10, <3>3, ReferencesAreMade
        <4> QED BY <1>1, <2>10, <4>1 DEF Made
      <3>5. Alone(r, k)' => req[r].p \in back[k]
        BY <1>2, <2>10, <3>1, SkippedIsLinked
      <3> QED BY <2>8, <3>1, <3>2, <3>4, <3>5
    <2>15. ~Recorded(r)'
      BY <2>5, <2>6, <2>8 DEF Recorded
    <2>16. DataRight(r)'
      BY <2>13, <2>14, <2>15 DEF DataRight, Refs, Backs
    <2>17. req'[r].former = Disconnected(Replaced(r))
      BY <2>5, <2>6 DEF F
    <2> QED BY <1>2, <2>9, <2>11, <2>12, <2>15, <2>16, <2>17, MutationLinked
  <1> QED BY <1>3, <1>4, Zenon DEF Fetches

(* Each kid that the saved record takes is sent its reference back.         *)
LEMMA LinkJob ==
  ASSUME NEW r, NEW S, NEW x \in S
  PROVE  \E j \in JobsFor(r, "link", S) : j.req = r /\ j.kind = "link" /\ j.on = x
  <1>1. NewJob(r, "link", x) \in JobsFor(r, "link", S)
    BY DEF JobsFor
  <1>2. /\ NewJob(r, "link", x).req = r /\ NewJob(r, "link", x).kind = "link"
        /\ NewJob(r, "link", x).on = x
    BY DEF NewJob
  <1> QED BY <1>1, <1>2

(* Once a mutation has saved its record, nobody else is going to add it.    *)
LEMMA SavedIsMade ==
  ASSUME LinkInv, NEW r \in Requests, Moves(r), Puts(r)
  PROVE  Made(req[r].p)'
  <1>1. req[r].p \in Parents /\ req[r].op \in {"none", "add", "update"}
    BY LinkTypes DEF Request
  <1>2. req[r].op # "none"
    BY DEF Puts, LinkInv, UndoInv, RequestRight, NotedRight
  <1>3. req'[r].p = req[r].p
    BY MovesView
  <1>4. CASE req[r].op = "update"
    <2>1. \A p \in Parents : p = req[r].p => Made(p)'
      BY <1>4, ReferencesAreMade, MovesView DEF Puts
    <2> QED BY <1>1, <1>3, <2>1 DEF Made
  <1>5. CASE req[r].op = "add"
    <2> SUFFICES ASSUME NEW q \in Requests, req'[q].op = "add", req'[q].p = req[r].p
                 PROVE  req'[q].at \in {"link", "done"}
      BY <1>3 DEF Made
    <2>1. req[q].op = "add" /\ req[q].p = req[r].p
      BY MovesView
    <2>2. req[r].p \in Makes(q) \cap Makes(r)
      BY <1>5, <2>1 DEF Makes
    <2>3. q = r
      BY <2>2 DEF LinkInv, UndoInv, OwnRight
    <2> QED BY <2>3 DEF Puts
  <1> QED BY <1>1, <1>2, <1>4, <1>5

(* The save of the record.                                                  *)
LEMMA SavesRecordLinks ==
  ASSUME LinkInv, UndoInv', NEW r \in Requests, SavesRecord(r)
  PROVE  /\ LinkInv' /\ Mutates(r)
         /\ \/ ~Counted(r)'
            \/ /\ Puts(r) /\ req'[r].at = "link" /\ req'[r].answer # "ok"
               /\ req'[r].adding = req[r].adding /\ req'[r].former = req[r].former
  <1>1. /\ req \in [Requests -> Request] /\ req[r] \in Request
        /\ NotesRight(r) /\ DataRight(r) /\ req[r].p \in Parents /\ Related(r) \subseteq Kids
        /\ ref \in [Parents -> SUBSET Kids] /\ req[r].adding \in SUBSET Docs
    BY LinkTypes DEF LinkInv, Docs
  <1>2. req[r].at = "save" /\ UNCHANGED <<schema, gone>>
    BY DEF SavesRecord
  <1>3. CASE RollsBack(r, req[r].saved) /\ UNCHANGED db
    BY <1>2, <1>3, LaterRollBacks DEF Later, db
  <1> DEFINE S == req[r].saved \cup {x \in {req[r].p} : req[r].op = "add"}
  <1>4. CASE /\ ~(req[r].op = "update" /\ req[r].p \notin live)
             /\ live' = live \cup {req[r].p}
             /\ ref' = [ref EXCEPT ![req[r].p] = Written(r)]
             /\ req' = [req EXCEPT ![r].at = "link", ![r].saved = S]
             /\ jobs' = jobs \cup JobsFor(r, "link", req[r].adding)
             /\ UNCHANGED back
    <2>1. S \subseteq Makes(r)
      BY <1>1 DEF NotesRight, Makes
    <2> HIDE DEF S
    <2> DEFINE q == [req[r] EXCEPT !.at = "link", !.saved = S]
    <2>2. req' = [req EXCEPT ![r] = q]
      BY <1>4
    <2>3. /\ q.at = "link" /\ q.saved = S /\ q.adding = req[r].adding
          /\ q.former = req[r].former /\ q.answer = req[r].answer
      BY <1>1 DEF Request
    <2> HIDE DEF q
    <2>4. OtherReqs(r) /\ req'[r] = q
      BY <1>1, <2>2 DEF OtherReqs
    <2>5. SameInput
      BY MutationStepOrdinary DEF MutationStep, Resolver, LinkInv, UndoInv
    <2>6. Moves(r) /\ Puts(r)
      BY <1>2, <1>4, <2>3, <2>4, <2>5 DEF Moves, Puts, Before
    <2>7. req[r].answer # "ok"
      BY <1>1, <1>2 DEF NotesRight
    <2>8. NotesRight(r)'
      BY <2>1, <2>3, <2>4, <2>6, <2>7, NotesStay
    <2>9. \A j \in jobs' \ jobs : j.kind = "link" /\ j.on \in req[r].adding /\ j.req = r
      BY <1>1, <1>4, JobsIntro
    <2>10. CallsRight'
      BY <2>3, <2>4, <2>6, <2>9, CallsMove
    <2>11. /\ Related(r)' = Related(r) /\ req'[r].p = req[r].p
           /\ \A k \in Kids : Alone(r, k)' => Alone(r, k)
      BY <2>6, MovesView
    <2>12. AreLive(r)'
      <3> HIDE DEF Related
      <3> QED BY <1>1, <1>2, <1>4, <2>11 DEF AreLive, DataRight, Counted
    <2>13. Skips(r)'
      BY <2>3, <2>4 DEF Skips
    <2>14. ASSUME NEW k \in Related(r) \ req[r].adding
           PROVE  /\ Undisturbed(r, k)' => k \in Written(r)
                  /\ Alone(r, k)' => req[r].p \in back[k]
      <3>1. /\ req[r].op = "update" /\ IsList(k) /\ k \in Kids
            /\ Undisturbed(r, k) => k \in ref[req[r].p]
            /\ Alone(r, k) => req[r].p \in back[k]
        BY <1>1, <1>2, <2>14 DEF Skips, DataRight
      <3>2. Undisturbed(r, k)' => Undisturbed(r, k)
        BY <2>6, <3>1, DisturbedStays DEF Puts
      <3> QED BY <2>11, <3>1, <3>2 DEF Written
    <2>15. Refs(r)'
      <3>1. req[r].adding \subseteq Written(r)
        BY DEF Written
      <3>2. \A k \in Related(r) : Undisturbed(r, k)' => k \in Written(r)
        <4> HIDE DEF Related
        <4> QED BY <2>14, <3>1
      <3>3. ref'[req[r].p] = Written(r)
        BY <1>1, <1>4
      <3>4. Made(req[r].p)'
        BY <2>6, SavedIsMade
      <3> HIDE DEF Related
      <3> QED BY <2>11, <3>2, <3>3, <3>4 DEF Refs
    <2>16. Backs(r)'
      <3> SUFFICES ASSUME NEW k \in Related(r), Alone(r, k)'
                   PROVE  req[r].p \in back[k] \/ Pending(r, k)'
        <4> HIDE DEF Related
        <4> QED BY <1>4, <2>11 DEF Backs
      <3>1. CASE k \in req[r].adding
        <4>1. LinkOf(r, k)'
          BY <1>4, <3>1, LinkJob DEF LinkOf
        <4> QED BY <2>3, <2>4, <4>1 DEF Pending
      <3>2. CASE k \notin req[r].adding
        BY <2>14, <3>2
      <3> QED BY <3>1, <3>2
    <2>17. DataRight(r)'
      BY <2>12, <2>13, <2>15, <2>16 DEF DataRight
    <2> QED BY <1>2, <1>4, <2>3, <2>4, <2>6, <2>7, <2>8, <2>10, <2>17, MutationLinked
  <1> QED BY <1>3, <1>4, Zenon DEF SavesRecord

(* Its rejection, with or without effect.                                   *)
LEMMA RecordFailsLinks ==
  ASSUME LinkInv, UndoInv', NEW r \in Requests, RecordFails(r)
  PROVE  LinkInv' /\ Mutates(r) /\ ~Counted(r)'
  <1>1. /\ req[r].at = "save" /\ UNCHANGED <<schema, gone>> /\ RollsBack(r, req[r].saved)
        /\ back' = back /\ req \in [Requests -> Request]
    BY LinkTypes DEF RecordFails, db
  <1>2. req'[r].at = "done"
    BY <1>1, FinishesControl DEF RollsBack, Places
  <1>3. UNCHANGED <<live, ref>> \/ Puts(r)
    BY <1>1, <1>2 DEF RecordFails, db, Puts
  <1> QED BY <1>1, <1>3, LaterRollBacks DEF Later

(* The answer: all references back have been written.                       *)
LEMMA AnswersLinks ==
  ASSUME LinkInv, UndoInv', NEW r \in Requests, Answers(r)
  PROVE  /\ LinkInv' /\ Mutates(r) /\ req[r].at = "link" /\ ref' = ref
         /\ req'[r].at = "done" /\ req'[r].adding = req[r].adding
  <1>1. /\ req \in [Requests -> Request] /\ req[r] \in Request
        /\ NotesRight(r) /\ DataRight(r) /\ req[r].p \in Parents /\ Related(r) \subseteq Kids
        /\ req[r].former \in SUBSET Docs
    BY LinkTypes DEF LinkInv, Docs
  <1>2. /\ req[r].at = "link" /\ UNCHANGED <<schema, live, ref, back, gone>>
        /\ ~req[r].failed /\ ~Linking(r)
    BY DEF Answers, db
  <1>3. req[r].brokeAt = "none"
    BY <1>2, PastCreation DEF Later, LinkInv
  <1> DEFINE q == [req[r] EXCEPT !.at = "done", !.answer = "ok"]
  <1>4. req' = [req EXCEPT ![r] = q]
    BY DEF Answers
  <1>5. /\ q.at = "done" /\ q.saved = req[r].saved /\ q.adding = req[r].adding
        /\ q.former = req[r].former /\ q.brokeAt = req[r].brokeAt
    BY <1>1 DEF Request
  <1> HIDE DEF q
  <1>6. OtherReqs(r) /\ req'[r] = q
    BY <1>1, <1>4 DEF OtherReqs
  <1>7. SameInput
    BY MutationStepOrdinary DEF MutationStep, Resolver, LinkInv, UndoInv
  <1>8. jobs \subseteq jobs'
        /\ \A j \in jobs' \ jobs : j.kind = "cut" /\ j.on \in req[r].former /\ j.req = r
    BY <1>1, JobsIntro DEF Answers
  <1>9. Moves(r)
    BY <1>2, <1>5, <1>6, <1>7, <1>8 DEF Moves, Before
  <1>10. NotesRight(r)'
    BY <1>1, <1>3, <1>5, <1>6, <1>9, NotesStay DEF NotesRight
  <1>11. CallsRight'
    BY <1>5, <1>6, <1>8, <1>9, CallsMove
  <1>12. /\ Related(r)' = Related(r) /\ req'[r].p = req[r].p
         /\ \A k \in Kids : Alone(r, k)' => Alone(r, k)
         /\ \A p \in Parents : Made(p) => Made(p)'
         /\ \A k \in Kids : Undisturbed(r, k)' => Undisturbed(r, k)
    BY <1>2, <1>9, MovesView, DisturbedStays
  <1>13. \A k \in Related(r) : ~Pending(r, k)
    BY <1>2 DEF Pending, LinkOf, Linking
  <1> HIDE DEF Related
  <1>14. AreLive(r)'
    BY <1>1, <1>2, <1>12 DEF AreLive, DataRight, Counted
  <1>15. Skips(r)'
    BY <1>5, <1>6 DEF Skips
  <1>16. Refs(r)'
    <2>1. Made(req[r].p) /\ \A k \in Related(r) : Undisturbed(r, k) => k \in ref[req[r].p]
      BY <1>1, <1>2 DEF Refs, DataRight, Recorded
    <2>2. Made(req[r].p)'
      <3>1. \A p \in Parents : p = req[r].p => Made(p)'
        BY <1>12, <2>1
      <3> QED BY <1>1, <1>12, <3>1 DEF Made
    <2> QED BY <1>1, <1>2, <1>12, <2>1, <2>2 DEF Refs
  <1>17. Backs(r)'
    BY <1>1, <1>2, <1>12, <1>13 DEF Backs, DataRight, Recorded
  <1>18. DataRight(r)'
    BY <1>14, <1>15, <1>16, <1>17 DEF DataRight
  <1> QED BY <1>2, <1>5, <1>6, <1>9, <1>10, <1>11, <1>18, MutationLinked

-----------------------------------------------------------------------------
(* The calls in flight. *)

(* What they leave of the mutations.                                        *)
SameRequests ==
    \A q \in Requests :
        /\ req'[q].at = req[q].at /\ req'[q].answer = req[q].answer
        /\ req'[q].brokeAt = req[q].brokeAt /\ req'[q].op = req[q].op
        /\ req'[q].p = req[q].p /\ req'[q].news = req[q].news
        /\ req'[q].connects = req[q].connects /\ req'[q].saved = req[q].saved
        /\ req'[q].adding = req[q].adding /\ req'[q].former = req[q].former
        /\ req[q].failed => req'[q].failed

(* A kid that another client deleted, or the mutation that made it.         *)
Lost(k) ==
    \/ k \in gone'
    \/ \E q \in Requests : /\ k \in req[q].news
                           /\ req[q].at = "done" /\ req[q].answer = "error"

(* A mutation that takes a reference back for itself.                       *)
Takes(q, k, p) == req[q].p # p /\ k \in Related(q) /\ req[q].at \in {"link", "done"}

(* A mutation that connects a kid nobody else touches loses it to nobody.   *)
LEMMA AloneIsKept ==
  ASSUME LinkInv, NEW r \in Requests, NEW k \in Related(r), Alone(r, k), k \notin gone',
         ~(req[r].at = "done" /\ req[r].answer = "error"),
         \/ Lost(k) \/ \E q \in Requests : k \in req[q].former
         \/ \E q \in Requests : Takes(q, k, req[r].p)
  PROVE  FALSE
  <1>1. \A q \in Requests : k \in Related(q) \cup req[q].former => q = r
    BY DEF Alone
  <1>2. ~Lost(k)
    BY <1>1 DEF Lost, Related
  <1>3. \A q \in Requests : k \notin req[q].former
    BY <1>1 DEF LinkInv, NotesRight
  <1>4. \A q \in Requests : ~Takes(q, k, req[r].p)
    BY <1>1 DEF Takes
  <1> QED BY <1>2, <1>3, <1>4

(* A call that ends, or moves on, keeps the invariant if the records that   *)
(* are lost and the references back that go have one of these reasons.      *)
LEMMA CallLinks ==
  ASSUME LinkInv, UndoInv', SameRequests, schema' = schema, gone \subseteq gone',
         \A k \in Kids : k \in live => k \in live' \/ Lost(k),
         \A p \in Parents : \/ (p \in live' <=> p \in live) /\ ref'[p] = ref[p]
                            \/ p \notin live' /\ ref'[p] = {},
         \A p \in Parents, k \in Kids :
            p \in back[k] => \/ p \in back'[k] \/ Lost(k)
                             \/ \E q \in Requests : k \in req[q].former
                             \/ \E q \in Requests : Takes(q, k, p),
         \A r \in Requests, k \in Kids :
            LinkOf(r, k) => \/ LinkOf(r, k)' \/ req'[r].failed
                            \/ req[r].p \in back'[k] \/ k \notin live,
         \A x \in jobs' : \E y \in jobs : x.kind = y.kind /\ x.on = y.on /\ x.req = y.req
  PROVE  LinkInv'
  <1>1. /\ \A q \in Requests : /\ Related(q)' = Related(q) /\ Makes(q)' = Makes(q)
                               /\ Related(q) \subseteq Kids /\ req[q].p \in Parents
        /\ jobs \subseteq Job /\ req \in [Requests -> Request]
    BY LinkTypes DEF SameRequests, Related, Makes
  <1>2. \A q \in Requests, k \in Kids : Alone(q, k)' => Alone(q, k) /\ k \notin gone'
    BY <1>1 DEF Alone, SameRequests
  <1>3. \A p : Made(p) => Made(p)'
    BY DEF Made, SameRequests
  <1>4. \A k \in Kids : IsList(k)' <=> IsList(k)
    BY DEF IsList
  <1>5. ASSUME NEW q \in Requests, NEW k \in Kids, Undisturbed(q, k)'
        PROVE  /\ Undisturbed(q, k) /\ Alone(q, k) /\ k \notin gone'
               /\ ref'[req[q].p] = ref[req[q].p]
    <2>1. req[q].p \in live' /\ k \notin gone'
      BY <1>5 DEF Undisturbed, SameRequests
    <2>2. req[q].p \in live /\ ref'[req[q].p] = ref[req[q].p]
      BY <1>1, <2>1
    <2>3. Undisturbed(q, k)
      BY <1>5, <2>2 DEF Undisturbed, Names, IsList, SameRequests
    <2> QED BY <2>1, <2>2, <2>3, UndisturbedAlone
  <1>6. CallsRight'
    <2> SUFFICES ASSUME NEW x \in jobs'
                 PROVE  /\ x.kind = "link" => /\ x.on \in req'[x.req].adding
                                              /\ req'[x.req].at \in {"link", "done"}
                        /\ x.kind = "cut" => x.on \in req'[x.req].former
                        /\ x.kind = "undo" => /\ x.on \in Makes(x.req)'
                                              /\ req'[x.req].at = "done"
                                              /\ req'[x.req].answer = "error"
      BY DEF CallsRight
    <2>1. PICK y \in jobs : x.kind = y.kind /\ x.on = y.on /\ x.req = y.req
      OBVIOUS
    <2>2. y.req \in Requests
      BY <1>1 DEF Job
    <2> HIDE DEF Related, Makes
    <2> QED BY <1>1, <2>1, <2>2 DEF LinkInv, CallsRight, SameRequests
  <1>7. OfLive'
    BY DEF LinkInv, OfLive
  <1>8. Symmetric'
    <2> SUFFICES ASSUME NEW p \in Parents, NEW k \in Kids, k \in ref'[p], Untouched(k)'
                 PROVE  p \in back'[k]
      BY DEF Symmetric
    <2>1. /\ k \notin gone'
          /\ \A q \in Requests : /\ k \notin req[q].news /\ k \notin req[q].former
                                 /\ k \in req[q].connects => req[q].at \in Before
      BY DEF Untouched, SameRequests
    <2>2. Untouched(k) /\ k \in ref[p]
      BY <2>1 DEF Untouched
    <2>3. p \in back[k]
      BY <2>2 DEF LinkInv, Symmetric
    <2>4. ~Lost(k)
      BY <2>1 DEF Lost
    <2>5. \A q \in Requests : ~Takes(q, k, p)
      BY <2>1 DEF Takes, Related, Before
    <2> QED BY <2>1, <2>3, <2>4, <2>5
  <1>9. ASSUME NEW r \in Requests
        PROVE  NotesRight(r)' /\ DataRight(r)'
    <2>1. NotesRight(r) /\ AreLive(r) /\ Skips(r) /\ Refs(r) /\ Backs(r)
      BY DEF LinkInv, DataRight
    <2>2. NotesRight(r)'
      <3> HIDE DEF Related, Makes
      <3> QED BY <1>1, <2>1 DEF NotesRight, IsList, SameRequests
    <2>3. Counted(r) => ~(req[r].at = "done" /\ req[r].answer = "error")
      BY DEF Counted
    <2>4. ASSUME Counted(r), NEW k \in Related(r), Alone(r, k)'
          PROVE  /\ Alone(r, k) /\ k \in Kids /\ ~Lost(k)
                 /\ req[r].p \in back[k] => req[r].p \in back'[k]
      <3>1. Alone(r, k) /\ k \in Kids /\ k \notin gone'
        BY <1>1, <1>2, <2>4
      <3>2. /\ ~Lost(k)
            /\ ~\E q \in Requests : k \in req[q].former
            /\ ~\E q \in Requests : Takes(q, k, req[r].p)
        BY <2>3, <2>4, <3>1, AloneIsKept
      <3> QED BY <1>1, <3>1, <3>2
    <2>5. /\ req'[r].at = req[r].at /\ (Counted(r)' <=> Counted(r))
          /\ (Recorded(r)' <=> Recorded(r)) /\ (Recorded(r) => Counted(r))
          /\ req'[r].p = req[r].p /\ req'[r].op = req[r].op
          /\ req'[r].adding = req[r].adding /\ Related(r)' = Related(r)
      BY <1>1 DEF SameRequests, Counted, Recorded
    <2> HIDE DEF Related, Lost
    <2>6. AreLive(r)'
      BY <2>1, <2>4, <2>5 DEF AreLive
    <2>7. Skips(r)'
      <3> SUFFICES ASSUME req[r].at \in {"hook", "save"}, NEW k \in Related(r) \ req[r].adding
                   PROVE  /\ req[r].op = "update" /\ IsList(k)' /\ Made(req[r].p)'
                          /\ Undisturbed(r, k)' => k \in ref'[req[r].p]
                          /\ Alone(r, k)' => req[r].p \in back'[k]
        BY <2>5 DEF Skips
      <3>1. /\ req[r].op = "update" /\ IsList(k) /\ Made(req[r].p)
            /\ Undisturbed(r, k) => k \in ref[req[r].p]
            /\ Alone(r, k) => req[r].p \in back[k]
        BY <2>1 DEF Skips
      <3>2. k \in Kids /\ Counted(r)
        BY <1>1 DEF Counted
      <3>3. IsList(k)'
        BY <1>4, <3>1, <3>2, Zenon
      <3>4. Made(req[r].p)'
        <4>1. \A p : p = req[r].p => Made(p)'
          BY <1>3, <3>1
        <4> QED BY <2>5, <4>1 DEF Made
      <3>5. Undisturbed(r, k)' => k \in ref'[req[r].p]
        BY <1>5, <3>1, <3>2
      <3>6. Alone(r, k)' => req[r].p \in back'[k]
        BY <2>4, <3>1, <3>2
      <3> QED BY <3>1, <3>3, <3>4, <3>5, <3>6
    <2>8. Refs(r)'
      <3> SUFFICES ASSUME Recorded(r)
                   PROVE  /\ Made(req[r].p)'
                          /\ \A k \in Related(r) : Undisturbed(r, k)' => k \in ref'[req[r].p]
        BY <2>5 DEF Refs
      <3>1. /\ Made(req[r].p)
            /\ \A k \in Related(r) : Undisturbed(r, k) => k \in ref[req[r].p]
        BY <2>1 DEF Refs
      <3>2. Made(req[r].p)'
        <4>1. \A p : p = req[r].p => Made(p)'
          BY <1>3, <3>1
        <4> QED BY <2>5, <4>1 DEF Made
      <3> QED BY <1>1, <1>5, <3>1, <3>2
    <2>9. Backs(r)'
      <3> SUFFICES ASSUME Recorded(r), NEW k \in Related(r), Alone(r, k)'
                   PROVE  req[r].p \in back'[k] \/ Pending(r, k)'
        BY <2>5 DEF Backs
      <3>1. Alone(r, k) /\ k \in Kids /\ (req[r].p \in back[k] => req[r].p \in back'[k])
        BY <2>4, <2>5
      <3>2. k \in live
        BY <2>1, <2>5, <3>1 DEF AreLive
      <3>3. CASE Pending(r, k)
        <4>1. LinkOf(r, k) => LinkOf(r, k)' \/ req'[r].failed \/ req[r].p \in back'[k]
          BY <3>1, <3>2
        <4>2. req[r].failed => req'[r].failed
          BY DEF SameRequests
        <4> QED BY <2>5, <3>3, <4>1, <4>2 DEF Pending
      <3> QED BY <2>1, <3>1, <3>3 DEF Backs
    <2> QED BY <2>2, <2>6, <2>7, <2>8, <2>9 DEF DataRight
  <1>10. Begun'
    <2>1. Used' = Used
      BY UsedStays DEF SameRequests
    <2> QED BY <2>1 DEF Begun, LinkInv, SameRequests
  <1> QED BY <1>6, <1>7, <1>8, <1>9, <1>10 DEF LinkInv

(* What a call is about.                                                    *)
LEMMA CallView ==
  ASSUME LinkInv, NEW j \in jobs
  PROVE  /\ j \in Job /\ j.req \in Requests /\ req[j.req].p \in Parents
         /\ j.kind # "undo" => j.on \in Kids
         /\ j.kind = "link" => Related(j.req) \subseteq Kids /\ j.on \in Related(j.req)
                               /\ j.on \in req[j.req].adding
                               /\ req[j.req].at \in {"link", "done"}
         /\ j.kind = "cut" => j.on \in req[j.req].former
         /\ j.kind = "undo" => /\ j.on \in Makes(j.req)
                               /\ req[j.req].at = "done" /\ req[j.req].answer = "error"
  <1>1. j \in Job /\ j.req \in Requests
    BY LinkTypes DEF Job
  <1>2. j.kind # "undo" => j.on \in Kids
    BY DEF LinkInv, UndoInv, NestedInv, FreshInv
  <1>3. req[j.req].p \in Parents /\ Related(j.req) \subseteq Kids
    BY <1>1, LinkTypes
  <1>4. req[j.req].adding \subseteq Related(j.req)
    BY <1>1 DEF LinkInv, NotesRight
  <1> HIDE DEF Related, Makes
  <1> QED BY <1>1, <1>2, <1>3, <1>4 DEF LinkInv, CallsRight

(* A rejected reference marks its mutation.                                 *)
LEMMA RejectRequests ==
  ASSUME LinkInv, NEW j \in jobs, Reject(j)
  PROVE  SameRequests /\ req'[j.req].failed /\ jobs' = jobs \ {j}
  <1>1. PICK r \in Requests : r = j.req
    BY CallView
  <1>2. req \in [Requests -> Request] /\ req[r] \in Request
    BY LinkTypes
  <1> DEFINE q == [req[r] EXCEPT !.failed = TRUE]
  <1>3. /\ q.at = req[r].at /\ q.answer = req[r].answer /\ q.brokeAt = req[r].brokeAt
        /\ q.op = req[r].op /\ q.p = req[r].p /\ q.news = req[r].news
        /\ q.connects = req[r].connects /\ q.saved = req[r].saved
        /\ q.adding = req[r].adding /\ q.former = req[r].former
    BY <1>2 DEF Request
  <1>4. q.failed
    BY <1>2, Zenon DEF Request
  <1>5. req' = [req EXCEPT ![r] = q]
    BY <1>1 DEF Reject
  <1> HIDE DEF q
  <1>6. SameRequests
    BY <1>2, <1>3, <1>4, <1>5 DEF SameRequests
  <1> QED BY <1>1, <1>2, <1>4, <1>5, <1>6 DEF Reject

(* The save of a related record.                                            *)
LEMMA SavesLinks ==
  ASSUME LinkInv, UndoInv', NEW j \in jobs, Saves(j) \/ SaveFails(j)
  PROVE  LinkInv' /\ SameRequests
  <1>1. /\ j.kind = "save" /\ jobs' = jobs \ {j} /\ UNCHANGED <<schema, ref, back, gone>>
        /\ live' = live \/ live' = live \cup {j.on}
    BY DEF Saves, SaveFails
  <1>2. j.on \in Kids /\ j.req \in Requests
    BY <1>1, CallView
  <1>3. SameRequests
    <2>1. CASE Saves(j)
      BY <2>1 DEF Saves, SameRequests
    <2>2. CASE SaveFails(j)
      <3>1. PICK r \in Requests : r = j.req
        BY <1>2
      <3>2. req[r] \in Request /\ req \in [Requests -> Request]
        BY LinkTypes
      <3>3. PICK B : B = req[r].broken \cup {FieldOf[j.on]}
        OBVIOUS
      <3> DEFINE q == [req[r] EXCEPT !.broken = B]
      <3>4. /\ q.at = req[r].at /\ q.answer = req[r].answer /\ q.brokeAt = req[r].brokeAt
            /\ q.op = req[r].op /\ q.p = req[r].p /\ q.news = req[r].news
            /\ q.connects = req[r].connects /\ q.saved = req[r].saved
            /\ q.adding = req[r].adding /\ q.former = req[r].former
        BY <3>2 DEF Request
      <3>5. q.failed = req[r].failed
        BY <3>2, Zenon DEF Request
      <3>6. req' = [req EXCEPT ![r] = q]
        BY <2>2, <3>1, <3>3 DEF SaveFails
      <3> HIDE DEF q
      <3> QED BY <3>2, <3>4, <3>5, <3>6 DEF SameRequests
    <2> QED BY <2>1, <2>2
  <1>4. \A p \in Parents : p \in live' <=> p \in live
    BY <1>1, <1>2, DocsAssumption
  <1>5. \A r \in Requests, k \in Kids : LinkOf(r, k) => LinkOf(r, k)'
    BY <1>1 DEF LinkOf
  <1>6. \A x \in jobs' : \E y \in jobs : x.kind = y.kind /\ x.on = y.on /\ x.req = y.req
    BY <1>1
  <1> HIDE DEF LinkOf, Lost, Takes
  <1> QED BY <1>1, <1>3, <1>4, <1>5, <1>6, CallLinks

(* What a reference back takes the place of.                                *)
LEMMA LinkedTakes ==
  ASSUME LinkInv, NEW j \in jobs, j.kind = "link",
         back' = [back EXCEPT ![j.on] = Linked(j.on, req[j.req].p)]
  PROVE  /\ req[j.req].p \in back'[j.on]
         /\ \A p \in Parents, k \in Kids :
               p \in back[k] => p \in back'[k] \/ \E q \in Requests : Takes(q, k, p)
  <1>1. /\ j.on \in Kids /\ j.req \in Requests /\ j.on \in Related(j.req)
        /\ req[j.req].at \in {"link", "done"}
    BY CallView
  <1>2. back'[j.on] = Linked(j.on, req[j.req].p)
    BY <1>1, LinkTypes
  <1>3. req[j.req].p \in Linked(j.on, req[j.req].p)
    BY DEF Linked
  <1>4. ASSUME NEW p \in Parents, NEW k \in Kids, p \in back[k], p \notin back'[k]
        PROVE  \E q \in Requests : Takes(q, k, p)
    <2>1. k = j.on
      BY <1>1, <1>4, LinkTypes
    <2>2. p # req[j.req].p
      BY <1>2, <1>3, <1>4, <2>1
    <2> QED BY <1>1, <2>1, <2>2 DEF Takes
  <1> QED BY <1>2, <1>3, <1>4

(* A reference back is read and written.                                    *)
LEMMA LinkCallsLink ==
  ASSUME LinkInv, UndoInv', NEW j \in jobs, LinkFinds(j) \/ LinkWrites(j) \/ LinkFails(j)
  PROVE  LinkInv' /\ SameRequests /\ jobs \ {j} \subseteq jobs'
  <1>1. /\ j.kind = "link" /\ UNCHANGED <<schema, live, ref, gone>>
    BY DEF LinkFinds, LinkWrites, LinkFails, db
  <1>2. /\ j \in Job /\ j.on \in Kids /\ j.req \in Requests
    BY <1>1, CallView
  <1>3. ASSUME NEW r \in Requests, NEW k \in Kids, LinkOf(r, k), jobs \ {j} \subseteq jobs'
        PROVE  LinkOf(r, k)' \/ (r = j.req /\ k = j.on)
    BY <1>3 DEF LinkOf
  <1>4. CASE Reject(j) /\ (back' = back \/ back' = [back EXCEPT ![j.on] = Linked(j.on, req[j.req].p)])
    <2>1. SameRequests /\ req'[j.req].failed /\ jobs' = jobs \ {j}
      BY <1>4, RejectRequests
    <2>2. \A p \in Parents, k \in Kids :
             p \in back[k] => p \in back'[k] \/ \E q \in Requests : Takes(q, k, p)
      BY <1>1, <1>4, LinkedTakes
    <2>3. \A r \in Requests, k \in Kids : LinkOf(r, k) => LinkOf(r, k)' \/ req'[r].failed
      BY <1>3, <2>1
    <2>4. \A x \in jobs' : \E y \in jobs : x.kind = y.kind /\ x.on = y.on /\ x.req = y.req
      BY <2>1
    <2> HIDE DEF LinkOf, Lost, Takes
    <2> QED BY <1>1, <2>1, <2>2, <2>3, <2>4, CallLinks
  <1>5. CASE LinkFinds(j) /\ ~Reject(j)
    <2>1. /\ j.on \in live /\ UNCHANGED <<back, req>>
          /\ jobs' = (jobs \ {j}) \cup
                     {[x EXCEPT !.found = TRUE] :
                         x \in {y \in {j} : req[j.req].p \notin back[j.on]}}
      BY <1>5, Zenon DEF LinkFinds, db
    <2>2. PICK y : y = [j EXCEPT !.found = TRUE]
      OBVIOUS
    <2>3. y.kind = j.kind /\ y.on = j.on /\ y.req = j.req
      BY <1>2, <2>2 DEF Job
    <2>4. /\ jobs \ {j} \subseteq jobs' /\ jobs' \subseteq (jobs \ {j}) \cup {y}
          /\ y \in jobs' \/ req[j.req].p \in back[j.on]
      BY <2>1, <2>2
    <2>5. \A r \in Requests, k \in Kids :
             LinkOf(r, k) => LinkOf(r, k)' \/ req[r].p \in back'[k]
      <3>1. y \in jobs' => LinkOf(j.req, j.on)'
        BY <1>1, <2>3 DEF LinkOf
      <3>2. \A r \in Requests, k \in Kids :
               LinkOf(r, k) => LinkOf(r, k)' \/ (r = j.req /\ k = j.on)
        BY <1>3, <2>4
      <3> HIDE DEF LinkOf
      <3> QED BY <2>1, <2>4, <3>1, <3>2
    <2>6. \A x \in jobs' : \E z \in jobs : x.kind = z.kind /\ x.on = z.on /\ x.req = z.req
      BY <2>3, <2>4
    <2>7. SameRequests
      BY <2>1 DEF SameRequests
    <2> HIDE DEF LinkOf, Lost, Takes
    <2> QED BY <1>1, <2>1, <2>4, <2>5, <2>6, <2>7, CallLinks
  <1>6. CASE LinkWrites(j)
    <2>1. jobs' = jobs \ {j} /\ UNCHANGED req
      BY <1>6 DEF LinkWrites
    <2>2. SameRequests
      BY <2>1 DEF SameRequests
    <2>3. \A r \in Requests, k \in Kids :
             LinkOf(r, k) => LinkOf(r, k)' \/ (r = j.req /\ k = j.on)
      BY <1>3, <2>1
    <2>4. \A x \in jobs' : \E y \in jobs : x.kind = y.kind /\ x.on = y.on /\ x.req = y.req
      BY <2>1
    <2>5. CASE j.on \in live
      <3>1. back' = [back EXCEPT ![j.on] = Linked(j.on, req[j.req].p)]
        BY <1>6, <2>5 DEF LinkWrites
      <3>2. /\ req[j.req].p \in back'[j.on]
            /\ \A p \in Parents, k \in Kids :
                  p \in back[k] => p \in back'[k] \/ \E q \in Requests : Takes(q, k, p)
        BY <1>1, <3>1, LinkedTakes
      <3> HIDE DEF LinkOf, Lost, Takes
      <3> QED BY <1>1, <2>1, <2>2, <2>3, <2>4, <3>2, CallLinks
    <2>6. CASE j.on \notin live
      <3>1. back' = back
        BY <1>2, <1>6, <2>6, LinkTypes DEF LinkWrites
      <3> HIDE DEF LinkOf, Lost, Takes
      <3> QED BY <1>1, <2>1, <2>2, <2>3, <2>4, <2>6, <3>1, CallLinks
    <2> QED BY <2>5, <2>6
  <1>7. CASE LinkFails(j)
    BY <1>4, <1>7, Zenon DEF LinkFails
  <1>8. CASE LinkFinds(j) /\ Reject(j)
    BY <1>4, <1>8 DEF LinkFinds, db
  <1> QED BY <1>5, <1>6, <1>7, <1>8

(* What nobody waits for.                                                   *)
LEMMA LooseLinks ==
  ASSUME LinkInv, UndoInv', NEW j \in jobs, Cuts(j) \/ Undoes(j) \/ LooseFails(j)
  PROVE  LinkInv'
  <1>1. /\ jobs' = jobs \ {j} /\ UNCHANGED <<req, schema, gone>>
        /\ j.kind \in {"cut", "undo"}
    BY DEF Cuts, Undoes, LooseFails
  <1>2. SameRequests
    BY <1>1 DEF SameRequests
  <1>3. \A r \in Requests, k \in Kids : LinkOf(r, k) => LinkOf(r, k)'
    BY <1>1 DEF LinkOf
  <1>4. \A x \in jobs' : \E y \in jobs : x.kind = y.kind /\ x.on = y.on /\ x.req = y.req
    BY <1>1
  <1>5. /\ j.req \in Requests
        /\ ref \in [Parents -> SUBSET Kids] /\ back \in [Kids -> SUBSET Parents]
    BY CallView, LinkTypes
  <1>6. CASE LooseFails(j)
    <2>1. UNCHANGED <<live, ref, back>>
      BY <1>6 DEF LooseFails, db
    <2> HIDE DEF LinkOf, Lost, Takes
    <2> QED BY <1>1, <1>2, <1>3, <1>4, <2>1, CallLinks
  <1>7. CASE Cuts(j)
    <2>1. UNCHANGED <<live, ref>> /\ j.kind = "cut"
          /\ back' = [back EXCEPT ![j.on] = Cut(j.on, req[j.req].p)]
      BY <1>7 DEF Cuts
    <2>2. j.on \in req[j.req].former
      BY <2>1, CallView
    <2>3. \A p \in Parents, k \in Kids :
             p \in back[k] => p \in back'[k] \/ \E q \in Requests : k \in req[q].former
      BY <1>5, <2>1, <2>2
    <2> HIDE DEF LinkOf, Lost, Takes
    <2> QED BY <1>1, <1>2, <1>3, <1>4, <2>1, <2>3, CallLinks
  <1>8. CASE Undoes(j)
    <2>1. /\ live' = live \ {j.on}
          /\ ref' = [p \in Parents |-> IF p = j.on THEN {} ELSE ref[p]]
          /\ back' = [k \in Kids |-> IF k = j.on THEN {} ELSE back[k]]
          /\ j.kind = "undo"
      BY <1>8 DEF Undoes
    <2>2. /\ j.on \in Makes(j.req)
          /\ req[j.req].at = "done" /\ req[j.req].answer = "error"
          /\ req[j.req].p \notin Kids
      BY <2>1, CallView, DocsAssumption
    <2>3. j.on \in Kids => Lost(j.on)
      BY <1>5, <2>2 DEF Lost, Makes
    <2>4. \A k \in Kids : k \in live => k \in live' \/ Lost(k)
      BY <2>1, <2>3
    <2>5. \A p \in Parents : \/ (p \in live' <=> p \in live) /\ ref'[p] = ref[p]
                             \/ p \notin live' /\ ref'[p] = {}
      BY <1>5, <2>1
    <2>6. \A p \in Parents, k \in Kids : p \in back[k] => p \in back'[k] \/ Lost(k)
      BY <1>5, <2>1, <2>3
    <2> HIDE DEF LinkOf, Lost, Takes
    <2> QED BY <1>1, <1>2, <1>3, <1>4, <2>4, <2>5, <2>6, CallLinks
  <1> QED BY <1>6, <1>7, <1>8

(* Another client's deletion.                                               *)
LEMMA VanishesLinks ==
  ASSUME LinkInv, UndoInv', NEW v \in Kids, Vanishes(v)
  PROVE  LinkInv'
  <1>1. /\ UNCHANGED <<req, schema, jobs, ref>> /\ live' = live \ {v}
        /\ back' = [back EXCEPT ![v] = {}] /\ gone' = gone \cup {v}
    BY DEF Vanishes
  <1>2. SameRequests
    BY <1>1 DEF SameRequests
  <1>3. \A r \in Requests, k \in Kids : LinkOf(r, k) => LinkOf(r, k)'
    BY <1>1 DEF LinkOf
  <1>4. Lost(v) /\ \A k \in Kids : k \in live => k \in live' \/ Lost(k)
    BY <1>1 DEF Lost
  <1>5. \A p \in Parents : (p \in live' <=> p \in live) /\ ref'[p] = ref[p]
    BY <1>1, DocsAssumption
  <1>6. \A p \in Parents, k \in Kids : p \in back[k] => p \in back'[k] \/ Lost(k)
    BY <1>1, <1>4, LinkTypes
  <1> HIDE DEF LinkOf, Lost, Takes
  <1> QED BY <1>1, <1>2, <1>3, <1>4, <1>5, <1>6, CallLinks

-----------------------------------------------------------------------------
(* A mutation begins: it names no kid that nobody has seen, and has nothing *)
(* to do with what others make.                                             *)
LEMMA SubmitLinks ==
  ASSUME LinkInv, UndoInv', NEW r \in Requests, Submit(r)
  PROVE  LinkInv'
  <1>1. /\ req \in [Requests -> Request] /\ req[r] \in Request /\ jobs \subseteq Job
        /\ NotesRight(r) /\ NotedRight(r)
    BY LinkTypes DEF LinkInv, UndoInv, RequestRight
  <1>2. req[r].at = "idle" /\ UNCHANGED <<schema, live, ref, back, gone, jobs>>
    BY DEF Submit, db
  <1>3. PICK op \in {"add", "update"}, p \in Parents, N \in SUBSET (Kids \ Used),
             K \in SUBSET (Kids \cap (Existing \cup live)) :
          /\ (op = "update") <=> (p \in Used)
          /\ Cardinality(N \cup K) \in 1 .. MaxInput
          /\ \A f \in Fields : AtMostOne(N, f) /\ AtMostOne(K, f)
          /\ req' = [req EXCEPT ![r].op = op, ![r].p = p, ![r].news = N,
                        ![r].connects = K, ![r].at = "create",
                        ![r].todo = {FieldOf[k] : k \in N}]
    BY Zenon DEF Submit
  <1> DEFINE T == {FieldOf[k] : k \in N}
  <1> HIDE DEF T
  <1> DEFINE q == [req[r] EXCEPT !.op = op, !.p = p, !.news = N, !.connects = K,
                                 !.at = "create", !.todo = T]
  <1>4. req' = [req EXCEPT ![r] = q]
    BY <1>3 DEF T
  <1>5. /\ q.op = op /\ q.p = p /\ q.news = N /\ q.connects = K /\ q.at = "create"
        /\ q.saved = req[r].saved /\ q.adding = req[r].adding /\ q.former = req[r].former
        /\ q.answer = req[r].answer
    BY <1>1 DEF Request
  <1> HIDE DEF q
  <1>6. OtherReqs(r) /\ req'[r] = q
    BY <1>1, <1>4 DEF OtherReqs
  <1>7. /\ Makes(r) = {} /\ Related(r) = {} /\ req[r].former = {} /\ req[r].op = "none"
        /\ req[r].saved = {} /\ req[r].adding = {} /\ req[r].answer # "ok"
        /\ req[r].news = {} /\ req[r].connects = {}
    BY <1>1, <1>2 DEF NotesRight, NotedRight, LinkInv, Begun, Before, Related, Makes
  <1>8. \A x : x \in Existing \/ (\E y \in Requests : x \in Makes(y)) => x \in Used
    BY DEF Used, Makes
  <1>9. K \subseteq Used
    BY <1>8 DEF LinkInv, UndoInv, OwnRight
  <1>10. \A y \in Requests \ {r} : /\ req'[y] = req[y] /\ Related(y)' = Related(y)
                                   /\ Makes(y)' = Makes(y)
    BY <1>6 DEF OtherReqs, Related, Makes
  <1>11. NotesRight(r)'
    <2>1. N \cap K = {}
      BY <1>9
    <2>2. ASSUME NEW k \in K, NEW x \in K, ~IsList(k), FieldOf[k] = FieldOf[x]
          PROVE  k = x
      <3>1. FieldOf[k] \in Fields
        BY FieldsAssumption
      <3>2. k \in OfField(K, FieldOf[k]) /\ x \in OfField(K, FieldOf[k])
        BY <2>2 DEF OfField
      <3> QED BY <1>3, <2>2, <3>1, <3>2 DEF AtMostOne, IsList
    <2>3. \A k \in K : IsList(k)' <=> IsList(k)
      BY <1>2 DEF IsList
    <2> HIDE DEF IsList
    <2> QED BY <1>5, <1>6, <1>7, <2>1, <2>2, <2>3 DEF NotesRight
  <1>12. DataRight(r)'
    <2>1. ~Counted(r)'
      BY <1>5, <1>6, <1>7 DEF Counted
    <2> QED BY <2>1, Uncounted
  <1>13. \A y \in Requests \ {r}, k \in Kids : Alone(y, k)' => Alone(y, k)
    <2> HIDE DEF Related
    <2> QED BY <1>2, <1>7, <1>10 DEF Alone
  <1>14. \A y \in Requests \ {r}, k \in Kids : Undisturbed(y, k)' => Undisturbed(y, k)
    BY <1>2, <1>7, <1>10 DEF Undisturbed, Names, IsList
  <1>15. \A k \in Kids : Untouched(k)' => Untouched(k)
    BY <1>2, <1>7, <1>10 DEF Untouched
  <1>16. ASSUME NEW y \in Requests \ {r}, req[y].op # "none", Made(req[y].p)
         PROVE  Made(req[y].p)'
    <2>1. req[y].op = "add" \/ req[y].op = "update"
      BY <1>1, <1>16 DEF Request
    <2>2. req[y].op = "add" => req[y].p \in Makes(y)
      BY DEF Makes
    <2>3. req[y].p \in Used
      BY <1>8, <2>1, <2>2 DEF LinkInv, Begun
    <2>4. op = "add" => p # req[y].p
      BY <1>3, <2>3
    <2> QED BY <1>5, <1>6, <1>10, <1>16, <2>4 DEF Made
  <1>17. ASSUME NEW y \in Requests \ {r}
         PROVE  NotesRight(y)' /\ DataRight(y)'
    <2>1. /\ NotesRight(y) /\ AreLive(y) /\ Skips(y) /\ Refs(y) /\ Backs(y) /\ NotedRight(y)
          /\ req'[y] = req[y] /\ Related(y)' = Related(y) /\ Makes(y)' = Makes(y)
          /\ Related(y) \subseteq Kids /\ req[y].p \in Parents
      BY <1>10, LinkTypes DEF LinkInv, DataRight, UndoInv, RequestRight
    <2>2. (Recorded(y) \/ req[y].at \in {"hook", "save"}) => req[y].op # "none"
      BY <2>1 DEF Recorded, NotedRight, NotesRight
    <2>3. \A k \in Kids : IsList(k)' <=> IsList(k)
      BY <1>2 DEF IsList
    <2> HIDE DEF Related, Makes
    <2>4. NotesRight(y)'
      BY <1>2, <2>1 DEF NotesRight, IsList
    <2>5. AreLive(y)'
      BY <1>2, <1>13, <2>1 DEF AreLive, Counted
    <2>6. Skips(y)'
      <3> SUFFICES ASSUME req[y].at \in {"hook", "save"}, NEW k \in Related(y) \ req[y].adding
                   PROVE  /\ req[y].op = "update" /\ IsList(k)' /\ Made(req[y].p)'
                          /\ Undisturbed(y, k)' => k \in ref[req[y].p]
                          /\ Alone(y, k)' => req[y].p \in back[k]
        BY <1>2, <2>1 DEF Skips
      <3>1. /\ req[y].op = "update" /\ IsList(k) /\ Made(req[y].p) /\ k \in Kids
            /\ Undisturbed(y, k) => k \in ref[req[y].p]
            /\ Alone(y, k) => req[y].p \in back[k]
        BY <2>1 DEF Skips
      <3>2. IsList(k)'
        BY <2>3, <3>1, Zenon
      <3>3. Made(req[y].p)'
        BY <1>16, <3>1
      <3> QED BY <1>13, <1>14, <3>1, <3>2, <3>3
    <2>7. Refs(y)'
      <3> SUFFICES ASSUME Recorded(y)
                   PROVE  /\ Made(req[y].p)'
                          /\ \A k \in Related(y) : Undisturbed(y, k)' => k \in ref[req[y].p]
        BY <1>2, <2>1 DEF Refs, Recorded
      <3>1. /\ Made(req[y].p)
            /\ \A k \in Related(y) : Undisturbed(y, k) => k \in ref[req[y].p]
        BY <2>1 DEF Refs
      <3>2. Made(req[y].p)'
        BY <1>16, <2>2, <3>1
      <3> QED BY <1>14, <2>1, <3>1, <3>2
    <2>8. Backs(y)'
      BY <1>2, <1>13, <2>1 DEF Backs, Recorded, Pending, LinkOf
    <2> QED BY <2>4, <2>5, <2>6, <2>7, <2>8 DEF DataRight
  <1>18. CallsRight'
    <2>1. ASSUME NEW j \in jobs
          PROVE  j.kind \in {"link", "cut", "undo"} => j.req \in Requests \ {r}
      BY <1>1, <1>2, <1>7, CallView
    <2> HIDE DEF Related, Makes
    <2> QED BY <1>2, <1>10, <2>1 DEF LinkInv, CallsRight
  <1>19. OfLive' /\ Symmetric'
    BY <1>2, <1>15 DEF LinkInv, OfLive, Symmetric
  <1>20. Begun'
    <2>1. ASSUME NEW x \in Used
          PROVE  x \in Used'
      <3>1. CASE x \in Existing
        BY <3>1 DEF Used
      <3>2. CASE \E y \in Requests : x \in Makes(y)
        <4>1. \E y \in Requests : x \in Makes(y)'
          BY <1>7, <1>10, <3>2
        <4> QED BY <4>1 DEF Used, Makes
      <3> QED BY <2>1, <3>1, <3>2 DEF Used, Makes
    <2> QED BY <1>3, <1>5, <1>6, <1>10, <2>1 DEF Begun, LinkInv
  <1>21. \A y \in Requests : NotesRight(y)' /\ DataRight(y)'
    BY <1>11, <1>12, <1>17
  <1> QED BY <1>18, <1>19, <1>20, <1>21 DEF LinkInv

(* At the beginning the relation is symmetric, and there are no mutations.  *)
LEMMA InitLinks == Init => LinkInv
  <1> SUFFICES ASSUME Init
               PROVE  LinkInv
    OBVIOUS
  <1>1. UndoInv
    BY InitUndo
  <1>2. live = Existing /\ jobs = {}
    BY Zenon DEF Init
  <1> DEFINE q == [op |-> "none", p |-> CHOOSE p \in Parents : TRUE, news |-> {},
                   connects |-> {}, at |-> "idle", todo |-> {}, broken |-> {},
                   saved |-> {}, adding |-> {}, former |-> {}, failed |-> FALSE,
                   answer |-> "none", brokeAt |-> "none"]
  <1>3. req = [r \in Requests |-> q]
    BY Zenon DEF Init
  <1>4. /\ q.op = "none" /\ q.news = {} /\ q.connects = {} /\ q.at = "idle" /\ q.saved = {}
        /\ q.adding = {} /\ q.former = {} /\ q.answer = "none"
    OBVIOUS
  <1> HIDE DEF q
  <1>5. \A r \in Requests : NotesRight(r) /\ DataRight(r)
    BY <1>3, <1>4 DEF NotesRight, DataRight, AreLive, Skips, Refs, Backs, Counted, Recorded,
                      Related, Makes
  <1>6. Begun /\ CallsRight
    BY <1>2, <1>3, <1>4 DEF Begun, CallsRight
  <1>7. PICK rel \in SUBSET ((Parents \cap Existing) \X (Kids \cap Existing)) :
           /\ ref = [p \in Parents |-> {k \in Kids : <<p, k>> \in rel}]
           /\ back = [k \in Kids |-> {p \in Parents : <<p, k>> \in rel}]
    BY Zenon DEF Init
  <1>8. OfLive /\ Symmetric
    BY <1>2, <1>7 DEF OfLive, Symmetric
  <1> QED BY <1>1, <1>5, <1>6, <1>8 DEF LinkInv

(* Every step keeps the invariant.                                          *)
LEMMA LinkStep ==
  ASSUME LinkInv, [Next]_vars
  PROVE  LinkInv'
  <1>1. UndoInv'
    BY UndoStep DEF LinkInv
  <1>2. ASSUME NEW r \in Requests, Resolver(r)
        PROVE  LinkInv'
    BY <1>1, <1>2, ValidatesLinks, ProcessesLinks, CountsLinks, FetchesLinks, HooksLinks,
       SavesRecordLinks, AnswersLinks, FailuresLink DEF Resolver
  <1>3. ASSUME NEW j \in jobs, Database(j)
        PROVE  LinkInv'
    BY <1>1, <1>3, SavesLinks, LinkCallsLink, LooseLinks DEF Database
  <1>4. CASE Failure
    BY <1>1, <1>4, InvalidLinks, FailuresLink, RecordFailsLinks, SavesLinks,
       LinkCallsLink, LooseLinks DEF Failure
  <1>5. CASE UNCHANGED vars
    BY <1>1, <1>5 DEF vars, LinkInv, Begun, Used, CallsRight, OfLive, Symmetric, NotesRight,
                      DataRight, AreLive, Skips, Refs, Backs, Counted, Recorded, Related,
                      Makes, Made, Alone, Undisturbed, Names, IsList, Pending, LinkOf, Untouched
  <1> QED BY <1>1, <1>2, <1>3, <1>4, <1>5, SubmitLinks, VanishesLinks DEF Next, Idle

(* The invariant holds in every behaviour.                                  *)
LEMMA LinkInvHolds == Spec => []LinkInv
  BY InitLinks, LinkStep, PTL DEF Spec

(* A mutation answered without an error has written both ends of every      *)
(* nested and every connected record, however many mutations overlap and    *)
(* whichever operations are rejected, unless somebody else named the kid or *)
(* deleted it, or named the parent and its field holds one value.           *)
THEOREM LinkedWhenAnswered == Spec => []AnsweredIsLinked
  <1>1. LinkInv => AnsweredIsLinked
    <2> SUFFICES ASSUME LinkInv, NEW r \in Requests, req[r].answer = "ok",
                        NEW k \in Related(r), Undisturbed(r, k)
                 PROVE  k \in live /\ k \in ref[req[r].p] /\ req[r].p \in back[k]
      BY DEF AnsweredIsLinked, Related
    <2>1. NotesRight(r) /\ AreLive(r) /\ Refs(r) /\ Backs(r)
      BY DEF LinkInv, DataRight
    <2>2. Alone(r, k)
      BY UndisturbedAlone
    <2>3. ~Pending(r, k)
      BY <2>1 DEF Pending, NotesRight
    <2> QED BY <2>1, <2>2, <2>3 DEF AreLive, Refs, Backs, Counted, Recorded
  <1> QED BY <1>1, LinkInvHolds, PTL

-----------------------------------------------------------------------------
(* Former partners: the invariant. *)

(* No other mutation names the mutation's record.                           *)
Sole(r) == \A q \in Requests \ {r} : ~Names(q, req[r].p)

(* Until somebody saves the record, it refers to every kid that refers to   *)
(* it.                                                                      *)
Unsaved(p) == \A q \in Requests : Names(q, p) => req[q].at \notin {"link", "done"}
BackHasRef ==
    \A p \in Parents, k \in Kids : Unsaved(p) /\ p \in back[k] => k \in ref[p]

(* An update has noted whom its connects replace.                           *)
NotesFormer(r) ==
    req[r].at \in {"hook", "save"} /\ req[r].op = "update" /\ Sole(r) =>
        \A k \in ref[req[r].p] :
            /\ ~IsList(k)
            /\ \E x \in req[r].connects : FieldOf[x] = FieldOf[k] /\ x # k
            => k \in req[r].former

(* The saved record has what it was given.                                  *)
TakesAll(r) == Recorded(r) /\ Sole(r) => req[r].adding \subseteq ref[req[r].p]

(* A kid that still refers to the saved record, and that it no longer       *)
(* refers to, is about to be cut off, or the cut was rejected.              *)
CutOf(r, k) == \E j \in jobs : j.kind = "cut" /\ j.req = r /\ j.on = k
ToBeCut(r, k) == IF req[r].at = "link" THEN k \in req[r].former
                 ELSE r \in blurred \/ CutOf(r, k)
LeavesNone(r) ==
    Recorded(r) /\ Sole(r) =>
        \A k \in Kids :
            ~IsList(k) /\ OfField(req[r].news, FieldOf[k]) = {} /\ req[r].p \in back[k]
            => k \in ref[req[r].p] \/ ToBeCut(r, k)

PartnersRight(r) == NotesFormer(r) /\ TakesAll(r) /\ LeavesNone(r)

FormerInv == LinkInv /\ BackHasRef /\ \A r \in Requests : PartnersRight(r)

(* What the invariant is about, before and after a step of a mutation.      *)
LEMMA FormerView ==
  ASSUME FormerInv, NEW r \in Requests, Mutates(r)
  PROVE  /\ \A q \in Requests : /\ Sole(q)' <=> Sole(q)
                                /\ req'[q].p = req[q].p /\ req'[q].op = req[q].op
                                /\ req'[q].news = req[q].news
                                /\ req'[q].connects = req[q].connects
         /\ \A p \in Parents : Unsaved(p)' => Unsaved(p)
         /\ \A k \in Kids : IsList(k)' <=> IsList(k)
         /\ jobs \subseteq jobs'
  <1>1. \A q \in Requests :
           /\ req'[q].p = req[q].p /\ req'[q].op = req[q].op
           /\ req'[q].news = req[q].news /\ req'[q].connects = req[q].connects
           /\ req[q].at \in {"link", "done"} => req'[q].at \in {"link", "done"}
    BY DEF Mutates, Moves, SameInput, OtherReqs
  <1>2. \A q \in Requests : Sole(q)' <=> Sole(q)
    BY <1>1 DEF Sole, Names
  <1>3. \A p \in Parents : Unsaved(p)' => Unsaved(p)
    BY <1>1 DEF Unsaved, Names
  <1>4. \A k \in Kids : IsList(k)' <=> IsList(k)
    BY DEF Mutates, Moves, IsList
  <1> QED BY <1>1, <1>2, <1>3, <1>4 DEF Mutates, Moves

(* A step of one mutation does not disturb the partners of the others.      *)
LEMMA OthersFormer ==
  ASSUME FormerInv, NEW r \in Requests, Mutates(r), blurred \subseteq blurred'
  PROVE  BackHasRef' /\ \A q \in Requests \ {r} : PartnersRight(q)'
  <1>1. /\ back' = back /\ ref \in [Parents -> SUBSET Kids]
        /\ \A q \in Requests : req[q].p \in Parents
    BY LinkTypes DEF Mutates, FormerInv
  <1>2. ASSUME NEW p \in Parents, p # req[r].p \/ UNCHANGED ref
        PROVE  ref'[p] = ref[p]
    BY <1>1, <1>2 DEF Mutates, Puts
  <1>3. ASSUME Puts(r)
        PROVE  Names(r, req[r].p)' /\ Names(r, req[r].p) /\ req'[r].at \in {"link", "done"}
    <2>1. req[r].op # "none"
      BY <1>3 DEF Puts, FormerInv, LinkInv, UndoInv, RequestRight, NotedRight
    <2> QED BY <1>3, <2>1, FormerView DEF Puts, Names
  <1>4. BackHasRef'
    <2> SUFFICES ASSUME NEW p \in Parents, NEW k \in Kids, Unsaved(p)', p \in back[k]
                 PROVE  k \in ref'[p]
      BY <1>1 DEF BackHasRef
    <2>1. Unsaved(p)
      BY FormerView
    <2>2. k \in ref[p]
      BY <2>1 DEF FormerInv, BackHasRef
    <2>3. p # req[r].p \/ UNCHANGED ref
      <3>1. Puts(r) => p # req[r].p
        <4>1. Puts(r) /\ p = req[r].p => Names(r, p)' /\ req'[r].at \in {"link", "done"}
          BY <1>3, FormerView DEF Names
        <4> QED BY <4>1 DEF Unsaved
      <3> QED BY <3>1 DEF Mutates
    <2> QED BY <1>2, <2>2, <2>3
  <1>5. ASSUME NEW q \in Requests \ {r}
        PROVE  PartnersRight(q)'
    <2>1. /\ NotesFormer(q) /\ TakesAll(q) /\ LeavesNone(q)
          /\ req'[q] = req[q] /\ (Sole(q)' <=> Sole(q)) /\ req[q].p \in Parents
          /\ \A k \in Kids : IsList(k)' <=> IsList(k)
          /\ jobs \subseteq jobs'
      BY <1>1, FormerView DEF FormerInv, PartnersRight, Mutates, Moves, OtherReqs
    <2>2. Sole(q) => ref'[req[q].p] = ref[req[q].p]
      <3>1. Sole(q) /\ Puts(r) => req[q].p # req[r].p
        BY <1>3 DEF Sole
      <3>2. Puts(r) \/ UNCHANGED ref
        BY DEF Mutates
      <3> QED BY <1>2, <2>1, <3>1, <3>2
    <2>3. NotesFormer(q)'
      <3> SUFFICES ASSUME req[q].at \in {"hook", "save"}, req[q].op = "update", Sole(q),
                          NEW k \in ref[req[q].p], ~IsList(k),
                          \E x \in req[q].connects : FieldOf[x] = FieldOf[k] /\ x # k
                   PROVE  k \in req[q].former
        <4>1. \A k \in ref[req[q].p] : IsList(k)' <=> IsList(k)
          BY <1>1, <2>1
        <4> QED BY <2>1, <2>2, <4>1 DEF NotesFormer
      <3> QED BY <2>1 DEF NotesFormer
    <2>4. TakesAll(q)'
      BY <2>1, <2>2 DEF TakesAll, Recorded
    <2>5. \A k \in Kids : ToBeCut(q, k) => ToBeCut(q, k)'
      BY <2>1 DEF ToBeCut, CutOf
    <2>6. LeavesNone(q)'
      <3> SUFFICES ASSUME Recorded(q), Sole(q), NEW k \in Kids, ~IsList(k)',
                          OfField(req[q].news, FieldOf[k]) = {}, req[q].p \in back[k]
                   PROVE  k \in ref[req[q].p] \/ ToBeCut(q, k)'
        BY <1>1, <2>1, <2>2 DEF LeavesNone, Recorded, OfField
      <3> QED BY <2>1, <2>5 DEF LeavesNone
    <2> QED BY <2>3, <2>4, <2>6 DEF PartnersRight
  <1> QED BY <1>4, <1>5

(* It is left to see that the step is right for the mutation itself.        *)
LEMMA MutationFormer ==
  ASSUME FormerInv, LinkInv', NEW r \in Requests, Mutates(r), blurred \subseteq blurred',
         PartnersRight(r)'
  PROVE  FormerInv'
  <1>1. BackHasRef' /\ \A q \in Requests \ {r} : PartnersRight(q)'
    BY OthersFormer
  <1> QED BY <1>1 DEF FormerInv

(* It is if the mutation has not come so far, or is over with an error.     *)
LEMMA UncountedFormer ==
  ASSUME NEW r \in Requests, ~Counted(r)'
  PROVE  PartnersRight(r)'
  BY DEF Counted, Recorded, PartnersRight, NotesFormer, TakesAll, LeavesNone

-----------------------------------------------------------------------------
(* Former partners: the steps of one mutation. *)

(* Each of the fields that refer back has a name of its own.                *)
NamesDiffer == \A f, g \in Fields : BackName[f] = BackName[g] => f = g

(* No step of a mutation forgets that an operation was rejected.            *)
LEMMA BlurredStays ==
  ASSUME NEW r \in Requests,
         Resolver(r) \/ (\E f \in Fields : Invalid(r, f))
            \/ HookRejects(r) \/ ReadFails(r) \/ RecordFails(r)
  PROVE  blurred \subseteq blurred'
  BY DEF Resolver, Validates, Processes, Counts, Fetches, Hooks, SavesRecord, Answers,
         GivesUp, Invalid, HookRejects, ReadFails, RecordFails

(* With names that differ, everybody who is replaced is noted.              *)
LEMMA ReplacedAreNoted ==
  ASSUME FormerInv, NamesDiffer, NEW r \in Requests
  PROVE  Replaced(r) \subseteq Disconnected(Replaced(r))
  <1>1. Replaced(r) \subseteq Kids
    BY LinkTypes DEF FormerInv, Replaced
  <1>2. ASSUME NEW k \in Replaced(r), NEW x \in Replaced(r),
               BackName[FieldOf[x]] = BackName[FieldOf[k]]
        PROVE  FieldOf[x] <= FieldOf[k]
    <2>1. FieldOf[x] \in Fields /\ FieldOf[k] \in Fields
      BY <1>1, FieldsAssumption
    <2>2. FieldOf[x] = FieldOf[k]
      BY <1>2, <2>1 DEF NamesDiffer
    <2> QED BY <2>1, <2>2 DEF Fields
  <1> HIDE DEF Replaced
  <1> QED BY <1>2 DEF Disconnected

(* The count, the fetch and the prehooks.                                   *)
LEMMA NotesSteps ==
  ASSUME FormerInv, UndoInv', NamesDiffer, NEW r \in Requests,
         Counts(r) \/ Fetches(r) \/ Hooks(r)
  PROVE  LinkInv' /\ Mutates(r) /\ PartnersRight(r)'
  <1>1. LinkInv' /\ Mutates(r) /\ ~Recorded(r)'
    BY CountsLinks, FetchesLinks, HooksLinks DEF FormerInv
  <1>2. /\ Sole(r)' <=> Sole(r)
        /\ req'[r].p = req[r].p /\ req'[r].op = req[r].op
        /\ req'[r].connects = req[r].connects
        /\ \A k \in Kids : IsList(k)' <=> IsList(k)
        /\ ref[req[r].p] \subseteq Kids
    BY <1>1, FormerView, LinkTypes DEF FormerInv
  <1>3. CASE Counts(r)
    BY <1>1, <1>3, CountsLinks DEF FormerInv, PartnersRight, NotesFormer, TakesAll, LeavesNone
  <1>4. CASE Fetches(r)
    <2> SUFFICES ASSUME req'[r].at \in {"hook", "save"}, NEW k \in ref'[req[r].p], ~IsList(k)',
                        \E x \in req[r].connects : FieldOf[x] = FieldOf[k] /\ x # k
                 PROVE  k \in req'[r].former
      BY <1>1, <1>2 DEF PartnersRight, NotesFormer, TakesAll, LeavesNone
    <2>1. req'[r].former = Disconnected(Replaced(r)) /\ ref' = ref
      BY <1>4, FetchesLinks DEF FormerInv
    <2>2. k \in Replaced(r)
      BY <1>2, <2>1 DEF Replaced
    <2> QED BY <2>1, <2>2, ReplacedAreNoted
  <1>5. CASE Hooks(r)
    <2>1. req[r].at = "hook" /\ req'[r].former = req[r].former /\ ref' = ref
      BY <1>5, HooksLinks DEF FormerInv
    <2>2. NotesFormer(r)
      BY DEF FormerInv, PartnersRight
    <2> SUFFICES ASSUME req[r].op = "update", Sole(r), NEW k \in ref[req[r].p], ~IsList(k)',
                        \E x \in req[r].connects : FieldOf[x] = FieldOf[k] /\ x # k
                 PROVE  k \in req[r].former
      BY <1>1, <1>2, <2>1 DEF PartnersRight, NotesFormer, TakesAll, LeavesNone
    <2> QED BY <1>2, <2>1, <2>2 DEF NotesFormer
  <1> QED BY <1>1, <1>3, <1>4, <1>5

(* Nobody else can have added the only mutation's record or its references. *)
LEMMA SavesFormer ==
  ASSUME FormerInv, NEW r \in Requests, req[r].at = "save", Sole(r),
         NEW k \in Kids, ~IsList(k), OfField(req[r].news, FieldOf[k]) = {},
         req[r].p \in back[k]
  PROVE  k \in Written(r) \/ k \in req[r].former
  <1>1. /\ req[r] \in Request /\ req[r].p \in Parents /\ NotesRight(r) /\ NotesFormer(r)
        /\ req[r].op # "none" /\ req[r].adding \subseteq Kids
    BY LinkTypes DEF FormerInv, LinkInv, PartnersRight, UndoInv, RequestRight, NotedRight
  <1>2. Unsaved(req[r].p)
    BY DEF Unsaved, Sole
  <1>3. k \in ref[req[r].p]
    BY <1>1, <1>2 DEF FormerInv, BackHasRef
  <1>4. req[r].op # "add"
    <2>1. Made(req[r].p)
      BY <1>1, <1>3, ReferencesAreMade DEF FormerInv, LinkInv, OfLive
    <2> QED BY <2>1 DEF Made
  <1>5. req[r].op = "update"
    BY <1>1, <1>4 DEF Request
  <1>6. CASE OfField(req[r].adding, FieldOf[k]) = {}
    BY <1>3, <1>5, <1>6 DEF Written
  <1>7. CASE \E x \in OfField(req[r].adding, FieldOf[k]) : x # k
    <2>1. PICK x \in req[r].adding : FieldOf[x] = FieldOf[k] /\ x # k
      BY <1>7 DEF OfField
    <2>2. x \in req[r].connects
      BY <1>1, <2>1 DEF NotesRight, Related, OfField
    <2> QED BY <1>3, <1>5, <1>1, <2>1, <2>2 DEF NotesFormer
  <1>8. CASE k \in OfField(req[r].adding, FieldOf[k])
    BY <1>8 DEF OfField, Written
  <1> QED BY <1>6, <1>7, <1>8

(* The save of the record.                                                  *)
LEMMA SavesRecordFormer ==
  ASSUME FormerInv, UndoInv', NEW r \in Requests, SavesRecord(r)
  PROVE  LinkInv' /\ Mutates(r) /\ PartnersRight(r)'
  <1>1. /\ LinkInv' /\ Mutates(r)
        /\ \/ ~Counted(r)'
           \/ /\ Puts(r) /\ req'[r].at = "link"
              /\ req'[r].adding = req[r].adding /\ req'[r].former = req[r].former
    BY SavesRecordLinks DEF FormerInv
  <1>2. CASE ~Counted(r)'
    BY <1>1, <1>2, UncountedFormer
  <1>3. CASE /\ Puts(r) /\ req'[r].at = "link"
             /\ req'[r].adding = req[r].adding /\ req'[r].former = req[r].former
    <2>1. /\ Sole(r)' <=> Sole(r)
          /\ req'[r].p = req[r].p /\ req'[r].news = req[r].news
          /\ \A k \in Kids : IsList(k)' <=> IsList(k)
          /\ req[r].p \in Parents /\ ref \in [Parents -> SUBSET Kids] /\ back' = back
      BY <1>1, FormerView, LinkTypes DEF FormerInv, Mutates
    <2>2. ref'[req[r].p] = Written(r) /\ req[r].at = "save"
      BY <1>3, <2>1 DEF Puts
    <2>3. NotesFormer(r)'
      BY <1>3 DEF NotesFormer
    <2>4. TakesAll(r)'
      BY <1>3, <2>1, <2>2 DEF TakesAll, Written
    <2>5. LeavesNone(r)'
      <3> SUFFICES ASSUME Sole(r), NEW k \in Kids, ~IsList(k),
                          OfField(req[r].news, FieldOf[k]) = {}, req[r].p \in back[k]
                   PROVE  k \in Written(r) \/ k \in req[r].former
        BY <1>3, <2>1, <2>2 DEF LeavesNone, ToBeCut, OfField
      <3> QED BY <2>2, SavesFormer
    <2> QED BY <1>1, <2>3, <2>4, <2>5 DEF PartnersRight
  <1> QED BY <1>1, <1>2, <1>3

(* Each former partner is sent the call that cuts it off.                   *)
LEMMA CutJob ==
  ASSUME NEW r, NEW S, NEW x \in S
  PROVE  \E j \in JobsFor(r, "cut", S) : j.kind = "cut" /\ j.req = r /\ j.on = x
  <1>1. NewJob(r, "cut", x) \in JobsFor(r, "cut", S)
    BY DEF JobsFor
  <1>2. /\ NewJob(r, "cut", x).req = r /\ NewJob(r, "cut", x).kind = "cut"
        /\ NewJob(r, "cut", x).on = x
    BY DEF NewJob
  <1> QED BY <1>1, <1>2

(* The answer.                                                              *)
LEMMA AnswersFormer ==
  ASSUME FormerInv, UndoInv', NEW r \in Requests, Answers(r)
  PROVE  LinkInv' /\ Mutates(r) /\ PartnersRight(r)'
  <1>1. /\ LinkInv' /\ Mutates(r) /\ req[r].at = "link" /\ ref' = ref
        /\ req'[r].at = "done" /\ req'[r].adding = req[r].adding
    BY AnswersLinks DEF FormerInv
  <1>2. /\ Sole(r)' <=> Sole(r)
        /\ req'[r].p = req[r].p /\ req'[r].news = req[r].news
        /\ \A k \in Kids : IsList(k)' <=> IsList(k)
        /\ back' = back /\ TakesAll(r) /\ LeavesNone(r)
    BY <1>1, FormerView DEF FormerInv, Mutates, PartnersRight
  <1>3. \A k \in req[r].former : CutOf(r, k)'
    BY CutJob DEF Answers, CutOf
  <1>4. NotesFormer(r)'
    BY <1>1 DEF NotesFormer
  <1>5. TakesAll(r)'
    BY <1>1, <1>2 DEF TakesAll, Recorded
  <1>6. LeavesNone(r)'
    <2> SUFFICES ASSUME Sole(r), NEW k \in Kids, ~IsList(k),
                        OfField(req[r].news, FieldOf[k]) = {}, req[r].p \in back[k]
                 PROVE  k \in ref[req[r].p] \/ CutOf(r, k)'
      BY <1>1, <1>2 DEF LeavesNone, ToBeCut, OfField
    <2> QED BY <1>1, <1>2, <1>3 DEF LeavesNone, ToBeCut, Recorded
  <1> QED BY <1>1, <1>4, <1>5, <1>6 DEF PartnersRight

(* A step of a mutation keeps the invariant.                                *)
LEMMA ResolverFormer ==
  ASSUME FormerInv, UndoInv', NamesDiffer, NEW r \in Requests,
         Resolver(r) \/ (\E f \in Fields : Invalid(r, f))
            \/ HookRejects(r) \/ ReadFails(r) \/ RecordFails(r)
  PROVE  FormerInv'
  <1>1. blurred \subseteq blurred'
    BY BlurredStays
  <1>2. CASE \/ (\E f \in Fields : Validates(r, f) \/ Invalid(r, f))
             \/ Processes(r) \/ GivesUp(r)
             \/ HookRejects(r) \/ ReadFails(r) \/ RecordFails(r)
    <2>1. LinkInv' /\ Mutates(r) /\ ~Counted(r)'
      BY <1>2, ValidatesLinks, InvalidLinks, ProcessesLinks, FailuresLink, RecordFailsLinks
         DEF FormerInv
    <2> QED BY <1>1, <2>1, UncountedFormer, MutationFormer
  <1>3. CASE Counts(r) \/ Fetches(r) \/ Hooks(r)
    BY <1>1, <1>3, NotesSteps, MutationFormer
  <1>4. CASE SavesRecord(r)
    BY <1>1, <1>4, SavesRecordFormer, MutationFormer
  <1>5. CASE Answers(r)
    BY <1>1, <1>5, AnswersFormer, MutationFormer
  <1> QED BY <1>2, <1>3, <1>4, <1>5 DEF Resolver

-----------------------------------------------------------------------------
(* Former partners: the calls in flight. *)

(* A call keeps the invariant if only failed mutations lose references,     *)
(* those that are written belong to the mutation that noted them, and no    *)
(* cut is forgotten.                                                        *)
LEMMA CallFormer ==
  ASSUME FormerInv, LinkInv', SameRequests, schema' = schema, blurred \subseteq blurred',
         \A p \in Parents :
            \/ ref'[p] = ref[p]
            \/ \E q \in Requests : Names(q, p) /\ req[q].at = "done" /\ req[q].answer = "error",
         \A p \in Parents, k \in Kids :
            p \in back'[k] => \/ p \in back[k]
                              \/ \E q \in Requests : /\ Names(q, p) /\ k \in req[q].adding
                                                     /\ req[q].at \in {"link", "done"},
         \A r \in Requests, k \in Kids :
            CutOf(r, k) => CutOf(r, k)' \/ r \in blurred' \/ req[r].p \notin back'[k]
  PROVE  FormerInv'
  <1>1. \A q \in Requests : req[q].p \in Parents
    BY LinkTypes DEF FormerInv
  <1>2. \A k \in Kids : IsList(k)' <=> IsList(k)
    BY DEF IsList
  <1>3. BackHasRef'
    <2> SUFFICES ASSUME NEW p \in Parents, NEW k \in Kids, Unsaved(p)', p \in back'[k]
                 PROVE  k \in ref'[p]
      BY DEF BackHasRef
    <2>1. \A q \in Requests : Names(q, p) => req[q].at \notin {"link", "done"}
      BY DEF Unsaved, Names, SameRequests
    <2>2. ref'[p] = ref[p] /\ p \in back[k]
      BY <2>1
    <2> QED BY <2>1, <2>2 DEF FormerInv, BackHasRef, Unsaved
  <1>4. ASSUME NEW r \in Requests
        PROVE  PartnersRight(r)'
    <2>1. /\ NotesFormer(r) /\ TakesAll(r) /\ LeavesNone(r)
          /\ req'[r].at = req[r].at /\ req'[r].p = req[r].p /\ req'[r].op = req[r].op
          /\ req'[r].news = req[r].news /\ req'[r].connects = req[r].connects
          /\ req'[r].adding = req[r].adding /\ req'[r].former = req[r].former
          /\ req'[r].answer = req[r].answer
      BY DEF FormerInv, PartnersRight, SameRequests
    <2>2. Sole(r)' <=> Sole(r)
      BY DEF Sole, Names, SameRequests
    <2>3. ASSUME Sole(r), NEW q \in Requests, Names(q, req[r].p)
          PROVE  q = r
      BY <2>3 DEF Sole
    <2>4. ASSUME Sole(r), ~(req[r].at = "done" /\ req[r].answer = "error")
          PROVE  ref'[req[r].p] = ref[req[r].p]
      BY <1>1, <2>3, <2>4
    <2>5. Recorded(r) => ~(req[r].at = "done" /\ req[r].answer = "error")
      BY DEF Recorded
    <2>6. NotesFormer(r)'
      <3> SUFFICES ASSUME req[r].at \in {"hook", "save"}, req[r].op = "update", Sole(r),
                          NEW k \in ref[req[r].p], ~IsList(k)',
                          \E x \in req[r].connects : FieldOf[x] = FieldOf[k] /\ x # k
                   PROVE  k \in req[r].former
        BY <2>1, <2>2, <2>4 DEF NotesFormer
      <3>1. k \in Kids
        BY <1>1, LinkTypes DEF FormerInv
      <3> QED BY <1>2, <2>1, <3>1 DEF NotesFormer
    <2>7. TakesAll(r)'
      BY <2>1, <2>2, <2>4, <2>5 DEF TakesAll, Recorded
    <2>8. LeavesNone(r)'
      <3> SUFFICES ASSUME Recorded(r), Sole(r), NEW k \in Kids, ~IsList(k),
                          OfField(req[r].news, FieldOf[k]) = {}, req[r].p \in back'[k]
                   PROVE  k \in ref[req[r].p] \/ ToBeCut(r, k)'
        BY <1>2, <2>1, <2>2, <2>4, <2>5 DEF LeavesNone, Recorded, OfField
      <3>1. CASE req[r].p \in back[k]
        <4>1. k \in ref[req[r].p] \/ ToBeCut(r, k)
          BY <2>1, <3>1 DEF LeavesNone
        <4>2. CutOf(r, k) => CutOf(r, k)' \/ r \in blurred'
          OBVIOUS
        <4> QED BY <2>1, <4>1, <4>2 DEF ToBeCut
      <3>2. CASE req[r].p \notin back[k]
        <4>1. k \in req[r].adding
          BY <1>1, <2>3, <3>2
        <4> QED BY <2>1, <4>1 DEF TakesAll
      <3> QED BY <3>1, <3>2
    <2> QED BY <2>6, <2>7, <2>8 DEF PartnersRight
  <1> QED BY <1>3, <1>4 DEF FormerInv

(* The save of a related record.                                            *)
LEMMA SavesCallFormer ==
  ASSUME FormerInv, UndoInv', NEW j \in jobs, Saves(j) \/ SaveFails(j)
  PROVE  FormerInv'
  <1>1. LinkInv' /\ SameRequests
    BY SavesLinks DEF FormerInv
  <1>2. /\ UNCHANGED <<schema, ref, back>> /\ blurred \subseteq blurred'
        /\ j.kind = "save" /\ jobs' = jobs \ {j}
    BY DEF Saves, SaveFails
  <1>3. \A r \in Requests, k \in Kids : CutOf(r, k) => CutOf(r, k)'
    BY <1>2 DEF CutOf
  <1> HIDE DEF CutOf
  <1> QED BY <1>1, <1>2, <1>3, CallFormer

(* A reference back is written by the mutation that has taken the kid.      *)
LEMMA LinkCallsFormer ==
  ASSUME FormerInv, UndoInv', NEW j \in jobs, LinkFinds(j) \/ LinkWrites(j) \/ LinkFails(j)
  PROVE  FormerInv'
  <1>1. LinkInv' /\ SameRequests /\ jobs \ {j} \subseteq jobs'
    BY LinkCallsLink DEF FormerInv
  <1>2. /\ UNCHANGED <<schema, ref, blurred>> /\ j.kind = "link"
        /\ back' = back \/ back' = [back EXCEPT ![j.on] = Linked(j.on, req[j.req].p)]
    <2>1. LinkWrites(j) => back' = back \/ back' = [back EXCEPT ![j.on] = Linked(j.on, req[j.req].p)]
      BY LinkTypes DEF LinkWrites, FormerInv
    <2> QED BY <2>1 DEF LinkFinds, LinkWrites, LinkFails, db
  <1>3. \A r \in Requests, k \in Kids : CutOf(r, k) => CutOf(r, k)'
    BY <1>1, <1>2 DEF CutOf
  <1>4. ASSUME NEW p \in Parents, NEW k \in Kids, p \in back'[k], p \notin back[k]
        PROVE  \E q \in Requests : /\ Names(q, p) /\ k \in req[q].adding
                                   /\ req[q].at \in {"link", "done"}
    <2>1. /\ j.req \in Requests /\ j.on \in req[j.req].adding
          /\ req[j.req].at \in {"link", "done"}
      BY <1>2, CallView DEF FormerInv
    <2>2. req[j.req].op # "none"
      BY <2>1 DEF FormerInv, LinkInv, UndoInv, RequestRight, NotedRight
    <2>3. k = j.on /\ p \in Linked(j.on, req[j.req].p)
      BY <1>2, <1>4, LinkTypes DEF FormerInv
    <2>4. p = req[j.req].p
      BY <1>4, <2>3 DEF Linked
    <2> QED BY <2>1, <2>2, <2>3, <2>4 DEF Names
  <1> HIDE DEF CutOf, Names
  <1> QED BY <1>1, <1>2, <1>3, <1>4, CallFormer

(* A cut takes the parent's reference from the former partner, a roll-back  *)
(* takes the references of what a failed mutation has made.                 *)
LEMMA LooseFormer ==
  ASSUME FormerInv, UndoInv', NEW j \in jobs, Cuts(j) \/ Undoes(j) \/ LooseFails(j)
  PROVE  FormerInv'
  <1>1. /\ LinkInv' /\ UNCHANGED <<req, schema>> /\ jobs' = jobs \ {j}
        /\ blurred \subseteq blurred'
    BY LooseLinks DEF FormerInv, Cuts, Undoes, LooseFails
  <1>2. SameRequests
    BY <1>1 DEF SameRequests
  <1>3. /\ j.req \in Requests /\ ref \in [Parents -> SUBSET Kids]
        /\ back \in [Kids -> SUBSET Parents]
    BY CallView, LinkTypes DEF FormerInv
  <1>4. ASSUME NEW r \in Requests, NEW k \in Kids, CutOf(r, k)
        PROVE  CutOf(r, k)' \/ (j.kind = "cut" /\ j.req = r /\ j.on = k)
    BY <1>1, <1>4 DEF CutOf
  <1>5. CASE LooseFails(j)
    <2>1. UNCHANGED <<ref, back>> /\ j.req \in blurred'
      BY <1>5 DEF LooseFails, db
    <2> HIDE DEF CutOf, Names
    <2> QED BY <1>1, <1>2, <1>4, <2>1, CallFormer
  <1>6. CASE Cuts(j)
    <2>1. /\ ref' = ref /\ j.kind = "cut"
          /\ back' = [back EXCEPT ![j.on] = Cut(j.on, req[j.req].p)]
      BY <1>6 DEF Cuts
    <2>2. j.on \in Kids
      BY <2>1, CallView DEF FormerInv
    <2>3. req[j.req].p \notin back'[j.on]
      BY <1>3, <2>1, <2>2 DEF Cut
    <2>4. \A p \in Parents, k \in Kids : p \in back'[k] => p \in back[k]
      BY <1>3, <2>1 DEF Cut
    <2> HIDE DEF CutOf, Names
    <2> QED BY <1>1, <1>2, <1>4, <2>1, <2>3, <2>4, CallFormer
  <1>7. CASE Undoes(j)
    <2>1. /\ ref' = [p \in Parents |-> IF p = j.on THEN {} ELSE ref[p]]
          /\ back' = [k \in Kids |-> IF k = j.on THEN {} ELSE back[k]]
          /\ j.kind = "undo"
      BY <1>7 DEF Undoes
    <2>2. /\ j.on \in Makes(j.req)
          /\ req[j.req].at = "done" /\ req[j.req].answer = "error"
      BY <2>1, CallView DEF FormerInv
    <2>3. \A p \in Parents :
             \/ ref'[p] = ref[p]
             \/ \E q \in Requests : /\ Names(q, p)
                                    /\ req[q].at = "done" /\ req[q].answer = "error"
      <3>1. ASSUME j.on \in Parents
            PROVE  Names(j.req, j.on)
        <4>1. req[j.req].news \subseteq Kids
          BY <1>3, LinkTypes DEF FormerInv, Request
        <4> QED BY <2>2, <3>1, <4>1, DocsAssumption DEF Makes, Names
      <3> QED BY <1>3, <2>1, <2>2, <3>1
    <2>4. \A p \in Parents, k \in Kids : p \in back'[k] => p \in back[k]
      BY <1>3, <2>1
    <2>5. \A r \in Requests, k \in Kids : CutOf(r, k) => CutOf(r, k)'
      BY <1>4, <2>1
    <2> HIDE DEF CutOf, Names
    <2> QED BY <1>1, <1>2, <2>3, <2>4, <2>5, CallFormer
  <1> QED BY <1>5, <1>6, <1>7

(* Another client's deletion takes only a kid's references.                 *)
LEMMA VanishesFormer ==
  ASSUME FormerInv, UndoInv', NEW v \in Kids, Vanishes(v)
  PROVE  FormerInv'
  <1>1. /\ LinkInv' /\ UNCHANGED <<req, schema, jobs, ref, blurred>>
        /\ back' = [back EXCEPT ![v] = {}]
    BY VanishesLinks DEF FormerInv, Vanishes
  <1>2. SameRequests
    BY <1>1 DEF SameRequests
  <1>3. \A p \in Parents, k \in Kids : p \in back'[k] => p \in back[k]
    BY <1>1, LinkTypes DEF FormerInv
  <1>4. \A r \in Requests, k \in Kids : CutOf(r, k) => CutOf(r, k)'
    BY <1>1 DEF CutOf
  <1> HIDE DEF CutOf, Names
  <1> QED BY <1>1, <1>2, <1>3, <1>4, CallFormer

-----------------------------------------------------------------------------
(* A mutation begins: those that are on their way do not become the only    *)
(* ones that name their record.                                             *)
LEMMA SubmitFormer ==
  ASSUME FormerInv, UndoInv', NEW r \in Requests, Submit(r)
  PROVE  FormerInv'
  <1>1. /\ LinkInv' /\ req[r].at = "idle" /\ UNCHANGED <<schema, ref, back, jobs, blurred>>
        /\ req \in [Requests -> Request] /\ req[r] \in Request
    BY SubmitLinks, LinkTypes DEF FormerInv, Submit, db
  <1>2. req[r].op = "none" /\ req[r].answer # "ok"
    BY <1>1 DEF FormerInv, LinkInv, Begun, NotesRight
  <1>3. /\ \A q \in Requests \ {r} : req'[q] = req[q]
        /\ req'[r].at = "create" /\ req'[r].answer = req[r].answer
    <2>1. PICK op \in {"add", "update"}, p \in Parents, N \in SUBSET (Kids \ Used),
               K \in SUBSET (Kids \cap (Existing \cup live)) :
             /\ (op = "update") <=> (p \in Used)
             /\ Cardinality(N \cup K) \in 1 .. MaxInput
             /\ \A f \in Fields : AtMostOne(N, f) /\ AtMostOne(K, f)
             /\ req' = [req EXCEPT ![r].op = op, ![r].p = p, ![r].news = N,
                           ![r].connects = K, ![r].at = "create",
                           ![r].todo = {FieldOf[k] : k \in N}]
      BY Zenon DEF Submit
    <2> DEFINE T == {FieldOf[k] : k \in N}
    <2> HIDE DEF T
    <2> DEFINE x == [req[r] EXCEPT !.op = op, !.p = p, !.news = N, !.connects = K,
                                   !.at = "create", !.todo = T]
    <2>2. x.at = "create" /\ x.answer = req[r].answer
      BY <1>1 DEF Request
    <2>3. req' = [req EXCEPT ![r] = x]
      BY <2>1 DEF T
    <2> HIDE DEF x
    <2> QED BY <1>1, <2>2, <2>3
  <1>4. \A p \in Parents : Unsaved(p)' => Unsaved(p)
    BY <1>2, <1>3 DEF Unsaved, Names
  <1>5. BackHasRef'
    BY <1>1, <1>4 DEF BackHasRef, FormerInv
  <1>6. PartnersRight(r)'
    <2>1. ~Counted(r)'
      BY <1>2, <1>3 DEF Counted
    <2> QED BY <2>1, UncountedFormer
  <1>7. ASSUME NEW q \in Requests \ {r}
        PROVE  PartnersRight(q)'
    <2>1. /\ NotesFormer(q) /\ TakesAll(q) /\ LeavesNone(q) /\ req'[q] = req[q]
      BY <1>3 DEF FormerInv, PartnersRight
    <2>2. Sole(q)' => Sole(q)
      BY <1>2, <1>3 DEF Sole, Names
    <2> HIDE DEF Sole
    <2>3. NotesFormer(q)'
      BY <1>1, <2>1, <2>2 DEF NotesFormer, IsList
    <2>4. TakesAll(q)'
      BY <1>1, <2>1, <2>2 DEF TakesAll, Recorded
    <2>5. LeavesNone(q)'
      BY <1>1, <2>1, <2>2 DEF LeavesNone, Recorded, IsList, ToBeCut, CutOf
    <2> QED BY <2>3, <2>4, <2>5 DEF PartnersRight
  <1> QED BY <1>1, <1>5, <1>6, <1>7 DEF FormerInv

(* At the beginning every reference is at both ends.                        *)
LEMMA InitFormer == Init => FormerInv
  <1> SUFFICES ASSUME Init
               PROVE  FormerInv
    OBVIOUS
  <1>1. LinkInv
    BY InitLinks
  <1>2. \A r \in Requests : req[r].at = "idle" /\ req[r].answer = "none"
    <2> DEFINE q == [op |-> "none", p |-> CHOOSE p \in Parents : TRUE, news |-> {},
                     connects |-> {}, at |-> "idle", todo |-> {}, broken |-> {},
                     saved |-> {}, adding |-> {}, former |-> {}, failed |-> FALSE,
                     answer |-> "none", brokeAt |-> "none"]
    <2>1. req = [r \in Requests |-> q]
      BY Zenon DEF Init
    <2>2. q.at = "idle" /\ q.answer = "none"
      OBVIOUS
    <2> HIDE DEF q
    <2> QED BY <2>1, <2>2
  <1>3. \A r \in Requests : PartnersRight(r)
    BY <1>2 DEF PartnersRight, NotesFormer, TakesAll, LeavesNone, Recorded
  <1>4. PICK rel \in SUBSET ((Parents \cap Existing) \X (Kids \cap Existing)) :
           /\ ref = [p \in Parents |-> {k \in Kids : <<p, k>> \in rel}]
           /\ back = [k \in Kids |-> {p \in Parents : <<p, k>> \in rel}]
    BY Zenon DEF Init
  <1>5. BackHasRef
    BY <1>4 DEF BackHasRef
  <1> QED BY <1>1, <1>3, <1>5 DEF FormerInv

(* Every step keeps the invariant.                                          *)
LEMMA FormerStep ==
  ASSUME FormerInv, [Next]_vars, NamesDiffer
  PROVE  FormerInv'
  <1>1. UndoInv'
    BY UndoStep DEF FormerInv, LinkInv
  <1>2. ASSUME NEW j \in jobs, Database(j)
        PROVE  FormerInv'
    BY <1>1, <1>2, SavesCallFormer, LinkCallsFormer, LooseFormer DEF Database
  <1>3. CASE Failure
    BY <1>1, <1>3, ResolverFormer, SavesCallFormer, LinkCallsFormer, LooseFormer DEF Failure
  <1>4. CASE UNCHANGED vars
    <2>1. LinkInv'
      BY LinkStep DEF FormerInv
    <2>2. BackHasRef'
      BY <1>4 DEF vars, FormerInv, BackHasRef, Unsaved, Names
    <2>3. \A r \in Requests : PartnersRight(r)'
      BY <1>4 DEF vars, FormerInv, PartnersRight, NotesFormer, TakesAll, LeavesNone, Recorded,
                  IsList, ToBeCut, CutOf, Sole, Names, OfField
    <2> QED BY <2>1, <2>2, <2>3 DEF FormerInv
  <1> QED BY <1>1, <1>2, <1>3, <1>4, ResolverFormer, SubmitFormer, VanishesFormer
          DEF Next, Idle

(* When an update without an error is over, no single partner that it       *)
(* replaced refers back to the record, however many mutations, rejected     *)
(* operations and deletions there are, if no other mutation names the       *)
(* record, no cut was rejected, the new partner was no nested record and    *)
(* the fields that refer back have names of their own.                      *)
THEOREM FormerPartnersAreFree ==
  ASSUME NamesDiffer
  PROVE  Spec => []FormerIsFree
  <1>1. FormerInv => FormerIsFree
    <2> SUFFICES ASSUME FormerInv, NEW r \in Requests, req[r].answer = "ok", ~Running(r),
                        r \notin blurred, Sole(r), NEW k \in Kids, ~IsList(k),
                        req[r].p \in back[k], OfField(req[r].news, FieldOf[k]) = {}
                 PROVE  k \in ref[req[r].p]
      BY DEF FormerIsFree, Sole
    <2>1. LeavesNone(r) /\ NotesRight(r)
      BY DEF FormerInv, PartnersRight, LinkInv
    <2>2. ~ToBeCut(r, k)
      BY <2>1 DEF ToBeCut, CutOf, Running, NotesRight
    <2> QED BY <2>1, <2>2 DEF LeavesNone, Recorded
  <1>2. FormerInv /\ [Next]_vars => FormerInv'
    BY FormerStep
  <1> QED BY <1>1, <1>2, InitFormer, PTL DEF Spec
=============================================================================
