--------------------------- MODULE RelationProofs ---------------------------
(***************************************************************************)
(* Theorems about RelationMutations for every set of documents and         *)
(* requests, every kind of relation, every number of overlapping           *)
(* mutations and of rejected operations, with and without Model.update;    *)
(* then, for mutations that do not overlap, that they implement            *)
(* RelationContract.                                                       *)
(***************************************************************************)
EXTENDS RelationRefinement, FiniteSetTheorems, TLAPS

-----------------------------------------------------------------------------
(* Lemmas about the operators. *)

(* The updates of a request change its place, its answer or its mark only.  *)
LEMMA GoesEffect ==
  ASSUME NEW r \in Requests, NEW place \in {"check", "oldA", "oldB", "await"},
         req \in [Requests -> Request], Goes(r, place)
  PROVE  /\ req' \in [Requests -> Request]
         /\ \A q \in Requests :
               /\ req'[q].op = req[q].op /\ req'[q].a = req[q].a /\ req'[q].b = req[q].b
               /\ req'[q].at = IF q = r THEN place ELSE req[q].at
               /\ req'[q].failed = req[q].failed /\ req'[q].answer = req[q].answer
  BY DEF Goes, Request

LEMMA EndsEffect ==
  ASSUME NEW r \in Requests, NEW ans \in {"ok", "error"},
         req \in [Requests -> Request], Ends(r, ans)
  PROVE  /\ req' \in [Requests -> Request]
         /\ \A q \in Requests :
               /\ req'[q].op = req[q].op /\ req'[q].a = req[q].a /\ req'[q].b = req[q].b
               /\ req'[q].at = IF q = r THEN "done" ELSE req[q].at
               /\ req'[q].failed = req[q].failed
               /\ req'[q].answer = IF q = r THEN ans ELSE req[q].answer
  BY DEF Ends, Request

LEMMA RejectEffect ==
  ASSUME NEW j \in jobs, jobs \subseteq Job, req \in [Requests -> Request], Reject(j)
  PROVE  /\ req' \in [Requests -> Request]
         /\ jobs' = jobs \ {j}
         /\ \A q \in Requests :
               /\ req'[q].op = req[q].op /\ req'[q].a = req[q].a /\ req'[q].b = req[q].b
               /\ req'[q].at = req[q].at
               /\ req'[q].failed = IF q = j.req THEN TRUE ELSE req[q].failed
               /\ req'[q].answer = req[q].answer
  <1>1. j.req \in Requests
    BY DEF Job
  <1> QED BY <1>1 DEF Reject, Request

LEMMA SubmitEffect ==
  ASSUME NEW r \in Requests, req \in [Requests -> Request],
         NEW op \in {"add", "remove", "delete"}, NEW a \in Docs, NEW b \in Docs,
         req' = [req EXCEPT ![r] = [op |-> op, a |-> a, b |-> b, at |-> "check",
                                    failed |-> FALSE, answer |-> "none"]]
  PROVE  /\ req' \in [Requests -> Request]
         /\ req'[r].op = op /\ req'[r].a = a /\ req'[r].b = b /\ req'[r].at = "check"
         /\ req'[r].failed = FALSE /\ req'[r].answer = "none"
         /\ \A q \in Requests \ {r} : req'[q] = req[q]
  BY DEF Request

(* New operations have their type, and their parts. *)
LEMMA JobIntro ==
  ASSUME NEW r \in Requests, NEW d \in Docs, NEW x \in Docs
  PROVE  Link(r, d, x) \in Job /\ Unlink(r, d, x) \in Job
  BY DEF Link, Unlink, Job

(* A link adds at most the reference it is for; an unlink adds nothing.     *)
LEMMA LinkedEffect ==
  ASSUME NEW j \in Job, ref \in [Docs -> [Docs -> Nat]]
  PROVE  /\ Linked(j) \in [Docs -> Nat]
         /\ \A x \in Docs \ {j.to} : Linked(j)[x] > 0 => Holds(j.on, x)
         /\ IsList(j.on) => \A x \in Docs : Holds(j.on, x) => Linked(j)[x] > 0
         /\ j.at # "present" => Linked(j)[j.to] > 0
         /\ j.at = "present" => Linked(j) = ref[j.on]
  <1>1. j.on \in Docs /\ j.to \in Docs /\ ref[j.on] \in [Docs -> Nat]
    BY DEF Job
  <1>2. NoRef \in [Docs -> Nat] /\ \A x \in Docs : NoRef[x] = 0
    BY DEF NoRef
  <1>3. CASE j.at = "present"
    <2>1. Linked(j) = ref[j.on]
      BY <1>3, Zenon DEF Linked
    <2> QED BY <1>1, <1>3, <2>1 DEF Holds
  <1>4. CASE j.at # "present" /\ IsList(j.on)
    <2>1. Linked(j) = [ref[j.on] EXCEPT ![j.to] = ref[j.on][j.to] + 1]
      BY <1>4, Zenon DEF Linked
    <2> HIDE DEF Linked
    <2> QED BY <1>1, <1>4, <2>1 DEF Holds
  <1>5. CASE j.at # "present" /\ ~IsList(j.on)
    <2>1. Linked(j) = [NoRef EXCEPT ![j.to] = 1]
      BY <1>5, Zenon DEF Linked
    <2> QED BY <1>1, <1>2, <1>5, <2>1
  <1> QED BY <1>3, <1>4, <1>5

LEMMA UnlinkedEffect ==
  ASSUME NEW j \in Job, ref \in [Docs -> [Docs -> Nat]]
  PROVE  /\ Unlinked(j) \in [Docs -> Nat]
         /\ Unlinked(j)[j.to] = 0
         /\ \A x \in Docs : Unlinked(j)[x] > 0 => Holds(j.on, x)
         /\ IsList(j.on) =>
               \A x \in Docs \ {j.to} : Holds(j.on, x) => Unlinked(j)[x] > 0
  <1>1. j.on \in Docs /\ j.to \in Docs /\ ref[j.on] \in [Docs -> Nat]
    BY DEF Job
  <1>2. NoRef \in [Docs -> Nat] /\ \A x \in Docs : NoRef[x] = 0
    BY DEF NoRef
  <1>3. CASE IsList(j.on)
    <2>1. Unlinked(j) = [ref[j.on] EXCEPT ![j.to] = 0]
      BY <1>3, Zenon DEF Unlinked
    <2> QED BY <1>1, <2>1 DEF Holds
  <1>4. CASE ~IsList(j.on)
    <2>1. Unlinked(j) = NoRef
      BY <1>4, Zenon DEF Unlinked
    <2> QED BY <1>1, <1>2, <1>4, <2>1
  <1> QED BY <1>3, <1>4

LEMMA FaultEffect ==
  ASSUME faults \in 0 .. MaxFaults, Fault
  PROVE  faults' \in 0 .. MaxFaults
  BY BoundsAssumption DEF Fault

-----------------------------------------------------------------------------
(* Types. *)

(* TypeOK without the history. *)
DataOK ==
    /\ schema \in Schemas
    /\ live \subseteq Docs
    /\ ref \in [Docs -> [Docs -> Nat]]
    /\ req \in [Requests -> Request]
    /\ jobs \subseteq Job
    /\ faults \in 0 .. MaxFaults

LEMMA InitDataOK == Init => TypeOK
  <1> SUFFICES ASSUME Init PROVE TypeOK
    OBVIOUS
  <1>1. schema \in Schemas /\ live = Docs /\ jobs = {} /\ faults = 0
    BY DEF Init
  <1>2. ref \in [Docs -> [Docs -> Nat]]
    BY DEF Init
  <1>3. (CHOOSE d \in Docs : TRUE) \in Docs
    BY SidesAssumption DEF Docs
  <1>4. req \in [Requests -> Request]
    BY <1>3 DEF Init, Request
  <1>5. settled \in [live : SUBSET Docs, rel : SUBSET (As \X Bs)]
    <2>1. settled = [live |-> live, rel |-> Pairs]
      BY DEF Init
    <2>2. Pairs \in SUBSET (As \X Bs)
      BY DEF Pairs
    <2> QED BY <1>1, <2>1, <2>2
  <1>6. 0 \in 0 .. MaxFaults
    BY BoundsAssumption
  <1> QED BY <1>1, <1>2, <1>4, <1>5, <1>6 DEF TypeOK

LEMMA ResolverDataOK ==
  ASSUME DataOK, NEW r \in Requests, Submit(r) \/ Resolver(r) \/ ReadFails(r)
  PROVE  DataOK'
  <1>1. /\ req[r].a \in Docs /\ req[r].b \in Docs
        /\ FarSide(r) \subseteq Job
    <2>1. req[r].a \in Docs /\ req[r].b \in Docs
      BY DEF DataOK, Request
    <2> QED BY <2>1, JobIntro DEF FarSide
  <1>2. AfterNearSide \in {"oldB", "await"}
    BY DEF AfterNearSide
  <1>3. \A d \in Docs : OldPartners(d) \subseteq Docs
    BY DEF OldPartners, DataOK
  <1>4. CASE Submit(r)
    <2>1. PICK op \in Ops, a \in Docs, b \in Bs :
             req' = [req EXCEPT ![r] = [op |-> op, a |-> a, b |-> b, at |-> "check",
                                        failed |-> FALSE, answer |-> "none"]]
      BY <1>4 DEF Submit
    <2>2. op \in {"add", "remove", "delete"} /\ b \in Docs
      BY OpsAssumption DEF Docs
    <2>3. req' \in [Requests -> Request]
      BY <2>1, <2>2, SubmitEffect DEF DataOK
    <2> QED BY <1>4, <2>3 DEF Submit, DataOK
  <1>5. CASE AddChecks(r)
    <2>1. req' \in [Requests -> Request]
      BY <1>2, <1>5, GoesEffect, EndsEffect DEF AddChecks, DataOK
    <2>2. jobs' \subseteq Job
      BY <1>1, <1>5, JobIntro DEF AddChecks, DataOK
    <2> QED BY <1>5, <2>1, <2>2 DEF AddChecks, DataOK
  <1>6. CASE FetchOldA(r)
    <2>1. req' \in [Requests -> Request]
      BY <1>2, <1>6, GoesEffect DEF FetchOldA, DataOK
    <2>2. jobs' \subseteq Job
      BY <1>1, <1>3, <1>6, JobIntro DEF FetchOldA, DataOK
    <2> QED BY <1>6, <2>1, <2>2 DEF FetchOldA, DataOK
  <1>7. CASE FetchOldB(r)
    <2>1. req' \in [Requests -> Request]
      BY <1>7, GoesEffect DEF FetchOldB, DataOK
    <2>2. jobs' \subseteq Job
      BY <1>1, <1>3, <1>7, JobIntro DEF FetchOldB, DataOK
    <2> QED BY <1>7, <2>1, <2>2 DEF FetchOldB, DataOK
  <1>8. CASE RemoveChecks(r)
    <2>1. req' \in [Requests -> Request]
      BY <1>8, GoesEffect, EndsEffect DEF RemoveChecks, DataOK
    <2>2. jobs' \subseteq Job
      BY <1>1, <1>8, JobIntro DEF RemoveChecks, DataOK
    <2> QED BY <1>8, <2>1, <2>2 DEF RemoveChecks, DataOK
  <1>9. CASE Deletes(r)
    <2>1. req' \in [Requests -> Request]
      BY <1>9, GoesEffect, EndsEffect DEF Deletes, DataOK
    <2>2. jobs' \subseteq Job
      BY <1>1, <1>9, JobIntro DEF Deletes, References, DataOK
    <2>3. NoRef \in [Docs -> Nat]
      BY DEF NoRef
    <2>4. live' \subseteq Docs /\ ref' \in [Docs -> [Docs -> Nat]]
      BY <1>1, <1>9, <2>3 DEF Deletes, DataOK
    <2> QED BY <1>9, <2>1, <2>2, <2>4 DEF Deletes, DataOK
  <1>10. CASE Answers(r)
    <2>1. req' \in [Requests -> Request]
      BY <1>10, EndsEffect DEF Answers, DataOK
    <2> QED BY <1>10, <2>1 DEF Answers, DataOK
  <1>11. CASE ReadFails(r)
    <2>1. req' \in [Requests -> Request]
      BY <1>11, EndsEffect DEF ReadFails, DataOK
    <2>2. faults' \in 0 .. MaxFaults
      BY <1>11, FaultEffect DEF ReadFails, DataOK
    <2> QED BY <1>11, <2>1, <2>2 DEF ReadFails, DataOK
  <1> QED BY <1>4, <1>5, <1>6, <1>7, <1>8, <1>9, <1>10, <1>11 DEF Resolver

LEMMA DatabaseDataOK ==
  ASSUME DataOK, NEW j \in jobs, Database(j) \/ JobFails(j)
  PROVE  DataOK'
  <1>1. j \in Job /\ j.on \in Docs
    BY DEF DataOK, Job
  <1>2. Linked(j) \in [Docs -> Nat] /\ Unlinked(j) \in [Docs -> Nat]
    BY <1>1, LinkedEffect, UnlinkedEffect DEF DataOK
  <1>3. ASSUME Finish(j) \/ Reject(j)
        PROVE  req' \in [Requests -> Request] /\ jobs' \subseteq Job
    <2>1. CASE Finish(j)
      BY <2>1 DEF Finish, DataOK
    <2>2. CASE Reject(j)
      BY <2>2, RejectEffect DEF DataOK
    <2> QED BY <1>3, <2>1, <2>2
  <1> HIDE DEF Linked, Unlinked
  <1>4. CASE LinkFinds(j)
    <2>1. CASE j.on \in live
      <3>1. [j EXCEPT !.at = IF Holds(j.on, j.to) THEN "present" ELSE "absent"] \in Job
        BY <1>1 DEF Job
      <3> QED BY <1>4, <2>1, <3>1 DEF LinkFinds, DataOK
    <2>2. CASE j.on \notin live
      BY <1>3, <1>4, <2>2 DEF LinkFinds, DataOK
    <2> QED BY <2>1, <2>2
  <1>5. CASE LinkSaves(j)
    BY <1>1, <1>2, <1>3, <1>5 DEF LinkSaves, DataOK
  <1>6. CASE Unlinks(j)
    BY <1>1, <1>2, <1>3, <1>6 DEF Unlinks, DataOK
  <1>7. CASE UpdateMissing(j)
    BY <1>3, <1>7 DEF UpdateMissing, DataOK
  <1>8. CASE JobFails(j)
    <2>1. faults' \in 0 .. MaxFaults
      BY <1>8, FaultEffect DEF JobFails, DataOK
    <2> QED BY <1>1, <1>2, <1>3, <1>8, <2>1 DEF JobFails, DataOK
  <1> QED BY <1>4, <1>5, <1>6, <1>7, <1>8 DEF Database

LEMMA StepDataOK == DataOK /\ Step => DataOK'
  BY ResolverDataOK, DatabaseDataOK DEF Step

LEMMA StepTypeOK == TypeOK /\ [Next]_vars => TypeOK'
  <1> SUFFICES ASSUME TypeOK, [Next]_vars PROVE TypeOK'
    OBVIOUS
  <1>1. DataOK
    BY DEF TypeOK, DataOK
  <1>2. CASE Step /\ Settles
    <2>1. DataOK'
      BY <1>1, <1>2, StepDataOK
    <2>2. Pairs' \in SUBSET (As \X Bs)
      BY DEF Pairs
    <2>3. settled' \in [live : SUBSET Docs, rel : SUBSET (As \X Bs)]
      <3>1. CASE Quiet'
        <4>1. settled' = [live |-> live', rel |-> Pairs']
          BY <1>2, <3>1 DEF Settles
        <4>2. live' \in SUBSET Docs
          BY <2>1 DEF DataOK
        <4> QED BY <2>2, <4>1, <4>2
      <3>2. CASE ~Quiet'
        BY <1>2, <3>2 DEF Settles, TypeOK
      <3> QED BY <3>1, <3>2
    <2> QED BY <2>1, <2>3 DEF DataOK, TypeOK
  <1>3. CASE UNCHANGED vars
    BY <1>3 DEF vars, TypeOK
  <1> QED BY <1>2, <1>3 DEF Next, Idle

(* Every variable keeps its type: in particular reference counts stay        *)
(* natural and rejected operations stay within their bound.                  *)
THEOREM RelationTypeCorrect == Spec => []TypeOK
  <1>1. Init => TypeOK
    BY InitDataOK
  <1>2. TypeOK /\ [Next]_vars => TypeOK'
    BY StepTypeOK
  <1> QED BY <1>1, <1>2, PTL DEF Spec

-----------------------------------------------------------------------------
(* What a step may do. *)

(* Where a mutation can be, and what its arguments are. *)
Shape ==
    /\ \A r \in Requests :
          /\ req[r].op \in {"add", "remove"} => req[r].a \in As
          /\ req[r].op # "none" => req[r].b \in Bs
          /\ req[r].at = "idle" <=> req[r].op = "none"
          /\ req[r].answer # "none" => req[r].at = "done"
          /\ req[r].at = "oldA" => req[r].op = "add" /\ ~schema.listA
          /\ req[r].at = "oldB" =>
                req[r].op = "add" /\ schema.twoWay /\ ~schema.listB

(* Why a database operation is in flight. *)
Between(j, r) ==
    \/ j.on = req[r].a /\ j.to = req[r].b
    \/ j.on = req[r].b /\ j.to = req[r].a
Cause(j) ==
    \/ j.kind = "link" /\ req[j.req].op = "add" /\ Between(j, j.req)
    \/ /\ j.kind = "unlink"
       /\ \/ req[j.req].op = "remove" /\ Between(j, j.req)
          \/ req[j.req].op = "delete" /\ j.to = req[j.req].a
          \/ /\ req[j.req].op = "add"
             /\ \/ j.to = req[j.req].a /\ ~schema.listA
                \/ j.to = req[j.req].b /\ schema.twoWay /\ ~schema.listB
Causes == \A j \in jobs : Cause(j)

(* A good answer to an addition or a removal comes last. *)
AnsweredLast ==
    \A r \in Requests :
        req[r].answer = "ok" /\ req[r].op # "delete" => \A j \in jobs : j.req # r

ShapeInv == DataOK /\ Shape /\ Causes /\ AnsweredLast

(* A mutation keeps its operation and arguments once it has them. *)
Stable ==
    /\ schema' = schema
    /\ \A q \in Requests :
          req[q].op # "none" =>
              req'[q].op = req[q].op /\ req'[q].a = req[q].a /\ req'[q].b = req[q].b

LEMMA ResolverShape ==
  ASSUME ShapeInv, NEW r \in Requests, Submit(r) \/ Resolver(r) \/ ReadFails(r)
  PROVE  Shape' /\ Stable
  <1> USE DEF ShapeInv
  <1>1. req \in [Requests -> Request]
    BY DEF DataOK
  <1>2. CASE Submit(r)
    <2>1. PICK op \in Ops, a \in Docs, b \in Bs :
             /\ op # "delete" => a \in As
             /\ req' = [req EXCEPT ![r] = [op |-> op, a |-> a, b |-> b, at |-> "check",
                                           failed |-> FALSE, answer |-> "none"]]
      BY <1>2 DEF Submit
    <2>2. op \in {"add", "remove", "delete"} /\ b \in Docs
      BY OpsAssumption DEF Docs
    <2>3. /\ req'[r].op = op /\ req'[r].a = a /\ req'[r].b = b /\ req'[r].at = "check"
          /\ req'[r].failed = FALSE /\ req'[r].answer = "none"
          /\ \A q \in Requests \ {r} : req'[q] = req[q]
      BY <1>1, <2>1, <2>2, SubmitEffect
    <2>4. req[r].at = "idle" /\ schema' = schema
      BY <1>2 DEF Submit
    <2> QED BY <2>1, <2>2, <2>3, <2>4 DEF Shape, Stable
  <1>3. AfterNearSide \in {"oldB", "await"} /\
        (AfterNearSide = "oldB" => schema.twoWay /\ ~schema.listB)
    BY DEF AfterNearSide
  <1>4. CASE AddChecks(r)
    <2>1. CASE Related(req[r].a, req[r].b)
      <3>1. Ends(r, "error")
        BY <1>4, <2>1 DEF AddChecks
      <3> QED BY <1>1, <1>4, <3>1, EndsEffect DEF AddChecks, Shape, Stable
    <2>2. CASE ~Related(req[r].a, req[r].b) /\ schema.listA
      <3>1. Goes(r, AfterNearSide)
        BY <1>4, <2>2 DEF AddChecks
      <3> HIDE DEF AfterNearSide
      <3> QED BY <1>1, <1>3, <1>4, <3>1, GoesEffect DEF AddChecks, Shape, Stable
    <2>3. CASE ~Related(req[r].a, req[r].b) /\ ~schema.listA
      <3>1. Goes(r, "oldA")
        BY <1>4, <2>3 DEF AddChecks
      <3> QED BY <1>1, <1>4, <2>3, <3>1, GoesEffect DEF AddChecks, Shape, Stable
    <2> QED BY <2>1, <2>2, <2>3
  <1>5. CASE FetchOldA(r)
    <2>1. Goes(r, AfterNearSide)
      BY <1>5 DEF FetchOldA
    <2> HIDE DEF AfterNearSide
    <2> QED BY <1>1, <1>3, <1>5, <2>1, GoesEffect DEF FetchOldA, Shape, Stable
  <1>6. CASE FetchOldB(r)
    BY <1>1, <1>6, GoesEffect DEF FetchOldB, Shape, Stable
  <1>7. CASE RemoveChecks(r)
    <2>1. Goes(r, "await") \/ Ends(r, "error")
      BY <1>7 DEF RemoveChecks
    <2> QED BY <1>1, <1>7, <2>1, GoesEffect, EndsEffect DEF RemoveChecks, Shape, Stable
  <1>8. CASE Deletes(r)
    <2>1. Goes(r, "await") \/ Ends(r, "ok")
      BY <1>8 DEF Deletes
    <2> QED BY <1>1, <1>8, <2>1, GoesEffect, EndsEffect DEF Deletes, Shape, Stable
  <1>9. CASE Answers(r)
    <2>1. Ends(r, "ok") \/ Ends(r, "error")
      BY <1>9 DEF Answers
    <2> QED BY <1>1, <1>9, <2>1, EndsEffect DEF Answers, Shape, Stable
  <1>10. CASE ReadFails(r)
    BY <1>1, <1>10, EndsEffect DEF ReadFails, Shape, Stable
  <1> QED BY <1>2, <1>4, <1>5, <1>6, <1>7, <1>8, <1>9, <1>10 DEF Resolver

LEMMA DatabaseShape ==
  ASSUME ShapeInv, NEW j \in jobs, Database(j) \/ JobFails(j)
  PROVE  /\ Shape' /\ Stable
         /\ \A q \in Requests : req'[q].answer = req[q].answer
  <1>1. req \in [Requests -> Request] /\ jobs \subseteq Job
    BY DEF ShapeInv, DataOK
  <1>2. schema' = schema /\ (UNCHANGED req \/ Reject(j))
    BY DEF Database, JobFails, LinkFinds, LinkSaves, Unlinks, UpdateMissing, Finish
  <1>3. CASE UNCHANGED req
    BY <1>2, <1>3 DEF ShapeInv, Shape, Stable
  <1>4. CASE Reject(j)
    <2>1. \A q \in Requests :
             /\ req'[q].op = req[q].op /\ req'[q].a = req[q].a /\ req'[q].b = req[q].b
             /\ req'[q].at = req[q].at /\ req'[q].answer = req[q].answer
      BY <1>1, <1>4, RejectEffect
    <2>2. Shape'
      BY <1>2, <2>1 DEF ShapeInv, Shape
    <2> QED BY <1>2, <2>1, <2>2 DEF Stable
  <1> QED BY <1>2, <1>3, <1>4

(* A cause lasts. *)
LEMMA CauseStable ==
  ASSUME Stable, NEW j, j.req \in Requests, Cause(j)
  PROVE  Cause(j)'
  <1>1. /\ req'[j.req].op = req[j.req].op
        /\ req'[j.req].a = req[j.req].a /\ req'[j.req].b = req[j.req].b
    BY DEF Stable, Cause
  <1>2. schema' = schema
    BY DEF Stable
  <1> QED BY <1>1, <1>2 DEF Cause, Between

LEMMA LinkFields ==
  ASSUME NEW r, NEW d, NEW x
  PROVE  /\ Link(r, d, x).req = r /\ Link(r, d, x).kind = "link"
         /\ Link(r, d, x).on = d /\ Link(r, d, x).to = x /\ Link(r, d, x).at = "start"
         /\ Unlink(r, d, x).req = r /\ Unlink(r, d, x).kind = "unlink"
         /\ Unlink(r, d, x).on = d /\ Unlink(r, d, x).to = x
  BY DEF Link, Unlink

(* A mutation starts operations for itself only, before it is answered, and *)
(* with a cause.                                                            *)
LEMMA ResolverStarts ==
  ASSUME ShapeInv, NEW r \in Requests, Submit(r) \/ Resolver(r) \/ ReadFails(r)
  PROVE  /\ jobs \subseteq jobs'
         /\ \A j \in jobs' \ jobs : j.req = r /\ req[r].at # "done" /\ Cause(j)
  <1> USE DEF ShapeInv
  <1>1. \A j \in FarSide(r) : j = Link(r, req[r].b, req[r].a)
    BY DEF FarSide
  <1>2. CASE Submit(r) \/ Answers(r) \/ ReadFails(r)
    BY <1>2 DEF Submit, Answers, ReadFails
  <1>3. CASE AddChecks(r)
    <2>1. jobs \subseteq jobs' /\ req[r].op = "add" /\ req[r].at # "done"
      BY <1>3 DEF AddChecks
    <2>2. ASSUME NEW j \in jobs' \ jobs
          PROVE  j = Link(r, req[r].a, req[r].b) \/ j = Link(r, req[r].b, req[r].a)
      BY <1>1, <1>3, <2>2 DEF AddChecks
    <2> QED BY <2>1, <2>2, LinkFields DEF Cause, Between
  <1>4. CASE FetchOldA(r)
    <2>1. /\ jobs \subseteq jobs' /\ req[r].at # "done"
          /\ req[r].op = "add" /\ ~schema.listA
      BY <1>4 DEF FetchOldA, Shape
    <2>2. ASSUME NEW j \in jobs' \ jobs
          PROVE  \/ j = Link(r, req[r].a, req[r].b) \/ j = Link(r, req[r].b, req[r].a)
                 \/ \E x \in live : j = Unlink(r, x, req[r].a)
      BY <1>1, <1>4, <2>2 DEF FetchOldA, OldPartners
    <2> QED BY <2>1, <2>2, LinkFields DEF Cause, Between
  <1>5. CASE FetchOldB(r)
    <2>1. /\ jobs \subseteq jobs' /\ req[r].at # "done"
          /\ req[r].op = "add" /\ schema.twoWay /\ ~schema.listB
      BY <1>5 DEF FetchOldB, Shape
    <2>2. ASSUME NEW j \in jobs' \ jobs
          PROVE  \/ j = Link(r, req[r].b, req[r].a)
                 \/ \E x \in live : j = Unlink(r, x, req[r].b)
      BY <1>5, <2>2 DEF FetchOldB, OldPartners
    <2> QED BY <2>1, <2>2, LinkFields DEF Cause, Between
  <1>6. CASE RemoveChecks(r)
    <2>1. jobs \subseteq jobs' /\ req[r].op = "remove" /\ req[r].at # "done"
      BY <1>6 DEF RemoveChecks
    <2>2. ASSUME NEW j \in jobs' \ jobs
          PROVE  j = Unlink(r, req[r].a, req[r].b) \/ j = Unlink(r, req[r].b, req[r].a)
      BY <1>6, <2>2 DEF RemoveChecks
    <2> QED BY <2>1, <2>2, LinkFields DEF Cause, Between
  <1>7. CASE Deletes(r)
    <2>1. jobs \subseteq jobs' /\ req[r].op = "delete" /\ req[r].at # "done"
      BY <1>7 DEF Deletes
    <2>2. ASSUME NEW j \in jobs' \ jobs
          PROVE  \E x \in Docs : j = Unlink(r, x, req[r].a)
      BY <1>7, <2>2 DEF Deletes, References
    <2> QED BY <2>1, <2>2, LinkFields DEF Cause, Between
  <1> QED BY <1>2, <1>3, <1>4, <1>5, <1>6, <1>7 DEF Resolver

(* The database goes on with the operation of the same mutation, or ends it. *)
LEMMA DatabaseJobs ==
  ASSUME ShapeInv, NEW j \in jobs, Database(j) \/ JobFails(j)
  PROVE  /\ jobs \ {j} \subseteq jobs'
         /\ \A i \in jobs' : \/ i \in jobs
                             \/ /\ j.kind = "link" /\ i.kind = "link"
                                /\ i.req = j.req /\ i.on = j.on /\ i.to = j.to
  <1>1. j \in Job
    BY DEF ShapeInv, DataOK
  <1>2. CASE jobs' = jobs \ {j}
    BY <1>2
  <1>3. CASE LinkFinds(j) /\ j.on \in live
    <2> DEFINE i == [j EXCEPT !.at = IF Holds(j.on, j.to) THEN "present" ELSE "absent"]
    <2>1. jobs' = (jobs \ {j}) \cup {i} /\ j.kind = "link"
      BY <1>3 DEF LinkFinds
    <2>2. i.kind = j.kind /\ i.req = j.req /\ i.on = j.on /\ i.to = j.to
      BY <1>1 DEF Job
    <2> QED BY <2>1, <2>2
  <1> QED BY <1>2, <1>3 DEF Database, JobFails, LinkFinds, LinkSaves, Unlinks, UpdateMissing,
                         Finish, Reject

LEMMA InitShapeInv == Init => ShapeInv
  <1> SUFFICES ASSUME Init PROVE ShapeInv
    OBVIOUS
  <1>1. DataOK
    BY InitDataOK DEF TypeOK, DataOK
  <1>2. jobs = {} /\ \A r \in Requests :
           req[r].op = "none" /\ req[r].at = "idle" /\ req[r].answer = "none"
    BY DEF Init
  <1> QED BY <1>1, <1>2 DEF ShapeInv, Shape, Causes, AnsweredLast

LEMMA StepShapeInv == ShapeInv /\ Step => ShapeInv' /\ Stable
  <1> SUFFICES ASSUME ShapeInv, Step PROVE ShapeInv' /\ Stable
    OBVIOUS
  <1>1. DataOK'
    BY StepDataOK DEF ShapeInv
  <1>2. \A j \in jobs : j.req \in Requests
    BY DEF ShapeInv, DataOK, Job
  <1>3. CASE \E r \in Requests : Submit(r) \/ Resolver(r) \/ ReadFails(r)
    <2>1. PICK r \in Requests : Submit(r) \/ Resolver(r) \/ ReadFails(r)
      BY <1>3
    <2>2. Shape' /\ Stable
      BY <2>1, ResolverShape
    <2>3. /\ jobs \subseteq jobs'
          /\ \A j \in jobs' \ jobs : j.req = r /\ req[r].at # "done" /\ Cause(j)
      BY <2>1, ResolverStarts
    <2>4. Causes'
      <3>1. ASSUME NEW j \in jobs' PROVE Cause(j) /\ j.req \in Requests
        BY <1>2, <2>1, <2>3, <3>1 DEF ShapeInv, Causes
      <3>2. ASSUME NEW j \in jobs' PROVE Cause(j)'
        BY <2>2, <3>1, CauseStable
      <3> QED BY <3>2 DEF Causes
    <2>5. AnsweredLast'
      <3> SUFFICES ASSUME NEW q \in Requests, req'[q].answer = "ok", req'[q].op # "delete",
                          NEW j \in jobs', j.req = q
                   PROVE  FALSE
        BY DEF AnsweredLast
      <3>1. CASE req[q].answer = "ok"
        <4>1. req[q].at = "done" /\ req[q].op # "delete"
          BY <2>2, <3>1 DEF ShapeInv, Shape, Stable
        <4> QED BY <2>3, <3>1, <4>1 DEF ShapeInv, AnsweredLast
      <3>2. CASE req[q].answer # "ok"
        <4>1. Answers(r) /\ q = r /\ ~ \E i \in jobs : i.req = r
          <5>1. req \in [Requests -> Request]
            BY DEF ShapeInv, DataOK
          <5>2. CASE Submit(r)
            <6>1. PICK op \in Ops, a \in Docs, b \in Bs :
                     req' = [req EXCEPT ![r] = [op |-> op, a |-> a, b |-> b, at |-> "check",
                                                failed |-> FALSE, answer |-> "none"]]
              BY <5>2 DEF Submit
            <6>2. op \in {"add", "remove", "delete"} /\ b \in Docs
              BY OpsAssumption DEF Docs
            <6>3. req'[r].answer = "none" /\ \A p \in Requests \ {r} : req'[p] = req[p]
              BY <5>1, <6>1, <6>2, SubmitEffect
            <6> QED BY <3>2, <6>3
          <5>3. CASE AddChecks(r)
            <6>1. Ends(r, "error") \/ Goes(r, AfterNearSide) \/ Goes(r, "oldA")
              BY <5>3 DEF AddChecks
            <6>2. AfterNearSide \in {"oldB", "await"}
              BY DEF AfterNearSide
            <6> QED BY <3>2, <5>1, <6>1, <6>2, GoesEffect, EndsEffect
          <5>4. CASE FetchOldA(r) \/ FetchOldB(r)
            <6>1. Goes(r, AfterNearSide) \/ Goes(r, "await")
              BY <5>4 DEF FetchOldA, FetchOldB
            <6>2. AfterNearSide \in {"oldB", "await"}
              BY DEF AfterNearSide
            <6> QED BY <3>2, <5>1, <6>1, <6>2, GoesEffect
          <5>5. CASE RemoveChecks(r) \/ ReadFails(r)
            <6>1. Goes(r, "await") \/ Ends(r, "error")
              BY <5>5 DEF RemoveChecks, ReadFails
            <6> QED BY <3>2, <5>1, <6>1, GoesEffect, EndsEffect
          <5>6. CASE Deletes(r)
            <6>1. Goes(r, "await") \/ Ends(r, "ok")
              BY <5>6 DEF Deletes
            <6>2. req[r].op = "delete"
              BY <5>6 DEF Deletes
            <6> QED BY <3>2, <5>1, <6>1, <6>2, GoesEffect, EndsEffect
          <5>7. CASE Answers(r)
            <6>1. PICK ans \in {"ok", "error"} :
                     /\ Ends(r, ans)
                     /\ ans = "ok" => ~req[r].failed \/ req[r].op = "delete"
              BY <5>7 DEF Answers
            <6>2. q = r /\ ans = "ok" /\ req[r].op # "delete"
              BY <3>2, <5>1, <6>1, EndsEffect
            <6> QED BY <5>7, <6>1, <6>2 DEF Answers
          <5> QED BY <2>1, <5>2, <5>3, <5>4, <5>5, <5>6, <5>7 DEF Resolver
        <4>2. jobs' = jobs
          BY <4>1 DEF Answers
        <4> QED BY <4>1, <4>2
      <3> QED BY <3>1, <3>2
    <2> QED BY <1>1, <2>2, <2>4, <2>5 DEF ShapeInv
  <1>4. CASE \E j \in jobs : Database(j) \/ JobFails(j)
    <2>1. PICK j \in jobs : Database(j) \/ JobFails(j)
      BY <1>4
    <2>2. /\ Shape' /\ Stable
          /\ \A q \in Requests : req'[q].answer = req[q].answer
      BY <2>1, DatabaseShape
    <2>3. ASSUME NEW i \in jobs'
          PROVE  /\ Cause(i) /\ i.req \in Requests
                 /\ \E k \in jobs : k.req = i.req
      <3>1. CASE i \in jobs
        BY <1>2, <3>1 DEF ShapeInv, Causes
      <3>2. CASE /\ j.kind = "link" /\ i.kind = "link"
                 /\ i.req = j.req /\ i.on = j.on /\ i.to = j.to
        <4>1. Cause(j)
          BY DEF ShapeInv, Causes
        <4> QED BY <1>2, <3>2, <4>1 DEF Cause, Between
      <3> QED BY <2>1, <3>1, <3>2, DatabaseJobs
    <2>4. Causes'
      <3>1. ASSUME NEW i \in jobs' PROVE Cause(i)'
        BY <2>2, <2>3, CauseStable
      <3> QED BY <3>1 DEF Causes
    <2>5. AnsweredLast'
      <3> SUFFICES ASSUME NEW q \in Requests, req'[q].answer = "ok", req'[q].op # "delete",
                          NEW i \in jobs', i.req = q
                   PROVE  FALSE
        BY DEF AnsweredLast
      <3>1. req[q].answer = "ok" /\ req[q].op # "delete"
        BY <2>2 DEF ShapeInv, Shape, Stable
      <3> QED BY <2>3, <3>1 DEF ShapeInv, AnsweredLast
    <2> QED BY <1>1, <2>2, <2>4, <2>5 DEF ShapeInv
  <1> QED BY <1>3, <1>4 DEF Step

(* ShapeInv ignores the history. *)
LEMMA NextShapeInv == ShapeInv /\ [Next]_vars => ShapeInv'
  <1> SUFFICES ASSUME ShapeInv, [Next]_vars PROVE ShapeInv'
    OBVIOUS
  <1>1. CASE Step
    BY <1>1, StepShapeInv
  <1>2. CASE UNCHANGED vars
    <2>1. UNCHANGED <<schema, live, ref, req, jobs, faults>>
      BY <1>2 DEF vars
    <2>2. DataOK'
      BY <2>1 DEF ShapeInv, DataOK
    <2>3. Shape' /\ AnsweredLast'
      BY <2>1 DEF ShapeInv, Shape, AnsweredLast
    <2>4. Causes'
      BY <2>1 DEF ShapeInv, Causes, Cause, Between
    <2> QED BY <2>2, <2>3, <2>4 DEF ShapeInv
  <1> QED BY <1>1, <1>2 DEF Next, Idle

-----------------------------------------------------------------------------
(* What a step may do to references.                                        *)

LEMMA NewReferences ==
  ASSUME ShapeInv, Step, NEW d \in Docs, NEW x \in Docs, Holds(d, x)', ~Holds(d, x)
  PROVE  \E j \in jobs : j.kind = "link" /\ j.on = d /\ j.to = x
  <1>1. ref \in [Docs -> [Docs -> Nat]] /\ jobs \subseteq Job
    BY DEF ShapeInv, DataOK
  <1>2. CASE UNCHANGED ref
    BY <1>2 DEF Holds
  <1>3. CASE \E r \in Requests : Deletes(r)
    <2>1. PICK r \in Requests : Deletes(r)
      BY <1>3
    <2>2. UNCHANGED ref \/ ref' = [ref EXCEPT ![req[r].a] = NoRef]
      BY <2>1 DEF Deletes
    <2>3. NoRef[x] = 0
      BY DEF NoRef
    <2> QED BY <1>1, <1>2, <2>2, <2>3 DEF Holds
  <1>4. CASE \E j \in jobs : ref' = [ref EXCEPT ![j.on] = Unlinked(j)]
    <2>1. PICK j \in jobs : ref' = [ref EXCEPT ![j.on] = Unlinked(j)]
      BY <1>4
    <2>2. j.on \in Docs /\ \A y \in Docs : Unlinked(j)[y] > 0 => Holds(j.on, y)
      BY <1>1, UnlinkedEffect DEF Job
    <2> HIDE DEF Unlinked
    <2>3. CASE d = j.on
      BY <1>1, <2>1, <2>2, <2>3 DEF Holds
    <2>4. CASE d # j.on
      BY <1>1, <2>1, <2>4 DEF Holds
    <2> QED BY <2>3, <2>4
  <1>5. CASE \E j \in jobs : j.kind = "link" /\ ref' = [ref EXCEPT ![j.on] = Linked(j)]
    <2>1. PICK j \in jobs : j.kind = "link" /\ ref' = [ref EXCEPT ![j.on] = Linked(j)]
      BY <1>5
    <2>2. j.on \in Docs /\ \A y \in Docs \ {j.to} : Linked(j)[y] > 0 => Holds(j.on, y)
      BY <1>1, LinkedEffect DEF Job
    <2> HIDE DEF Linked
    <2>3. d = j.on
      BY <1>1, <2>1 DEF Holds
    <2>4. x = j.to
      BY <1>1, <2>1, <2>2, <2>3 DEF Holds
    <2> QED BY <2>1, <2>3, <2>4
  <1> QED BY <1>2, <1>3, <1>4, <1>5
       DEF Step, Submit, Resolver, AddChecks, FetchOldA, FetchOldB, RemoveChecks, Answers,
           ReadFails, Database, JobFails, LinkFinds, LinkSaves, Unlinks, UpdateMissing

(* A removal of a reference is over when the reference is gone, or its      *)
(* mutation has been marked.                                                *)
LEMMA UnlinkEnds ==
  ASSUME ShapeInv, Step, NEW j \in jobs, j.kind = "unlink", j \notin jobs'
  PROVE  ~Holds(j.on, j.to)' \/ (req'[j.req].failed /\ req'[j.req].answer = req[j.req].answer)
  <1>1. /\ ref \in [Docs -> [Docs -> Nat]] /\ jobs \subseteq Job
        /\ req \in [Requests -> Request]
    BY DEF ShapeInv, DataOK
  <1>2. PICK i \in jobs : Database(i) \/ JobFails(i)
    BY ResolverStarts DEF Step
  <1>3. i = j
    BY <1>2, DatabaseJobs
  <1>4. CASE Reject(j)
    <2>1. j.req \in Requests
      BY <1>1 DEF Job
    <2> QED BY <1>1, <1>4, <2>1, RejectEffect
  <1>5. CASE Unlinks(j)
    <2>1. ref' = [ref EXCEPT ![j.on] = Unlinked(j)]
      BY <1>5 DEF Unlinks
    <2>2. j.on \in Docs /\ Unlinked(j)[j.to] = 0
      BY <1>1, UnlinkedEffect DEF Job
    <2> HIDE DEF Unlinked
    <2> QED BY <1>1, <2>1, <2>2 DEF Holds
  <1> QED BY <1>2, <1>3, <1>4, <1>5
       DEF Database, JobFails, LinkFinds, LinkSaves, UpdateMissing

-----------------------------------------------------------------------------
(* Removals. *)

Removing(r) ==
    /\ req[r].op = "remove"
    /\ (req[r].at = "await" /\ ~req[r].failed) \/ req[r].answer = "ok"
NobodyAdds(a, b) ==
    \A q \in Requests : ~(req[q].op = "add" /\ req[q].a = a /\ req[q].b = b)
Gone(r, d, x) == Unlink(r, d, x) \in jobs \/ ~Holds(d, x)

(* As long as nobody asks to add the pair, each of its references is gone   *)
(* or about to be removed.                                                  *)
RemovalInv ==
    \A r \in Requests :
        Removing(r) /\ NobodyAdds(req[r].a, req[r].b) =>
            /\ Gone(r, req[r].a, req[r].b)
            /\ schema.twoWay => Gone(r, req[r].b, req[r].a)

LEMMA StaysAbsent ==
  ASSUME ShapeInv, Step, NEW a \in As, NEW b \in Bs, NobodyAdds(a, b)
  PROVE  (~Holds(a, b) => ~Holds(a, b)') /\ (~Holds(b, a) => ~Holds(b, a)')
  <1>1. a \in Docs /\ b \in Docs
    BY DEF Docs
  <1>2. ASSUME NEW j \in jobs, j.kind = "link"
        PROVE  ~(j.on = a /\ j.to = b) /\ ~(j.on = b /\ j.to = a)
    <2>1. /\ j.req \in Requests
          /\ req[j.req].op = "add" /\ Between(j, j.req)
      BY <1>2 DEF ShapeInv, Causes, Cause, DataOK, Job
    <2>2. req[j.req].a \in As /\ req[j.req].b \in Bs
      BY <2>1 DEF ShapeInv, Shape
    <2> QED BY <2>1, <2>2, SidesAssumption DEF NobodyAdds, Between
  <1> QED BY <1>1, <1>2, NewReferences

LEMMA RemovingStarts ==
  ASSUME ShapeInv, Step, NEW r \in Requests, Removing(r)', ~Removing(r)
  PROVE  /\ Unlink(r, req[r].a, req[r].b) \in jobs'
         /\ schema.twoWay => Unlink(r, req[r].b, req[r].a) \in jobs'
         /\ req[r].op = "remove"
  <1>1. req \in [Requests -> Request] /\ jobs \subseteq Job
    BY DEF ShapeInv, DataOK
  <1>2. ASSUME NEW j \in jobs, Database(j) \/ JobFails(j)
        PROVE  FALSE
    <2>1. UNCHANGED req \/ Reject(j)
      BY <1>2 DEF Database, JobFails, LinkFinds, LinkSaves, Unlinks, UpdateMissing, Finish
    <2> QED BY <1>1, <2>1, RejectEffect DEF Removing
  <1>3. PICK q \in Requests : Submit(q) \/ Resolver(q) \/ ReadFails(q)
    BY <1>2 DEF Step
  <1>4. CASE Submit(q)
    <2>1. PICK op \in Ops, a \in Docs, b \in Bs :
             req' = [req EXCEPT ![q] = [op |-> op, a |-> a, b |-> b, at |-> "check",
                                        failed |-> FALSE, answer |-> "none"]]
      BY <1>4 DEF Submit
    <2>2. op \in {"add", "remove", "delete"} /\ b \in Docs
      BY OpsAssumption DEF Docs
    <2>3. /\ req'[q].at = "check" /\ req'[q].answer = "none"
          /\ \A p \in Requests \ {q} : req'[p] = req[p]
      BY <1>1, <2>1, <2>2, SubmitEffect
    <2> QED BY <2>3 DEF Removing
  <1>5. CASE RemoveChecks(q)
    <2>1. CASE Related(req[q].a, req[q].b)
      <3>1. Goes(q, "await")
        BY <1>5, <2>1 DEF RemoveChecks
      <3>2. q = r
        BY <1>1, <3>1, GoesEffect DEF Removing
      <3> QED BY <1>5, <2>1, <3>2 DEF RemoveChecks
    <2>2. CASE ~Related(req[q].a, req[q].b)
      <3>1. Ends(q, "error")
        BY <1>5, <2>2 DEF RemoveChecks
      <3> QED BY <1>1, <3>1, EndsEffect DEF Removing
    <2> QED BY <2>1, <2>2
  <1>6. CASE AddChecks(q) \/ FetchOldA(q) \/ FetchOldB(q)
    <2>1. req[q].op = "add"
      BY <1>6 DEF AddChecks, FetchOldA, FetchOldB, ShapeInv, Shape
    <2>2. AfterNearSide \in {"oldB", "await"}
      BY DEF AfterNearSide
    <2>3. Ends(q, "error") \/ Goes(q, AfterNearSide) \/ Goes(q, "oldA") \/ Goes(q, "await")
      BY <1>6 DEF AddChecks, FetchOldA, FetchOldB
    <2> QED BY <1>1, <2>1, <2>2, <2>3, GoesEffect, EndsEffect DEF Removing
  <1>7. CASE Deletes(q)
    <2>1. req[q].op = "delete" /\ (Ends(q, "ok") \/ Goes(q, "await"))
      BY <1>7 DEF Deletes
    <2> QED BY <1>1, <2>1, GoesEffect, EndsEffect DEF Removing
  <1>8. CASE Answers(q)
    <2>1. PICK ans \in {"ok", "error"} :
             /\ Ends(q, ans) /\ req[q].at = "await"
             /\ ans = "ok" => ~req[q].failed \/ req[q].op = "delete"
      BY <1>8 DEF Answers
    <2> QED BY <1>1, <2>1, EndsEffect DEF Removing
  <1>9. CASE ReadFails(q)
    <2>1. Ends(q, "error")
      BY <1>9 DEF ReadFails
    <2> QED BY <1>1, <2>1, EndsEffect DEF Removing
  <1> QED BY <1>3, <1>4, <1>5, <1>6, <1>7, <1>8, <1>9 DEF Resolver

LEMMA StepRemovalInv == ShapeInv /\ RemovalInv /\ Step => RemovalInv'
  <1> SUFFICES ASSUME ShapeInv, RemovalInv, Step,
                      NEW r \in Requests, Removing(r)', NobodyAdds(req[r].a, req[r].b)'
               PROVE  /\ Gone(r, req[r].a, req[r].b)'
                      /\ schema'.twoWay => Gone(r, req[r].b, req[r].a)'
    BY DEF RemovalInv
  <1>1. ShapeInv' /\ Stable
    BY StepShapeInv
  <1>2. CASE ~Removing(r)
    <2>1. /\ Unlink(r, req[r].a, req[r].b) \in jobs'
          /\ schema.twoWay => Unlink(r, req[r].b, req[r].a) \in jobs'
          /\ req[r].op = "remove"
      BY <1>2, RemovingStarts
    <2>2. req'[r].a = req[r].a /\ req'[r].b = req[r].b /\ schema' = schema
      BY <1>1, <2>1 DEF Stable
    <2> QED BY <2>1, <2>2 DEF Gone
  <1>3. CASE Removing(r)
    <2>1. req'[r].a = req[r].a /\ req'[r].b = req[r].b /\ schema' = schema
      BY <1>1, <1>3 DEF Stable, Removing
    <2>2. NobodyAdds(req[r].a, req[r].b)
      BY <1>1, <2>1 DEF NobodyAdds, Stable
    <2>3. PICK a \in As, b \in Bs : a = req[r].a /\ b = req[r].b
      BY <1>3 DEF Removing, ShapeInv, Shape
    <2>4. ASSUME NEW d \in Docs, NEW x \in Docs, Gone(r, d, x),
                 ~Holds(d, x) => ~Holds(d, x)'
          PROVE  Gone(r, d, x)'
      <3>1. CASE ~Holds(d, x)
        BY <2>4, <3>1 DEF Gone
      <3>2. CASE Unlink(r, d, x) \in jobs /\ Unlink(r, d, x) \notin jobs'
        <4>1. ~Holds(d, x)' \/ (req'[r].failed /\ req'[r].answer = req[r].answer)
          BY <3>2, UnlinkEnds, LinkFields
        <4>2. req[r].answer # "ok"
          BY <1>3, <3>2, LinkFields DEF Removing, ShapeInv, AnsweredLast
        <4> QED BY <4>1, <4>2 DEF Gone, Removing
      <3> QED BY <2>4, <3>1, <3>2 DEF Gone
    <2>5. Gone(r, a, b) /\ (schema.twoWay => Gone(r, b, a))
      BY <1>3, <2>2, <2>3 DEF RemovalInv
    <2>6. (~Holds(a, b) => ~Holds(a, b)') /\ (~Holds(b, a) => ~Holds(b, a)')
      BY <2>2, <2>3, StaysAbsent
    <2>7. Gone(r, a, b)' /\ (schema.twoWay => Gone(r, b, a)')
      BY <2>4, <2>5, <2>6 DEF Docs
    <2>8. a = req'[r].a /\ b = req'[r].b
      BY <2>1, <2>3
    <2> QED BY <2>1, <2>7, <2>8 DEF Gone, Holds
  <1> QED BY <1>2, <1>3

LEMMA RemovalImplies == ShapeInv /\ RemovalInv => RemovedStays
  <1> SUFFICES ASSUME ShapeInv, RemovalInv, NEW r \in Requests,
                      req[r].op = "remove", req[r].answer = "ok",
                      NobodyAdds(req[r].a, req[r].b)
               PROVE  /\ ~Holds(req[r].a, req[r].b)
                      /\ schema.twoWay => ~Holds(req[r].b, req[r].a)
    BY DEF RemovedStays, NobodyAdds
  <1>1. \A j \in jobs : j.req # r
    BY DEF ShapeInv, AnsweredLast
  <1> QED BY <1>1, LinkFields DEF RemovalInv, Removing, Gone

(* A removal that was answered without an error leaves no trace at either   *)
(* end, whatever else runs and fails, unless somebody asks to add the pair. *)
THEOREM RemovalsStay == Spec => []RemovedStays
  <1>1. Init => ShapeInv /\ RemovalInv
    <2>1. Init => RemovalInv
      BY DEF Init, RemovalInv, Removing
    <2> QED BY <2>1, InitShapeInv
  <1>2. ShapeInv /\ RemovalInv /\ [Next]_vars => (ShapeInv /\ RemovalInv)'
    <2>1. ShapeInv /\ RemovalInv /\ UNCHANGED vars => RemovalInv'
      BY DEF vars, RemovalInv, Removing, NobodyAdds, Gone, Holds
    <2> QED BY <2>1, NextShapeInv, StepRemovalInv DEF Next, Idle
  <1> QED BY <1>1, <1>2, RemovalImplies, PTL DEF Spec

-----------------------------------------------------------------------------
(* Additions to lists. *)

ListSides == schema.listA /\ (schema.listB \/ ~schema.twoWay)
Adding(r) ==
    /\ req[r].op = "add"
    /\ (req[r].at = "await" /\ ~req[r].failed) \/ req[r].answer = "ok"
Undisturbed(a, b) ==
    \A q \in Requests :
        /\ ~(req[q].op = "remove" /\ req[q].a = a /\ req[q].b = b)
        /\ ~(req[q].op = "delete" /\ req[q].a \in {a, b})
Carries(j, r, d, x) == j.req = r /\ j.kind = "link" /\ j.on = d /\ j.to = x
Coming(r, d, x) == Holds(d, x) \/ \E j \in jobs : Carries(j, r, d, x)

(* As long as nobody disturbs the pair, each of its references is there or  *)
(* about to be added, and a reference that was found is still there.        *)
AdditionInv ==
    ListSides =>
        \A r \in Requests :
            req[r].op = "add" /\ Undisturbed(req[r].a, req[r].b) =>
                /\ Adding(r) => /\ Coming(r, req[r].a, req[r].b)
                                /\ schema.twoWay => Coming(r, req[r].b, req[r].a)
                /\ \A j \in jobs : j.req = r /\ j.at = "present" /\ IsList(j.on) =>
                                        Holds(j.on, j.to)

LEMMA StaysPresent ==
  ASSUME ShapeInv, Step, ListSides, NEW a \in As, NEW b \in Bs, Undisturbed(a, b),
         NEW d \in Docs, NEW x \in Docs, (d = a /\ x = b) \/ (d = b /\ x = a),
         IsList(d), Holds(d, x)
  PROVE  Holds(d, x)'
  <1>1. /\ ref \in [Docs -> [Docs -> Nat]] /\ jobs \subseteq Job
        /\ req \in [Requests -> Request]
    BY DEF ShapeInv, DataOK
  <1>2. CASE UNCHANGED ref
    BY <1>2 DEF Holds
  <1>3. CASE \E r \in Requests : Deletes(r)
    <2>1. PICK r \in Requests : Deletes(r)
      BY <1>3
    <2>2. UNCHANGED ref \/ ref' = [ref EXCEPT ![req[r].a] = NoRef]
      BY <2>1 DEF Deletes
    <2>3. req[r].a # d
      BY <2>1 DEF Deletes, Undisturbed
    <2> QED BY <1>1, <1>2, <2>2, <2>3 DEF Holds
  <1>4. CASE \E j \in jobs :
                j.kind = "unlink" /\ ref' = [ref EXCEPT ![j.on] = Unlinked(j)]
    <2>1. PICK j \in jobs :
             j.kind = "unlink" /\ ref' = [ref EXCEPT ![j.on] = Unlinked(j)]
      BY <1>4
    <2>2. /\ j.on \in Docs /\ j.req \in Requests
          /\ IsList(j.on) => \A y \in Docs \ {j.to} : Holds(j.on, y) => Unlinked(j)[y] > 0
      BY <1>1, UnlinkedEffect DEF Job
    <2>3. ~(j.on = d /\ j.to = x)
      <3> SUFFICES ASSUME j.on = d, j.to = x PROVE FALSE
        OBVIOUS
      <3>1. Cause(j)
        BY DEF ShapeInv, Causes
      <3>2. CASE req[j.req].op = "remove" /\ Between(j, j.req)
        <4>1. req[j.req].a \in As /\ req[j.req].b \in Bs
          BY <2>2, <3>2 DEF ShapeInv, Shape
        <4> QED BY <2>2, <3>2, <4>1, SidesAssumption DEF Undisturbed, Between
      <3>3. CASE req[j.req].op = "delete" /\ j.to = req[j.req].a
        BY <2>2, <3>3 DEF Undisturbed
      <3> QED BY <2>1, <3>1, <3>2, <3>3 DEF Cause, ListSides
    <2> HIDE DEF Unlinked
    <2>4. CASE d = j.on
      BY <1>1, <2>1, <2>2, <2>3, <2>4 DEF Holds
    <2>5. CASE d # j.on
      BY <1>1, <2>1, <2>5 DEF Holds
    <2> QED BY <2>4, <2>5
  <1>5. CASE \E j \in jobs : ref' = [ref EXCEPT ![j.on] = Linked(j)]
    <2>1. PICK j \in jobs : ref' = [ref EXCEPT ![j.on] = Linked(j)]
      BY <1>5
    <2>2. /\ j.on \in Docs
          /\ IsList(j.on) => \A y \in Docs : Holds(j.on, y) => Linked(j)[y] > 0
      BY <1>1, LinkedEffect DEF Job
    <2> HIDE DEF Linked
    <2>3. CASE d = j.on
      BY <1>1, <2>1, <2>2, <2>3 DEF Holds
    <2>4. CASE d # j.on
      BY <1>1, <2>1, <2>4 DEF Holds
    <2> QED BY <2>3, <2>4
  <1> QED BY <1>2, <1>3, <1>4, <1>5
       DEF Step, Submit, Resolver, AddChecks, FetchOldA, FetchOldB, RemoveChecks, Answers,
           ReadFails, Database, JobFails, LinkFinds, LinkSaves, Unlinks, UpdateMissing

(* The addition of a reference is over when the reference is there, or its  *)
(* mutation has been marked.                                                *)
LEMMA LinkEnds ==
  ASSUME ShapeInv, Step, NEW j \in jobs, j.kind = "link",
         j.at = "present" => Holds(j.on, j.to),
         ~ \E i \in jobs' : Carries(i, j.req, j.on, j.to)
  PROVE  Holds(j.on, j.to)' \/ (req'[j.req].failed /\ req'[j.req].answer = req[j.req].answer)
  <1>1. /\ ref \in [Docs -> [Docs -> Nat]] /\ jobs \subseteq Job
        /\ req \in [Requests -> Request] /\ j \in Job /\ j.on \in Docs /\ j.to \in Docs
    BY DEF ShapeInv, DataOK, Job
  <1>2. j \notin jobs'
    BY DEF Carries
  <1>3. PICK i \in jobs : Database(i) \/ JobFails(i)
    BY <1>2, ResolverStarts DEF Step
  <1>4. i = j
    BY <1>2, <1>3, DatabaseJobs
  <1>5. CASE Reject(j)
    <2>1. j.req \in Requests
      BY <1>1 DEF Job
    <2> QED BY <1>1, <1>5, <2>1, RejectEffect
  <1>6. CASE LinkFinds(j) /\ j.on \in live
    <2> DEFINE k == [j EXCEPT !.at = IF Holds(j.on, j.to) THEN "present" ELSE "absent"]
    <2>1. k \in jobs'
      BY <1>6 DEF LinkFinds
    <2>2. k.kind = j.kind /\ k.req = j.req /\ k.on = j.on /\ k.to = j.to
      BY <1>1 DEF Job
    <2> QED BY <2>1, <2>2 DEF Carries
  <1>7. CASE LinkSaves(j) /\ j.on \in live
    <2>1. ref' = [ref EXCEPT ![j.on] = Linked(j)]
      BY <1>7 DEF LinkSaves
    <2>2. Linked(j)[j.to] > 0
      BY <1>1, LinkedEffect DEF Holds
    <2> HIDE DEF Linked
    <2> QED BY <1>1, <2>1, <2>2 DEF Holds
  <1> QED BY <1>3, <1>4, <1>5, <1>6, <1>7
       DEF Database, JobFails, LinkFinds, LinkSaves, Unlinks, UpdateMissing

LEMMA AddingStarts ==
  ASSUME ShapeInv, Step, ListSides, NEW r \in Requests, Adding(r)', ~Adding(r)
  PROVE  /\ Link(r, req[r].a, req[r].b) \in jobs'
         /\ schema.twoWay => Link(r, req[r].b, req[r].a) \in jobs'
         /\ req[r].op = "add"
  <1>1. req \in [Requests -> Request] /\ jobs \subseteq Job
    BY DEF ShapeInv, DataOK
  <1>2. ASSUME NEW j \in jobs, Database(j) \/ JobFails(j)
        PROVE  FALSE
    <2>1. UNCHANGED req \/ Reject(j)
      BY <1>2 DEF Database, JobFails, LinkFinds, LinkSaves, Unlinks, UpdateMissing, Finish
    <2> QED BY <1>1, <2>1, RejectEffect DEF Adding
  <1>3. PICK q \in Requests : Submit(q) \/ Resolver(q) \/ ReadFails(q)
    BY <1>2 DEF Step
  <1>4. CASE Submit(q)
    <2>1. PICK op \in Ops, a \in Docs, b \in Bs :
             req' = [req EXCEPT ![q] = [op |-> op, a |-> a, b |-> b, at |-> "check",
                                        failed |-> FALSE, answer |-> "none"]]
      BY <1>4 DEF Submit
    <2>2. op \in {"add", "remove", "delete"} /\ b \in Docs
      BY OpsAssumption DEF Docs
    <2>3. /\ req'[q].at = "check" /\ req'[q].answer = "none"
          /\ \A p \in Requests \ {q} : req'[p] = req[p]
      BY <1>1, <2>1, <2>2, SubmitEffect
    <2> QED BY <2>3 DEF Adding
  <1>5. CASE AddChecks(q)
    <2>1. CASE Related(req[q].a, req[q].b)
      <3>1. Ends(q, "error")
        BY <1>5, <2>1 DEF AddChecks
      <3> QED BY <1>1, <3>1, EndsEffect DEF Adding
    <2>2. CASE ~Related(req[q].a, req[q].b)
      <3>1. /\ Goes(q, AfterNearSide) /\ req[q].op = "add"
            /\ jobs' = jobs \cup {Link(q, req[q].a, req[q].b)} \cup FarSide(q)
        BY <1>5, <2>2 DEF AddChecks, ListSides
      <3>2. AfterNearSide = "await"
        BY DEF AfterNearSide, ListSides
      <3>3. q = r
        BY <1>1, <3>1, <3>2, GoesEffect DEF Adding
      <3>4. schema.twoWay => Link(r, req[r].b, req[r].a) \in FarSide(r)
        BY DEF FarSide, ListSides
      <3> QED BY <3>1, <3>3, <3>4
    <2> QED BY <2>1, <2>2
  <1>6. CASE FetchOldA(q) \/ FetchOldB(q)
    BY <1>6 DEF FetchOldA, FetchOldB, ShapeInv, Shape, ListSides
  <1>7. CASE RemoveChecks(q) \/ Deletes(q)
    <2>1. /\ req[q].op # "add"
          /\ Ends(q, "ok") \/ Ends(q, "error") \/ Goes(q, "await")
      BY <1>7 DEF RemoveChecks, Deletes
    <2> QED BY <1>1, <2>1, GoesEffect, EndsEffect DEF Adding
  <1>8. CASE Answers(q)
    <2>1. PICK ans \in {"ok", "error"} :
             /\ Ends(q, ans) /\ req[q].at = "await"
             /\ ans = "ok" => ~req[q].failed \/ req[q].op = "delete"
      BY <1>8 DEF Answers
    <2> QED BY <1>1, <2>1, EndsEffect DEF Adding
  <1>9. CASE ReadFails(q)
    <2>1. Ends(q, "error")
      BY <1>9 DEF ReadFails
    <2> QED BY <1>1, <2>1, EndsEffect DEF Adding
  <1> QED BY <1>3, <1>4, <1>5, <1>6, <1>7, <1>8, <1>9 DEF Resolver

(* Where an operation that has found its reference comes from. *)
LEMMA FoundBefore ==
  ASSUME ShapeInv, Step, NEW j \in jobs', j.at = "present", j \notin jobs
  PROVE  Holds(j.on, j.to)'
  <1>1. jobs \subseteq Job
    BY DEF ShapeInv, DataOK
  <1>2. CASE \E i \in jobs : LinkFinds(i) /\ i.on \in live
    <2>1. PICK i \in jobs : LinkFinds(i) /\ i.on \in live
      BY <1>2
    <2>2. j = [i EXCEPT !.at = IF Holds(i.on, i.to) THEN "present" ELSE "absent"]
      BY <2>1 DEF LinkFinds
    <2>3. j.on = i.on /\ j.to = i.to /\ Holds(i.on, i.to)
      BY <1>1, <2>2 DEF Job
    <2>4. UNCHANGED ref
      BY <2>1 DEF LinkFinds
    <2> QED BY <2>3, <2>4 DEF Holds
  <1>3. ASSUME NEW r \in Requests, Submit(r) \/ Resolver(r) \/ ReadFails(r)
        PROVE  FALSE
    <2>1. PICK d, x : j = Link(r, d, x) \/ j = Unlink(r, d, x)
      BY <1>3 DEF Submit, Resolver, ReadFails, AddChecks, FetchOldA, FetchOldB, RemoveChecks,
                  Deletes, Answers, FarSide
    <2> QED BY <2>1 DEF Link, Unlink
  <1>4. ASSUME NEW i \in jobs, jobs' = jobs \ {i}
        PROVE  FALSE
    BY <1>4
  <1> QED BY <1>2, <1>3, <1>4 DEF Step, Database, JobFails, LinkFinds, LinkSaves, Unlinks,
                                   UpdateMissing, Finish, Reject

LEMMA StepAdditionInv == ShapeInv /\ AdditionInv /\ Step => AdditionInv'
  <1> SUFFICES ASSUME ShapeInv, AdditionInv, Step, ListSides', NEW r \in Requests,
                      req'[r].op = "add", Undisturbed(req[r].a, req[r].b)'
               PROVE  /\ Adding(r)' => /\ Coming(r, req[r].a, req[r].b)'
                                       /\ schema'.twoWay => Coming(r, req[r].b, req[r].a)'
                      /\ \A j \in jobs' : j.req = r /\ j.at = "present" /\ IsList(j.on)' =>
                                              Holds(j.on, j.to)'
    BY DEF AdditionInv
  <1>1. ShapeInv' /\ Stable
    BY StepShapeInv
  <1>2. schema' = schema /\ ListSides /\ \A d \in Docs : IsList(d)' = IsList(d)
    BY <1>1 DEF Stable, ListSides, IsList
  <1>3. PICK a \in As, b \in Bs : a = req'[r].a /\ b = req'[r].b
    BY <1>1 DEF ShapeInv, Shape
  <1>4. Undisturbed(a, b)
    BY <1>1, <1>3 DEF Undisturbed, Stable
  <1>5. a \in Docs /\ b \in Docs /\ IsList(a) /\ (schema.twoWay => IsList(b))
    BY <1>2, SidesAssumption DEF Docs, IsList, ListSides
  <1>6. CASE req[r].op = "none"
    <2>1. ~Adding(r) /\ \A j \in jobs : j.req # r
      BY <1>6 DEF Adding, ShapeInv, Causes, Cause
    <2>2. ~Adding(r)'
      BY <1>2, <1>6, <2>1, AddingStarts
    <2> QED BY <2>1, <2>2, FoundBefore
  <1>7. CASE req[r].op # "none"
    <2>1. req[r].op = "add" /\ a = req[r].a /\ b = req[r].b
      BY <1>1, <1>3, <1>7 DEF Stable
    <2>2. ASSUME NEW j \in jobs, j.req = r, j.at = "present", IsList(j.on)
          PROVE  Holds(j.on, j.to)
      BY <1>2, <1>4, <2>1, <2>2 DEF AdditionInv
    <2>3. ASSUME NEW d \in Docs, NEW x \in Docs, (d = a /\ x = b) \/ (d = b /\ x = a),
                 IsList(d), Adding(r)', Adding(r), Coming(r, d, x)
          PROVE  Coming(r, d, x)'
      <3>1. CASE Holds(d, x)
        BY <1>2, <1>4, <2>3, <3>1, StaysPresent DEF Coming
      <3>2. CASE \E j \in jobs : Carries(j, r, d, x)
        <4>1. PICK j \in jobs : Carries(j, r, d, x)
          BY <3>2
        <4>2. req[r].answer # "ok"
          BY <2>1, <4>1 DEF Carries, ShapeInv, AnsweredLast
        <4>3. CASE \E i \in jobs' : Carries(i, r, d, x)
          BY <4>3 DEF Coming, Carries
        <4>4. CASE ~ \E i \in jobs' : Carries(i, r, d, x)
          <5>1. j.at = "present" => Holds(j.on, j.to)
            BY <2>2, <2>3, <4>1 DEF Carries
          <5>2. Holds(d, x)' \/ (req'[r].failed /\ req'[r].answer = req[r].answer)
            BY <4>1, <4>4, <5>1, LinkEnds DEF Carries
          <5> QED BY <2>3, <4>2, <5>2 DEF Coming, Adding
        <4> QED BY <4>3, <4>4
      <3> QED BY <2>3, <3>1, <3>2 DEF Coming
    <2>4. ASSUME Adding(r)'
          PROVE  Coming(r, a, b)' /\ (schema.twoWay => Coming(r, b, a)')
      <3>1. CASE Adding(r)
        <4>1. Coming(r, a, b) /\ (schema.twoWay => Coming(r, b, a))
          BY <1>2, <1>4, <2>1, <3>1 DEF AdditionInv
        <4> QED BY <1>5, <2>3, <2>4, <3>1, <4>1
      <3>2. CASE ~Adding(r)
        <4>1. /\ Link(r, a, b) \in jobs'
              /\ schema.twoWay => Link(r, b, a) \in jobs'
          BY <1>2, <2>1, <2>4, <3>2, AddingStarts
        <4> QED BY <4>1, LinkFields DEF Coming, Carries
      <3> QED BY <3>1, <3>2
    <2>5. ASSUME NEW j \in jobs', j.req = r, j.at = "present", IsList(j.on)'
          PROVE  Holds(j.on, j.to)'
      <3>1. CASE j \notin jobs
        BY <2>5, <3>1, FoundBefore
      <3>2. CASE j \in jobs
        <4>1. j.on \in Docs /\ j.to \in Docs /\ IsList(j.on)
          BY <1>2, <2>5, <3>2 DEF ShapeInv, DataOK, Job
        <4>2. (j.on = a /\ j.to = b) \/ (j.on = b /\ j.to = a)
          <5>1. Cause(j)
            BY <3>2 DEF ShapeInv, Causes
          <5>2. j.kind = "link"
            BY <1>2, <2>1, <2>5, <3>2, <5>1 DEF Cause, ListSides
          <5> QED BY <2>1, <2>5, <5>1, <5>2 DEF Cause, Between
        <4>3. Holds(j.on, j.to)
          BY <2>2, <2>5, <3>2, <4>1
        <4> QED BY <1>2, <1>4, <4>1, <4>2, <4>3, StaysPresent
      <3> QED BY <3>1, <3>2
    <2> QED BY <1>2, <1>3, <2>4, <2>5 DEF Coming, Carries, Holds
  <1> QED BY <1>6, <1>7

LEMMA AdditionImplies == ShapeInv /\ AdditionInv => KeptLinks
  <1> SUFFICES ASSUME ShapeInv, AdditionInv, NEW r \in Requests,
                      req[r].op = "add", req[r].answer = "ok",
                      Undisturbed(req[r].a, req[r].b), ListSides
               PROVE  /\ Holds(req[r].a, req[r].b)
                      /\ schema.twoWay => Holds(req[r].b, req[r].a)
    BY DEF KeptLinks, Undisturbed, ListSides
  <1>1. \A j \in jobs : j.req # r
    BY DEF ShapeInv, AnsweredLast
  <1> QED BY <1>1 DEF AdditionInv, Adding, Coming, Carries

(* An addition to lists that was answered without an error stays in both    *)
(* documents, whatever else runs and fails, unless somebody asks to remove  *)
(* that pair or to delete one of the two.                                   *)
THEOREM AdditionsStay == Spec => []KeptLinks
  <1>1. Init => ShapeInv /\ AdditionInv
    <2>1. Init => AdditionInv
      BY DEF Init, AdditionInv
    <2> QED BY <2>1, InitShapeInv
  <1>2. ShapeInv /\ AdditionInv /\ [Next]_vars => (ShapeInv /\ AdditionInv)'
    <2>1. ShapeInv /\ AdditionInv /\ UNCHANGED vars => AdditionInv'
      BY DEF vars, AdditionInv, Adding, Undisturbed, Coming, Carries, Holds, ListSides, IsList
    <2> QED BY <2>1, NextShapeInv, StepAdditionInv DEF Next, Idle
  <1> QED BY <1>1, <1>2, AdditionImplies, PTL DEF Spec
-----------------------------------------------------------------------------
(* Mutations that do not overlap: the invariant. *)

(* One mutation at a time, no rejected operations, and Model.update.        *)
Serial ==
    /\ MaxOpen = 1 /\ MaxFaults = 0 /\ IsFiniteSet(Requests)
    /\ \A s \in Schemas : s.hasUpdate

OneAtATime == \A q, r \in Requests : Running(q) /\ Running(r) => q = r

(* Document d has a field for references to x.                              *)
Faces(d, x) == (d \in As /\ x \in Bs) \/ (d \in Bs /\ x \in As /\ schema.twoWay)

Tidy ==
    /\ \A d, x \in Docs : Holds(d, x) => (d \in live /\ Faces(d, x))
    /\ \A d, x, y \in Docs : ~IsList(d) /\ Holds(d, x) /\ Holds(d, y) => x = y

(* No two operations in flight are on one document.  An unlink will find    *)
(* its reference, and cuts off nobody but a former partner.                 *)
OneEach == \A i, j \in jobs : i.on = j.on => i = j
JobRight(j) ==
    /\ Faces(j.on, j.to)
    /\ req[j.req].at \notin {"check", "oldA"}
    /\ req[j.req].at = "oldB" =>
          j.on = req[j.req].a \/ (j.on \in Bs /\ j.on # req[j.req].b)
    /\ j.kind = "link" /\ j.at = "present" => Holds(j.on, j.to)
    /\ j.kind = "unlink" /\ j.on \in live => Holds(j.on, j.to)
    /\ j.kind = "unlink" /\ req[j.req].op = "add" => j.on \notin {req[j.req].a, req[j.req].b}
JobsRight == OneEach /\ \A j \in jobs : JobRight(j)

(* A reference to a deleted document was asked for, or is about to be cut.  *)
Asked(d, x) == \E r \in Requests : req[r].op = "add" /\ {req[r].a, req[r].b} = {d, x}
CutSoon(d, x) == \E j \in jobs : j.kind = "unlink" /\ j.on = d /\ j.to = x
NoneDangles ==
    schema.twoWay =>
        \A d, x \in Docs : Holds(d, x) /\ x \notin live => Asked(d, x) \/ CutSoon(d, x)

(* The relation before the mutation, S, and after it.                       *)
Old(S, d, x) == (IF d \in As THEN <<d, x>> ELSE <<x, d>>) \in S.rel
Named(r, d, x) == \/ d = req[r].a /\ x = req[r].b
                  \/ d = req[r].b /\ x = req[r].a
New(r, S, d, x) ==
    \/ req[r].op = "add" /\ Named(r, d, x)
    \/ /\ req[r].op = "add" /\ Old(S, d, x)
       /\ req[r].a \in {d, x} => schema.listA
       /\ req[r].b \in {d, x} /\ schema.twoWay => schema.listB
    \/ req[r].op = "remove" /\ Old(S, d, x) /\ ~Named(r, d, x)
    \/ req[r].op = "delete" /\ Old(S, d, x) /\ req[r].a \notin {d, x}

ShowsOld(S, d) == \A x \in live : Faces(d, x) => (Holds(d, x) <=> Old(S, d, x))
ShowsNew(r, S, d) == \A x \in live : Faces(d, x) => (Holds(d, x) <=> New(r, S, d, x))

(* The mutation has yet to write the document.                              *)
Waits(r, d) ==
    \/ req[r].at \in {"check", "oldA"}
    \/ req[r].at = "oldB" /\ (d = req[r].b \/ (d \in As /\ d # req[r].a))
    \/ \E j \in jobs : j.on = d

Checked(r, S) ==
    /\ req[r].op = "add" => ~Old(S, req[r].a, req[r].b)
    /\ req[r].op = "remove" => Old(S, req[r].a, req[r].b)
    /\ req[r].op = "delete" => req[r].a \in S.live
Survivors(r, S) ==
    IF req[r].op = "delete" /\ req[r].at # "check" THEN S.live \ {req[r].a} ELSE S.live
Progress(r, S) ==
    /\ live = Survivors(r, S)
    /\ \A d \in live : IF Waits(r, d) THEN ShowsOld(S, d) ELSE ShowsNew(r, S, d)
    /\ req[r].at # "check" => Checked(r, S)

(* The documents and the relation that S records.                           *)
Recorded(S) == S.rel \subseteq As \X Bs /\ \A p \in S.rel : p[1] \in S.live /\ p[2] \in S.live
Agrees(S) == S.live = live /\ S.rel = Pairs /\ \A d \in live : ShowsOld(S, d)

DocsRight == OneAtATime /\ Tidy /\ JobsRight /\ NoneDangles
SerialInv ==
    /\ ShapeInv /\ DocsRight /\ Recorded(settled)
    /\ Quiet => Agrees(settled)
    /\ \A r \in Requests : Running(r) => Progress(r, settled)

-----------------------------------------------------------------------------
(* Mutations that do not overlap: what a step leaves alone. *)

(* What holds while mutation r runs, S being what was recorded before it.   *)
Midway(r, S) == ShapeInv /\ DocsRight /\ Recorded(S) /\ Running(r) /\ Progress(r, S)

(* The arguments of a mutation stay.                                        *)
SameInput(r) == req'[r].op = req[r].op /\ req'[r].a = req[r].a /\ req'[r].b = req[r].b

LEMMA SerialTypes ==
  ASSUME ShapeInv, NEW r \in Requests
  PROVE  /\ req \in [Requests -> Request] /\ req[r].a \in Docs /\ req[r].b \in Docs
         /\ ref \in [Docs -> [Docs -> Nat]] /\ live \subseteq Docs /\ jobs \subseteq Job
         /\ \A j \in jobs : j.on \in Docs /\ j.to \in Docs /\ j.req \in Requests
         /\ req[r].op # "none" => req[r].b \in Bs
         /\ req[r].op \in {"add", "remove"} => req[r].a \in As
  <1>1. req \in [Requests -> Request] /\ jobs \subseteq Job
    BY DEF ShapeInv, DataOK
  <1>2. req[r].a \in Docs /\ req[r].b \in Docs
    BY <1>1 DEF Request
  <1>3. \A j \in jobs : j.on \in Docs /\ j.to \in Docs /\ j.req \in Requests
    BY <1>1 DEF Job
  <1> QED BY <1>1, <1>2, <1>3 DEF ShapeInv, DataOK, Shape

(* Whoever has an operation in flight is the running mutation.              *)
LEMMA OwnJobs ==
  ASSUME ShapeInv, DocsRight, NEW r \in Requests, Running(r)
  PROVE  /\ \A j \in jobs : j.req = r
         /\ req[r].at \in {"check", "oldA"} => jobs = {}
         /\ req[r].op # "none" /\ req[r].b \in Bs
  <1>1. \A j \in jobs : j.req \in Requests /\ Running(j.req)
    BY SerialTypes DEF Running
  <1>2. \A j \in jobs : j.req = r
    BY <1>1 DEF DocsRight, OneAtATime
  <1>3. req[r].at \in {"check", "oldA"} => jobs = {}
    BY <1>2 DEF DocsRight, JobsRight, JobRight
  <1>4. req[r].op # "none"
    <2>1. CASE req[r].at \notin {"idle", "done"}
      BY <2>1 DEF ShapeInv, Shape
    <2>2. CASE \E j \in jobs : j.req = r
      BY <1>1, <2>2 DEF ShapeInv, Causes, Cause
    <2> QED BY <2>1, <2>2 DEF Running
  <1> QED BY <1>2, <1>3, <1>4, SerialTypes

(* A step of a mutation or of one of its operations begins no other.        *)
LEMMA NobodyElse ==
  ASSUME ShapeInv, DocsRight, NEW r \in Requests, Running(r),
         Resolver(r) \/ ReadFails(r) \/ \E j \in jobs : Database(j) \/ JobFails(j)
  PROVE  OneAtATime' /\ \A q \in Requests : Running(q)' => q = r
  <1>1. req \in [Requests -> Request] /\ \A j \in jobs : j.req = r
    BY OwnJobs, SerialTypes
  <1>2. \A j \in jobs' : j.req = r
    <2>1. CASE Resolver(r) \/ ReadFails(r)
      BY <1>1, <2>1, ResolverStarts
    <2>2. CASE \E j \in jobs : Database(j) \/ JobFails(j)
      BY <1>1, <2>2, DatabaseJobs
    <2> QED BY <2>1, <2>2
  <1>3. \A q \in Requests \ {r} : req'[q].at = req[q].at
    <2>1. CASE Resolver(r) \/ ReadFails(r)
      <3>1. (\E place : Goes(r, place)) \/ (\E ans : Ends(r, ans)) \/ UNCHANGED req
        BY <2>1, Zenon DEF Resolver, AddChecks, FetchOldA, FetchOldB, RemoveChecks, Deletes,
                           Answers, ReadFails
      <3> QED BY <1>1, <3>1 DEF Goes, Ends
    <2>2. CASE \E j \in jobs : Database(j) \/ JobFails(j)
      <3>1. PICK j \in jobs : UNCHANGED req \/ Reject(j)
        BY <2>2 DEF Database, JobFails, LinkFinds, LinkSaves, Unlinks, UpdateMissing, Finish
      <3> QED BY <1>1, <3>1, RejectEffect, SerialTypes
    <2> QED BY <2>1, <2>2
  <1>4. \A q \in Requests : Running(q)' => Running(q)
    BY <1>2, <1>3 DEF Running
  <1>5. \A q \in Requests : Running(q) => q = r
    BY DEF OneAtATime, DocsRight
  <1> HIDE DEF Running
  <1> QED BY <1>4, <1>5 DEF OneAtATime

(* References that are not written show what they showed.                   *)
LEMMA SameShows ==
  ASSUME NEW r \in Requests, NEW S, NEW d \in Docs, schema' = schema, live' = live,
         live \subseteq Docs, SameInput(r), \A x \in Docs : Holds(d, x)' <=> Holds(d, x)
  PROVE  (ShowsOld(S, d)' <=> ShowsOld(S, d)) /\ (ShowsNew(r, S, d)' <=> ShowsNew(r, S, d))
  <1>1. \A x : /\ Faces(d, x)' <=> Faces(d, x)
               /\ Old(S, d, x)' <=> Old(S, d, x)
               /\ New(r, S, d, x)' <=> New(r, S, d, x)
    BY DEF Faces, Old, New, Named, SameInput
  <1> HIDE DEF Faces, Old, New, Holds
  <1> QED BY <1>1 DEF ShowsOld, ShowsNew

(* A document that a mutation leaves as it is shows the new relation.       *)
LEMMA Unaffected ==
  ASSUME NEW r \in Requests, NEW S, NEW d, ShowsOld(S, d),
         \A x \in live : Faces(d, x) => (Old(S, d, x) <=> New(r, S, d, x))
  PROVE  ShowsNew(r, S, d)
  <1> HIDE DEF Faces, Old, New, Holds
  <1> QED BY DEF ShowsOld, ShowsNew


(* An operation stays right while its document is left alone.               *)
LEMMA SameRight ==
  ASSUME NEW j \in Job, schema' = schema, live' \subseteq live, SameInput(j.req), JobRight(j),
         \A x \in Docs : Holds(j.on, x)' <=> Holds(j.on, x),
         req'[j.req].at \notin {"check", "oldA"},
         req'[j.req].at = "oldB" => req[j.req].at = "oldB"
  PROVE  JobRight(j)'
  <1>1. j.to \in Docs
    BY DEF Job
  <1>2. Faces(j.on, j.to)' <=> Faces(j.on, j.to)
    BY DEF Faces
  <1> HIDE DEF Faces, Holds
  <1> QED BY <1>1, <1>2 DEF JobRight, SameInput

(* A reference that does not dangle, or is about to be cut, stays so.       *)
LEMMA SameAsked ==
  ASSUME req \in [Requests -> Request], NEW d, NEW x, Asked(d, x),
         \A q \in Requests : req[q].op # "none" => SameInput(q)
  PROVE  Asked(d, x)'
  BY DEF Asked, SameInput

(* A mutation is refused at its check, and nothing is written.             *)
Refuses(r) ==
    /\ req[r].at = "check" /\ jobs = {} /\ jobs' = {} /\ req'[r].at = "done"
    /\ UNCHANGED <<schema, live, ref>>

(* What a mutation launches, and where it goes on.                          *)
Launches(r, N, place) ==
    /\ jobs' = jobs \cup N /\ Goes(r, place)
    /\ UNCHANGED <<schema, live, ref>>
FitToLaunch(r, N, place) ==
    /\ \A j \in N : /\ j.req = r /\ j.at = "start" /\ Faces(j.on, j.to)
                    /\ place = "oldB" => j.on = req[r].a \/ (j.on \in Bs /\ j.on # req[r].b)
                    /\ j.kind = "unlink" =>
                          /\ Holds(j.on, j.to)
                          /\ req[r].op = "add" => j.on \notin {req[r].a, req[r].b}
    /\ \A i, j \in N : i.on = j.on => i = j
    /\ \A i \in jobs, j \in N : i.on # j.on

LEMMA LaunchDocs ==
  ASSUME NEW r \in Requests, NEW S, Midway(r, S), NEW N,
         NEW place \in {"oldA", "oldB", "await"},
         Launches(r, N, place), FitToLaunch(r, N, place),
         place = "oldA" => N = {},
         place \in {"oldA", "oldB"} => jobs = {},
         OneAtATime', ShapeInv'
  PROVE  DocsRight'
  <1>1. /\ req \in [Requests -> Request] /\ jobs \subseteq Job /\ jobs' \subseteq Job
        /\ \A j \in jobs : j.req = r
    BY OwnJobs, SerialTypes DEF Midway, ShapeInv, DataOK
  <1>2. /\ req'[r].at = place
        /\ \A q \in Requests : SameInput(q)
    BY <1>1, GoesEffect DEF Launches, SameInput
  <1>3. \A d, x : (Holds(d, x)' <=> Holds(d, x)) /\ (Faces(d, x)' <=> Faces(d, x))
    BY DEF Launches, Holds, Faces
  <1>4. Tidy'
    <2>1. Tidy /\ \A d : IsList(d)' <=> IsList(d)
      BY DEF Midway, DocsRight, Launches, IsList
    <2> HIDE DEF Holds, Faces, IsList
    <2> QED BY <1>3, <2>1 DEF Tidy, Launches
  <1>5. OneEach'
    BY DEF OneEach, Midway, DocsRight, JobsRight, Launches, FitToLaunch
  <1>6. ASSUME NEW j \in jobs'
        PROVE  JobRight(j)'
    <2>1. CASE j \in jobs
      <3>1. JobRight(j) /\ j.req = r /\ j \in Job
        BY <1>1, <2>1 DEF Midway, DocsRight, JobsRight
      <3>2. schema' = schema /\ live' \subseteq live
        BY DEF Launches
      <3>3. place # "oldA" /\ place # "oldB"
        BY <2>1
      <3> HIDE DEF JobRight, Holds
      <3> QED BY <1>2, <1>3, <3>1, <3>2, <3>3, SameRight
    <2>2. CASE j \in N
      <3>1. place # "oldA"
        BY <2>2
      <3> QED BY <1>2, <1>3, <2>2, <3>1 DEF JobRight, FitToLaunch, SameInput
    <2> QED BY <2>1, <2>2 DEF Launches
  <1>7. NoneDangles'
    <2> SUFFICES ASSUME schema.twoWay, NEW d \in Docs, NEW x \in Docs, Holds(d, x), x \notin live
                 PROVE  Asked(d, x)' \/ CutSoon(d, x)'
      BY <1>3 DEF NoneDangles, Launches
    <2>1. Asked(d, x) \/ CutSoon(d, x)
      BY DEF Midway, DocsRight, NoneDangles
    <2>2. CutSoon(d, x) => CutSoon(d, x)'
      BY DEF CutSoon, Launches
    <2> QED BY <1>1, <1>2, <2>1, <2>2, SameAsked
  <1> QED BY <1>4, <1>5, <1>6, <1>7 DEF DocsRight, JobsRight

(* What the documents that are to change have in common.                    *)
LEMMA MidwayFacts ==
  ASSUME NEW r \in Requests, NEW S, Midway(r, S)
  PROVE  /\ live = Survivors(r, S)
         /\ \A d \in live : Waits(r, d) => ShowsOld(S, d)
         /\ \A d \in live : ~Waits(r, d) => ShowsNew(r, S, d)
         /\ \A d, x \in Docs : Holds(d, x) => d \in live /\ Faces(d, x)
         /\ \A d, x, y \in Docs : ~IsList(d) /\ Holds(d, x) /\ Holds(d, y) => x = y
         /\ \A d \in As, x \in Bs : d \notin Bs /\ x \notin As /\ d \in Docs /\ x \in Docs /\ d # x
  <1>1. Progress(r, S) /\ Tidy
    BY DEF Midway, DocsRight
  <1> HIDE DEF Waits, ShowsOld, ShowsNew, Survivors, Holds, Faces, IsList
  <1> QED BY <1>1, SidesAssumption DEF Progress, Tidy, Docs

(* What two documents show of each other.                                   *)
LEMMA OldMeans ==
  ASSUME NEW S, Recorded(S), NEW d \in As, NEW x \in Bs
  PROVE  /\ Faces(d, x) /\ (Faces(x, d) <=> schema.twoWay) /\ ~Faces(d, d) /\ ~Faces(x, x)
         /\ (Old(S, d, x) <=> <<d, x>> \in S.rel) /\ (Old(S, x, d) <=> <<d, x>> \in S.rel)
         /\ Old(S, d, x) => d \in S.live /\ x \in S.live
         /\ d \in live /\ x \in live /\ ShowsOld(S, d) => (Holds(d, x) <=> <<d, x>> \in S.rel)
         /\ d \in live /\ x \in live /\ ShowsOld(S, x) /\ schema.twoWay =>
                (Holds(x, d) <=> <<d, x>> \in S.rel)
  <1>1. d \notin Bs /\ x \notin As
    BY SidesAssumption
  <1>2. Faces(d, x) /\ (Faces(x, d) <=> schema.twoWay) /\ ~Faces(d, d) /\ ~Faces(x, x)
    BY <1>1 DEF Faces
  <1>3. (Old(S, d, x) <=> <<d, x>> \in S.rel) /\ (Old(S, x, d) <=> <<d, x>> \in S.rel)
    BY <1>1 DEF Old
  <1>4. <<d, x>> \in S.rel => d \in S.live /\ x \in S.live
    BY DEF Recorded
  <1> HIDE DEF Faces, Old, Holds
  <1> QED BY <1>2, <1>3, <1>4 DEF ShowsOld

(* What an addition makes of a pair.                                        *)
LEMMA NewOfAdd ==
  ASSUME NEW r \in Requests, NEW S, req[r].op = "add", req[r].a \in As, req[r].b \in Bs,
         NEW d \in As, NEW x \in Bs
  PROVE  /\ New(r, S, d, x) <=> New(r, S, x, d)
         /\ New(r, S, d, x) <=>
               \/ d = req[r].a /\ x = req[r].b
               \/ /\ <<d, x>> \in S.rel /\ (d = req[r].a => schema.listA)
                  /\ x = req[r].b /\ schema.twoWay => schema.listB
  <1>1. /\ d \notin Bs /\ x \notin As /\ req[r].a \notin Bs /\ req[r].b \notin As
        /\ d # x /\ req[r].a # x /\ req[r].b # d
    BY SidesAssumption
  <1>2. (Old(S, d, x) <=> <<d, x>> \in S.rel) /\ (Old(S, x, d) <=> <<d, x>> \in S.rel)
    BY <1>1 DEF Old
  <1> HIDE DEF Old
  <1> QED BY <1>1, <1>2 DEF New, Named

LEMMA NewOfRemove ==
  ASSUME NEW r \in Requests, NEW S, req[r].op = "remove", req[r].a \in As, req[r].b \in Bs,
         NEW d \in As, NEW x \in Bs
  PROVE  /\ New(r, S, d, x) <=> New(r, S, x, d)
         /\ New(r, S, d, x) <=> (<<d, x>> \in S.rel /\ ~(d = req[r].a /\ x = req[r].b))
  <1>1. /\ d \notin Bs /\ x \notin As /\ req[r].a \notin Bs /\ req[r].b \notin As
        /\ d # x /\ req[r].a # x /\ req[r].b # d
    BY SidesAssumption
  <1>2. (Old(S, d, x) <=> <<d, x>> \in S.rel) /\ (Old(S, x, d) <=> <<d, x>> \in S.rel)
    BY <1>1 DEF Old
  <1> HIDE DEF Old
  <1> QED BY <1>1, <1>2 DEF New, Named

LEMMA NewOfDelete ==
  ASSUME NEW r \in Requests, NEW S, req[r].op = "delete", NEW d \in As, NEW x \in Bs
  PROVE  /\ New(r, S, d, x) <=> New(r, S, x, d)
         /\ New(r, S, d, x) <=> (<<d, x>> \in S.rel /\ req[r].a \notin {d, x})
  <1>1. d \notin Bs /\ x \notin As
    BY SidesAssumption
  <1>2. (Old(S, d, x) <=> <<d, x>> \in S.rel) /\ (Old(S, x, d) <=> <<d, x>> \in S.rel)
    BY <1>1 DEF Old
  <1> HIDE DEF Old
  <1> QED BY <1>1, <1>2 DEF New, Named

(* A mutation goes on without writing: documents that it will not write     *)
(* any more already show the new relation.                                  *)
LEMMA WaitingEnds ==
  ASSUME NEW r \in Requests, NEW S, Midway(r, S), UNCHANGED <<schema, live, ref>>, SameInput(r),
         req[r].at = "check" => req[r].op # "delete", req'[r].at # "check",
         Checked(r, S),
         \A d \in live : Waits(r, d)' => Waits(r, d),
         \A d, x \in live : Waits(r, d) /\ ~Waits(r, d)' /\ Faces(d, x) =>
                                (Old(S, d, x) <=> New(r, S, d, x))
  PROVE  Progress(r, S)'
  <1>1. live = Survivors(r, S) /\ live \subseteq Docs
    BY MidwayFacts, SerialTypes DEF Midway
  <1>2. live' = Survivors(r, S)'
    BY <1>1 DEF Survivors, SameInput
  <1>3. Checked(r, S)'
    BY DEF Checked, SameInput, Old
  <1>4. ASSUME NEW d \in live
        PROVE  IF Waits(r, d)' THEN ShowsOld(S, d)' ELSE ShowsNew(r, S, d)'
    <2>1. (ShowsOld(S, d)' <=> ShowsOld(S, d)) /\ (ShowsNew(r, S, d)' <=> ShowsNew(r, S, d))
      BY <1>1, SameShows DEF Holds
    <2>2. CASE Waits(r, d)'
      <3>1. Waits(r, d)
        BY <2>2
      <3>2. ShowsOld(S, d)
        BY <3>1, MidwayFacts
      <3> HIDE DEF Waits, ShowsOld, ShowsNew
      <3> QED BY <2>1, <2>2, <3>2
    <2>3. CASE ~Waits(r, d)'
      <3>1. ShowsNew(r, S, d)
        <4>1. CASE Waits(r, d)
          <5>1. ShowsOld(S, d)
            BY <4>1, MidwayFacts
          <5>2. \A x \in live : Faces(d, x) => (Old(S, d, x) <=> New(r, S, d, x))
            BY <2>3, <4>1
          <5> QED BY <5>1, <5>2, Unaffected
        <4>2. CASE ~Waits(r, d)
          BY <4>2, MidwayFacts
        <4> QED BY <4>1, <4>2
      <3> HIDE DEF Waits, ShowsOld, ShowsNew
      <3> QED BY <2>1, <2>3, <3>1
    <2> QED BY <2>2, <2>3
  <1> HIDE DEF Waits, ShowsOld, ShowsNew, Survivors, Checked
  <1> QED BY <1>2, <1>3, <1>4 DEF Progress

(* A step of the mutation itself. *)
Keeps(r, S) == DocsRight' /\ (Progress(r, S)' \/ Refuses(r))

LEMMA RefusalKeeps ==
  ASSUME NEW r \in Requests, NEW S, Midway(r, S), OneAtATime', ShapeInv',
         req[r].at = "check", NEW ans \in {"ok", "error"}, Ends(r, ans),
         UNCHANGED <<schema, live, ref, jobs>>
  PROVE  Keeps(r, S)
  <1>1. jobs = {} /\ req \in [Requests -> Request]
    BY OwnJobs, SerialTypes DEF Midway
  <1>2. req'[r].at = "done" /\ \A q \in Requests : SameInput(q)
    BY <1>1, EndsEffect DEF SameInput
  <1>3. Refuses(r)
    BY <1>1, <1>2 DEF Refuses
  <1>4. \A d, x : (Holds(d, x)' <=> Holds(d, x)) /\ (Faces(d, x)' <=> Faces(d, x))
                  /\ (IsList(d)' <=> IsList(d))
    BY DEF Holds, Faces, IsList
  <1>5. Tidy'
    <2>1. Tidy
      BY DEF Midway, DocsRight
    <2> HIDE DEF Holds, Faces, IsList
    <2> QED BY <1>4, <2>1 DEF Tidy
  <1>6. JobsRight'
    BY <1>1 DEF JobsRight, OneEach
  <1>7. NoneDangles'
    <2> SUFFICES ASSUME schema.twoWay, NEW d \in Docs, NEW x \in Docs, Holds(d, x), x \notin live
                 PROVE  Asked(d, x)' \/ CutSoon(d, x)'
      BY <1>4 DEF NoneDangles
    <2>1. Asked(d, x) \/ CutSoon(d, x)
      BY DEF Midway, DocsRight, NoneDangles
    <2>2. ~CutSoon(d, x)
      BY <1>1 DEF CutSoon
    <2> QED BY <1>1, <1>2, <2>1, <2>2, SameAsked
  <1> QED BY <1>3, <1>5, <1>6, <1>7 DEF Keeps, DocsRight

LEMMA AddChecksKeeps ==
  ASSUME NEW r \in Requests, NEW S, Midway(r, S), OneAtATime', ShapeInv', AddChecks(r)
  PROVE  Keeps(r, S)
  <1> DEFINE a == req[r].a
             b == req[r].b
  <1>1. /\ jobs = {} /\ req \in [Requests -> Request] /\ req[r].at = "check" /\ req[r].op = "add"
        /\ UNCHANGED <<schema, live, ref>> /\ a \in As /\ b \in Bs
    BY OwnJobs, SerialTypes DEF Midway, AddChecks
  <1>2. CASE Related(a, b)
    BY <1>1, <1>2, RefusalKeeps DEF AddChecks
  <1>3. CASE ~Related(a, b)
    <2>1. Recorded(S) /\ live = S.live /\ \A d \in live : ShowsOld(S, d)
      <3>1. \A d : Waits(r, d)
        BY <1>1 DEF Waits
      <3>2. live = S.live
        BY <1>1, MidwayFacts DEF Survivors
      <3> QED BY <3>1, <3>2, MidwayFacts DEF Midway
    <2>2. Checked(r, S)
      <3>1. ~Old(S, a, b)
        <4>1. /\ Old(S, a, b) <=> <<a, b>> \in S.rel
              /\ Old(S, a, b) => a \in S.live /\ b \in S.live
              /\ a \in live /\ b \in live /\ ShowsOld(S, a) => (Holds(a, b) <=> <<a, b>> \in S.rel)
          BY <1>1, <2>1, OldMeans
        <4> HIDE DEF Old, Holds, ShowsOld, a, b
        <4> QED BY <1>3, <2>1, <4>1 DEF Related
      <3> QED BY <1>1, <3>1 DEF Checked
    <2> DEFINE place == IF schema.listA THEN AfterNearSide ELSE "oldA"
               N == IF schema.listA THEN {Link(r, a, b)} \cup FarSide(r) ELSE {}
    <2>3. place \in {"oldA", "oldB", "await"} /\ Launches(r, N, place)
      BY <1>1, <1>3 DEF AddChecks, Launches, AfterNearSide
    <2>4. /\ \A j \in N : \/ j = Link(r, a, b)
                          \/ j = Link(r, b, a) /\ schema.twoWay /\ schema.listB
          /\ ~schema.listA => N = {}
          /\ schema.listA => Link(r, a, b) \in N
          /\ schema.listA /\ schema.twoWay /\ schema.listB => Link(r, b, a) \in N
          /\ place = "oldA" <=> ~schema.listA
          /\ place = "oldB" <=> schema.listA /\ schema.twoWay /\ ~schema.listB
      BY DEF FarSide, AfterNearSide
    <2> HIDE DEF N, place
    <2>5. FitToLaunch(r, N, place)
      <3>1. Faces(a, b) /\ (schema.twoWay => Faces(b, a)) /\ a # b
        BY <1>1, <2>1, OldMeans, SidesAssumption
      <3> HIDE DEF Faces
      <3> QED BY <1>1, <2>4, <3>1, LinkFields DEF FitToLaunch
    <2>6. DocsRight'
      BY <1>1, <2>3, <2>4, <2>5, LaunchDocs
    <2>7. Progress(r, S)'
      <3>1. SameInput(r) /\ req'[r].at = place
        BY <1>1, <2>3, GoesEffect DEF Launches, SameInput
      <3>2. \A d \in live : Waits(r, d)
        BY <1>1 DEF Waits
      <3>3. ASSUME NEW d \in live, NEW x \in live, ~Waits(r, d)', Faces(d, x)
            PROVE  Old(S, d, x) <=> New(r, S, d, x)
        <4>1. schema.listA /\ d # a /\ (schema.twoWay => d # b)
          <5>1. schema.listA
            BY <2>4, <3>1, <3>3 DEF Waits
          <5>2. \A j \in jobs' : j.on # d
            BY <3>3 DEF Waits
          <5>3. jobs' = N
            BY <1>1, <2>3 DEF Launches
          <5>4. d # a
            BY <2>4, <5>1, <5>2, <5>3, LinkFields
          <5>5. CASE schema.twoWay /\ schema.listB
            <6>1. Link(r, b, a) \in jobs'
              BY <2>4, <5>1, <5>3, <5>5
            <6> QED BY <5>1, <5>2, <5>4, <6>1, LinkFields
          <5>6. CASE schema.twoWay /\ ~schema.listB
            BY <2>4, <3>1, <3>3, <5>1, <5>4, <5>6 DEF Waits, SameInput
          <5> QED BY <5>1, <5>4, <5>5, <5>6
        <4>2. CASE d \in As /\ x \in Bs
          <5>1. schema.twoWay => schema.listB
            <6>1. place # "oldB"
              BY <3>1, <3>3, <4>1, <4>2 DEF Waits, SameInput
            <6> QED BY <2>4, <4>1, <6>1
          <5> QED BY <1>1, <2>1, <4>1, <4>2, <5>1, OldMeans, NewOfAdd
        <4>3. CASE d \in Bs /\ x \in As /\ schema.twoWay
          BY <1>1, <2>1, <4>1, <4>3, OldMeans, NewOfAdd
        <4> QED BY <3>3, <4>2, <4>3 DEF Faces
      <3>4. req'[r].at # "check" /\ live \subseteq Docs
        BY <2>3, <3>1, SerialTypes DEF Midway
      <3> HIDE DEF Waits
      <3> QED BY <1>1, <2>2, <3>1, <3>2, <3>3, <3>4, WaitingEnds
    <2> QED BY <2>6, <2>7 DEF Keeps
  <1> QED BY <1>2, <1>3

LEMMA FetchOldAKeeps ==
  ASSUME NEW r \in Requests, NEW S, Midway(r, S), OneAtATime', ShapeInv', FetchOldA(r)
  PROVE  Keeps(r, S)
  <1> DEFINE a == req[r].a
             b == req[r].b
  <1>1. /\ jobs = {} /\ req \in [Requests -> Request] /\ req[r].at = "oldA" /\ req[r].op = "add"
        /\ UNCHANGED <<schema, live, ref>> /\ a \in As /\ b \in Bs /\ ~schema.listA
        /\ live \subseteq Docs
    BY OwnJobs, SerialTypes DEF Midway, FetchOldA, ShapeInv, Shape
  <1>2. Recorded(S) /\ live = S.live /\ \A d \in live : ShowsOld(S, d)
    <2>1. \A d : Waits(r, d)
      BY <1>1 DEF Waits
    <2>2. live = S.live
      BY <1>1, MidwayFacts DEF Survivors
    <2> QED BY <2>1, <2>2, MidwayFacts DEF Midway
  <1>3. Checked(r, S) /\ <<a, b>> \notin S.rel
    <2>1. Checked(r, S)
      BY <1>1 DEF Midway, Progress
    <2> QED BY <1>1, <1>2, <2>1, OldMeans DEF Checked
  <1> DEFINE X == IF schema.twoWay THEN OldPartners(a) ELSE {}
             N == {Link(r, a, b)} \cup FarSide(r) \cup {Unlink(r, x, a) : x \in X}
             place == AfterNearSide
  <1>4. place \in {"oldB", "await"} /\ Launches(r, N, place)
    BY <1>1 DEF FetchOldA, Launches, AfterNearSide
  <1>5. ASSUME NEW x \in X
        PROVE  x \in Bs /\ x # b /\ x \in live /\ schema.twoWay /\ Holds(x, a) /\ Holds(a, x)
    <2>1. schema.twoWay /\ x \in live /\ a \in live /\ Holds(a, x) /\ x \in Docs
      BY <1>1, <1>5 DEF OldPartners
    <2>2. Faces(a, x) /\ a \in Docs
      BY <1>1, <2>1, MidwayFacts
    <2>3. x \in Bs
      BY <1>1, <2>2, SidesAssumption DEF Faces
    <2>4. <<a, x>> \in S.rel
      BY <1>1, <1>2, <2>1, <2>3, OldMeans
    <2>5. Holds(x, a)
      BY <1>1, <1>2, <2>1, <2>3, <2>4, OldMeans
    <2> QED BY <1>3, <2>1, <2>3, <2>4, <2>5
  <1>6. ASSUME schema.twoWay, a \in live, NEW x \in live, x \in Bs, <<a, x>> \in S.rel
        PROVE  x \in X
    <2>1. Holds(a, x)
      BY <1>1, <1>2, <1>6, OldMeans
    <2> QED BY <1>6, <2>1 DEF OldPartners
  <1> HIDE DEF X
  <1>7. /\ \A j \in N : \/ j = Link(r, a, b)
                        \/ j = Link(r, b, a) /\ schema.twoWay /\ schema.listB
                        \/ \E x \in X : j = Unlink(r, x, a)
        /\ Link(r, a, b) \in N
        /\ schema.twoWay /\ schema.listB => Link(r, b, a) \in N
        /\ \A x \in X : Unlink(r, x, a) \in N
        /\ place = "oldB" <=> schema.twoWay /\ ~schema.listB
    BY DEF FarSide, AfterNearSide
  <1> HIDE DEF N, place
  <1>8. FitToLaunch(r, N, place)
    <2>1. Faces(a, b) /\ (schema.twoWay => Faces(b, a)) /\ a # b /\ a \notin Bs
      BY <1>1, <1>2, OldMeans, SidesAssumption
    <2>2. ASSUME NEW x \in X
          PROVE  Faces(x, a) /\ x # a /\ x # b
      <3>1. x \in Bs /\ x # b /\ schema.twoWay
        BY <1>5
      <3>2. Faces(x, a)
        BY <1>1, <1>2, <3>1, OldMeans
      <3> QED BY <2>1, <3>1, <3>2
    <2>3. \A j \in N : /\ j.req = r /\ Faces(j.on, j.to)
                       /\ place = "oldB" => j.on = a \/ (j.on \in Bs /\ j.on # b)
                       /\ j.kind = "unlink" => Holds(j.on, j.to) /\ j.on # a /\ j.on # b
      <3> SUFFICES ASSUME NEW j \in N
                   PROVE  /\ j.req = r /\ Faces(j.on, j.to)
                          /\ place = "oldB" => j.on = a \/ (j.on \in Bs /\ j.on # b)
                          /\ j.kind = "unlink" => Holds(j.on, j.to) /\ j.on # a /\ j.on # b
        OBVIOUS
      <3>1. CASE j = Link(r, a, b)
        BY <2>1, <3>1, LinkFields
      <3>2. CASE j = Link(r, b, a) /\ schema.twoWay /\ schema.listB
        BY <1>7, <2>1, <3>2, LinkFields
      <3>3. CASE \E x \in X : j = Unlink(r, x, a)
        <4>1. PICK x \in X : j = Unlink(r, x, a)
          BY <3>3
        <4> QED BY <1>5, <2>2, <4>1, LinkFields
      <3> QED BY <1>7, <3>1, <3>2, <3>3
    <2>4. \A j \in N : j.at = "start"
      BY <1>7 DEF Link, Unlink
    <2>5. \A i, j \in N : i.on = j.on => i = j
      <3>1. \A j \in N : \/ j = Link(r, a, b) /\ j.on = a
                         \/ j = Link(r, b, a) /\ j.on = b
                         \/ j.on \in X /\ j = Unlink(r, j.on, a)
        BY <1>7, LinkFields
      <3> HIDE DEF a, b
      <3> QED BY <2>1, <2>2, <3>1
    <2> QED BY <1>1, <2>3, <2>4, <2>5 DEF FitToLaunch
  <1>9. DocsRight'
    BY <1>1, <1>4, <1>8, LaunchDocs
  <1>10. Progress(r, S)'
    <2>1. SameInput(r) /\ req'[r].at = place
      BY <1>1, <1>4, GoesEffect DEF Launches, SameInput
    <2>2. \A d \in live : Waits(r, d)
      BY <1>1 DEF Waits
    <2>3. ASSUME NEW d \in live, NEW x \in live, ~Waits(r, d)', Faces(d, x)
          PROVE  Old(S, d, x) <=> New(r, S, d, x)
      <3>1. d # a /\ (schema.twoWay /\ schema.listB => d # b) /\ d \notin X
        <4>1. \A j \in N : j.on # d
          BY <1>4, <2>3 DEF Waits, Launches
        <4> QED BY <1>7, <4>1, LinkFields
      <3>2. CASE d \in As /\ x \in Bs
        <4>1. schema.twoWay => schema.listB
          <5>1. place # "oldB"
            BY <2>1, <2>3, <3>1, <3>2 DEF Waits, SameInput
          <5> QED BY <1>7, <5>1
        <4> QED BY <1>1, <1>2, <3>1, <3>2, <4>1, OldMeans, NewOfAdd
      <3>3. CASE d \in Bs /\ x \in As /\ schema.twoWay
        <4>1. d # b
          BY <1>7, <2>1, <2>3, <3>1, <3>3 DEF Waits, SameInput
        <4>2. x = a => <<a, d>> \notin S.rel
          BY <1>6, <2>3, <3>1, <3>3
        <4>3. Old(S, d, x) <=> <<x, d>> \in S.rel
          BY <1>2, <3>3, OldMeans
        <4>4. New(r, S, d, x) <=> \/ x = a /\ d = b
                                  \/ /\ <<x, d>> \in S.rel /\ (x = a => schema.listA)
                                     /\ d = b /\ schema.twoWay => schema.listB
          BY <1>1, <3>3, NewOfAdd
        <4> HIDE DEF Old, New
        <4> QED BY <1>1, <4>1, <4>2, <4>3, <4>4
      <3> QED BY <2>3, <3>2, <3>3 DEF Faces
    <2>4. req'[r].at # "check" /\ req[r].at # "check"
      BY <1>1, <1>4, <2>1
    <2> HIDE DEF Waits
    <2> QED BY <1>1, <1>3, <2>1, <2>2, <2>3, <2>4, WaitingEnds
  <1> QED BY <1>9, <1>10 DEF Keeps

LEMMA FetchOldBKeeps ==
  ASSUME NEW r \in Requests, NEW S, Midway(r, S), OneAtATime', ShapeInv', FetchOldB(r)
  PROVE  Keeps(r, S)
  <1> DEFINE a == req[r].a
             b == req[r].b
  <1>1. /\ req \in [Requests -> Request] /\ req[r].at = "oldB" /\ req[r].op = "add"
        /\ UNCHANGED <<schema, live, ref>> /\ a \in As /\ b \in Bs /\ ~schema.listB
        /\ live \subseteq Docs /\ schema.twoWay
    BY SerialTypes DEF Midway, FetchOldB, ShapeInv, Shape
  <1>2. /\ Recorded(S) /\ live = S.live
        /\ b \in live => ShowsOld(S, b)
        /\ \A d \in As \ {a} : d \in live => ShowsOld(S, d)
    <2>1. Waits(r, b) /\ \A d \in As \ {a} : Waits(r, d)
      BY <1>1 DEF Waits
    <2>2. live = S.live
      BY <1>1, MidwayFacts DEF Survivors
    <2> HIDE DEF Waits
    <2> QED BY <2>1, <2>2, MidwayFacts DEF Midway
  <1>3. Checked(r, S) /\ <<a, b>> \notin S.rel
    <2>1. Checked(r, S)
      BY <1>1 DEF Midway, Progress
    <2> QED BY <1>1, <1>2, <2>1, OldMeans DEF Checked
  <1> DEFINE X == OldPartners(b)
             N == {Link(r, b, a)} \cup {Unlink(r, x, b) : x \in X}
  <1>4. Launches(r, N, "await")
    BY <1>1, Zenon DEF FetchOldB, Launches
  <1>5. ASSUME NEW x \in X
        PROVE  x \in As /\ x # a /\ x \in live /\ Holds(x, b) /\ x # b
    <2>1. x \in live /\ b \in live /\ Holds(b, x) /\ x \in Docs
      BY <1>1, <1>5 DEF OldPartners
    <2>2. Faces(b, x) /\ b \in Docs
      BY <1>1, <2>1, MidwayFacts
    <2>3. x \in As
      BY <1>1, <2>2, SidesAssumption DEF Faces
    <2>4. <<x, b>> \in S.rel
      BY <1>1, <1>2, <2>1, <2>3, OldMeans
    <2>5. x # a
      BY <1>3, <2>4
    <2>6. Holds(x, b)
      BY <1>1, <1>2, <2>1, <2>3, <2>4, <2>5, OldMeans
    <2> QED BY <1>1, <2>1, <2>3, <2>5, <2>6, SidesAssumption
  <1>6. ASSUME b \in live, NEW x \in live, x \in As, <<x, b>> \in S.rel
        PROVE  x \in X
    <2>1. Holds(b, x)
      BY <1>1, <1>2, <1>6, OldMeans
    <2> QED BY <1>6, <2>1 DEF OldPartners
  <1> HIDE DEF X
  <1>7. /\ \A j \in N : \/ j = Link(r, b, a) /\ j.on = b
                        \/ j.on \in X /\ j = Unlink(r, j.on, b)
        /\ Link(r, b, a) \in N
        /\ \A x \in X : Unlink(r, x, b) \in N
    BY LinkFields
  <1> HIDE DEF N
  <1>8. FitToLaunch(r, N, "await")
    <2>1. Faces(b, a) /\ a # b /\ a \notin Bs /\ \A x \in As : Faces(x, b)
      BY <1>1, <1>2, OldMeans, SidesAssumption
    <2>2. \A j \in N : /\ j.req = r /\ Faces(j.on, j.to)
                       /\ j.kind = "unlink" => Holds(j.on, j.to) /\ j.on # a /\ j.on # b
      <3> SUFFICES ASSUME NEW j \in N
                   PROVE  /\ j.req = r /\ Faces(j.on, j.to)
                          /\ j.kind = "unlink" => Holds(j.on, j.to) /\ j.on # a /\ j.on # b
        OBVIOUS
      <3>1. CASE j = Link(r, b, a)
        BY <2>1, <3>1, LinkFields
      <3>2. CASE j.on \in X /\ j = Unlink(r, j.on, b)
        <4>1. j.req = r /\ j.to = b
          BY <3>2, LinkFields
        <4> QED BY <1>5, <2>1, <3>2, <4>1
      <3> QED BY <1>7, <3>1, <3>2
    <2>3. \A j \in N : j.at = "start"
      BY <1>7 DEF Link, Unlink
    <2>4. \A i, j \in N : i.on = j.on => i = j
      <3> HIDE DEF a, b
      <3> QED BY <1>5, <1>7, <2>1
    <2>5. ASSUME NEW i \in jobs, NEW j \in N
          PROVE  i.on # j.on
      <3>1. i.on = a \/ (i.on \in Bs /\ i.on # b)
        <4>1. JobRight(i) /\ i.req = r
          BY OwnJobs DEF Midway, DocsRight, JobsRight
        <4> QED BY <1>1, <4>1 DEF JobRight
      <3>2. j.on = b \/ (j.on \in As /\ j.on # a)
        BY <1>5, <1>7
      <3> QED BY <1>1, <2>1, <3>1, <3>2, SidesAssumption
    <2> QED BY <1>1, <2>2, <2>3, <2>4, <2>5 DEF FitToLaunch
  <1>9. DocsRight'
    BY <1>1, <1>4, <1>8, LaunchDocs
  <1>10. Progress(r, S)'
    <2>1. SameInput(r) /\ req'[r].at = "await"
      BY <1>1, <1>4, GoesEffect DEF Launches, SameInput
    <2>2. ASSUME NEW d \in live, Waits(r, d)'
          PROVE  Waits(r, d)
      <3>1. PICK j \in jobs' : j.on = d
        BY <2>1, <2>2 DEF Waits
      <3>2. CASE j \in jobs
        BY <3>1, <3>2 DEF Waits
      <3>3. CASE j \in N
        BY <1>1, <1>5, <1>7, <3>1, <3>3 DEF Waits
      <3> QED BY <1>4, <3>2, <3>3 DEF Launches
    <2>3. ASSUME NEW d \in live, NEW x \in live, Waits(r, d), ~Waits(r, d)', Faces(d, x)
          PROVE  Old(S, d, x) <=> New(r, S, d, x)
      <3>1. \A j \in jobs \cup N : j.on # d
        BY <1>4, <2>3 DEF Waits, Launches
      <3>2. d # b /\ d \notin X
        BY <1>7, <3>1, LinkFields
      <3>3. d \in As /\ d # a
        BY <1>1, <2>3, <3>1, <3>2 DEF Waits
      <3>4. x \in Bs
        BY <2>3, <3>3, SidesAssumption DEF Faces
      <3>5. x = b => <<d, b>> \notin S.rel
        BY <1>6, <2>3, <3>2, <3>3
      <3>6. Old(S, d, x) <=> <<d, x>> \in S.rel
        BY <1>2, <3>3, <3>4, OldMeans
      <3>7. New(r, S, d, x) <=> \/ d = a /\ x = b
                                \/ /\ <<d, x>> \in S.rel /\ (d = a => schema.listA)
                                   /\ x = b /\ schema.twoWay => schema.listB
        BY <1>1, <3>3, <3>4, NewOfAdd
      <3> HIDE DEF Old, New
      <3> QED BY <1>1, <3>3, <3>5, <3>6, <3>7
    <2>4. req'[r].at # "check" /\ req[r].at # "check"
      BY <1>1, <2>1
    <2> HIDE DEF Waits
    <2> QED BY <1>1, <1>3, <2>1, <2>2, <2>3, <2>4, WaitingEnds
  <1> QED BY <1>9, <1>10 DEF Keeps

LEMMA RemoveChecksKeeps ==
  ASSUME NEW r \in Requests, NEW S, Midway(r, S), OneAtATime', ShapeInv', RemoveChecks(r)
  PROVE  Keeps(r, S)
  <1> DEFINE a == req[r].a
             b == req[r].b
  <1>1. /\ jobs = {} /\ req \in [Requests -> Request] /\ req[r].at = "check"
        /\ req[r].op = "remove" /\ UNCHANGED <<schema, live, ref>> /\ a \in As /\ b \in Bs
        /\ live \subseteq Docs
    BY OwnJobs, SerialTypes DEF Midway, RemoveChecks
  <1>2. CASE ~Related(a, b)
    BY <1>1, <1>2, RefusalKeeps DEF RemoveChecks
  <1>3. CASE Related(a, b)
    <2>1. Recorded(S) /\ live = S.live /\ \A d \in live : ShowsOld(S, d)
      <3>1. \A d : Waits(r, d)
        BY <1>1 DEF Waits
      <3>2. live = S.live
        BY <1>1, MidwayFacts DEF Survivors
      <3> QED BY <3>1, <3>2, MidwayFacts DEF Midway
    <2>2. a \in live /\ b \in live /\ Holds(a, b)
      BY <1>3, Zenon DEF Related
    <2>3. <<a, b>> \in S.rel /\ Old(S, a, b) /\ (schema.twoWay => Holds(b, a))
      BY <1>1, <2>1, <2>2, OldMeans
    <2>4. Checked(r, S)
      BY <1>1, <2>3 DEF Checked
    <2> DEFINE N == {Unlink(r, a, b)} \cup
                    {Unlink(r, x, a) : x \in IF schema.twoWay THEN {b} ELSE {}}
    <2>5. Launches(r, N, "await")
      <3>1. jobs' = jobs \cup N /\ Goes(r, "await")
        BY <1>3 DEF RemoveChecks
      <3> QED BY <1>1, <3>1 DEF Launches
    <2>6. /\ \A j \in N : j = Unlink(r, a, b) \/ (j = Unlink(r, b, a) /\ schema.twoWay)
          /\ Unlink(r, a, b) \in N /\ (schema.twoWay => Unlink(r, b, a) \in N)
      OBVIOUS
    <2> HIDE DEF N
    <2>7. FitToLaunch(r, N, "await")
      <3>1. Faces(a, b) /\ (schema.twoWay => Faces(b, a)) /\ a # b
        BY <1>1, <2>1, OldMeans, SidesAssumption
      <3>2. \A j \in N : j.at = "start"
        BY <2>6 DEF Unlink
      <3> HIDE DEF Faces, Holds
      <3> QED BY <1>1, <2>2, <2>3, <2>6, <3>1, <3>2, LinkFields DEF FitToLaunch
    <2>8. DocsRight'
      BY <1>1, <2>5, <2>7, LaunchDocs
    <2>9. Progress(r, S)'
      <3>1. SameInput(r) /\ req'[r].at = "await"
        BY <1>1, <2>5, GoesEffect DEF Launches, SameInput
      <3>2. \A d \in live : Waits(r, d)
        BY <1>1 DEF Waits
      <3>3. ASSUME NEW d \in live, NEW x \in live, ~Waits(r, d)', Faces(d, x)
            PROVE  Old(S, d, x) <=> New(r, S, d, x)
        <4>1. \A j \in N : j.on # d
          BY <2>5, <3>3 DEF Waits, Launches
        <4>2. d # a /\ (schema.twoWay => d # b)
          BY <2>6, <4>1, LinkFields
        <4>3. CASE d \in As /\ x \in Bs
          BY <1>1, <2>1, <4>2, <4>3, OldMeans, NewOfRemove
        <4>4. CASE d \in Bs /\ x \in As /\ schema.twoWay
          BY <1>1, <2>1, <4>2, <4>4, OldMeans, NewOfRemove
        <4> QED BY <3>3, <4>3, <4>4 DEF Faces
      <3> HIDE DEF Waits
      <3> QED BY <1>1, <2>4, <3>1, <3>2, <3>3, WaitingEnds
    <2> QED BY <2>8, <2>9 DEF Keeps
  <1> QED BY <1>2, <1>3

LEMMA AnswersKeeps ==
  ASSUME NEW r \in Requests, NEW S, Midway(r, S), OneAtATime', ShapeInv', Answers(r)
  PROVE  Keeps(r, S)
  <1>1. PICK ans \in {"ok", "error"} : Ends(r, ans)
    BY DEF Answers
  <1>2. /\ req \in [Requests -> Request] /\ req[r].at = "await"
        /\ UNCHANGED <<schema, live, ref, jobs>>
    BY SerialTypes DEF Midway, Answers
  <1>3. req'[r].at = "done" /\ \A q \in Requests : SameInput(q)
    BY <1>1, <1>2, EndsEffect DEF SameInput
  <1>4. \A d, x : (Holds(d, x)' <=> Holds(d, x)) /\ (Faces(d, x)' <=> Faces(d, x))
                  /\ (IsList(d)' <=> IsList(d)) /\ (CutSoon(d, x)' <=> CutSoon(d, x))
    BY <1>2 DEF Holds, Faces, IsList, CutSoon
  <1>5. Tidy'
    <2>1. Tidy
      BY DEF Midway, DocsRight
    <2> HIDE DEF Holds, Faces, IsList
    <2> QED BY <1>2, <1>4, <2>1 DEF Tidy
  <1>6. JobsRight'
    <2>1. OneEach'
      BY <1>2 DEF OneEach, Midway, DocsRight, JobsRight
    <2>2. ASSUME NEW j \in jobs
          PROVE  JobRight(j)'
      <3>1. JobRight(j) /\ j.req = r /\ j \in Job
        BY OwnJobs DEF Midway, DocsRight, JobsRight, ShapeInv, DataOK
      <3> HIDE DEF JobRight, Holds
      <3> QED BY <1>2, <1>3, <1>4, <3>1, SameRight
    <2> QED BY <1>2, <2>1, <2>2 DEF JobsRight
  <1>7. NoneDangles'
    <2> SUFFICES ASSUME schema.twoWay, NEW d \in Docs, NEW x \in Docs, Holds(d, x), x \notin live
                 PROVE  Asked(d, x)' \/ CutSoon(d, x)
      BY <1>2, <1>4 DEF NoneDangles
    <2>1. Asked(d, x) \/ CutSoon(d, x)
      BY DEF Midway, DocsRight, NoneDangles
    <2> QED BY <1>2, <1>3, <2>1, SameAsked
  <1>8. Progress(r, S)'
    <2>1. live = Survivors(r, S) /\ Checked(r, S) /\ live \subseteq Docs
      BY <1>2, SerialTypes DEF Midway, Progress
    <2>2. live' = Survivors(r, S)' /\ Checked(r, S)'
      BY <1>2, <1>3, <2>1 DEF Survivors, Checked, SameInput, Old
    <2>3. ASSUME NEW d \in live
          PROVE  IF Waits(r, d)' THEN ShowsOld(S, d)' ELSE ShowsNew(r, S, d)'
      <3>1. (ShowsOld(S, d)' <=> ShowsOld(S, d)) /\ (ShowsNew(r, S, d)' <=> ShowsNew(r, S, d))
        BY <1>2, <1>3, <1>4, <2>1, SameShows
      <3>2. Waits(r, d)' <=> Waits(r, d)
        BY <1>2, <1>3 DEF Waits
      <3> HIDE DEF Waits, ShowsOld, ShowsNew
      <3> QED BY <3>1, <3>2, MidwayFacts
    <2> HIDE DEF Waits, ShowsOld, ShowsNew, Survivors, Checked
    <2> QED BY <1>2, <2>2, <2>3 DEF Progress
  <1> QED BY <1>5, <1>6, <1>7, <1>8 DEF Keeps, DocsRight

LEMMA DeletesKeeps ==
  ASSUME NEW r \in Requests, NEW S, Midway(r, S), OneAtATime', ShapeInv', Deletes(r)
  PROVE  Keeps(r, S)
  <1> DEFINE a == req[r].a
             N == {Unlink(r, x, a) : x \in References(a)}
  <1>1. /\ jobs = {} /\ req \in [Requests -> Request] /\ req[r].at = "check"
        /\ req[r].op = "delete" /\ schema' = schema /\ a \in Docs
        /\ live \subseteq Docs /\ ref \in [Docs -> [Docs -> Nat]]
    BY OwnJobs, SerialTypes DEF Midway, Deletes
  <1>2. CASE a \notin live
    BY <1>1, <1>2, RefusalKeeps DEF Deletes
  <1>3. CASE a \in live
    <2>1. /\ live' = live \ {a} /\ ref' = [ref EXCEPT ![a] = NoRef]
          /\ jobs' = N /\ Goes(r, "await")
      BY <1>1, <1>3 DEF Deletes
    <2>2. Recorded(S) /\ live = S.live /\ \A d \in live : ShowsOld(S, d)
      <3>1. \A d : Waits(r, d)
        BY <1>1 DEF Waits
      <3>2. live = S.live
        BY <1>1, MidwayFacts DEF Survivors
      <3> QED BY <3>1, <3>2, MidwayFacts DEF Midway
    <2>3. ASSUME NEW d \in live, NEW x \in live, schema.twoWay, Holds(d, x)
          PROVE  Holds(x, d)
      <3>1. Faces(d, x)
        BY <1>1, <2>3, MidwayFacts
      <3>2. CASE d \in As /\ x \in Bs
        <4>1. <<d, x>> \in S.rel
          BY <2>2, <2>3, <3>2, OldMeans
        <4> QED BY <2>2, <2>3, <3>2, <4>1, OldMeans
      <3>3. CASE d \in Bs /\ x \in As
        <4>1. <<x, d>> \in S.rel
          BY <2>2, <2>3, <3>3, OldMeans
        <4> QED BY <2>2, <2>3, <3>3, <4>1, OldMeans
      <3> QED BY <3>1, <3>2, <3>3 DEF Faces
    <2>4. \A d, x \in Docs : Holds(d, x)' <=> d # a /\ Holds(d, x)
      BY <1>1, <2>1 DEF Holds, NoRef
    <2>5. \A d, x : (Faces(d, x)' <=> Faces(d, x)) /\ (IsList(d)' <=> IsList(d))
      BY <1>1 DEF Faces, IsList
    <2>6. /\ req'[r].at = "await" /\ \A q \in Requests : SameInput(q)
          /\ req'[r].op = "delete" /\ req'[r].a = a
      BY <1>1, <2>1, GoesEffect DEF SameInput
    <2>7. /\ \A x \in References(a) : x \in Docs /\ schema.twoWay /\ Holds(a, x)
          /\ \A x \in Docs : schema.twoWay /\ Holds(a, x) => x \in References(a)
      BY DEF References
    <2>8. /\ \A j \in N : /\ j = Unlink(r, j.on, a) /\ j.on \in References(a)
                          /\ j.req = r /\ j.to = a /\ j.kind = "unlink" /\ j.at = "start"
          /\ \A x \in References(a) :
                Unlink(r, x, a) \in N /\ Unlink(r, x, a).on = x /\ Unlink(r, x, a).to = a
                /\ Unlink(r, x, a).kind = "unlink"
      BY LinkFields DEF Unlink
    <2> HIDE DEF N
    <2>9. Tidy'
      <3>1. Tidy
        BY DEF Midway, DocsRight
      <3> HIDE DEF Holds, Faces, IsList
      <3> QED BY <1>1, <2>1, <2>4, <2>5, <3>1 DEF Tidy
    <2>10. JobsRight'
      <3>1. OneEach'
        <4> HIDE DEF a
        <4> QED BY <2>1, <2>8 DEF OneEach
      <3>2. ASSUME NEW j \in N
            PROVE  JobRight(j)'
        <4>1. /\ j.on \in Docs /\ schema.twoWay /\ Holds(a, j.on) /\ j.to = a
              /\ j.req = r /\ j.kind = "unlink" /\ j.at = "start"
          BY <2>7, <2>8
        <4>2. Faces(a, j.on)
          BY <1>1, <4>1, MidwayFacts
        <4>3. Faces(j.on, a) /\ j.on # a
          BY <4>1, <4>2, SidesAssumption DEF Faces
        <4>4. j.to \in Docs /\ Faces(j.on, j.to) /\ j.on # a
          BY <1>1, <4>1, <4>3
        <4>5. ASSUME j.on \in live
              PROVE  Holds(j.on, j.to)'
          <5>1. Holds(j.on, j.to)
            BY <1>3, <2>3, <4>1, <4>5
          <5> QED BY <2>4, <4>1, <4>4, <5>1
        <4>6. Faces(j.on, j.to)' /\ live' \subseteq live
          BY <2>1, <2>5, <4>4
        <4> HIDE DEF a, Faces, Holds
        <4> QED BY <2>6, <4>1, <4>5, <4>6 DEF JobRight
      <3> QED BY <2>1, <3>1, <3>2 DEF JobsRight
    <2>11. NoneDangles'
      <3> SUFFICES ASSUME schema.twoWay, NEW d \in Docs, NEW x \in Docs,
                          d # a, Holds(d, x), x \notin live \/ x = a
                   PROVE  Asked(d, x)' \/ CutSoon(d, x)'
        BY <1>1, <2>1, <2>4 DEF NoneDangles
      <3>1. CASE x \notin live
        <4>1. Asked(d, x) \/ CutSoon(d, x)
          BY <3>1 DEF Midway, DocsRight, NoneDangles
        <4>2. ~CutSoon(d, x)
          BY <1>1 DEF CutSoon
        <4> QED BY <1>1, <2>6, <4>1, <4>2, SameAsked
      <3>2. CASE x = a
        <4>1. d \in live
          BY <1>1, MidwayFacts
        <4>2. Holds(a, d)
          BY <1>3, <2>3, <3>2, <4>1
        <4>3. Unlink(r, d, a) \in jobs'
          BY <2>1, <2>7, <2>8, <4>2
        <4> HIDE DEF a
        <4> QED BY <2>7, <2>8, <3>2, <4>2, <4>3 DEF CutSoon
      <3> QED BY <3>1, <3>2
    <2>12. Progress(r, S)'
      <3>1. live' = Survivors(r, S)' /\ Checked(r, S)'
        BY <1>3, <2>1, <2>2, <2>6 DEF Survivors, Checked
      <3>2. ASSUME NEW d \in live'
            PROVE  IF Waits(r, d)' THEN ShowsOld(S, d)' ELSE ShowsNew(r, S, d)'
        <4>1. d \in live /\ d # a /\ d \in Docs
          BY <1>1, <2>1, <3>2
        <4>2. CASE Waits(r, d)'
          <5>1. ASSUME NEW x \in live', Faces(d, x)
                PROVE  Holds(d, x)' <=> Old(S, d, x)
            <6>1. x \in live /\ x \in Docs
              BY <1>1, <2>1, <5>1
            <6>2. Holds(d, x) <=> Old(S, d, x)
              BY <2>2, <4>1, <5>1, <6>1 DEF ShowsOld
            <6> HIDE DEF Holds, Old
            <6> QED BY <2>4, <4>1, <6>1, <6>2
          <5>2. ShowsOld(S, d)'
            <6>1. \A x : Old(S, d, x)' <=> Old(S, d, x)
              BY DEF Old
            <6> HIDE DEF Holds, Old, Faces
            <6> QED BY <2>5, <5>1, <6>1 DEF ShowsOld
          <5> QED BY <4>2, <5>2
        <4>3. CASE ~Waits(r, d)'
          <5>1. ASSUME NEW x \in live', Faces(d, x)
                PROVE  Holds(d, x)' <=> New(r, S, d, x)'
            <6>1. x \in live /\ x \in Docs /\ x # a
              BY <1>1, <2>1, <5>1
            <6>2. Holds(d, x) <=> Old(S, d, x)
              BY <2>2, <4>1, <5>1, <6>1 DEF ShowsOld
            <6>3. New(r, S, d, x)' <=> Old(S, d, x)
              BY <2>6, <4>1, <6>1 DEF New, Old
            <6> HIDE DEF Holds, Old, New
            <6> QED BY <2>4, <4>1, <6>1, <6>2, <6>3
          <5>2. ShowsNew(r, S, d)'
            <6> HIDE DEF Holds, New, Faces
            <6> QED BY <2>5, <5>1 DEF ShowsNew
          <5> QED BY <4>3, <5>2
        <4> QED BY <4>2, <4>3
      <3> HIDE DEF Waits, ShowsOld, ShowsNew, Survivors, Checked
      <3> QED BY <3>1, <3>2 DEF Progress
    <2> QED BY <2>9, <2>10, <2>11, <2>12 DEF Keeps, DocsRight
  <1> QED BY <1>2, <1>3

(* A step of the running mutation keeps what holds while it runs.           *)
LEMMA ResolverKeeps ==
  ASSUME NEW r \in Requests, NEW S, Midway(r, S), OneAtATime', ShapeInv', Resolver(r)
  PROVE  Keeps(r, S)
  BY AddChecksKeeps, FetchOldAKeeps, FetchOldBKeeps, RemoveChecksKeeps, DeletesKeeps,
     AnswersKeeps, Zenon DEF Resolver

(* What an operation makes of the references of its document.               *)
After(j, x) ==
    IF j.kind = "link" THEN x = j.to \/ (IsList(j.on) /\ Holds(j.on, x))
    ELSE x # j.to /\ Holds(j.on, x)

LEMMA LinkedExactly ==
  ASSUME NEW j \in Job, ref \in [Docs -> [Docs -> Nat]], NEW x \in Docs
  PROVE  Linked(j)[x] > 0 <=> IF j.at = "present" THEN Holds(j.on, x)
                              ELSE x = j.to \/ (IsList(j.on) /\ Holds(j.on, x))
  <1>1. j.on \in Docs /\ j.to \in Docs /\ ref[j.on] \in [Docs -> Nat]
    BY DEF Job
  <1>2. NoRef \in [Docs -> Nat] /\ \A y \in Docs : NoRef[y] = 0
    BY DEF NoRef
  <1>3. CASE j.at = "present"
    <2>1. Linked(j) = ref[j.on]
      BY <1>3, Zenon DEF Linked
    <2> QED BY <1>3, <2>1 DEF Holds
  <1>4. CASE j.at # "present" /\ IsList(j.on)
    <2>1. Linked(j) = [ref[j.on] EXCEPT ![j.to] = ref[j.on][j.to] + 1]
      BY <1>4, Zenon DEF Linked
    <2> HIDE DEF Linked
    <2> QED BY <1>1, <1>4, <2>1 DEF Holds
  <1>5. CASE j.at # "present" /\ ~IsList(j.on)
    <2>1. Linked(j) = [NoRef EXCEPT ![j.to] = 1]
      BY <1>5, Zenon DEF Linked
    <2> HIDE DEF Linked, NoRef
    <2> QED BY <1>1, <1>2, <1>5, <2>1
  <1> QED BY <1>3, <1>4, <1>5

LEMMA UnlinkedExactly ==
  ASSUME NEW j \in Job, ref \in [Docs -> [Docs -> Nat]], NEW x \in Docs
  PROVE  Unlinked(j)[x] > 0 <=> IsList(j.on) /\ x # j.to /\ Holds(j.on, x)
  <1>1. j.on \in Docs /\ j.to \in Docs /\ ref[j.on] \in [Docs -> Nat]
    BY DEF Job
  <1>2. CASE IsList(j.on)
    <2>1. Unlinked(j) = [ref[j.on] EXCEPT ![j.to] = 0]
      BY <1>2, Zenon DEF Unlinked
    <2> HIDE DEF Unlinked
    <2> QED BY <1>1, <1>2, <2>1 DEF Holds
  <1>3. CASE ~IsList(j.on)
    <2>1. Unlinked(j) = NoRef
      BY <1>3, Zenon DEF Unlinked
    <2> QED BY <1>3, <2>1 DEF NoRef
  <1> QED BY <1>2, <1>3

(* Of a document that is still to be written, the operation makes what the  *)
(* mutation is to make of it.                                               *)
LEMMA JobMeans ==
  ASSUME NEW r \in Requests, NEW S, Midway(r, S), NEW j \in jobs, j.on \in live,
         NEW x \in live, Faces(j.on, x)
  PROVE  After(j, x) <=> New(r, S, j.on, x)
  <1> DEFINE a == req[r].a
             b == req[r].b
  <1>1. /\ j.req = r /\ j.on \in Docs /\ j.to \in Docs /\ x \in Docs /\ live \subseteq Docs
        /\ req[r].op # "none" => b \in Bs
        /\ req[r].op \in {"add", "remove"} => a \in As
    BY OwnJobs, SerialTypes DEF Midway
  <1>2. JobRight(j) /\ Cause(j) /\ Recorded(S)
    BY DEF Midway, DocsRight, JobsRight, ShapeInv, Causes
  <1>3. ShowsOld(S, j.on) /\ (Holds(j.on, x) <=> Old(S, j.on, x))
    <2>1. Waits(r, j.on)
      BY DEF Waits
    <2>2. ShowsOld(S, j.on)
      BY <2>1, MidwayFacts
    <2> QED BY <2>2 DEF ShowsOld
  <1>4. /\ Faces(j.on, j.to)
        /\ req[r].at # "check" /\ Checked(r, S)
        /\ j.kind = "unlink" => Holds(j.on, j.to)
        /\ j.kind = "unlink" /\ req[r].op = "add" => j.on # a /\ j.on # b
    <2>1. req[r].at # "check"
      BY <1>1, <1>2 DEF JobRight
    <2>2. Checked(r, S)
      BY <2>1 DEF Midway, Progress
    <2> QED BY <1>1, <1>2, <2>1, <2>2 DEF JobRight
  <1>5. (j.on \in As /\ x \in Bs /\ j.to \in Bs)
           \/ (j.on \in Bs /\ x \in As /\ j.to \in As /\ schema.twoWay)
    BY <1>4, SidesAssumption DEF Faces
  <1>6. CASE req[r].op = "add"
    <2> HIDE DEF New
    <2>1. ~ <<a, b>> \in S.rel
      BY <1>1, <1>2, <1>4, <1>6, OldMeans DEF Checked
    <2>2. CASE j.kind = "link"
      <3>1. (j.on = a /\ j.to = b) \/ (j.on = b /\ j.to = a)
        BY <1>1, <1>2, <1>6, <2>2 DEF Cause, Between
      <3>2. CASE j.on = a /\ j.to = b
        <4>1. x \in Bs /\ IsList(j.on) = schema.listA
          BY <1>1, <1>5, <1>6, <3>2, SidesAssumption DEF IsList
        <4>2. Old(S, j.on, x) <=> <<j.on, x>> \in S.rel
          BY <1>1, <1>2, <1>6, <3>2, <4>1, OldMeans
        <4>3. New(r, S, j.on, x) <=>
                 \/ j.on = a /\ x = b
                 \/ /\ <<j.on, x>> \in S.rel /\ (j.on = a => schema.listA)
                    /\ x = b /\ schema.twoWay => schema.listB
          BY <1>1, <1>6, <3>2, <4>1, NewOfAdd
        <4> HIDE DEF a, b, Holds, Old
        <4> QED BY <1>3, <2>2, <3>2, <4>1, <4>2, <4>3 DEF After
      <3>3. CASE j.on = b /\ j.to = a
        <4>1. x \in As /\ IsList(j.on) = schema.listB /\ schema.twoWay
          BY <1>1, <1>5, <1>6, <3>3, SidesAssumption DEF IsList
        <4>2. Old(S, j.on, x) <=> <<x, j.on>> \in S.rel
          BY <1>1, <1>2, <1>6, <3>3, <4>1, OldMeans
        <4>3. New(r, S, j.on, x) <=>
                 \/ x = a /\ j.on = b
                 \/ /\ <<x, j.on>> \in S.rel /\ (x = a => schema.listA)
                    /\ j.on = b /\ schema.twoWay => schema.listB
          BY <1>1, <1>6, <3>3, <4>1, NewOfAdd
        <4> HIDE DEF a, b, Holds, Old
        <4> QED BY <1>3, <2>2, <3>3, <4>1, <4>2, <4>3 DEF After
      <3> QED BY <3>1, <3>2, <3>3
    <2>3. CASE j.kind = "unlink"
      <3>1. \/ j.to = a /\ ~schema.listA
            \/ j.to = b /\ schema.twoWay /\ ~schema.listB
        BY <1>1, <1>2, <1>6, <2>3 DEF Cause
      <3>2. j.on # a /\ j.on # b
        BY <1>4, <1>6, <2>3
      <3>3. CASE j.on \in As /\ x \in Bs /\ j.to \in Bs
        <4>1. Old(S, j.on, x) <=> <<j.on, x>> \in S.rel
          BY <1>2, <3>3, OldMeans
        <4>2. New(r, S, j.on, x) <=>
                 \/ j.on = a /\ x = b
                 \/ /\ <<j.on, x>> \in S.rel /\ (j.on = a => schema.listA)
                    /\ x = b /\ schema.twoWay => schema.listB
          BY <1>1, <1>6, <3>3, NewOfAdd
        <4>3. j.to = b /\ schema.twoWay /\ ~schema.listB
          BY <1>1, <1>6, <3>1, <3>3, SidesAssumption
        <4> HIDE DEF a, b, Holds, Old
        <4> QED BY <1>3, <2>3, <3>2, <4>1, <4>2, <4>3 DEF After
      <3>4. CASE j.on \in Bs /\ x \in As /\ j.to \in As
        <4>1. Old(S, j.on, x) <=> <<x, j.on>> \in S.rel
          BY <1>2, <3>4, OldMeans
        <4>2. New(r, S, j.on, x) <=>
                 \/ x = a /\ j.on = b
                 \/ /\ <<x, j.on>> \in S.rel /\ (x = a => schema.listA)
                    /\ j.on = b /\ schema.twoWay => schema.listB
          BY <1>1, <1>6, <3>4, NewOfAdd
        <4>3. j.to = a /\ ~schema.listA
          BY <1>1, <1>6, <3>1, <3>4, SidesAssumption
        <4> HIDE DEF a, b, Holds, Old
        <4> QED BY <1>3, <2>3, <3>2, <4>1, <4>2, <4>3 DEF After
      <3> QED BY <1>5, <3>3, <3>4
    <2> QED BY <1>2, <2>2, <2>3 DEF Cause
  <1>7. CASE req[r].op = "remove"
    <2> HIDE DEF New
    <2>1. j.kind = "unlink" /\ ((j.on = a /\ j.to = b) \/ (j.on = b /\ j.to = a))
      BY <1>1, <1>2, <1>7 DEF Cause, Between
    <2>2. CASE j.on = a /\ j.to = b
      <3>1. x \in Bs
        BY <1>1, <1>5, <1>7, <2>2, SidesAssumption
      <3>2. Old(S, j.on, x) <=> <<j.on, x>> \in S.rel
        BY <1>1, <1>2, <1>7, <2>2, <3>1, OldMeans
      <3>3. New(r, S, j.on, x) <=> (<<j.on, x>> \in S.rel /\ ~(j.on = a /\ x = b))
        <4>1. a \in As /\ b \in Bs /\ j.on \in As
          BY <1>1, <1>7, <2>2
        <4> QED BY <1>7, <3>1, <4>1, NewOfRemove
      <3> HIDE DEF a, b, Holds, Old
      <3> QED BY <1>3, <2>1, <2>2, <3>2, <3>3 DEF After
    <2>3. CASE j.on = b /\ j.to = a
      <3>1. x \in As
        BY <1>1, <1>5, <1>7, <2>3, SidesAssumption
      <3>2. Old(S, j.on, x) <=> <<x, j.on>> \in S.rel
        BY <1>1, <1>2, <1>7, <2>3, <3>1, OldMeans
      <3>3. New(r, S, j.on, x) <=> (<<x, j.on>> \in S.rel /\ ~(x = a /\ j.on = b))
        BY <1>1, <1>7, <2>3, <3>1, NewOfRemove
      <3> HIDE DEF a, b, Holds, Old
      <3> QED BY <1>3, <2>1, <2>3, <3>2, <3>3 DEF After
    <2> QED BY <2>1, <2>2, <2>3
  <1>8. CASE req[r].op = "delete"
    <2>1. j.kind = "unlink" /\ j.to = a
      BY <1>1, <1>2, <1>8 DEF Cause
    <2>2. live = S.live \ {a}
      BY <1>4, <1>8, MidwayFacts DEF Survivors
    <2>3. New(r, S, j.on, x) <=> Old(S, j.on, x)
      BY <1>8, <2>2 DEF New
    <2> HIDE DEF Holds, Old, New
    <2> QED BY <1>3, <2>1, <2>2, <2>3 DEF After
  <1>9. req[r].op \in {"add", "remove", "delete"}
    <2>1. req[r].op # "none"
      BY OwnJobs DEF Midway
    <2> QED BY <1>1, <1>2, <2>1 DEF Cause
  <1> QED BY <1>6, <1>7, <1>8, <1>9

(* An operation that ends, having written its document if it is there.      *)
Ended(j) ==
    /\ jobs' = jobs \ {j} /\ UNCHANGED <<schema, live>>
    /\ \A q \in Requests : SameInput(q) /\ req'[q].at = req[q].at
    /\ \A d, x \in Docs :
          Holds(d, x)' <=> IF d = j.on THEN d \in live /\ After(j, x) ELSE Holds(d, x)

LEMMA EndKeeps ==
  ASSUME NEW r \in Requests, NEW S, Midway(r, S), OneAtATime', ShapeInv', NEW j \in jobs,
         Ended(j)
  PROVE  DocsRight' /\ Progress(r, S)'
  <1>1. /\ j \in Job /\ jobs \subseteq Job /\ j.on \in Docs /\ j.to \in Docs /\ live \subseteq Docs
        /\ req \in [Requests -> Request] /\ \A i \in jobs : i.req = r
    BY OwnJobs, SerialTypes DEF Midway, ShapeInv, DataOK
  <1>2. /\ JobRight(j) /\ Faces(j.on, j.to) /\ req[r].at \notin {"check", "oldA"}
        /\ \A i \in jobs : i.on = j.on => i = j
    BY <1>1 DEF Midway, DocsRight, JobsRight, OneEach, JobRight
  <1>3. \A d, x : (Faces(d, x)' <=> Faces(d, x)) /\ (IsList(d)' <=> IsList(d))
    BY DEF Ended, Faces, IsList
  <1>4. Tidy'
    <2>1. ASSUME NEW d \in Docs, NEW x \in Docs, Holds(d, x)'
          PROVE  d \in live /\ Faces(d, x)
      <3>1. CASE d = j.on /\ x = j.to
        BY <1>2, <2>1, <3>1 DEF Ended
      <3>2. CASE Holds(d, x)
        <4>1. d \in live /\ Faces(d, x)
          BY <3>2, MidwayFacts
        <4> QED BY <4>1
      <3>3. CASE d = j.on /\ x # j.to
        <4>1. Holds(d, x)
          BY <2>1, <3>3 DEF Ended, After
        <4> QED BY <3>2, <4>1
      <3> QED BY <2>1, <3>1, <3>2, <3>3 DEF Ended
    <2>2. ASSUME NEW d \in Docs, NEW x \in Docs, NEW y \in Docs, ~IsList(d),
                 Holds(d, x)', Holds(d, y)'
          PROVE  x = y
      <3>1. CASE d # j.on
        <4>1. Holds(d, x) /\ Holds(d, y)
          BY <2>2, <3>1 DEF Ended
        <4> QED BY <2>2, <4>1, MidwayFacts
      <3>2. CASE d = j.on
        <4>1. After(j, x) /\ After(j, y)
          BY <2>2, <3>2 DEF Ended
        <4>2. Holds(d, x) /\ Holds(d, y) => x = y
          BY <2>2, MidwayFacts
        <4> HIDE DEF IsList, Holds
        <4> QED BY <2>2, <3>2, <4>1, <4>2 DEF After
      <3> QED BY <3>1, <3>2
    <2> HIDE DEF Holds, Faces, IsList
    <2> QED BY <1>3, <2>1, <2>2 DEF Tidy, Ended
  <1>5. JobsRight'
    <2>1. OneEach'
      BY DEF OneEach, Midway, DocsRight, JobsRight, Ended
    <2>2. ASSUME NEW i \in jobs, i # j
          PROVE  JobRight(i)'
      <3>1. /\ JobRight(i) /\ i \in Job /\ i.on # j.on /\ i.on \in Docs
            /\ i.req \in Requests /\ i.req = r
        BY <1>1, <1>2, <2>2 DEF Midway, DocsRight, JobsRight, Job
      <3>2. \A x \in Docs : Holds(i.on, x)' <=> Holds(i.on, x)
        BY <3>1 DEF Ended
      <3>3. schema' = schema /\ live' \subseteq live /\ SameInput(i.req) /\ req'[i.req].at = req[i.req].at
        BY <3>1 DEF Ended
      <3> HIDE DEF JobRight, Holds
      <3> QED BY <1>2, <3>1, <3>2, <3>3, SameRight
    <2> QED BY <2>1, <2>2 DEF JobsRight, Ended
  <1>6. NoneDangles'
    <2> SUFFICES ASSUME schema.twoWay, NEW d \in Docs, NEW x \in Docs, Holds(d, x)', x \notin live
                 PROVE  Asked(d, x)' \/ CutSoon(d, x)'
      BY DEF NoneDangles, Ended
    <2>1. CASE Asked(d, x)
      BY <1>1, <2>1, SameAsked DEF Ended
    <2>2. CASE ~Asked(d, x) /\ ~Holds(d, x)
      <3>1. d = j.on /\ j.kind = "link" /\ x = j.to
        BY <2>2 DEF Ended, After
      <3>2. Asked(d, x)
        <4>1. Cause(j) /\ j.req = r
          BY <1>1 DEF Midway, ShapeInv, Causes
        <4> QED BY <3>1, <4>1 DEF Cause, Between, Asked
      <3> QED BY <2>2, <3>2
    <2>3. CASE ~Asked(d, x) /\ Holds(d, x)
      <3>1. PICK i \in jobs : i.kind = "unlink" /\ i.on = d /\ i.to = x
        BY <2>3 DEF Midway, DocsRight, NoneDangles, CutSoon
      <3>2. i # j
        <4> SUFFICES ASSUME i = j PROVE FALSE
          OBVIOUS
        <4> QED BY <3>1 DEF Ended, After
      <3> QED BY <3>1, <3>2 DEF CutSoon, Ended
    <2> QED BY <2>1, <2>2, <2>3
  <1>7. Progress(r, S)'
    <2>1. live = Survivors(r, S) /\ Checked(r, S)
      BY <1>2 DEF Midway, Progress
    <2>2. live' = Survivors(r, S)' /\ Checked(r, S)'
      <3>1. SameInput(r) /\ live' = live /\ req'[r].at = req[r].at
        BY DEF Ended
      <3> QED BY <2>1, <3>1 DEF Survivors, Checked, SameInput, Old
    <2>3. ASSUME NEW d \in live
          PROVE  IF Waits(r, d)' THEN ShowsOld(S, d)' ELSE ShowsNew(r, S, d)'
      <3>1. CASE d = j.on
        <4>1. ~Waits(r, d)'
          <5>1. /\ req'[r].at = req[r].at /\ req'[r].a = req[r].a /\ req'[r].b = req[r].b
                /\ \A i \in jobs' : i.on # d
            BY <1>2, <3>1 DEF Ended, SameInput
          <5>2. req[r].at = "oldB" => d # req[r].b /\ (d \in As => d = req[r].a)
            <6>1. req[r].at = "oldB" =>
                     /\ req[r].a \in As /\ req[r].b \in Bs
                     /\ d = req[r].a \/ (d \in Bs /\ d # req[r].b)
              BY <1>1, <1>2, <3>1, SerialTypes DEF JobRight, Midway, ShapeInv, Shape
            <6> QED BY <6>1, SidesAssumption
          <5> QED BY <1>2, <5>1, <5>2 DEF Waits
        <4>2. ASSUME NEW x \in live, Faces(d, x)
              PROVE  Holds(d, x)' <=> New(r, S, d, x)
          <5>1. After(j, x) <=> New(r, S, d, x)
            BY <3>1, <4>2, JobMeans
          <5> HIDE DEF After, New, Holds
          <5> QED BY <1>1, <3>1, <4>2, <5>1 DEF Ended
        <4>3. ShowsNew(r, S, d)'
          <5>1. live' = live /\ \A x : New(r, S, d, x)' <=> New(r, S, d, x)
            BY DEF New, Old, Named, SameInput, Ended
          <5> HIDE DEF New, Holds, Faces
          <5> QED BY <1>3, <4>2, <5>1 DEF ShowsNew
        <4> QED BY <4>1, <4>3
      <3>2. CASE d # j.on
        <4>1. (ShowsOld(S, d)' <=> ShowsOld(S, d)) /\ (ShowsNew(r, S, d)' <=> ShowsNew(r, S, d))
          <5>1. \A x \in Docs : Holds(d, x)' <=> Holds(d, x)
            BY <1>1, <3>2 DEF Ended
          <5>2. schema' = schema /\ live' = live /\ SameInput(r)
            BY DEF Ended
          <5> QED BY <1>1, <5>1, <5>2, SameShows
        <4>2. Waits(r, d)' <=> Waits(r, d)
          BY <3>2 DEF Waits, Ended, SameInput
        <4> HIDE DEF Waits, ShowsOld, ShowsNew
        <4> QED BY <4>1, <4>2, MidwayFacts
      <3> QED BY <3>1, <3>2
    <2>4. live' = live
      BY DEF Ended
    <2> HIDE DEF Waits, ShowsOld, ShowsNew, Survivors, Checked
    <2> QED BY <2>2, <2>3, <2>4 DEF Progress
  <1> QED BY <1>4, <1>5, <1>6, <1>7 DEF DocsRight

(* An operation has found its document.                                     *)
LEMMA FindKeeps ==
  ASSUME NEW r \in Requests, NEW S, Midway(r, S), OneAtATime', ShapeInv', NEW j \in jobs,
         LinkFinds(j), j.on \in live
  PROVE  DocsRight' /\ Progress(r, S)'
  <1>0. PICK k : k = [j EXCEPT !.at = IF Holds(j.on, j.to) THEN "present" ELSE "absent"]
    OBVIOUS
  <1>1. /\ j \in Job /\ jobs \subseteq Job /\ j.on \in Docs /\ j.to \in Docs /\ live \subseteq Docs
        /\ req \in [Requests -> Request] /\ \A i \in jobs : i.req = r
    BY OwnJobs, SerialTypes DEF Midway, ShapeInv, DataOK
  <1>2. /\ JobRight(j) /\ req[r].at \notin {"check", "oldA"}
        /\ \A i \in jobs : i.on = j.on => i = j
    BY <1>1 DEF Midway, DocsRight, JobsRight, OneEach, JobRight
  <1>3. /\ jobs' = (jobs \ {j}) \cup {k} /\ UNCHANGED <<schema, live, ref, req>>
        /\ j.kind = "link"
    BY <1>0 DEF LinkFinds
  <1>4. /\ k.req = j.req /\ k.on = j.on /\ k.to = j.to /\ k.kind = j.kind
        /\ k.at = "present" => Holds(j.on, j.to)
    BY <1>0, <1>1 DEF Job
  <1>5. \A d, x : (Holds(d, x)' <=> Holds(d, x)) /\ (Faces(d, x)' <=> Faces(d, x))
                  /\ (IsList(d)' <=> IsList(d)) /\ (Asked(d, x)' <=> Asked(d, x))
    BY <1>3 DEF Holds, Faces, IsList, Asked
  <1>6. Tidy'
    <2>1. Tidy
      BY DEF Midway, DocsRight
    <2> HIDE DEF Holds, Faces, IsList
    <2> QED BY <1>3, <1>5, <2>1 DEF Tidy
  <1>7. JobsRight'
    <2>1. OneEach'
      BY <1>2, <1>3, <1>4 DEF OneEach, Midway, DocsRight, JobsRight
    <2>2. ASSUME NEW i \in jobs
          PROVE  JobRight(i)'
      <3>1. JobRight(i)
        BY DEF Midway, DocsRight, JobsRight
      <3> HIDE DEF Holds, Faces
      <3> QED BY <1>3, <1>5, <3>1 DEF JobRight
    <2>3. JobRight(k)'
      <3> HIDE DEF Holds, Faces
      <3> QED BY <1>2, <1>3, <1>4, <1>5 DEF JobRight
    <2> QED BY <1>3, <2>1, <2>2, <2>3 DEF JobsRight
  <1>8. NoneDangles'
    <2>1. \A d, x : CutSoon(d, x) => CutSoon(d, x)'
      BY <1>3 DEF CutSoon
    <2>2. NoneDangles
      BY DEF Midway, DocsRight
    <2> HIDE DEF Holds, Asked, CutSoon
    <2> QED BY <1>3, <1>5, <2>1, <2>2 DEF NoneDangles
  <1>9. Progress(r, S)'
    <2>1. live = Survivors(r, S) /\ Checked(r, S)
      BY <1>2 DEF Midway, Progress
    <2>2. live' = Survivors(r, S)' /\ Checked(r, S)'
      BY <1>3, <2>1 DEF Survivors, Checked, Old
    <2>3. ASSUME NEW d \in live
          PROVE  IF Waits(r, d)' THEN ShowsOld(S, d)' ELSE ShowsNew(r, S, d)'
      <3>1. (ShowsOld(S, d)' <=> ShowsOld(S, d)) /\ (ShowsNew(r, S, d)' <=> ShowsNew(r, S, d))
        <4>1. SameInput(r)
          BY <1>3 DEF SameInput
        <4> QED BY <1>1, <1>3, <1>5, <4>1, SameShows
      <3>2. Waits(r, d)' <=> Waits(r, d)
        BY <1>3, <1>4 DEF Waits
      <3> HIDE DEF Waits, ShowsOld, ShowsNew
      <3> QED BY <3>1, <3>2, MidwayFacts
    <2> HIDE DEF Waits, ShowsOld, ShowsNew, Survivors, Checked
    <2> QED BY <1>3, <2>2, <2>3 DEF Progress
  <1> QED BY <1>6, <1>7, <1>8, <1>9 DEF DocsRight

(* A database operation keeps what holds while its mutation runs, when      *)
(* Model.update exists and nothing is rejected.                             *)
LEMMA DatabaseKeeps ==
  ASSUME NEW r \in Requests, NEW S, Midway(r, S), OneAtATime', ShapeInv', NEW j \in jobs,
         Database(j), schema.hasUpdate
  PROVE  DocsRight' /\ Progress(r, S)'
  <1>1. /\ j \in Job /\ jobs \subseteq Job /\ j.on \in Docs /\ j.to \in Docs
        /\ ref \in [Docs -> [Docs -> Nat]] /\ req \in [Requests -> Request]
        /\ schema' = schema /\ live' = live
    <2>1. schema' = schema /\ live' = live
      BY DEF Database, LinkFinds, LinkSaves, Unlinks, UpdateMissing
    <2> QED BY <2>1, SerialTypes DEF Midway, ShapeInv, DataOK
  <1>2. JobRight(j)
    BY DEF Midway, DocsRight, JobsRight
  <1>3. ASSUME Reject(j) \/ Finish(j)
        PROVE  jobs' = jobs \ {j} /\ \A q \in Requests : SameInput(q) /\ req'[q].at = req[q].at
    <2>1. CASE Reject(j)
      BY <1>1, <2>1, RejectEffect DEF SameInput
    <2>2. CASE Finish(j)
      BY <2>2 DEF Finish, SameInput
    <2> QED BY <1>3, <2>1, <2>2
  <1>4. ASSUME j.on \notin live
        PROVE  \A x \in Docs : ~Holds(j.on, x)
    BY <1>1, <1>4, MidwayFacts
  <1>5. CASE LinkFinds(j) /\ j.on \in live
    BY <1>5, FindKeeps
  <1>6. CASE (LinkFinds(j) \/ LinkSaves(j)) /\ j.on \notin live
    <2>1. Reject(j) /\ UNCHANGED ref
      BY <1>6 DEF LinkFinds, LinkSaves
    <2>2. \A d, x \in Docs :
             Holds(d, x)' <=> IF d = j.on THEN d \in live /\ After(j, x) ELSE Holds(d, x)
      <3>1. \A d, x : Holds(d, x)' <=> Holds(d, x)
        BY <2>1 DEF Holds
      <3> HIDE DEF Holds, After
      <3> QED BY <1>4, <1>6, <3>1
    <2>3. Ended(j)
      BY <1>1, <1>3, <2>1, <2>2 DEF Ended
    <2> QED BY <2>3, EndKeeps
  <1>7. CASE LinkSaves(j) /\ j.on \in live
    <2>1. Finish(j) /\ ref' = [ref EXCEPT ![j.on] = Linked(j)]
      BY <1>7 DEF LinkSaves
    <2>2. ASSUME NEW x \in Docs
          PROVE  Linked(j)[x] > 0 <=> After(j, x)
      <3>1. Linked(j)[x] > 0 <=> IF j.at = "present" THEN Holds(j.on, x)
                                 ELSE x = j.to \/ (IsList(j.on) /\ Holds(j.on, x))
        BY <1>1, LinkedExactly
      <3>2. j.kind = "link" /\ (j.at = "present" => Holds(j.on, j.to))
        BY <1>2, <1>7 DEF LinkSaves, JobRight
      <3>3. j.at = "present" /\ ~IsList(j.on) /\ Holds(j.on, x) => x = j.to
        BY <1>1, <3>2, MidwayFacts
      <3> HIDE DEF Linked, Holds, IsList
      <3> QED BY <3>1, <3>2, <3>3 DEF After
    <2> HIDE DEF Linked
    <2>3. \A d, x \in Docs :
             Holds(d, x)' <=> IF d = j.on THEN d \in live /\ After(j, x) ELSE Holds(d, x)
      <3> HIDE DEF After
      <3> QED BY <1>1, <1>7, <2>1, <2>2 DEF Holds
    <2>4. Ended(j)
      BY <1>1, <1>3, <2>1, <2>3 DEF Ended
    <2> QED BY <2>4, EndKeeps
  <1>8. CASE Unlinks(j)
    <2>1. Finish(j) /\ ref' = [ref EXCEPT ![j.on] = Unlinked(j)] /\ j.kind = "unlink"
      BY <1>8 DEF Unlinks
    <2>2. ASSUME NEW x \in Docs
          PROVE  Unlinked(j)[x] > 0 <=> (j.on \in live /\ After(j, x))
      <3>1. Unlinked(j)[x] > 0 <=> IsList(j.on) /\ x # j.to /\ Holds(j.on, x)
        BY <1>1, UnlinkedExactly
      <3>2. j.on \in live => Holds(j.on, j.to)
        BY <1>2, <2>1 DEF JobRight
      <3>3. j.on \in live /\ ~IsList(j.on) /\ Holds(j.on, x) => x = j.to
        BY <1>1, <3>2, MidwayFacts
      <3>4. Holds(j.on, x) => j.on \in live
        BY <1>4
      <3> HIDE DEF Unlinked, Holds, IsList
      <3> QED BY <2>1, <3>1, <3>3, <3>4 DEF After
    <2> HIDE DEF Unlinked
    <2>3. \A d, x \in Docs :
             Holds(d, x)' <=> IF d = j.on THEN d \in live /\ After(j, x) ELSE Holds(d, x)
      <3> HIDE DEF After
      <3> QED BY <1>1, <2>1, <2>2 DEF Holds
    <2>4. Ended(j)
      BY <1>1, <1>3, <2>1, <2>3 DEF Ended
    <2> QED BY <2>4, EndKeeps
  <1> QED BY <1>5, <1>6, <1>7, <1>8 DEF Database, UpdateMissing

-----------------------------------------------------------------------------
(* Mutations that do not overlap: between them. *)

LEMMA QuietMeans ==
  ASSUME ShapeInv, Quiet
  PROVE  jobs = {} /\ \A r \in Requests : req[r].at \in {"idle", "done"}
  <1>1. \A j \in jobs : j.req \in Requests
    BY DEF ShapeInv, DataOK, Job
  <1> QED BY <1>1 DEF Quiet, Running

(* A mutation begins when nothing is running. *)
LEMMA SubmitKeeps ==
  ASSUME Serial, SerialInv, NEW r \in Requests, Submit(r), NEW S, S = settled
  PROVE  /\ DocsRight' /\ Running(r)' /\ Progress(r, S)'
         /\ \A q \in Requests : Running(q)' => q = r
  <1>1. ShapeInv /\ DocsRight /\ req \in [Requests -> Request]
    BY DEF SerialInv, ShapeInv, DataOK
  <1>2. Quiet
    <2> DEFINE Open == {q \in Requests : Running(q)}
    <2>1. IsFiniteSet(Open) /\ Cardinality(Open) < 1
      <3>1. IsFiniteSet(Requests) /\ Cardinality(Open) < 1
        BY DEF Serial, Submit
      <3> QED BY <3>1, FS_Subset
    <2>2. Cardinality(Open) \in Nat
      BY <2>1, FS_CardinalityType
    <2>3. Cardinality(Open) = 0
      <3> HIDE DEF Open
      <3> QED BY <2>1, <2>2
    <2>4. Open = {}
      BY <2>1, <2>3, FS_EmptySet
    <2> QED BY <2>4 DEF Quiet
  <1>3. Agrees(S) /\ jobs = {} /\ \A q \in Requests : req[q].at \in {"idle", "done"}
    <2>1. Agrees(S)
      BY <1>2 DEF SerialInv
    <2> QED BY <1>1, <1>2, <2>1, QuietMeans
  <1>4. PICK op \in Ops, a \in Docs, b \in Bs :
           req' = [req EXCEPT ![r] = [op |-> op, a |-> a, b |-> b, at |-> "check",
                                      failed |-> FALSE, answer |-> "none"]]
    BY DEF Submit
  <1>5. op \in {"add", "remove", "delete"} /\ b \in Docs
    BY OpsAssumption DEF Docs
  <1>6. req'[r].at = "check" /\ \A q \in Requests \ {r} : req'[q] = req[q]
    BY <1>1, <1>4, <1>5, SubmitEffect
  <1>7. req[r].at = "idle" /\ req[r].op = "none" /\ UNCHANGED <<schema, live, ref, jobs>>
    BY <1>1 DEF Submit, ShapeInv, Shape
  <1>8. Running(r)' /\ \A q \in Requests : Running(q)' => q = r
    BY <1>3, <1>6, <1>7 DEF Running
  <1>9. \A d, x : (Holds(d, x)' <=> Holds(d, x)) /\ (Faces(d, x)' <=> Faces(d, x))
                  /\ (IsList(d)' <=> IsList(d))
    BY <1>7 DEF Holds, Faces, IsList
  <1>10. Tidy'
    <2>1. Tidy
      BY <1>1 DEF DocsRight
    <2> HIDE DEF Holds, Faces, IsList
    <2> QED BY <1>7, <1>9, <2>1 DEF Tidy
  <1>11. JobsRight' /\ OneAtATime'
    BY <1>3, <1>7, <1>8 DEF JobsRight, OneEach, OneAtATime
  <1>12. NoneDangles'
    <2> SUFFICES ASSUME schema.twoWay, NEW d \in Docs, NEW x \in Docs, Holds(d, x), x \notin live
                 PROVE  Asked(d, x)'
      BY <1>7, <1>9 DEF NoneDangles
    <2>1. Asked(d, x)
      BY <1>1, <1>3 DEF DocsRight, NoneDangles, CutSoon
    <2> QED BY <1>6, <1>7, <2>1 DEF Asked
  <1>13. Progress(r, S)'
    <2>1. live' = Survivors(r, S)'
      BY <1>3, <1>6, <1>7 DEF Survivors, Agrees
    <2>2. \A d : Waits(r, d)'
      BY <1>6 DEF Waits
    <2>3. \A d \in live : ShowsOld(S, d)'
      <3>1. \A d \in live : ShowsOld(S, d)
        BY <1>3 DEF Agrees
      <3>2. \A d, x : Old(S, d, x)' <=> Old(S, d, x)
        BY DEF Old
      <3> HIDE DEF Holds, Faces, Old
      <3> QED BY <1>7, <1>9, <3>1, <3>2 DEF ShowsOld
    <2> HIDE DEF Waits, ShowsOld, Survivors
    <2> QED BY <1>6, <1>7, <2>1, <2>2, <2>3 DEF Progress
  <1> QED BY <1>8, <1>10, <1>11, <1>12, <1>13 DEF DocsRight

(* What documents record that agree with a relation in both directions.     *)
LEMMA AgreeIntro ==
  ASSUME ShapeInv', Tidy', NEW T, T = [live |-> live', rel |-> Pairs'],
         \A d \in As, x \in Bs :
            d \in live' /\ x \in live' /\ schema'.twoWay => (Holds(x, d)' <=> Holds(d, x)')
  PROVE  Recorded(T) /\ Agrees(T)'
  <1>1. T.live = live' /\ T.rel = Pairs' /\ live' \subseteq Docs
    BY DEF ShapeInv, DataOK
  <1>2. \A d \in As, x \in Bs : d \in live' /\ x \in live' =>
            (<<d, x>> \in T.rel <=> Holds(d, x)')
    BY <1>1 DEF Pairs, Related
  <1>3. \A p \in T.rel : p \in As \X Bs /\ p[1] \in live' /\ p[2] \in live'
    BY <1>1 DEF Pairs, Related
  <1>4. ASSUME NEW d \in live'
        PROVE  ShowsOld(T, d)'
    <2>1. ASSUME NEW x \in live', Faces(d, x)'
          PROVE  Holds(d, x)' <=> Old(T, d, x)'
      <3>1. CASE d \in As /\ x \in Bs
        <4>1. Old(T, d, x)' <=> <<d, x>> \in T.rel
          BY <3>1 DEF Old
        <4> HIDE DEF Old, Holds
        <4> QED BY <1>2, <2>1, <3>1, <4>1
      <3>2. CASE d \in Bs /\ x \in As /\ schema'.twoWay
        <4>1. Old(T, d, x)' <=> <<x, d>> \in T.rel
          BY <3>2, SidesAssumption DEF Old
        <4> HIDE DEF Old, Holds
        <4> QED BY <1>2, <2>1, <3>2, <4>1
      <3> QED BY <2>1, <3>1, <3>2 DEF Faces
    <2> HIDE DEF Holds, Faces, Old
    <2> QED BY <2>1 DEF ShowsOld
  <1>5. Recorded(T)
    BY <1>1, <1>3 DEF Recorded
  <1> HIDE DEF ShowsOld, Pairs
  <1> QED BY <1>1, <1>4, <1>5 DEF Agrees

(* A finished mutation leaves the new relation in every document.           *)
LEMMA FinishedMeans ==
  ASSUME NEW r \in Requests, NEW S, Midway(r, S), SameInput(r), schema' = schema,
         ShapeInv', DocsRight', Progress(r, S)', Quiet'
  PROVE  /\ live' = IF req[r].op = "delete" THEN S.live \ {req[r].a} ELSE S.live
         /\ Checked(r, S)
         /\ \A d \in As, x \in Bs : d \in live' /\ x \in live' =>
               /\ Holds(d, x)' <=> New(r, S, d, x)
               /\ schema.twoWay => (Holds(x, d)' <=> New(r, S, x, d))
  <1>1. jobs' = {} /\ req'[r].at \in {"idle", "done"}
    <2>1. \A j \in jobs' : j.req \in Requests
      BY DEF ShapeInv, DataOK, Job
    <2> QED BY <2>1 DEF Quiet, Running
  <1>2. live' = IF req[r].op = "delete" THEN S.live \ {req[r].a} ELSE S.live
    BY <1>1 DEF Progress, Survivors, SameInput
  <1>3. Checked(r, S)
    <2>1. Checked(r, S)'
      BY <1>1 DEF Progress
    <2> QED BY <2>1 DEF Checked, SameInput, Old
  <1>4. ASSUME NEW d \in live', NEW x \in live', Faces(d, x)
        PROVE  Holds(d, x)' <=> New(r, S, d, x)
    <2>1. ~Waits(r, d)'
      BY <1>1 DEF Waits
    <2>2. ShowsNew(r, S, d)'
      BY <2>1 DEF Progress
    <2>3. (New(r, S, d, x)' <=> New(r, S, d, x)) /\ (Faces(d, x)' <=> Faces(d, x))
      BY DEF New, Old, Named, SameInput, Faces
    <2> HIDE DEF New, Faces, Holds
    <2> QED BY <1>4, <2>2, <2>3 DEF ShowsNew
  <1>5. \A d \in As, x \in Bs : Faces(d, x) /\ (schema.twoWay => Faces(x, d))
    BY DEF Faces
  <1> HIDE DEF New, Faces, Holds, Checked
  <1> QED BY <1>2, <1>3, <1>4, <1>5

(* A mutation that ran to its end is one step of the contract.              *)
ContractStep == [Contract!Next]_(Contract!vars)

LEMMA FinishedRefines ==
  ASSUME NEW r \in Requests, NEW S, S = settled, Midway(r, S), SameInput(r), schema' = schema,
         ShapeInv', DocsRight', Progress(r, S)', Quiet',
         settled' = [live |-> live', rel |-> Pairs']
  PROVE  Recorded(settled') /\ Agrees(settled)' /\ ContractStep
  <1> DEFINE a == req[r].a
             b == req[r].b
  <1>1. /\ live' = IF req[r].op = "delete" THEN S.live \ {a} ELSE S.live
        /\ Checked(r, S)
        /\ \A d \in As, x \in Bs : d \in live' /\ x \in live' =>
              /\ Holds(d, x)' <=> New(r, S, d, x)
              /\ schema.twoWay => (Holds(x, d)' <=> New(r, S, x, d))
    BY FinishedMeans
  <1>2. /\ req[r].op \in {"add", "remove", "delete"} /\ a \in Docs /\ b \in Bs
        /\ req[r].op # "delete" => a \in As
    <2>1. req[r].op # "none" /\ req[r].op \in {"none", "add", "remove", "delete"}
      BY OwnJobs DEF Midway, ShapeInv, DataOK, Request
    <2> QED BY <2>1, SerialTypes DEF Midway
  <1>3. \A d \in As, x \in Bs : New(r, S, d, x) <=> New(r, S, x, d)
    BY <1>2, NewOfAdd, NewOfRemove, NewOfDelete
  <1>4. Recorded(S) /\ S.rel \subseteq As \X Bs
    BY DEF Midway, Recorded
  <1>5. ASSUME NEW p
        PROVE  p \in settled'.rel <=>
                  p \in As \X Bs /\ p[1] \in live' /\ p[2] \in live' /\ New(r, S, p[1], p[2])
    <2>1. p \in settled'.rel <=> p \in As \X Bs /\ p[1] \in live' /\ p[2] \in live' /\ Holds(p[1], p[2])'
      BY DEF Pairs, Related
    <2>2. p \in As \X Bs => p[1] \in As /\ p[2] \in Bs
      OBVIOUS
    <2> HIDE DEF Holds, New
    <2> QED BY <1>1, <2>1, <2>2
  <1>6. Recorded(settled') /\ Agrees(settled)'
    <2>1. PICK T : T = [live |-> live', rel |-> Pairs']
      OBVIOUS
    <2>2. Tidy'
      BY DEF DocsRight
    <2>3. \A d \in As, x \in Bs :
             d \in live' /\ x \in live' /\ schema'.twoWay => (Holds(x, d)' <=> Holds(d, x)')
      <3> HIDE DEF Holds, New
      <3> QED BY <1>1, <1>3
    <2>4. Recorded(T) /\ Agrees(T)'
      BY <2>1, <2>2, <2>3, AgreeIntro
    <2> QED BY <2>1, <2>4 DEF Agrees, ShowsOld, Old
  <1>7. \A p \in S.rel : p[1] \in S.live /\ p[2] \in S.live /\ p[1] \in As /\ p[2] \in Bs
                         /\ p = <<p[1], p[2]>>
    BY <1>4 DEF Recorded
  <1>8. settled'.live = live'
    OBVIOUS
  <1>9. CASE req[r].op = "add"
    <2>1. <<a, b>> \notin S.rel
      BY <1>1, <1>2, <1>4, <1>9, OldMeans DEF Checked
    <2>2. \A p \in As \X Bs :
             New(r, S, p[1], p[2]) <=>
               \/ p[1] = a /\ p[2] = b
               \/ /\ <<p[1], p[2]>> \in S.rel /\ (p[1] = a => schema.listA)
                  /\ p[2] = b /\ schema.twoWay => schema.listB
      <3>1. a \in As /\ b \in Bs
        BY <1>2, <1>9
      <3>2. \A d \in As, x \in Bs :
               New(r, S, d, x) <=>
                 \/ d = a /\ x = b
                 \/ /\ <<d, x>> \in S.rel /\ (d = a => schema.listA)
                    /\ x = b /\ schema.twoWay => schema.listB
        BY <1>9, <3>1, NewOfAdd
      <3> HIDE DEF New, a, b
      <3> QED BY <3>2
    <2> DEFINE D == {p \in S.rel : \/ ~schema.listA /\ p[1] = a
                                   \/ schema.twoWay /\ ~schema.listB /\ p[2] = b}
               K == {p \in {<<a, b>>} : a \in S.live /\ b \in S.live}
    <2>3. settled'.rel = (S.rel \ D) \cup K
      <3>1. ASSUME NEW p
            PROVE  p \in settled'.rel <=> p \in (S.rel \ D) \cup K
        <4>1. CASE p \in As \X Bs
          <5>1. p = <<p[1], p[2]>>
            BY <4>1
          <5>2. live' = S.live
            BY <1>1, <1>9
          <5> HIDE DEF New, a, b
          <5> QED BY <1>5, <1>7, <2>1, <2>2, <4>1, <5>1, <5>2
        <4>2. CASE p \notin As \X Bs
          BY <1>2, <1>4, <1>5, <1>9, <4>2
        <4> QED BY <4>1, <4>2
      <3> HIDE DEF D, K
      <3> QED BY <3>1
    <2>4. D = Contract!Displaced(a, b) /\ K = {p \in {<<a, b>>} : a \in settled.live /\ b \in settled.live}
      BY DEF Contract!Displaced
    <2>5. Contract!Connect(a, b)
      BY <1>1, <1>8, <1>9, <2>1, <2>3, <2>4 DEF Contract!Connect
    <2>6. Contract!Next
      BY <1>2, <1>9, <2>5 DEF Contract!Next
    <2> QED BY <1>6, <2>6 DEF ContractStep
  <1>10. CASE req[r].op = "remove"
    <2>1. <<a, b>> \in S.rel
      BY <1>1, <1>2, <1>4, <1>10, OldMeans DEF Checked
    <2>2. \A p \in As \X Bs :
             New(r, S, p[1], p[2]) <=> <<p[1], p[2]>> \in S.rel /\ ~(p[1] = a /\ p[2] = b)
      BY <1>2, <1>10, NewOfRemove
    <2>3. settled'.rel = S.rel \ {<<a, b>>}
      <3>1. ASSUME NEW p
            PROVE  p \in settled'.rel <=> p \in S.rel \ {<<a, b>>}
        <4>1. CASE p \in As \X Bs
          <5>1. p = <<p[1], p[2]>> /\ (p = <<a, b>> <=> p[1] = a /\ p[2] = b)
            BY <4>1
          <5>2. live' = S.live
            BY <1>1, <1>10
          <5> HIDE DEF New, a, b
          <5> QED BY <1>5, <1>7, <2>2, <4>1, <5>1, <5>2
        <4>2. CASE p \notin As \X Bs
          BY <1>4, <1>5, <4>2
        <4> QED BY <4>1, <4>2
      <3> QED BY <3>1
    <2>4. Contract!Disconnect(a, b)
      BY <1>1, <1>8, <1>10, <2>1, <2>3 DEF Contract!Disconnect
    <2>5. Contract!Next
      BY <1>2, <1>10, <2>4 DEF Contract!Next
    <2> QED BY <1>6, <2>5 DEF ContractStep
  <1>11. CASE req[r].op = "delete"
    <2>1. a \in S.live /\ live' = S.live \ {a}
      BY <1>1, <1>11 DEF Checked
    <2>2. \A p \in As \X Bs :
             New(r, S, p[1], p[2]) <=> <<p[1], p[2]>> \in S.rel /\ a \notin {p[1], p[2]}
      BY <1>11, NewOfDelete
    <2>3. settled'.rel = {p \in S.rel : p[1] # a /\ p[2] # a}
      <3>1. ASSUME NEW p
            PROVE  p \in settled'.rel <=> p \in {q \in S.rel : q[1] # a /\ q[2] # a}
        <4>1. CASE p \in As \X Bs
          <5>1. p = <<p[1], p[2]>>
            BY <4>1
          <5> HIDE DEF New, a, b
          <5> QED BY <1>5, <1>7, <2>1, <2>2, <4>1, <5>1
        <4>2. CASE p \notin As \X Bs
          BY <1>4, <1>5, <4>2
        <4> QED BY <4>1, <4>2
      <3> QED BY <3>1
    <2>4. Contract!Delete(a)
      BY <1>8, <2>1, <2>3 DEF Contract!Delete
    <2>5. Contract!Next
      BY <2>1, <2>4 DEF Contract!Next
    <2> QED BY <1>6, <2>5 DEF ContractStep
  <1> QED BY <1>2, <1>9, <1>10, <1>11

(* A refused mutation changes nothing. *)
LEMMA RefusedRefines ==
  ASSUME NEW r \in Requests, NEW S, S = settled, Midway(r, S), Refuses(r),
         ShapeInv', DocsRight',
         settled' = [live |-> live', rel |-> Pairs']
  PROVE  Recorded(settled') /\ Agrees(settled)' /\ ContractStep
  <1>1. Recorded(S) /\ live = S.live /\ \A d \in live : ShowsOld(S, d)
    <2>1. \A d : Waits(r, d)
      BY DEF Waits, Refuses
    <2>2. live = S.live
      BY MidwayFacts DEF Survivors, Refuses
    <2> QED BY <2>1, <2>2, MidwayFacts DEF Midway
  <1>2. \A d \in As, x \in Bs : d \in live /\ x \in live =>
           /\ Holds(d, x) <=> <<d, x>> \in S.rel
           /\ schema.twoWay => (Holds(x, d) <=> <<d, x>> \in S.rel)
    BY <1>1, OldMeans
  <1>3. /\ schema' = schema /\ live' = live
        /\ \A d, x : Holds(d, x)' <=> Holds(d, x)
    BY DEF Refuses, Holds
  <1>4. Recorded(settled') /\ Agrees(settled)'
    <2>1. PICK T : T = [live |-> live', rel |-> Pairs']
      OBVIOUS
    <2>2. Tidy'
      BY DEF DocsRight
    <2>3. \A d \in As, x \in Bs :
             d \in live' /\ x \in live' /\ schema'.twoWay => (Holds(x, d)' <=> Holds(d, x)')
      <3> HIDE DEF Holds
      <3> QED BY <1>2, <1>3
    <2>4. Recorded(T) /\ Agrees(T)'
      BY <2>1, <2>2, <2>3, AgreeIntro
    <2> QED BY <2>1, <2>4 DEF Agrees, ShowsOld, Old
  <1>5. settled'.rel = S.rel
    <2>1. ASSUME NEW p
          PROVE  p \in settled'.rel <=> p \in S.rel
      <3>1. CASE p \in As \X Bs
        <4>1. p \in settled'.rel <=> p[1] \in live' /\ p[2] \in live' /\ Holds(p[1], p[2])'
          BY <3>1 DEF Pairs, Related
        <4>2. p = <<p[1], p[2]>> /\ p[1] \in As /\ p[2] \in Bs
          BY <3>1
        <4>3. p \in S.rel => p[1] \in live /\ p[2] \in live
          BY <1>1 DEF Recorded
        <4> HIDE DEF Holds
        <4> QED BY <1>2, <1>3, <4>1, <4>2, <4>3
      <3>2. CASE p \notin As \X Bs
        BY <1>1, <3>2 DEF Pairs, Recorded
      <3> QED BY <3>1, <3>2
    <2> QED BY <1>1, <2>1 DEF Recorded, Pairs
  <1>6. UNCHANGED Contract!vars
    BY <1>1, <1>3, <1>5 DEF Contract!vars
  <1> QED BY <1>4, <1>6 DEF ContractStep

LEMMA SerialStep == Serial /\ SerialInv /\ Step /\ Settles => SerialInv' /\ ContractStep
  <1> SUFFICES ASSUME Serial, SerialInv, Step, Settles PROVE SerialInv' /\ ContractStep
    OBVIOUS
  <1>1. /\ ShapeInv /\ ShapeInv' /\ DocsRight /\ Recorded(settled) /\ Stable
        /\ schema' = schema /\ jobs \subseteq Job /\ faults \in 0 .. MaxFaults
        /\ schema.hasUpdate
    <2>1. ShapeInv' /\ Stable
      BY StepShapeInv DEF SerialInv
    <2>2. schema.hasUpdate
      BY DEF Serial, SerialInv, ShapeInv, DataOK
    <2> QED BY <2>1, <2>2 DEF SerialInv, ShapeInv, DataOK, Stable
  <1>2. /\ Quiet' => settled' = [live |-> live', rel |-> Pairs']
        /\ ~Quiet' => settled' = settled
    BY DEF Settles
  <1>3. ~Fault
    BY <1>1 DEF Fault, Serial
  <1>4. PICK S : S = settled
    OBVIOUS
  <1>5. ASSUME NEW r \in Requests, Submit(r)
        PROVE  SerialInv' /\ ContractStep
    <2>1. /\ DocsRight' /\ Running(r)' /\ Progress(r, S)'
          /\ \A q \in Requests : Running(q)' => q = r
      BY <1>4, <1>5, SubmitKeeps
    <2>2. ~Quiet' /\ settled' = settled
      BY <1>2, <2>1 DEF Quiet
    <2>3. Progress(r, settled)'
      BY <1>4, <2>1, <2>2 DEF Progress, Survivors, Checked, ShowsOld, ShowsNew, Old, New
    <2>4. SerialInv'
      <3> HIDE DEF Running, Progress, Quiet
      <3> QED BY <1>1, <2>1, <2>2, <2>3 DEF SerialInv, Recorded
    <2>5. ContractStep
      BY <1>1, <2>2 DEF ContractStep, Contract!vars
    <2> QED BY <2>4, <2>5
  <1>6. ASSUME NEW r \in Requests, Midway(r, S), SameInput(r), DocsRight',
               Progress(r, S)' \/ Refuses(r), \A q \in Requests : Running(q)' => q = r
        PROVE  SerialInv' /\ ContractStep
    <2>1. CASE Quiet'
      <3>1. Recorded(settled') /\ Agrees(settled)' /\ ContractStep
        BY <1>1, <1>2, <1>4, <1>6, <2>1, FinishedRefines, RefusedRefines
      <3>2. \A q \in Requests : ~Running(q)'
        BY <2>1 DEF Quiet
      <3> HIDE DEF Running, Progress, Quiet, Agrees
      <3> QED BY <1>1, <1>6, <3>1, <3>2 DEF SerialInv, Recorded
    <2>2. CASE ~Quiet'
      <3>1. ~Refuses(r)
        <4> SUFFICES ASSUME Refuses(r) PROVE FALSE
          OBVIOUS
        <4>1. ~Running(r)'
          BY DEF Refuses, Running
        <4> HIDE DEF Running
        <4> QED BY <1>6, <2>2, <4>1 DEF Quiet
      <3>2. settled' = settled
        BY <1>2, <2>2
      <3>3. Progress(r, settled)'
        BY <1>4, <1>6, <3>1, <3>2 DEF Progress, Survivors, Checked, ShowsOld, ShowsNew, Old, New
      <3>4. SerialInv'
        <4> HIDE DEF Running, Progress, Quiet
        <4> QED BY <1>1, <1>6, <2>2, <3>2, <3>3 DEF SerialInv, Recorded
      <3>5. ContractStep
        BY <1>1, <3>2 DEF ContractStep, Contract!vars
      <3> QED BY <3>4, <3>5
    <2> QED BY <2>1, <2>2
  <1>7. ASSUME NEW r \in Requests, Running(r)
        PROVE  Midway(r, S) /\ SameInput(r)
    <2>1. Midway(r, S)
      BY <1>1, <1>4, <1>7 DEF SerialInv, Midway
    <2>2. req[r].op # "none"
      BY <1>1, <1>7, OwnJobs
    <2>3. SameInput(r)
      BY <1>1, <2>2 DEF Stable, SameInput
    <2> QED BY <2>1, <2>3
  <1>8. ASSUME NEW r \in Requests, Resolver(r)
        PROVE  SerialInv' /\ ContractStep
    <2>1. Running(r)
      BY <1>8 DEF Running, Resolver, AddChecks, FetchOldA, FetchOldB, RemoveChecks, Deletes, Answers
    <2>2. Midway(r, S) /\ SameInput(r)
      BY <1>7, <2>1
    <2>3. OneAtATime' /\ \A q \in Requests : Running(q)' => q = r
      BY <1>1, <1>8, <2>1, NobodyElse
    <2>4. Keeps(r, S)
      BY <1>1, <1>8, <2>2, <2>3, ResolverKeeps
    <2> QED BY <1>6, <2>2, <2>3, <2>4 DEF Keeps
  <1>9. ASSUME NEW j \in jobs, Database(j)
        PROVE  SerialInv' /\ ContractStep
    <2>1. PICK r \in Requests : r = j.req
      BY <1>1 DEF Job
    <2>2. Running(r)
      BY <2>1 DEF Running
    <2>3. Midway(r, S) /\ SameInput(r)
      BY <1>7, <2>2
    <2>4. OneAtATime' /\ \A q \in Requests : Running(q)' => q = r
      BY <1>1, <1>9, <2>2, NobodyElse
    <2>5. DocsRight' /\ Progress(r, S)'
      BY <1>1, <1>9, <2>3, <2>4, DatabaseKeeps
    <2> QED BY <1>6, <2>3, <2>4, <2>5
  <1>10. ~ \E r \in Requests : ReadFails(r)
    BY <1>3 DEF ReadFails
  <1>11. ~ \E j \in jobs : JobFails(j)
    BY <1>3 DEF JobFails
  <1> QED BY <1>5, <1>8, <1>9, <1>10, <1>11 DEF Step

LEMMA SerialStutter == SerialInv /\ UNCHANGED vars => SerialInv' /\ ContractStep
  <1> SUFFICES ASSUME SerialInv, UNCHANGED vars PROVE SerialInv' /\ ContractStep
    OBVIOUS
  <1>1. UNCHANGED <<schema, live, ref, req, jobs, faults, settled>>
    BY DEF vars
  <1>2. /\ \A d, x : /\ Holds(d, x)' <=> Holds(d, x)
                     /\ Faces(d, x)' <=> Faces(d, x)
                     /\ Asked(d, x)' <=> Asked(d, x)
                     /\ CutSoon(d, x)' <=> CutSoon(d, x)
        /\ \A d : IsList(d)' <=> IsList(d)
        /\ \A r : Running(r)' <=> Running(r)
    BY <1>1 DEF Holds, Faces, Asked, CutSoon, IsList, Running
  <1>3. ShapeInv'
    BY NextShapeInv DEF SerialInv
  <1>4. DocsRight'
    <2>1. OneAtATime' /\ Tidy' /\ OneEach' /\ NoneDangles'
      <3>1. OneAtATime /\ Tidy /\ OneEach /\ NoneDangles
        BY DEF SerialInv, DocsRight, JobsRight
      <3> HIDE DEF Holds, Faces, Asked, CutSoon, IsList, Running
      <3> QED BY <1>1, <1>2, <3>1 DEF OneAtATime, Tidy, OneEach, NoneDangles
    <2>2. \A j \in jobs : JobRight(j)'
      <3>1. \A j \in jobs : JobRight(j)
        BY DEF SerialInv, DocsRight, JobsRight
      <3> HIDE DEF Holds, Faces
      <3> QED BY <1>1, <1>2, <3>1 DEF JobRight
    <2> QED BY <1>1, <2>1, <2>2 DEF DocsRight, JobsRight
  <1>5. \A S, d : ShowsOld(S, d)' <=> ShowsOld(S, d)
    <2>1. \A S, d, x : Old(S, d, x)' <=> Old(S, d, x)
      BY DEF Old
    <2> HIDE DEF Holds, Faces, Old
    <2> QED BY <1>1, <1>2, <2>1 DEF ShowsOld
  <1>6. \A r, S, d : ShowsNew(r, S, d)' <=> ShowsNew(r, S, d)
    <2>1. \A r, S, d, x : New(r, S, d, x)' <=> New(r, S, d, x)
      BY <1>1 DEF New, Old, Named
    <2> HIDE DEF Holds, Faces, New
    <2> QED BY <1>1, <1>2, <2>1 DEF ShowsNew
  <1>7. PICK S : S = settled
    OBVIOUS
  <1>8. Agrees(S)' <=> Agrees(S)
    <2>1. Pairs' = Pairs
      BY <1>1 DEF Pairs, Related, Holds
    <2> HIDE DEF ShowsOld, Pairs
    <2> QED BY <1>1, <1>5, <2>1 DEF Agrees
  <1>9. \A r : Progress(r, S)' <=> Progress(r, S)
    <2>1. \A r, d : Waits(r, d)' <=> Waits(r, d)
      BY <1>1 DEF Waits
    <2>2. \A r : (Checked(r, S)' <=> Checked(r, S)) /\ Survivors(r, S)' = Survivors(r, S)
      BY <1>1 DEF Checked, Survivors, Old
    <2> HIDE DEF ShowsOld, ShowsNew, Waits, Checked, Survivors
    <2> QED BY <1>1, <1>5, <1>6, <2>1, <2>2 DEF Progress
  <1>10. (Agrees(settled)' <=> Agrees(S)) /\ \A r : Progress(r, settled)' <=> Progress(r, S)
    <2>1. Agrees(settled)' <=> Agrees(S)'
      BY <1>1, <1>7 DEF Agrees, ShowsOld, Old
    <2>2. \A r : Progress(r, settled)' <=> Progress(r, S)'
      BY <1>1, <1>7 DEF Progress, Survivors, Checked, ShowsOld, ShowsNew, Old, New
    <2> HIDE DEF Agrees, Progress
    <2> QED BY <1>8, <1>9, <2>1, <2>2
  <1>11. SerialInv'
    <2>1. /\ Recorded(S) /\ (Quiet => Agrees(S))
          /\ \A r \in Requests : Running(r) => Progress(r, S)
      BY <1>7 DEF SerialInv
    <2>2. Quiet' <=> Quiet
      <3> HIDE DEF Running
      <3> QED BY <1>2 DEF Quiet
    <2> HIDE DEF Agrees, Progress, Running, Quiet
    <2> QED BY <1>1, <1>2, <1>3, <1>4, <1>7, <1>10, <2>1, <2>2 DEF SerialInv, Recorded
  <1>12. ContractStep
    BY <1>1 DEF ContractStep, Contract!vars
  <1> QED BY <1>11, <1>12

LEMMA InitSerial == Init => SerialInv /\ Contract!Init
  <1> SUFFICES ASSUME Init PROVE SerialInv /\ Contract!Init
    OBVIOUS
  <1>1. ShapeInv /\ live = Docs /\ jobs = {} /\ schema \in Schemas
    BY InitShapeInv DEF Init
  <1>2. \A r \in Requests : req[r].at = "idle" /\ req[r].op = "none"
    BY DEF Init
  <1>3. \A r \in Requests : ~Running(r)
    BY <1>1, <1>2 DEF Running
  <1>4. PICK rel \in SUBSET (As \X Bs) :
           /\ Legal(rel)
           /\ ref = [d \in Docs |-> [x \in Docs |->
                        IF <<d, x>> \in rel \/ (schema.twoWay /\ <<x, d>> \in rel)
                        THEN 1 ELSE 0]]
    BY DEF Init
  <1>5. \A d, x \in Docs : Holds(d, x) <=> \/ d \in As /\ x \in Bs /\ <<d, x>> \in rel
                                           \/ /\ schema.twoWay /\ x \in As /\ d \in Bs
                                              /\ <<x, d>> \in rel
    <2> SUFFICES ASSUME NEW d \in Docs, NEW x \in Docs
                 PROVE  Holds(d, x) <=> \/ d \in As /\ x \in Bs /\ <<d, x>> \in rel
                                        \/ /\ schema.twoWay /\ x \in As /\ d \in Bs
                                           /\ <<x, d>> \in rel
      OBVIOUS
    <2> DEFINE Both == <<d, x>> \in rel \/ (schema.twoWay /\ <<x, d>> \in rel)
    <2>1. ref[d][x] = IF Both THEN 1 ELSE 0
      BY <1>4
    <2>2. Both <=> (\/ d \in As /\ x \in Bs /\ <<d, x>> \in rel
                    \/ schema.twoWay /\ x \in As /\ d \in Bs /\ <<x, d>> \in rel)
      OBVIOUS
    <2> HIDE DEF Both
    <2> QED BY <2>1, <2>2 DEF Holds
  <1>6. settled = [live |-> live, rel |-> Pairs]
    BY DEF Init
  <1>7. settled.live = Docs /\ settled.rel = Pairs
    BY <1>1, <1>6
  <1>8. ASSUME NEW d \in As, NEW x \in Bs
        PROVE  /\ Holds(d, x) <=> <<d, x>> \in rel
               /\ Holds(x, d) <=> schema.twoWay /\ <<d, x>> \in rel
               /\ <<d, x>> \in Pairs <=> <<d, x>> \in rel
    <2>1. d \in Docs /\ x \in Docs /\ d \notin Bs /\ x \notin As
      BY SidesAssumption DEF Docs
    <2>2. /\ Holds(d, x) <=> <<d, x>> \in rel
          /\ Holds(x, d) <=> schema.twoWay /\ <<d, x>> \in rel
      BY <1>5, <2>1
    <2>3. <<d, x>> \in Pairs <=> Holds(d, x)
      BY <1>1, <2>1 DEF Pairs, Related
    <2> HIDE DEF Holds, Pairs
    <2> QED BY <2>2, <2>3
  <1>9. Tidy
    <2>1. \A d, x \in Docs : Holds(d, x) => Faces(d, x)
      BY <1>5 DEF Faces
    <2>2. ASSUME NEW d \in Docs, NEW x \in Docs, NEW y \in Docs,
                 ~IsList(d), Holds(d, x), Holds(d, y)
          PROVE  x = y
      <3>1. CASE d \in As
        <4>1. <<d, x>> \in rel /\ <<d, y>> \in rel /\ ~schema.listA
          BY <1>5, <2>2, <3>1, SidesAssumption DEF IsList
        <4>2. <<d, x>> = <<d, y>>
          BY <1>4, <4>1 DEF Legal
        <4> QED BY <4>2
      <3>2. CASE d \in Bs
        <4>1. /\ <<x, d>> \in rel /\ <<y, d>> \in rel /\ ~schema.listB /\ schema.twoWay
          BY <1>5, <2>2, <3>2, SidesAssumption DEF IsList
        <4>2. <<x, d>> = <<y, d>>
          BY <1>4, <4>1 DEF Legal
        <4> QED BY <4>2
      <3> QED BY <3>1, <3>2 DEF Docs
    <2> QED BY <1>1, <2>1, <2>2 DEF Tidy
  <1>10. DocsRight
    BY <1>1, <1>3, <1>9 DEF DocsRight, OneAtATime, JobsRight, OneEach, NoneDangles
  <1>11. Recorded(settled)
    BY <1>1, <1>7 DEF Recorded, Pairs, Related
  <1>12. Agrees(settled)
    <2>1. ASSUME NEW d \in live, NEW x \in live, Faces(d, x)
          PROVE  Holds(d, x) <=> Old(settled, d, x)
      <3>1. CASE d \in As /\ x \in Bs
        BY <1>7, <1>8, <3>1 DEF Old
      <3>2. CASE d \in Bs /\ x \in As /\ schema.twoWay
        <4>1. d \notin As
          BY <3>2, SidesAssumption
        <4> HIDE DEF Pairs, Holds
        <4> QED BY <1>7, <1>8, <3>2, <4>1 DEF Old
      <3> QED BY <2>1, <3>1, <3>2 DEF Faces
    <2> HIDE DEF Holds, Faces, Old, Pairs
    <2> QED BY <1>1, <1>7, <2>1 DEF Agrees, ShowsOld
  <1>13. Contract!Init
    BY <1>1, <1>7 DEF Contract!Init, Docs, Pairs
  <1> QED BY <1>1, <1>3, <1>10, <1>11, <1>12, <1>13 DEF SerialInv

(* What the invariant of mutations that do not overlap says of both ends.   *)
LEMMA SerialImplies == SerialInv => BothEndsAgree /\ DeleteLeavesNoReference
  <1> SUFFICES ASSUME SerialInv PROVE BothEndsAgree /\ DeleteLeavesNoReference
    OBVIOUS
  <1>1. BothEndsAgree
    <2> SUFFICES ASSUME Quiet, schema.twoWay, NEW a \in As, NEW b \in Bs, a \in live, b \in live
                 PROVE  Holds(a, b) <=> Holds(b, a)
      BY DEF BothEndsAgree
    <2>1. PICK S : S = settled
      OBVIOUS
    <2>2. Recorded(S) /\ ShowsOld(S, a) /\ ShowsOld(S, b)
      BY <2>1 DEF SerialInv, Agrees
    <2>3. Holds(a, b) <=> <<a, b>> \in S.rel
      BY <2>2, OldMeans
    <2>4. Holds(b, a) <=> <<a, b>> \in S.rel
      BY <2>2, OldMeans
    <2> QED BY <2>3, <2>4
  <1>2. DeleteLeavesNoReference
    <2> SUFFICES ASSUME Quiet, schema.twoWay, NEW d \in Docs, NEW x \in Docs,
                        Holds(d, x), x \notin live
                 PROVE  Asked(d, x)
      BY DEF DeleteLeavesNoReference, Asked
    <2>1. jobs = {}
      BY QuietMeans DEF SerialInv
    <2> QED BY <2>1 DEF SerialInv, DocsRight, NoneDangles, CutSoon
  <1> QED BY <1>1, <1>2

LEMMA SerialNext == Serial /\ SerialInv /\ [Next]_vars => SerialInv' /\ ContractStep
  BY SerialStep, SerialStutter DEF Next, Idle

(* When mutations do not overlap, nothing is rejected and Model.update      *)
(* exists, both ends of a two-way relation agree whenever no mutation is    *)
(* running: what addRelation, removeRelation and delete write on the two    *)
(* sides.                                                                   *)
THEOREM SerialBothEndsAgree == ASSUME Serial PROVE Spec => []BothEndsAgree
  <1>1. Init => SerialInv
    BY InitSerial
  <1>2. SerialInv /\ [Next]_vars => SerialInv'
    BY SerialNext
  <1> QED BY <1>1, <1>2, SerialImplies, PTL DEF Spec

(* Then a deletion leaves no two-way reference to the deleted document      *)
(* behind, unless an addition asked for that very reference.                *)
THEOREM SerialDeletes == ASSUME Serial PROVE Spec => []DeleteLeavesNoReference
  <1>1. Init => SerialInv
    BY InitSerial
  <1>2. SerialInv /\ [Next]_vars => SerialInv'
    BY SerialNext
  <1> QED BY <1>1, <1>2, SerialImplies, PTL DEF Spec

(* Then the mutations implement RelationContract: each addition, removal    *)
(* and deletion, with its several writes to two documents, changes the      *)
(* relation once, as the contract's Connect, Disconnect or Delete.          *)
THEOREM SerialKeepsRelation == ASSUME Serial PROVE Spec => KeepsRelation
  <1>1. Init => SerialInv /\ Contract!Init
    BY InitSerial
  <1>2. SerialInv /\ [Next]_vars => SerialInv' /\ ContractStep
    BY SerialNext
  <1> QED BY <1>1, <1>2, PTL DEF Spec, KeepsRelation, Contract!Spec, ContractStep
=============================================================================
