---------------------------- MODULE OutboxProofs ----------------------------
(***************************************************************************)
(* Theorems about Outbox for every set of servers, events and webhooks and *)
(* every bound: types and what servers keep, when an event is given up, and*)
(* what one server promises of every subscriber, down to the contract.     *)
(***************************************************************************)
EXTENDS OutboxRefinement, FiniteSetTheorems, TLAPS

-----------------------------------------------------------------------------
(* Types, honest records, and what a DELIVERED event means.                 *)

(* Where a run stands on a record it has one, where it stands on a webhook  *)
(* it has one; a create in flight has a server.                             *)
RunShape(r) ==
    /\ r.pc \in {"send", "record", "settle"} => r.cur \in Events
    /\ r.pc \in {"send", "record"} => r.hook \in Hook

ShapeOK ==
    /\ \A s \in Servers, k \in Callers : RunShape(run[s][k])
    /\ \A e \in Events : stage[e] # "absent" => home[e] \in Servers

TypeInv == TypeOK /\ ShapeOK

-----------------------------------------------------------------------------
(* Lemmas about the operators. *)

LEMMA NoDocType == NoDoc \in Doc /\ Fresh \in Doc
  BY DEF NoDoc, Fresh, Doc

LEMMA IdleRunType == IdleRun \in Run
  BY NoDocType DEF IdleRun, Run

LEMMA EventsFinite == IsFiniteSet(Events) /\ Events \subseteq Nat
  BY FS_Interval, SizesAssumption DEF Events

(* A place in the memory queue is a number. *)
LEMMA SlotType ==
  ASSUME NEW D \in SUBSET Events
  PROVE  1 + Cardinality(D) \in Nat
  <1>1. Cardinality(D) \in Nat
    <2>1. IsFiniteSet(D)
      BY EventsFinite, FS_Subset
    <2> QED BY <2>1, FS_CardinalityType
  <1> QED BY <1>1

LEMMA FirstSubset ==
  ASSUME NEW limit, NEW ready, NEW rank
  PROVE  First(limit, ready, rank) \subseteq ready
  BY DEF First

(* SetRun replaces one run and leaves the others alone. *)
LEMMA SetRunEffect ==
  ASSUME NEW s \in Servers, NEW k \in Callers, NEW r \in Run,
         run \in [Servers -> [Callers -> Run]], SetRun(s, k, r)
  PROVE  /\ run' \in [Servers -> [Callers -> Run]]
         /\ run'[s][k] = r
         /\ \A t \in Servers, j \in Callers :
               run'[t][j] = IF t = s /\ j = k THEN r ELSE run[t][j]
  BY DEF SetRun

LEMMA DocIntro ==
  ASSUME NEW st \in {"NONE", "PENDING", "DELIVERED", "FAILED"}, NEW n \in Nat,
         NEW b \in BOOLEAN, NEW D \in SUBSET Hook
  PROVE  [status |-> st, attempts |-> n, due |-> b, delivered |-> D] \in Doc
  BY DEF Doc

(* The three updates keep a document a document. *)
LEMMA UpdateType ==
  ASSUME NEW d \in Doc
  PROVE  /\ Delivered(d) \in Doc
         /\ \A b \in BOOLEAN : Failed(d, b) \in Doc
         /\ \A h \in Hook : Recorded(d, h) \in Doc
  <1>1. Delivered(d) \in Doc
    BY DEF Delivered, Doc
  <1>2. ASSUME NEW b \in BOOLEAN PROVE Failed(d, b) \in Doc
    <2>1. Verdict(b) \in {"PENDING", "FAILED"}
      BY DEF Verdict
    <2>2. CASE Present(d)
      <3>1. d.attempts + 1 \in Nat /\ d.delivered \in SUBSET Hook
        BY DEF Doc
      <3>2. Failed(d, b) = [status |-> Verdict(b), attempts |-> d.attempts + 1,
                            due |-> FALSE, delivered |-> d.delivered]
        BY <2>2, Zenon DEF Failed
      <3> QED BY <2>1, <3>1, <3>2, DocIntro
    <2>3. CASE ~Present(d)
      BY <2>3, Zenon DEF Failed
    <2> QED BY <2>2, <2>3
  <1>3. ASSUME NEW h \in Hook PROVE Recorded(d, h) \in Doc
    BY DEF Recorded, Doc
  <1> QED BY <1>1, <1>2, <1>3

(* Turning to the next webhook leaves a well-formed run. *)
LEMMA NextHookType ==
  ASSUME TypeOK, NEW s \in Servers, NEW k \in Callers,
         NEW rec \in Run, rec.cur \in Events,
         NEW rest \in SUBSET Hook, NextHook(s, k, rec, rest)
  PROVE  \E r \in Run :
            /\ SetRun(s, k, r)
            /\ r.cur = rec.cur /\ r.cur \in Events
            /\ r.failed = rec.failed /\ r.seen = rec.seen
            /\ r.batch = rec.batch /\ r.live = rec.live
            /\ \/ r.pc = "settle" /\ rest = {}
               \/ r.pc = "send" /\ r.hook \in rest /\ r.todo = rest \ {r.hook}
  <1>1. CASE rest = {} /\ SetRun(s, k, [rec EXCEPT !.pc = "settle", !.todo = {}, !.hook = None])
    <2> DEFINE r == [rec EXCEPT !.pc = "settle", !.todo = {}, !.hook = None]
    <2>1. r \in Run
      BY DEF Run
    <2>2. /\ r.cur = rec.cur /\ r.failed = rec.failed /\ r.seen = rec.seen
          /\ r.batch = rec.batch /\ r.live = rec.live /\ r.pc = "settle"
      BY DEF Run
    <2> HIDE DEF r
    <2> QED BY <1>1, <2>1, <2>2 DEF r
  <1>2. ASSUME NEW h \in rest,
               SetRun(s, k, [rec EXCEPT !.pc = "send", !.todo = rest \ {h}, !.hook = h])
        PROVE  \E r \in Run :
                  /\ SetRun(s, k, r)
                  /\ r.cur = rec.cur /\ r.failed = rec.failed /\ r.seen = rec.seen
                  /\ r.batch = rec.batch /\ r.live = rec.live
                  /\ r.pc = "send" /\ r.hook \in rest /\ r.todo = rest \ {r.hook}
    <2> DEFINE r == [rec EXCEPT !.pc = "send", !.todo = rest \ {h}, !.hook = h]
    <2>1. r \in Run
      BY <1>2 DEF Run
    <2>2. /\ r.cur = rec.cur /\ r.failed = rec.failed /\ r.seen = rec.seen
          /\ r.batch = rec.batch /\ r.live = rec.live
          /\ r.pc = "send" /\ r.hook = h /\ r.todo = rest \ {h}
      BY DEF Run
    <2>3. SetRun(s, k, r)
      BY <1>2
    <2> HIDE DEF r
    <2> QED BY <1>2, <2>1, <2>2, <2>3
  <1> QED BY <1>1, <1>2 DEF NextHook

-----------------------------------------------------------------------------
(* Types. *)

LEMMA TypeInit == Init => TypeInv
  <1> SUFFICES ASSUME Init PROVE TypeInv
    OBVIOUS
  <1>1. run \in [Servers -> [Callers -> Run]]
    BY IdleRunType DEF Init
  <1>2. mongo \in [Events -> Doc] /\ mem \in [Servers -> [Events -> Doc]]
    BY NoDocType DEF Init
  <1>3. TypeOK
    BY <1>1, <1>2 DEF Init, TypeOK
  <1>4. ShapeOK
    BY DEF Init, ShapeOK, RunShape, IdleRun
  <1> QED BY <1>3, <1>4 DEF TypeInv

LEMMA TypeStoreInMemory ==
  ASSUME TypeOK, NEW s \in Servers, NEW e \in Events, StoreInMemory(s, e)
  PROVE  /\ mem' \in [Servers -> [Events -> Doc]]
         /\ slot' \in [Servers -> [Events -> Nat]]
  <1>1. mem' \in [Servers -> [Events -> Doc]]
    BY NoDocType DEF StoreInMemory, TypeOK
  <1>2. 1 + Cardinality({d \in Events : slot[s][d] > 0}) \in Nat
    BY SlotType
  <1>3. slot' \in [Servers -> [Events -> Nat]]
    BY <1>2 DEF StoreInMemory, TypeOK
  <1> QED BY <1>1, <1>3

LEMMA TypeTriggerWorker ==
  ASSUME TypeOK, NEW s \in Servers, TriggerWorker(s)
  PROVE  kicks' \in [Servers -> Nat]
  BY DEF TriggerWorker, TypeOK

LEMMA TypeFault == ASSUME TypeOK, Fault PROVE faults' \in Nat
  BY DEF Fault, TypeOK

LEMMA TypeEmit ==
  ASSUME TypeInv, NEW s \in Servers, NEW e \in Events, Emit(s, e)
  PROVE  TypeInv'
  <1> USE DEF TypeInv, serverVars, workerVars
  <1>1. Subscribed(e) \in SUBSET Hook
    BY DEF Subscribed, TypeOK
  <1>2. home' \in [Events -> Servers \cup {None}] /\ owed' \in [Events -> SUBSET Hook]
    BY <1>1 DEF Emit, TypeOK
  <1>3. stage' \in [Events -> {"absent", "creating", "orphaned", "stored"}]
    BY DEF Emit, TypeOK
  <1>4. /\ mem' \in [Servers -> [Events -> Doc]]
        /\ slot' \in [Servers -> [Events -> Nat]]
        /\ mongo' \in [Events -> Doc]
        /\ kicks' \in [Servers -> Nat]
    <2>1. CASE connected[s]
      BY <2>1 DEF Emit, TypeOK, storeVars
    <2>2. CASE ~connected[s]
      <3>1. StoreInMemory(s, e) /\ TriggerWorker(s) /\ mongo' = mongo
        BY <2>2 DEF Emit
      <3> QED BY <3>1, TypeStoreInMemory, TypeTriggerWorker DEF TypeOK
    <2> QED BY <2>1, <2>2
  <1>5. TypeOK'
    BY <1>2, <1>3, <1>4 DEF Emit, TypeOK
  <1>6. ShapeOK'
    BY DEF Emit, TypeOK, ShapeOK
  <1> QED BY <1>5, <1>6

LEMMA TypeCreate ==
  ASSUME TypeInv, NEW e \in Events,
         CreateLands(e) \/ CreateResolves(e) \/ CreateRejects(e)
  PROVE  TypeInv'
  <1> USE DEF TypeInv, serverVars, workerVars, eventVars, storeVars
  <1>1. CASE CreateLands(e)
    <2>1. TypeOK'
      BY <1>1, NoDocType DEF CreateLands, TypeOK
    <2>2. ShapeOK'
      BY <1>1 DEF CreateLands, ShapeOK
    <2> QED BY <2>1, <2>2
  <1>2. CASE CreateResolves(e)
    <2>1. TypeOK'
      BY <1>2 DEF CreateResolves, TypeOK, TriggerWorker, ShapeOK
    <2>2. ShapeOK'
      BY <1>2 DEF CreateResolves, ShapeOK, TypeOK
    <2> QED BY <2>1, <2>2
  <1>3. CASE CreateRejects(e)
    <2>1. home[e] \in Servers
      BY <1>3 DEF CreateRejects, ShapeOK
    <2>2. /\ mem' \in [Servers -> [Events -> Doc]]
          /\ slot' \in [Servers -> [Events -> Nat]]
      BY <1>3, <2>1, TypeStoreInMemory DEF CreateRejects
    <2>3. kicks' \in [Servers -> Nat] /\ faults' \in Nat
      BY <1>3, <2>1, TypeTriggerWorker, TypeFault DEF CreateRejects
    <2>4. stage' \in [Events -> {"absent", "creating", "orphaned", "stored"}]
      BY <1>3 DEF CreateRejects, TypeOK
    <2>5. TypeOK'
      BY <1>3, <2>2, <2>3, <2>4 DEF CreateRejects, TypeOK
    <2>6. ShapeOK'
      BY <1>3 DEF CreateRejects, ShapeOK, TypeOK
    <2> QED BY <2>5, <2>6
  <1> QED BY <1>1, <1>2, <1>3

(* What each step of a worker puts in place of its run. *)

LEMMA ScanMemoryEffect ==
  ASSUME TypeOK, NEW s \in Servers, NEW k \in Callers, ScanMemory(s, k)
  PROVE  /\ busy' \in [Servers -> BOOLEAN]
         /\ \E r \in Run : /\ SetRun(s, k, r)
                           /\ r.pc \in {"idle", "pick"}
                           /\ r.seen = [e \in Events |-> NoDoc]
  <1> DEFINE ready == First(BatchLimit, ReadyInMemory(s), slot[s])
             found == [IdleRun EXCEPT !.pc = "pick", !.live = TRUE, !.batch = ready]
  <1>1. ready \in SUBSET Events
    BY FirstSubset DEF ReadyInMemory
  <1>2. IdleRun.pc = "idle" /\ IdleRun.seen = [e \in Events |-> NoDoc]
    BY DEF IdleRun
  <1> HIDE DEF ready
  <1>3. found \in Run /\ found.pc = "pick" /\ found.seen = [e \in Events |-> NoDoc]
    BY <1>1, <1>2, IdleRunType DEF Run
  <1>4. busy' \in [Servers -> BOOLEAN]
    BY DEF ScanMemory, TypeOK
  <1> HIDE DEF found
  <1>5. SetRun(s, k, IF ready = {} THEN IdleRun ELSE found)
    BY DEF ScanMemory, ready, found
  <1> QED BY <1>2, <1>3, <1>4, <1>5, IdleRunType

LEMMA StartRunEffect ==
  ASSUME TypeOK, NEW s \in Servers, NEW k \in Callers, StartRun(s, k)
  PROVE  /\ busy' \in [Servers -> BOOLEAN]
         /\ \E r \in Run : /\ SetRun(s, k, r)
                           /\ r.pc \in {"idle", "query", "pick"}
                           /\ r.seen = [e \in Events |-> NoDoc]
  <1>1. CASE connected[s]
    <2> DEFINE r == [IdleRun EXCEPT !.pc = "query"]
    <2>1. r \in Run /\ r.pc = "query" /\ r.seen = IdleRun.seen
      BY IdleRunType DEF Run
    <2>2. IdleRun.seen = [e \in Events |-> NoDoc]
      BY DEF IdleRun
    <2>3. CASE ScanMemory(s, k)
      BY <2>3, ScanMemoryEffect
    <2>4. CASE SetRun(s, k, r) /\ busy' = [busy EXCEPT ![s] = TRUE]
      <3>1. busy' \in [Servers -> BOOLEAN]
        BY <2>4 DEF TypeOK
      <3> HIDE DEF r
      <3> QED BY <2>1, <2>2, <2>4, <3>1
    <2> QED BY <2>3, <2>4 DEF StartRun
  <1>2. CASE ~connected[s]
    BY <1>2, ScanMemoryEffect DEF StartRun
  <1> QED BY <1>1, <1>2

LEMMA QueryReturnsEffect ==
  ASSUME TypeOK, NEW s \in Servers, NEW k \in Callers, QueryReturns(s, k)
  PROVE  /\ busy' \in [Servers -> BOOLEAN] /\ faults' \in Nat
         /\ \E r \in Run : /\ SetRun(s, k, r)
                           /\ r.pc \in {"idle", "pick"}
                           /\ \A e \in Events : r.seen[e] \in {NoDoc, mongo[e]}
  <1> DEFINE docs == First(BatchLimit, ReadyInMongo, [e \in Events |-> e])
             copies == [e \in Events |-> IF e \in docs THEN mongo[e] ELSE NoDoc]
             found == [IdleRun EXCEPT !.pc = "pick", !.batch = docs, !.seen = copies]
  <1>1. docs \in SUBSET Events
    BY FirstSubset DEF ReadyInMongo
  <1>2. copies \in [Events -> Doc] /\ \A e \in Events : copies[e] \in {NoDoc, mongo[e]}
    BY NoDocType DEF TypeOK
  <1> HIDE DEF docs, copies
  <1>3. found \in Run /\ found.pc = "pick" /\ found.seen = copies
    BY <1>1, <1>2, IdleRunType DEF Run
  <1> HIDE DEF found
  <1>4. \/ SetRun(s, k, found) /\ UNCHANGED <<busy, faults>>
        \/ ScanMemory(s, k) /\ UNCHANGED faults
        \/ ScanMemory(s, k) /\ Fault
    BY DEF QueryReturns, docs, copies, found
  <1>5. CASE SetRun(s, k, found) /\ UNCHANGED <<busy, faults>>
    BY <1>2, <1>3, <1>5 DEF TypeOK
  <1>6. CASE ScanMemory(s, k) /\ (UNCHANGED faults \/ Fault)
    <2>1. PICK r \in Run : /\ SetRun(s, k, r)
                           /\ r.pc \in {"idle", "pick"}
                           /\ r.seen = [e \in Events |-> NoDoc]
      BY <1>6, ScanMemoryEffect
    <2>2. \A e \in Events : r.seen[e] \in {NoDoc, mongo[e]}
      BY <2>1
    <2>3. busy' \in [Servers -> BOOLEAN] /\ faults' \in Nat
      BY <1>6, ScanMemoryEffect, TypeFault DEF TypeOK
    <2> QED BY <2>1, <2>2, <2>3
  <1> QED BY <1>4, <1>5, <1>6

LEMMA EndRunEffect ==
  ASSUME TypeOK, NEW s \in Servers, NEW k \in Callers, EndRun(s, k)
  PROVE  /\ busy' \in [Servers -> BOOLEAN]
         /\ \E r \in Run : /\ SetRun(s, k, r) /\ r.pc = "idle"
                           /\ \A e \in Events : r.seen[e] = NoDoc
  <1>1. IdleRun.pc = "idle" /\ \A e \in Events : IdleRun.seen[e] = NoDoc
    BY DEF IdleRun
  <1> QED BY <1>1, IdleRunType DEF EndRun, TypeOK

LEMMA NextRecordEffect ==
  ASSUME TypeOK, NEW s \in Servers, NEW k \in Callers, NextRecord(s, k),
         run[s][k].cur \in Events
  PROVE  /\ busy' \in [Servers -> BOOLEAN]
         /\ \E r \in Run : /\ SetRun(s, k, r)
                           /\ r.pc \in {"idle", "pick"}
                           /\ \A e \in Events : r.seen[e] \in {NoDoc, run[s][k].seen[e]}
  <1> DEFINE old == run[s][k]
             new == [old EXCEPT !.pc = "pick", !.batch = old.batch \ {old.cur},
                                !.seen[old.cur] = NoDoc, !.cur = None]
  <1>1. old \in Run
    BY DEF TypeOK
  <1> HIDE DEF old
  <1>2. old.seen \in [Events -> Doc] /\ old.batch \in SUBSET Events
    BY <1>1 DEF Run
  <1>3. [old.seen EXCEPT ![old.cur] = NoDoc] \in [Events -> Doc]
    BY <1>2, NoDocType
  <1>4. new \in Run /\ new.pc = "pick" /\ new.seen = [old.seen EXCEPT ![old.cur] = NoDoc]
    BY <1>1, <1>2, <1>3 DEF Run
  <1>5. \A e \in Events : new.seen[e] \in {NoDoc, old.seen[e]}
    BY <1>2, <1>4
  <1> HIDE DEF new
  <1>6. \/ EndRun(s, k)
        \/ SetRun(s, k, new) /\ UNCHANGED busy
    BY DEF NextRecord, old, new
  <1>7. CASE EndRun(s, k)
    BY <1>7, EndRunEffect
  <1>8. CASE SetRun(s, k, new) /\ UNCHANGED busy
    BY <1>4, <1>5, <1>8 DEF TypeOK, old
  <1> QED BY <1>6, <1>7, <1>8

LEMMA TypeWriteBoth ==
  ASSUME TypeOK, NEW s \in Servers, NEW e \in Events, NEW a \in Doc, NEW b \in Doc,
         WriteBoth(s, e, a, b)
  PROVE  /\ mongo' \in [Events -> Doc] /\ mem' \in [Servers -> [Events -> Doc]]
         /\ slot' \in [Servers -> [Events -> Nat]] /\ faults' \in Nat
  <1>1. mongo' \in [Events -> Doc]
    BY DEF WriteBoth, TypeOK
  <1>2. mem' \in [Servers -> [Events -> Doc]] /\ slot' \in [Servers -> [Events -> Nat]]
    BY DEF WriteBoth, TypeOK
  <1>3. faults' \in Nat
    BY TypeFault DEF WriteBoth, TypeOK
  <1> QED BY <1>1, <1>2, <1>3

(* A worker's step leaves everything typed once its own run is. *)
LEMMA TypeRun ==
  ASSUME TypeInv, NEW s \in Servers, NEW k \in Callers,
         NEW r \in Run, SetRun(s, k, r), RunShape(r)
  PROVE  /\ run' \in [Servers -> [Callers -> Run]]
         /\ \A t \in Servers, j \in Callers : RunShape(run'[t][j])
  <1>1. /\ run' \in [Servers -> [Callers -> Run]]
        /\ \A t \in Servers, j \in Callers :
              run'[t][j] = IF t = s /\ j = k THEN r ELSE run[t][j]
    BY SetRunEffect DEF TypeInv, TypeOK
  <1>2. ASSUME NEW t \in Servers, NEW j \in Callers
        PROVE  RunShape(run'[t][j])
    <2>1. CASE t = s /\ j = k
      BY <1>1, <2>1
    <2>2. CASE ~(t = s /\ j = k)
      BY <1>1, <2>2 DEF TypeInv, ShapeOK
    <2> QED BY <2>1, <2>2
  <1> QED BY <1>1, <1>2

LEMMA IdleShape ==
  ASSUME NEW r, r.pc \in {"idle", "query", "pick"}
  PROVE  RunShape(r)
  BY DEF RunShape

LEMMA TypeStartRun ==
  ASSUME TypeInv, NEW s \in Servers,
         Tick(s) \/ Kick(s)
  PROVE  TypeInv'
  <1> USE DEF TypeInv, serverVars, eventVars, storeVars
  <1>1. ASSUME NEW k \in Callers, StartRun(s, k)
        PROVE  /\ busy' \in [Servers -> BOOLEAN]
               /\ run' \in [Servers -> [Callers -> Run]]
               /\ \A t \in Servers, j \in Callers : RunShape(run'[t][j])
    BY <1>1, StartRunEffect, TypeRun, IdleShape
  <1>2. CASE Tick(s)
    <2>1. StartRun(s, "tick") /\ "tick" \in Callers
      BY <1>2 DEF Tick, Callers
    <2>2. TypeOK'
      BY <1>1, <1>2, <2>1 DEF Tick, TypeOK
    <2>3. ShapeOK'
      BY <1>1, <1>2, <2>1 DEF Tick, ShapeOK
    <2> QED BY <2>2, <2>3
  <1>3. CASE Kick(s)
    <2>1. kicks' \in [Servers -> Nat]
      BY <1>3 DEF Kick, TypeOK
    <2>2. /\ busy' \in [Servers -> BOOLEAN]
          /\ run' \in [Servers -> [Callers -> Run]]
          /\ \A t \in Servers, j \in Callers : RunShape(run'[t][j])
      <3>1. CASE StartRun(s, "kick")
        BY <1>1, <3>1 DEF Callers
      <3>2. CASE UNCHANGED workerVars
        BY <3>2 DEF workerVars, TypeOK, ShapeOK
      <3> QED BY <1>3, <3>1, <3>2 DEF Kick
    <2>3. TypeOK'
      BY <1>3, <2>1, <2>2 DEF Kick, TypeOK
    <2>4. ShapeOK'
      BY <1>3, <2>2 DEF Kick, ShapeOK
    <2> QED BY <2>3, <2>4
  <1> QED BY <1>2, <1>3

(* The record a run works on, and the webhooks it turns to, are typed. *)
LEMMA HooksType ==
  ASSUME TypeOK, NEW s \in Servers, NEW k \in Callers
  PROVE  /\ run[s][k] \in Run /\ run[s][k].todo \in SUBSET Hook
         /\ \A e \in Events : HooksFor(s, e) \in SUBSET Hook
         /\ \A e \in Events : mongo[e] \in Doc /\ mem[s][e] \in Doc
  <1>1. run[s][k] \in Run
    BY DEF TypeOK
  <1> QED BY <1>1 DEF TypeOK, HooksFor, Run

(* Turning to the next webhook ends in a well-formed run. *)
LEMMA TypeNextHook ==
  ASSUME TypeInv, NEW s \in Servers, NEW k \in Callers,
         NEW rec \in Run, rec.cur \in Events,
         NEW rest \in SUBSET Hook, NextHook(s, k, rec, rest)
  PROVE  /\ run' \in [Servers -> [Callers -> Run]]
         /\ \A t \in Servers, j \in Callers : RunShape(run'[t][j])
  <1>1. PICK r \in Run : /\ SetRun(s, k, r) /\ r.cur \in Events
                         /\ \/ r.pc = "settle"
                            \/ r.pc = "send" /\ r.hook \in rest
    BY NextHookType DEF TypeInv
  <1>2. RunShape(r)
    BY <1>1 DEF RunShape
  <1> QED BY <1>1, <1>2, TypeRun

LEMMA TypeWork ==
  ASSUME TypeInv, NEW s \in Servers, NEW k \in Callers, Work(s, k)
  PROVE  TypeInv'
  <1> USE DEF TypeInv, serverVars, eventVars, storeVars
  <1> DEFINE RunsTyped == /\ run' \in [Servers -> [Callers -> Run]]
                          /\ \A t \in Servers, j \in Callers : RunShape(run'[t][j])
             cur == run[s][k].cur
  <1>0. run[s][k] \in Run /\ RunShape(run[s][k])
    BY DEF TypeOK, ShapeOK
  <1>1. CASE QueryReturns(s, k)
    <2>1. busy' \in [Servers -> BOOLEAN] /\ faults' \in Nat /\ RunsTyped
      BY <1>1, QueryReturnsEffect, TypeRun, IdleShape
    <2>2. TypeOK'
      BY <1>1, <2>1 DEF QueryReturns, TypeOK
    <2>3. ShapeOK'
      BY <1>1, <2>1 DEF QueryReturns, ShapeOK
    <2> QED BY <2>2, <2>3
  <1>2. CASE Pick(s, k)
    <2>1. RunsTyped
      <3>1. PICK e \in run[s][k].batch :
               NextHook(s, k, [run[s][k] EXCEPT !.cur = e, !.failed = FALSE],
                        HooksFor(s, e) \ Record(s, k, e).delivered)
        BY <1>2 DEF Pick
      <3>2. e \in Events
        BY <1>0 DEF Run
      <3>3. /\ [run[s][k] EXCEPT !.cur = e, !.failed = FALSE] \in Run
            /\ [run[s][k] EXCEPT !.cur = e, !.failed = FALSE].cur = e
        BY <1>0, <3>2 DEF Run
      <3>4. HooksFor(s, e) \ Record(s, k, e).delivered \in SUBSET Hook
        BY <3>2, HooksType
      <3> QED BY <3>1, <3>2, <3>3, <3>4, TypeNextHook
    <2>2. TypeOK'
      BY <1>2, <2>1 DEF Pick, TypeOK
    <2>3. ShapeOK'
      BY <1>2, <2>1 DEF Pick, ShapeOK
    <2> QED BY <2>2, <2>3
  <1>3. CASE DispatchSucceeds(s, k)
    <2>1. cur \in Events /\ run[s][k].hook \in Hook
      BY <1>0, <1>3 DEF DispatchSucceeds, RunShape
    <2>2. acked' \in [Events -> SUBSET Hook]
      BY <1>3, <2>1 DEF DispatchSucceeds, TypeOK
    <2>3. RunsTyped
      <3> DEFINE r == [run[s][k] EXCEPT !.pc = "record"]
      <3>1. r \in Run /\ r.cur = cur /\ r.hook = run[s][k].hook
        BY <1>0 DEF Run
      <3>2. SetRun(s, k, r)
        BY <1>3 DEF DispatchSucceeds
      <3> HIDE DEF r
      <3>3. RunShape(r)
        BY <2>1, <3>1 DEF RunShape
      <3> QED BY <3>1, <3>2, <3>3, TypeRun
    <2>4. TypeOK'
      BY <1>3, <2>2, <2>3 DEF DispatchSucceeds, TypeOK
    <2>5. ShapeOK'
      BY <1>3, <2>3 DEF DispatchSucceeds, ShapeOK
    <2> QED BY <2>4, <2>5
  <1>4. CASE DispatchFails(s, k)
    <2>1. RunsTyped
      <3>1. cur \in Events
        BY <1>0, <1>4 DEF DispatchFails, RunShape
      <3>2. /\ [run[s][k] EXCEPT !.failed = TRUE] \in Run
            /\ [run[s][k] EXCEPT !.failed = TRUE].cur = cur
        BY <1>0 DEF Run
      <3>3. NextHook(s, k, [run[s][k] EXCEPT !.failed = TRUE], run[s][k].todo)
        BY <1>4 DEF DispatchFails
      <3> QED BY <3>1, <3>2, <3>3, HooksType, TypeNextHook
    <2>2. TypeOK'
      BY <1>4, <2>1 DEF DispatchFails, TypeOK
    <2>3. ShapeOK'
      BY <1>4, <2>1 DEF DispatchFails, ShapeOK
    <2> QED BY <2>2, <2>3
  <1>5. CASE DispatchThrows(s, k)
    <2>1. busy' \in [Servers -> BOOLEAN] /\ RunsTyped
      <3>1. EndRun(s, k)
        BY <1>5 DEF DispatchThrows
      <3> QED BY <3>1, EndRunEffect, TypeRun, IdleShape
    <2>2. TypeOK'
      BY <1>5, <2>1 DEF DispatchThrows, TypeOK
    <2>3. ShapeOK'
      BY <1>5, <2>1 DEF DispatchThrows, ShapeOK
    <2> QED BY <2>2, <2>3
  <1>6. CASE RecordWebhookDelivery(s, k)
    <2>1. cur \in Events /\ run[s][k].hook \in Hook
      BY <1>0, <1>6 DEF RecordWebhookDelivery, RunShape
    <2>2. /\ mongo' \in [Events -> Doc] /\ mem' \in [Servers -> [Events -> Doc]]
          /\ slot' \in [Servers -> [Events -> Nat]] /\ faults' \in Nat
      <3>1. /\ Recorded(mongo[cur], run[s][k].hook) \in Doc
            /\ Recorded(mem[s][cur], run[s][k].hook) \in Doc
        BY <2>1, UpdateType, HooksType
      <3> QED BY <1>6, <2>1, <3>1, TypeWriteBoth DEF RecordWebhookDelivery
    <2>3. RunsTyped
      <3>1. NextHook(s, k, run[s][k], run[s][k].todo)
        BY <1>6 DEF RecordWebhookDelivery
      <3> QED BY <1>0, <2>1, <3>1, HooksType, TypeNextHook
    <2>4. TypeOK'
      BY <1>6, <2>2, <2>3 DEF RecordWebhookDelivery, TypeOK
    <2>5. ShapeOK'
      BY <1>6, <2>3 DEF RecordWebhookDelivery, ShapeOK
    <2> QED BY <2>4, <2>5
  <1>7. CASE MarkDelivered(s, k)
    <2>1. cur \in Events
      BY <1>0, <1>7 DEF MarkDelivered, RunShape
    <2>2. /\ mongo' \in [Events -> Doc] /\ mem' \in [Servers -> [Events -> Doc]]
          /\ slot' \in [Servers -> [Events -> Nat]] /\ faults' \in Nat
      <3>1. Delivered(mongo[cur]) \in Doc /\ Delivered(mem[s][cur]) \in Doc
        BY <2>1, UpdateType, HooksType
      <3> QED BY <1>7, <2>1, <3>1, TypeWriteBoth DEF MarkDelivered
    <2>3. busy' \in [Servers -> BOOLEAN] /\ RunsTyped
      <3>1. NextRecord(s, k)
        BY <1>7 DEF MarkDelivered
      <3> QED BY <2>1, <3>1, NextRecordEffect, TypeRun, IdleShape
    <2>4. TypeOK'
      BY <1>7, <2>2, <2>3 DEF MarkDelivered, TypeOK
    <2>5. ShapeOK'
      BY <1>7, <2>3 DEF MarkDelivered, ShapeOK
    <2> QED BY <2>4, <2>5
  <1>8. CASE MarkFailed(s, k)
    <2>1. cur \in Events
      BY <1>0, <1>8 DEF MarkFailed, RunShape
    <2>2. /\ mongo' \in [Events -> Doc] /\ mem' \in [Servers -> [Events -> Doc]]
          /\ slot' \in [Servers -> [Events -> Nat]] /\ faults' \in Nat
      <3>1. MaxExceeded(s, k) \in BOOLEAN
        BY DEF MaxExceeded
      <3>2. /\ Failed(mongo[cur], MaxExceeded(s, k)) \in Doc
            /\ Failed(mem[s][cur], MaxExceeded(s, k)) \in Doc
        BY <2>1, <3>1, UpdateType, HooksType
      <3> QED BY <1>8, <2>1, <3>2, TypeWriteBoth DEF MarkFailed
    <2>3. busy' \in [Servers -> BOOLEAN] /\ RunsTyped
      <3>1. NextRecord(s, k)
        BY <1>8 DEF MarkFailed
      <3> QED BY <2>1, <3>1, NextRecordEffect, TypeRun, IdleShape
    <2>4. TypeOK'
      BY <1>8, <2>2, <2>3 DEF MarkFailed, TypeOK
    <2>5. ShapeOK'
      BY <1>8, <2>3 DEF MarkFailed, ShapeOK
    <2> QED BY <2>4, <2>5
  <1> QED
    BY <1>1, <1>2, <1>3, <1>4, <1>5, <1>6, <1>7, <1>8 DEF Work, Dispatch

LEMMA TypeBackoff ==
  ASSUME TypeInv, NEW e \in Events, Backoff(e)
  PROVE  TypeInv'
  <1> USE DEF TypeInv, serverVars, workerVars, eventVars
  <1>1. ASSUME NEW d \in Doc PROVE [d EXCEPT !.due = TRUE] \in Doc
    BY DEF Doc
  <1>2. CASE BackoffElapsesInMongo(e)
    <2>1. mongo' \in [Events -> Doc]
      <3>1. [mongo[e] EXCEPT !.due = TRUE] \in Doc
        BY <1>1 DEF TypeOK
      <3>2. mongo' = [mongo EXCEPT ![e] = [mongo[e] EXCEPT !.due = TRUE]]
        BY <1>2 DEF BackoffElapsesInMongo
      <3> QED BY <3>1, <3>2 DEF TypeOK
    <2>2. TypeOK'
      BY <1>2, <2>1 DEF BackoffElapsesInMongo, TypeOK
    <2>3. ShapeOK'
      BY <1>2 DEF BackoffElapsesInMongo, ShapeOK
    <2> QED BY <2>2, <2>3
  <1>3. ASSUME NEW s \in Servers, BackoffElapsesInMemory(s, e) PROVE TypeInv'
    <2>1. mem' \in [Servers -> [Events -> Doc]]
      <3>1. [mem[s][e] EXCEPT !.due = TRUE] \in Doc
        BY <1>1 DEF TypeOK
      <3>2. mem' = [mem EXCEPT ![s] = [mem[s] EXCEPT ![e] = [mem[s][e] EXCEPT !.due = TRUE]]]
        BY <1>3 DEF BackoffElapsesInMemory
      <3> QED BY <3>1, <3>2 DEF TypeOK
    <2>2. TypeOK'
      BY <1>3, <2>1 DEF BackoffElapsesInMemory, TypeOK
    <2>3. ShapeOK'
      BY <1>3 DEF BackoffElapsesInMemory, ShapeOK
    <2> QED BY <2>2, <2>3
  <1> QED BY <1>2, <1>3 DEF Backoff

LEMMA TypeStudio ==
  ASSUME TypeInv, NEW s \in Servers, Studio(s)
  PROVE  TypeInv'
  <1> USE DEF TypeInv, workerVars, eventVars, storeVars
  <1>1. ASSUME NEW u \in Urls, RegisterWebhook(s, u) PROVE TypeInv'
    <2>1. [url |-> u, at |-> s, gen |-> gen[s] + 1] \in Hook /\ gen[s] + 1 \in Nat
      BY DEF Hook, TypeOK
    <2>2. registry' \in [Servers -> SUBSET Hook] /\ gen' \in [Servers -> Nat]
      BY <1>1, <2>1 DEF RegisterWebhook, TypeOK
    <2>3. TypeOK'
      BY <1>1, <2>2 DEF RegisterWebhook, TypeOK
    <2>4. ShapeOK'
      BY <1>1 DEF RegisterWebhook, ShapeOK
    <2> QED BY <2>3, <2>4
  <1>2. ASSUME NEW h \in registry[s], UnregisterWebhook(s, h) PROVE TypeInv'
    <2>1. registry' \in [Servers -> SUBSET Hook] /\ owed' \in [Events -> SUBSET Hook]
      BY <1>2 DEF UnregisterWebhook, TypeOK
    <2>2. TypeOK'
      BY <1>2, <2>1 DEF UnregisterWebhook, TypeOK
    <2>3. ShapeOK'
      BY <1>2 DEF UnregisterWebhook, ShapeOK
    <2> QED BY <2>2, <2>3
  <1> QED BY <1>1, <1>2, UrlsAssumption DEF Studio

LEMMA TypeProcess ==
  ASSUME TypeInv, NEW s \in Servers, Process(s)
  PROVE  TypeInv'
  <1> USE DEF TypeInv
  <1>1. CASE Boot(s)
    <2>1. {[url |-> u, at |-> s, gen |-> gen[s] + 1] : u \in EnvUrls} \in SUBSET Hook
      BY UrlsAssumption DEF Hook, TypeOK
    <2>2. registry' \in [Servers -> SUBSET Hook]
      BY <1>1, <2>1 DEF Boot, TypeOK
    <2>3. TypeOK'
      BY <1>1, <2>2 DEF Boot, TypeOK, workerVars, eventVars, storeVars
    <2>4. ShapeOK'
      BY <1>1 DEF Boot, ShapeOK, workerVars, eventVars
    <2> QED BY <2>3, <2>4
  <1>2. CASE Connect(s)
    <2>1. TypeOK'
      BY <1>2 DEF Connect, TypeOK, workerVars, eventVars, storeVars
    <2>2. ShapeOK'
      BY <1>2 DEF Connect, ShapeOK, workerVars, eventVars
    <2> QED BY <2>1, <2>2
  <1>3. CASE Disconnect(s)
    <2>1. TypeOK'
      BY <1>3, TypeFault DEF Disconnect, TypeOK, workerVars, eventVars, storeVars
    <2>2. ShapeOK'
      BY <1>3 DEF Disconnect, ShapeOK, workerVars, eventVars
    <2> QED BY <2>1, <2>2
  <1>4. CASE Drain(s)
    <2>1. TypeOK'
      BY <1>4 DEF Drain, TypeOK, workerVars, eventVars, storeVars
    <2>2. ShapeOK'
      BY <1>4 DEF Drain, ShapeOK, workerVars, eventVars
    <2> QED BY <2>1, <2>2
  <1>5. CASE Exit(s)
    <2>1. run' \in [Servers -> [Callers -> Run]]
      BY <1>5, IdleRunType DEF Exit, TypeOK
    <2>2. /\ mem' \in [Servers -> [Events -> Doc]]
          /\ slot' \in [Servers -> [Events -> Nat]]
      BY <1>5, NoDocType DEF Exit, TypeOK
    <2>3. stage' \in [Events -> {"absent", "creating", "orphaned", "stored"}]
      BY <1>5 DEF Exit, TypeOK
    <2>4. exits' \in Nat
      BY <1>5 DEF Exit, TypeOK
    <2>5. TypeOK'
      BY <1>5, <2>1, <2>2, <2>3, <2>4 DEF Exit, TypeOK
    <2>6. ASSUME NEW t \in Servers, NEW j \in Callers PROVE RunShape(run'[t][j])
      <3>1. RunShape(IdleRun)
        BY DEF RunShape, IdleRun
      <3>2. run'[t][j] = IF t = s THEN IdleRun ELSE run[t][j]
        BY <1>5 DEF Exit, TypeOK
      <3> QED BY <3>1, <3>2 DEF ShapeOK
    <2>7. \A e \in Events : stage'[e] # "absent" => home'[e] \in Servers
      BY <1>5 DEF Exit, ShapeOK, TypeOK
    <2> QED BY <2>5, <2>6, <2>7 DEF ShapeOK
  <1> QED BY <1>1, <1>2, <1>3, <1>4, <1>5 DEF Process

LEMMA TypeStep == TypeInv /\ [Next]_vars => TypeInv'
  <1> SUFFICES ASSUME TypeInv, [Next]_vars PROVE TypeInv'
    OBVIOUS
  <1>1. CASE UNCHANGED vars
    <2>1. TypeOK'
      BY <1>1 DEF TypeInv, TypeOK, vars
    <2>2. ShapeOK'
      BY <1>1 DEF TypeInv, ShapeOK, vars
    <2> QED BY <2>1, <2>2 DEF TypeInv
  <1>2. CASE Next
    <2>1. ASSUME NEW e \in Events, Enqueue(e) \/ Backoff(e) PROVE TypeInv'
      BY <2>1, TypeEmit, TypeCreate, TypeBackoff DEF Enqueue
    <2>2. ASSUME NEW s \in Servers, Tick(s) \/ Kick(s) \/ Studio(s) \/ Process(s)
          PROVE  TypeInv'
      BY <2>2, TypeStartRun, TypeStudio, TypeProcess
    <2>3. ASSUME NEW s \in Servers, NEW k \in Callers, Work(s, k) PROVE TypeInv'
      BY <2>3, TypeWork
    <2> QED BY <1>2, <2>1, <2>2, <2>3 DEF Next
  <1> QED BY <1>1, <1>2

(* Every reachable state is typed: no step of any server, nor a fault or a  *)
(* crash at any point, leaves a store or a run malformed.                   *)
THEOREM TypeCorrect == Spec => []TypeOK
  <1>1. TypeInv => TypeOK
    BY DEF TypeInv
  <1> QED BY TypeInit, TypeStep, <1>1, PTL DEF Spec

-----------------------------------------------------------------------------
(* What a delivery record and a DELIVERED status stand for.  The invariant  *)
(* follows the evidence from the 2xx answer (acked) through the run to the  *)
(* stores: a run that has not failed still has each kept destination ahead  *)
(* of it, or its acknowledgement behind it.                                 *)

Kept == EnvUrls \ Managed

DocHonest(d, e, ac) ==
    /\ d.delivered \subseteq ac[e]
    /\ d.status = "DELIVERED" => \A u \in Kept : \E h \in ac[e] : h.url = u

RunHonest(r, up, ac) ==
    /\ r.pc # "idle" => up
    /\ \A e \in Events : r.seen[e].delivered \subseteq ac[e]
    /\ r.pc = "record" => r.hook \in ac[r.cur]
    /\ r.pc \in {"send", "record"} /\ ~r.failed =>
          \A u \in Kept : \E h \in Hook :
             h.url = u /\ (h \in ac[r.cur] \/ h \in r.todo \/ h = r.hook)
    /\ r.pc = "settle" /\ ~r.failed =>
          \A u \in Kept : \E h \in ac[r.cur] : h.url = u

StoresHonest ==
    \A e \in Events : /\ DocHonest(mongo[e], e, acked)
                      /\ \A s \in Servers : DocHonest(mem[s][e], e, acked)

RunsHonest ==
    \A s \in Servers, k \in Callers : RunHonest(run[s][k], alive[s], acked)

RegistryKept ==
    \A s \in Servers : alive[s] => \A u \in Kept : \E h \in registry[s] : h.url = u

(* What a process does, it does while it is alive. *)
AliveOK ==
    /\ \A s \in Servers : polling[s] \/ kicks[s] > 0 => alive[s]
    /\ \A e \in Events : stage[e] = "creating" => alive[home[e]]

DeliveryInv == StoresHonest /\ RunsHonest /\ RegistryKept /\ AliveOK

LEMMA DeliveryMeans == DeliveryInv => HonestRecord /\ EnvDelivered
  <1>1. DeliveryInv => HonestRecord
    BY DEF DeliveryInv, StoresHonest, DocHonest, HonestRecord
  <1>2. DeliveryInv => EnvDelivered
    BY DEF DeliveryInv, StoresHonest, DocHonest, EnvDelivered, MarkedDelivered,
           Received, Kept
  <1> QED BY <1>1, <1>2

LEMMA EmptyDocHonest ==
  ASSUME NEW e, NEW ac
  PROVE  DocHonest(NoDoc, e, ac) /\ DocHonest(Fresh, e, ac)
  BY DEF DocHonest, NoDoc, Fresh

LEMMA IdleRunHonest ==
  ASSUME NEW up, NEW ac
  PROVE  RunHonest(IdleRun, up, ac)
  BY DEF RunHonest, IdleRun, NoDoc

(* New acknowledgements take nothing away. *)
LEMMA HonestGrows ==
  ASSUME NEW ac, NEW more, \A e \in Events : ac[e] \subseteq more[e]
  PROVE  /\ \A d, e : e \in Events /\ DocHonest(d, e, ac) => DocHonest(d, e, more)
         /\ \A r, up : RunShape(r) /\ RunHonest(r, up, ac) => RunHonest(r, up, more)
  <1>1. ASSUME NEW d, NEW e \in Events, DocHonest(d, e, ac)
        PROVE  DocHonest(d, e, more)
    BY <1>1 DEF DocHonest
  <1>2. ASSUME NEW r, NEW up, RunShape(r), RunHonest(r, up, ac)
        PROVE  RunHonest(r, up, more)
    <2>1. /\ r.pc # "idle" => up
          /\ \A e \in Events : r.seen[e].delivered \subseteq more[e]
      BY <1>2 DEF RunHonest
    <2>2. r.pc = "record" => r.hook \in more[r.cur]
      BY <1>2 DEF RunHonest, RunShape
    <2>3. r.pc \in {"send", "record"} /\ ~r.failed =>
            \A u \in Kept : \E h \in Hook :
               h.url = u /\ (h \in more[r.cur] \/ h \in r.todo \/ h = r.hook)
      BY <1>2 DEF RunHonest, RunShape
    <2>4. r.pc = "settle" /\ ~r.failed =>
            \A u \in Kept : \E h \in more[r.cur] : h.url = u
      BY <1>2 DEF RunHonest, RunShape
    <2> QED BY <2>1, <2>2, <2>3, <2>4 DEF RunHonest
  <1> QED BY <1>1, <1>2

(* Turning to the next webhook keeps each kept destination in sight. *)
LEMMA NextHookHonest ==
  ASSUME TypeOK, NEW s \in Servers, NEW k \in Callers, NEW up, NEW ac, up,
         NEW rec \in Run, rec.cur \in Events,
         NEW rest \in SUBSET Hook, NextHook(s, k, rec, rest),
         \A e \in Events : rec.seen[e].delivered \subseteq ac[e],
         ~rec.failed => \A u \in Kept : \E h \in Hook :
                           h.url = u /\ (h \in ac[rec.cur] \/ h \in rest)
  PROVE  \E r \in Run : SetRun(s, k, r) /\ RunHonest(r, up, ac)
  <1>1. PICK r \in Run :
            /\ SetRun(s, k, r)
            /\ r.cur = rec.cur /\ r.failed = rec.failed /\ r.seen = rec.seen
            /\ \/ r.pc = "settle" /\ rest = {}
               \/ r.pc = "send" /\ r.hook \in rest /\ r.todo = rest \ {r.hook}
    BY NextHookType
  <1>2. CASE r.pc = "settle" /\ rest = {}
    BY <1>1, <1>2 DEF RunHonest
  <1>3. CASE r.pc = "send" /\ r.hook \in rest /\ r.todo = rest \ {r.hook}
    <2>1. ~r.failed => \A u \in Kept : \E h \in Hook :
             h.url = u /\ (h \in ac[r.cur] \/ h \in r.todo \/ h = r.hook)
      BY <1>1, <1>3
    <2> QED BY <1>1, <1>3, <2>1 DEF RunHonest
  <1> QED BY <1>1, <1>2, <1>3

(* All runs stay honest when one is replaced by an honest one. *)
LEMMA RunsStayHonest ==
  ASSUME TypeInv, RunsHonest, NEW s \in Servers, NEW k \in Callers,
         NEW r \in Run, SetRun(s, k, r), RunHonest(r, alive[s], acked'),
         alive' = alive, \A e \in Events : acked[e] \subseteq acked'[e]
  PROVE  RunsHonest'
  <1>1. \A t \in Servers, j \in Callers :
           run'[t][j] = IF t = s /\ j = k THEN r ELSE run[t][j]
    BY SetRunEffect DEF TypeInv, TypeOK
  <1>2. ASSUME NEW t \in Servers, NEW j \in Callers
        PROVE  RunHonest(run'[t][j], alive[t], acked')
    <2>1. CASE t = s /\ j = k
      BY <1>1, <2>1
    <2>2. CASE ~(t = s /\ j = k)
      <3>1. RunShape(run[t][j]) /\ RunHonest(run[t][j], alive[t], acked)
        BY DEF TypeInv, ShapeOK, RunsHonest
      <3> QED BY <1>1, <2>2, <3>1, HonestGrows
    <2> QED BY <2>1, <2>2
  <1> QED BY <1>2 DEF RunsHonest

LEMMA DeliveryInit == Init => DeliveryInv
  <1> SUFFICES ASSUME Init PROVE DeliveryInv
    OBVIOUS
  <1>1. StoresHonest
    BY EmptyDocHonest DEF Init, StoresHonest
  <1>2. RunsHonest
    BY IdleRunHonest DEF Init, RunsHonest
  <1>3. RegistryKept
    BY DEF Init, RegistryKept
  <1>4. AliveOK
    BY DEF Init, AliveOK
  <1> QED BY <1>1, <1>2, <1>3, <1>4 DEF DeliveryInv

(* Writing honest documents keeps both stores honest. *)
LEMMA WriteBothHonest ==
  ASSUME TypeInv, StoresHonest, NEW s \in Servers, NEW e \in Events,
         NEW a, NEW b, WriteBoth(s, e, a, b), acked' = acked,
         DocHonest(a, e, acked), DocHonest(b, e, acked)
  PROVE  StoresHonest'
  <1>1. \A d \in Events : mongo'[d] \in {mongo[d]} \cup (IF d = e THEN {a} ELSE {})
    BY DEF WriteBoth, TypeInv, TypeOK
  <1>2. \A t \in Servers, d \in Events :
           mem'[t][d] = IF t = s /\ d = e THEN b ELSE mem[t][d]
    BY DEF WriteBoth, TypeInv, TypeOK
  <1>3. ASSUME NEW d \in Events PROVE DocHonest(mongo'[d], d, acked)
    BY <1>1 DEF StoresHonest
  <1>4. ASSUME NEW t \in Servers, NEW d \in Events PROVE DocHonest(mem'[t][d], d, acked)
    <2>1. CASE t = s /\ d = e
      BY <1>2, <2>1
    <2>2. CASE ~(t = s /\ d = e)
      BY <1>2, <2>2 DEF StoresHonest
    <2> QED BY <2>1, <2>2
  <1> QED BY <1>3, <1>4 DEF StoresHonest

LEMMA StoreInMemoryHonest ==
  ASSUME TypeInv, StoresHonest, NEW s \in Servers, NEW e \in Events,
         StoreInMemory(s, e), mongo' = mongo, acked' = acked
  PROVE  StoresHonest'
  <1>1. \A t \in Servers, d \in Events :
           mem'[t][d] = IF t = s /\ d = e THEN Fresh ELSE mem[t][d]
    BY DEF StoreInMemory, TypeInv, TypeOK
  <1>2. ASSUME NEW t \in Servers, NEW d \in Events PROVE DocHonest(mem'[t][d], d, acked)
    <2>1. CASE t = s /\ d = e
      BY <1>1, <2>1, EmptyDocHonest
    <2>2. CASE ~(t = s /\ d = e)
      BY <1>1, <2>2 DEF StoresHonest
    <2> QED BY <2>1, <2>2
  <1> QED BY <1>2 DEF StoresHonest

LEMMA DeliveryEnqueue ==
  ASSUME TypeInv, DeliveryInv, NEW e \in Events, Enqueue(e)
  PROVE  DeliveryInv'
  <1> USE DEF DeliveryInv, serverVars, workerVars, eventVars, storeVars
  <1>1. UNCHANGED <<serverVars, workerVars, acked>>
    BY DEF Enqueue, Emit, CreateLands, CreateResolves, CreateRejects
  <1>2. RunsHonest' /\ RegistryKept'
    BY <1>1 DEF RunsHonest, RegistryKept
  <1>3. StoresHonest'
    <2>1. ASSUME NEW s \in Servers, Emit(s, e) PROVE StoresHonest'
      <3>1. CASE UNCHANGED storeVars
        BY <1>1, <3>1 DEF StoresHonest
      <3>2. CASE StoreInMemory(s, e) /\ UNCHANGED mongo
        BY <1>1, <3>2, StoreInMemoryHonest
      <3> QED BY <2>1, <3>1, <3>2 DEF Emit
    <2>2. CASE CreateLands(e)
      <3>1. \A d \in Events : mongo'[d] = IF d = e THEN Fresh ELSE mongo[d]
        BY <2>2 DEF CreateLands, TypeInv, TypeOK
      <3>2. \A d \in Events : DocHonest(mongo'[d], d, acked)
        BY <3>1, EmptyDocHonest DEF StoresHonest
      <3> QED BY <1>1, <2>2, <3>2 DEF CreateLands, StoresHonest
    <2>3. CASE CreateResolves(e)
      BY <2>3 DEF CreateResolves, StoresHonest
    <2>4. CASE CreateRejects(e)
      <3>1. home[e] \in Servers
        BY <2>4 DEF CreateRejects, TypeInv, ShapeOK
      <3> QED BY <1>1, <2>4, <3>1, StoreInMemoryHonest DEF CreateRejects
    <2> QED BY <2>1, <2>2, <2>3, <2>4 DEF Enqueue
  <1>4. AliveOK'
    <2> USE DEF AliveOK, TypeInv, TypeOK, ShapeOK
    <2>1. ASSUME NEW s \in Servers, Emit(s, e) PROVE AliveOK'
      BY <2>1 DEF Emit, TriggerWorker
    <2>2. CASE CreateLands(e)
      BY <2>2 DEF CreateLands
    <2>3. CASE CreateResolves(e)
      BY <2>3 DEF CreateResolves, TriggerWorker
    <2>4. CASE CreateRejects(e)
      BY <2>4 DEF CreateRejects, TriggerWorker
    <2> QED BY <2>1, <2>2, <2>3, <2>4 DEF Enqueue
  <1> QED BY <1>2, <1>3, <1>4

LEMMA DeliveryBackoff ==
  ASSUME TypeInv, DeliveryInv, NEW e \in Events, Backoff(e)
  PROVE  DeliveryInv'
  <1> USE DEF DeliveryInv, serverVars, workerVars, eventVars
  <1>1. UNCHANGED <<serverVars, workerVars, eventVars, kicks, acked>>
    BY DEF Backoff, BackoffElapsesInMongo, BackoffElapsesInMemory
  <1>2. RunsHonest' /\ RegistryKept' /\ AliveOK'
    BY <1>1 DEF RunsHonest, RegistryKept, AliveOK
  <1>3. ASSUME NEW d \in Doc, NEW x, DocHonest(d, x, acked)
        PROVE  DocHonest([d EXCEPT !.due = TRUE], x, acked)
    <2>1. /\ [d EXCEPT !.due = TRUE].delivered = d.delivered
          /\ [d EXCEPT !.due = TRUE].status = d.status
      BY DEF Doc
    <2> DEFINE f == [d EXCEPT !.due = TRUE]
    <2>2. f.delivered = d.delivered /\ f.status = d.status
      BY <2>1
    <2> HIDE DEF f
    <2>3. DocHonest(f, x, acked)
      BY <1>3, <2>2 DEF DocHonest
    <2> QED BY <2>3 DEF f
  <1>4. CASE BackoffElapsesInMongo(e)
    <2>1. \A x \in Events :
             mongo'[x] = IF x = e THEN [mongo[x] EXCEPT !.due = TRUE] ELSE mongo[x]
      BY <1>4 DEF BackoffElapsesInMongo, TypeInv, TypeOK
    <2>2. ASSUME NEW x \in Events PROVE DocHonest(mongo'[x], x, acked)
      <3>1. mongo[x] \in Doc /\ DocHonest(mongo[x], x, acked)
        BY DEF StoresHonest, TypeInv, TypeOK
      <3>2. DocHonest([mongo[x] EXCEPT !.due = TRUE], x, acked)
        BY <1>3, <3>1
      <3>3. CASE x = e
        BY <2>1, <3>2, <3>3, Zenon
      <3>4. CASE x # e
        BY <2>1, <3>1, <3>4, Zenon
      <3> QED BY <3>3, <3>4
    <2>3. StoresHonest'
      BY <1>4, <2>2 DEF BackoffElapsesInMongo, StoresHonest
    <2> QED BY <1>2, <2>3
  <1>5. ASSUME NEW s \in Servers, BackoffElapsesInMemory(s, e) PROVE DeliveryInv'
    <2>1. \A t \in Servers, x \in Events :
             mem'[t][x] = IF t = s /\ x = e THEN [mem[t][x] EXCEPT !.due = TRUE]
                                            ELSE mem[t][x]
      BY <1>5 DEF BackoffElapsesInMemory, TypeInv, TypeOK
    <2>2. ASSUME NEW t \in Servers, NEW x \in Events PROVE DocHonest(mem'[t][x], x, acked)
      <3>1. mem[t][x] \in Doc /\ DocHonest(mem[t][x], x, acked)
        BY DEF StoresHonest, TypeInv, TypeOK
      <3>2. DocHonest([mem[t][x] EXCEPT !.due = TRUE], x, acked)
        BY <1>3, <3>1
      <3>3. CASE t = s /\ x = e
        BY <2>1, <3>2, <3>3, Zenon
      <3>4. CASE ~(t = s /\ x = e)
        BY <2>1, <3>1, <3>4, Zenon
      <3> QED BY <3>3, <3>4
    <2>3. StoresHonest'
      BY <1>5, <2>2 DEF BackoffElapsesInMemory, StoresHonest
    <2> QED BY <1>2, <2>3
  <1> QED BY <1>4, <1>5 DEF Backoff

LEMMA DeliveryStartRun ==
  ASSUME TypeInv, DeliveryInv, NEW s \in Servers, Tick(s) \/ Kick(s)
  PROVE  DeliveryInv'
  <1> USE DEF DeliveryInv, serverVars, eventVars, storeVars
  <1>1. UNCHANGED <<serverVars, storeVars, acked>>
    BY DEF Tick, Kick
  <1>2. StoresHonest' /\ RegistryKept'
    BY <1>1 DEF StoresHonest, RegistryKept
  <1>3. alive[s]
    BY DEF Tick, Kick, AliveOK
  <1>4. ASSUME NEW k \in Callers, StartRun(s, k) PROVE RunsHonest'
    <2>1. PICK r \in Run : /\ SetRun(s, k, r)
                           /\ r.pc \in {"idle", "query", "pick"}
                           /\ r.seen = [e \in Events |-> NoDoc]
      BY <1>4, StartRunEffect DEF TypeInv
    <2>2. \A e \in Events : r.seen[e].delivered \subseteq acked[e]
      BY <2>1 DEF NoDoc
    <2>3. RunHonest(r, alive[s], acked)
      BY <1>3, <2>1, <2>2 DEF RunHonest
    <2> QED BY <1>1, <2>1, <2>3, RunsStayHonest
  <1>5. ASSUME UNCHANGED workerVars PROVE RunsHonest'
    <2>1. run' = run /\ alive' = alive /\ acked' = acked
      BY <1>1, <1>5 DEF workerVars
    <2> QED BY <2>1, Zenon DEF RunsHonest
  <1>6. AliveOK'
    <2>1. \A t \in Servers : kicks'[t] > 0 => kicks[t] > 0
      <3>1. CASE Tick(s)
        BY <3>1 DEF Tick
      <3>2. CASE Kick(s)
        BY <3>2 DEF Kick, TypeInv, TypeOK
      <3> QED BY <3>1, <3>2
    <2>2. UNCHANGED <<alive, polling, stage, home>>
      BY DEF Tick, Kick
    <2> QED BY <2>1, <2>2 DEF AliveOK
  <1>7. RunsHonest'
    BY <1>4, <1>5 DEF Tick, Kick, Callers
  <1> QED BY <1>2, <1>6, <1>7

(* The record a run holds says who has it truthfully. *)
LEMMA RecordHonest ==
  ASSUME TypeInv, DeliveryInv, NEW s \in Servers, NEW k \in Callers, NEW e \in Events
  PROVE  Record(s, k, e).delivered \subseteq acked[e]
  <1>1. mem[s][e].delivered \subseteq acked[e]
    BY DEF DeliveryInv, StoresHonest, DocHonest
  <1>2. run[s][k].seen[e].delivered \subseteq acked[e]
    BY DEF DeliveryInv, RunsHonest, RunHonest
  <1> QED BY <1>1, <1>2 DEF Record

LEMMA DeliveryWork ==
  ASSUME TypeInv, DeliveryInv, NEW s \in Servers, NEW k \in Callers, Work(s, k)
  PROVE  DeliveryInv'
  <1> USE DEF DeliveryInv, serverVars, eventVars, storeVars
  <1> DEFINE me == run[s][k]
             cur == run[s][k].cur
  <1>0. me \in Run /\ RunShape(me) /\ RunHonest(me, alive[s], acked)
    BY DEF TypeInv, TypeOK, ShapeOK, RunsHonest
  <1>1. UNCHANGED <<serverVars, eventVars, kicks>>
    BY DEF Work, Dispatch, QueryReturns, Pick, DispatchSucceeds, DispatchFails,
           DispatchThrows, RecordWebhookDelivery, MarkDelivered, MarkFailed
  <1>2. RegistryKept' /\ AliveOK'
    BY <1>1 DEF RegistryKept, AliveOK
  <1>3. me.pc # "idle"
    BY DEF Work, Dispatch, QueryReturns, Pick, DispatchSucceeds, DispatchFails,
           DispatchThrows, RecordWebhookDelivery, MarkDelivered, MarkFailed
  <1>4. alive[s] /\ \A e \in Events : me.seen[e].delivered \subseteq acked[e]
    BY <1>0, <1>3 DEF RunHonest
  <1>5. CASE QueryReturns(s, k)
    <2>1. StoresHonest'
      BY <1>5 DEF QueryReturns, StoresHonest
    <2>2. PICK r \in Run : /\ SetRun(s, k, r)
                           /\ r.pc \in {"idle", "pick"}
                           /\ \A e \in Events : r.seen[e] \in {NoDoc, mongo[e]}
      BY <1>5, QueryReturnsEffect DEF TypeInv
    <2>3. \A e \in Events : r.seen[e].delivered \subseteq acked[e]
      BY <2>2 DEF NoDoc, StoresHonest, DocHonest
    <2>4. RunHonest(r, alive[s], acked)
      BY <1>4, <2>2, <2>3 DEF RunHonest
    <2>5. acked' = acked
      BY <1>5 DEF QueryReturns
    <2>6. RunsHonest'
      BY <1>1, <2>2, <2>4, <2>5, RunsStayHonest
    <2> QED BY <1>2, <2>1, <2>6
  <1>6. CASE Pick(s, k)
    <2>1. StoresHonest' /\ acked' = acked
      BY <1>6 DEF Pick, StoresHonest
    <2>2. PICK e \in me.batch :
             NextHook(s, k, [me EXCEPT !.cur = e, !.failed = FALSE],
                      HooksFor(s, e) \ Record(s, k, e).delivered)
      BY <1>6 DEF Pick
    <2>3. e \in Events
      BY <1>0 DEF Run
    <2> DEFINE rec == [me EXCEPT !.cur = e, !.failed = FALSE]
               rest == HooksFor(s, e) \ Record(s, k, e).delivered
    <2>4. rec \in Run /\ rec.cur = e /\ rec.seen = me.seen
      BY <1>0, <2>3 DEF Run
    <2>5. rest \in SUBSET Hook
      BY <2>3, HooksType DEF TypeInv
    <2>6. \A u \in Kept : \E h \in Hook : h.url = u /\ (h \in acked[e] \/ h \in rest)
      <3>1. ASSUME NEW u \in Kept
            PROVE  \E h \in Hook : h.url = u /\ (h \in acked[e] \/ h \in rest)
        <4>1. PICK h \in registry[s] : h.url = u
          BY <1>4 DEF RegistryKept
        <4>2. e \in Interest[u]
          BY <2>3, UrlsAssumption DEF Kept
        <4>3. h \in HooksFor(s, e) /\ h \in Hook
          BY <4>1, <4>2 DEF HooksFor, TypeInv, TypeOK
        <4>4. h \in Record(s, k, e).delivered => h \in acked[e]
          BY <2>3, RecordHonest
        <4> QED BY <4>1, <4>3, <4>4
      <3> QED BY <3>1
    <2> HIDE DEF rec, rest
    <2>7. NextHook(s, k, rec, rest)
      BY <2>2 DEF rec, rest
    <2>8. PICK r \in Run : SetRun(s, k, r) /\ RunHonest(r, alive[s], acked)
      BY <1>4, <2>3, <2>4, <2>5, <2>6, <2>7, NextHookHonest DEF TypeInv
    <2>9. RunsHonest'
      BY <1>1, <2>1, <2>8, RunsStayHonest
    <2> QED BY <1>2, <2>1, <2>9
  <1>7. CASE DispatchSucceeds(s, k)
    <2>1. cur \in Events /\ me.hook \in Hook
      BY <1>0, <1>7 DEF DispatchSucceeds, RunShape
    <2>2. /\ \A e \in Events : acked[e] \subseteq acked'[e]
          /\ me.hook \in acked'[cur]
      BY <1>7, <2>1 DEF DispatchSucceeds, TypeInv, TypeOK
    <2>3. StoresHonest'
      <3>1. mongo' = mongo /\ mem' = mem
        BY <1>7 DEF DispatchSucceeds
      <3> QED BY <2>2, <3>1, HonestGrows DEF StoresHonest
    <2> DEFINE r == [me EXCEPT !.pc = "record"]
    <2>4. /\ r \in Run /\ r.pc = "record" /\ r.cur = cur /\ r.hook = me.hook
          /\ r.seen = me.seen /\ r.todo = me.todo /\ r.failed = me.failed
      BY <1>0 DEF Run
    <2>5. SetRun(s, k, r)
      BY <1>7 DEF DispatchSucceeds
    <2> HIDE DEF r
    <2>6. RunHonest(me, alive[s], acked')
      BY <1>0, <2>2, HonestGrows
    <2>7. RunHonest(r, alive[s], acked')
      BY <1>7, <2>2, <2>4, <2>6 DEF RunHonest, DispatchSucceeds
    <2>8. RunsHonest'
      BY <1>1, <2>2, <2>4, <2>5, <2>7, RunsStayHonest
    <2> QED BY <1>2, <2>3, <2>8
  <1>8. CASE DispatchFails(s, k)
    <2>1. StoresHonest' /\ acked' = acked
      BY <1>8 DEF DispatchFails, StoresHonest
    <2>2. cur \in Events
      BY <1>0, <1>8 DEF DispatchFails, RunShape
    <2> DEFINE rec == [me EXCEPT !.failed = TRUE]
    <2>3. rec \in Run /\ rec.cur = cur /\ rec.seen = me.seen /\ rec.failed
      BY <1>0 DEF Run
    <2>4. NextHook(s, k, rec, me.todo)
      BY <1>8 DEF DispatchFails
    <2> HIDE DEF rec
    <2>5. PICK r \in Run : SetRun(s, k, r) /\ RunHonest(r, alive[s], acked)
      BY <1>4, <2>2, <2>3, <2>4, HooksType, NextHookHonest DEF TypeInv
    <2>6. RunsHonest'
      BY <1>1, <2>1, <2>5, RunsStayHonest
    <2> QED BY <1>2, <2>1, <2>6
  <1>9. CASE DispatchThrows(s, k)
    <2>1. StoresHonest' /\ acked' = acked
      BY <1>9 DEF DispatchThrows, StoresHonest
    <2>2. SetRun(s, k, IdleRun)
      BY <1>9 DEF DispatchThrows, EndRun
    <2>3. RunsHonest'
      BY <1>1, <2>1, <2>2, IdleRunType, IdleRunHonest, RunsStayHonest
    <2> QED BY <1>2, <2>1, <2>3
  <1>10. CASE RecordWebhookDelivery(s, k)
    <2>1. acked' = acked
      BY <1>10 DEF RecordWebhookDelivery
    <2>2. cur \in Events /\ me.hook \in Hook /\ me.pc = "record" /\ me.hook \in acked[cur]
      BY <1>0, <1>10 DEF RecordWebhookDelivery, RunShape, RunHonest
    <2>3. ASSUME NEW d \in Doc, DocHonest(d, cur, acked)
          PROVE  DocHonest(Recorded(d, me.hook), cur, acked)
      <3>1. CASE Present(d)
        <4> DEFINE f == [d EXCEPT !.delivered = @ \cup {me.hook}]
        <4>1. f.status = d.status /\ f.delivered = d.delivered \cup {me.hook}
          BY DEF Doc
        <4>2. Recorded(d, me.hook) = f
          BY <3>1, Zenon DEF Recorded
        <4> HIDE DEF f
        <4> QED BY <2>2, <2>3, <4>1, <4>2 DEF DocHonest
      <3>2. CASE ~Present(d)
        BY <2>3, <3>2, Zenon DEF Recorded
      <3> QED BY <3>1, <3>2
    <2>4. StoresHonest'
      <3>1. /\ DocHonest(Recorded(mongo[cur], me.hook), cur, acked)
            /\ DocHonest(Recorded(mem[s][cur], me.hook), cur, acked)
        BY <2>2, <2>3, HooksType DEF TypeInv, StoresHonest
      <3>2. WriteBoth(s, cur, Recorded(mongo[cur], me.hook), Recorded(mem[s][cur], me.hook))
        BY <1>10 DEF RecordWebhookDelivery
      <3> QED BY <2>1, <2>2, <3>1, <3>2, WriteBothHonest
    <2>5. ~me.failed => \A u \in Kept : \E h \in Hook :
             h.url = u /\ (h \in acked[cur] \/ h \in me.todo)
      BY <1>0, <2>2 DEF RunHonest
    <2>6. NextHook(s, k, me, me.todo)
      BY <1>10 DEF RecordWebhookDelivery
    <2>7. PICK r \in Run : SetRun(s, k, r) /\ RunHonest(r, alive[s], acked)
      BY <1>0, <1>4, <2>2, <2>5, <2>6, HooksType, NextHookHonest DEF TypeInv
    <2>8. RunsHonest'
      BY <1>1, <2>1, <2>7, RunsStayHonest
    <2> QED BY <1>2, <2>4, <2>8
  <1>11. ASSUME NextRecord(s, k), acked' = acked, cur \in Events PROVE RunsHonest'
    <2>1. PICK r \in Run : /\ SetRun(s, k, r)
                           /\ r.pc \in {"idle", "pick"}
                           /\ \A e \in Events : r.seen[e] \in {NoDoc, me.seen[e]}
      BY <1>11, NextRecordEffect DEF TypeInv
    <2>2. \A e \in Events : r.seen[e].delivered \subseteq acked[e]
      BY <1>4, <2>1 DEF NoDoc
    <2>3. RunHonest(r, alive[s], acked)
      BY <1>4, <2>1, <2>2 DEF RunHonest
    <2> QED BY <1>1, <1>11, <2>1, <2>3, RunsStayHonest
  <1>12. CASE MarkDelivered(s, k)
    <2>1. acked' = acked /\ NextRecord(s, k) /\ cur \in Events
      BY <1>0, <1>12 DEF MarkDelivered, RunShape
    <2>2. \A u \in Kept : \E h \in acked[cur] : h.url = u
      BY <1>0, <1>12 DEF MarkDelivered, RunHonest
    <2>3. ASSUME NEW d \in Doc, DocHonest(d, cur, acked)
          PROVE  DocHonest(Delivered(d), cur, acked)
      <3>1. CASE Present(d)
        <4> DEFINE f == [d EXCEPT !.status = "DELIVERED"]
        <4>1. f.delivered = d.delivered
          BY DEF Doc
        <4>2. Delivered(d) = f
          BY <3>1, Zenon DEF Delivered
        <4> HIDE DEF f
        <4> QED BY <2>2, <2>3, <4>1, <4>2 DEF DocHonest
      <3>2. CASE ~Present(d)
        BY <2>3, <3>2, Zenon DEF Delivered
      <3> QED BY <3>1, <3>2
    <2>4. StoresHonest'
      <3>1. DocHonest(Delivered(mongo[cur]), cur, acked) /\ DocHonest(Delivered(mem[s][cur]), cur, acked)
        BY <2>1, <2>3, HooksType DEF TypeInv, StoresHonest
      <3>2. WriteBoth(s, cur, Delivered(mongo[cur]), Delivered(mem[s][cur]))
        BY <1>12 DEF MarkDelivered
      <3> QED BY <2>1, <3>1, <3>2, WriteBothHonest
    <2> QED BY <1>2, <1>11, <2>1, <2>4
  <1>13. CASE MarkFailed(s, k)
    <2>1. acked' = acked /\ NextRecord(s, k) /\ cur \in Events
      BY <1>0, <1>13 DEF MarkFailed, RunShape
    <2>2. ASSUME NEW d \in Doc, DocHonest(d, cur, acked), NEW b \in BOOLEAN
          PROVE  DocHonest(Failed(d, b), cur, acked)
      <3>1. CASE Present(d)
        <4> DEFINE f == [status |-> Verdict(b), attempts |-> d.attempts + 1,
                         due |-> FALSE, delivered |-> d.delivered]
        <4>1. Verdict(b) # "DELIVERED"
          BY DEF Verdict
        <4>2. f.status = Verdict(b) /\ f.delivered = d.delivered
          OBVIOUS
        <4>3. Failed(d, b) = f
          BY <3>1, Zenon DEF Failed
        <4> HIDE DEF f
        <4> QED BY <2>2, <4>1, <4>2, <4>3 DEF DocHonest
      <3>2. CASE ~Present(d)
        BY <2>2, <3>2, Zenon DEF Failed
      <3> QED BY <3>1, <3>2
    <2>3. StoresHonest'
      <3> DEFINE b == MaxExceeded(s, k)
      <3>0. b \in BOOLEAN
        BY DEF MaxExceeded
      <3> HIDE DEF b
      <3>1. DocHonest(Failed(mongo[cur], b), cur, acked) /\ DocHonest(Failed(mem[s][cur], b), cur, acked)
        BY <2>1, <2>2, <3>0, HooksType DEF TypeInv, StoresHonest
      <3>2. WriteBoth(s, cur, Failed(mongo[cur], b), Failed(mem[s][cur], b))
        BY <1>13 DEF MarkFailed, b
      <3> QED BY <2>1, <3>1, <3>2, WriteBothHonest
    <2> QED BY <1>2, <1>11, <2>1, <2>3
  <1> QED
    BY <1>5, <1>6, <1>7, <1>8, <1>9, <1>10, <1>12, <1>13 DEF Work, Dispatch

LEMMA DeliveryStudio ==
  ASSUME TypeInv, DeliveryInv, NEW s \in Servers, Studio(s)
  PROVE  DeliveryInv'
  <1> USE DEF DeliveryInv, workerVars, storeVars
  <1>1. UNCHANGED <<alive, polling, stage, home, workerVars, storeVars, kicks, acked>>
    BY DEF Studio, RegisterWebhook, UnregisterWebhook, eventVars
  <1>2. StoresHonest' /\ AliveOK'
    BY <1>1 DEF StoresHonest, AliveOK
  <1>3. RunsHonest'
    <2>1. run' = run /\ alive' = alive /\ acked' = acked
      BY <1>1
    <2> QED BY <2>1, Zenon DEF RunsHonest
  <1>4. RegistryKept'
    <2>1. \A t \in Servers : {h \in registry[t] : h.url \in Kept} \subseteq registry'[t]
      <3>1. ASSUME NEW u \in Managed, RegisterWebhook(s, u)
            PROVE  \A t \in Servers : registry[t] \subseteq registry'[t]
        BY <3>1 DEF RegisterWebhook, TypeInv, TypeOK
      <3>2. ASSUME NEW g \in registry[s], g.url \in Managed, UnregisterWebhook(s, g)
            PROVE  \A t \in Servers : registry[t] \ {g} \subseteq registry'[t]
        BY <3>2 DEF UnregisterWebhook, TypeInv, TypeOK
      <3> QED BY <3>1, <3>2 DEF Studio, Kept
    <2> QED BY <1>1, <2>1 DEF RegistryKept
  <1> QED BY <1>2, <1>3, <1>4

LEMMA DeliveryProcess ==
  ASSUME TypeInv, DeliveryInv, NEW s \in Servers, Process(s)
  PROVE  DeliveryInv'
  <1> USE DEF DeliveryInv
  <1>1. ASSUME alive' = alive \/ alive' = [alive EXCEPT ![s] = TRUE],
               run' = run, acked' = acked
        PROVE  RunsHonest'
    <2>1. ASSUME NEW t \in Servers, NEW k \in Callers
          PROVE  RunHonest(run[t][k], alive'[t], acked)
      <3>1. RunHonest(run[t][k], alive[t], acked)
        BY DEF RunsHonest
      <3>2. alive[t] => alive'[t]
        BY <1>1 DEF TypeInv, TypeOK
      <3> QED BY <3>1, <3>2 DEF RunHonest
    <2> QED BY <1>1, <2>1 DEF RunsHonest
  <1>2. CASE Boot(s)
    <2>1. StoresHonest'
      BY <1>2 DEF Boot, StoresHonest, storeVars
    <2>2. RunsHonest'
      BY <1>1, <1>2 DEF Boot, workerVars
    <2>3. RegistryKept'
      <3>1. \A u \in Kept : \E h \in registry'[s] : h.url = u
        <4> DEFINE boot == {[url |-> u, at |-> s, gen |-> gen[s] + 1] : u \in EnvUrls}
        <4>1. registry'[s] = boot
          BY <1>2 DEF Boot, TypeInv, TypeOK
        <4>2. ASSUME NEW u \in Kept PROVE \E h \in boot : h.url = u
          <5>1. [url |-> u, at |-> s, gen |-> gen[s] + 1] \in boot
            BY DEF Kept
          <5> QED BY <5>1
        <4> QED BY <4>1, <4>2
      <3>2. \A t \in Servers : t # s => registry'[t] = registry[t] /\ alive'[t] = alive[t]
        BY <1>2 DEF Boot, TypeInv, TypeOK
      <3> QED BY <3>1, <3>2 DEF RegistryKept
    <2>4. AliveOK'
      BY <1>2 DEF Boot, AliveOK, TypeInv, TypeOK, ShapeOK, eventVars
    <2> QED BY <2>1, <2>2, <2>3, <2>4
  <1>3. CASE Connect(s) \/ Disconnect(s)
    <2>1. UNCHANGED <<alive, polling, registry, workerVars, eventVars, storeVars, kicks, acked>>
      BY <1>3 DEF Connect, Disconnect
    <2>2. RunsHonest'
      BY <1>1, <2>1 DEF workerVars
    <2>3. StoresHonest' /\ RegistryKept' /\ AliveOK'
      BY <2>1 DEF StoresHonest, RegistryKept, AliveOK, storeVars, eventVars
    <2> QED BY <2>2, <2>3
  <1>4. CASE Drain(s)
    <2>1. RunsHonest'
      BY <1>1, <1>4 DEF Drain, workerVars
    <2>2. StoresHonest' /\ RegistryKept'
      BY <1>4 DEF Drain, StoresHonest, RegistryKept, storeVars
    <2>3. AliveOK'
      BY <1>4 DEF Drain, AliveOK, eventVars, TypeInv, TypeOK
    <2> QED BY <2>1, <2>2, <2>3
  <1>5. CASE Exit(s)
    <2>1. StoresHonest'
      <3>1. mongo' = mongo /\ acked' = acked
        BY <1>5 DEF Exit
      <3>2. \A t \in Servers, e \in Events :
               mem'[t][e] = IF t = s THEN NoDoc ELSE mem[t][e]
        BY <1>5 DEF Exit, TypeInv, TypeOK
      <3> QED BY <3>1, <3>2, EmptyDocHonest DEF StoresHonest
    <2>2. RunsHonest'
      <3>1. ASSUME NEW t \in Servers, NEW k \in Callers
            PROVE  RunHonest(run'[t][k], alive'[t], acked)
        <4>1. CASE t = s
          <5>1. run'[t][k] = IdleRun
            BY <1>5, <4>1 DEF Exit, TypeInv, TypeOK
          <5> QED BY <5>1, IdleRunHonest
        <4>2. CASE t # s
          <5>1. run'[t][k] = run[t][k] /\ alive'[t] = alive[t]
            BY <1>5, <4>2 DEF Exit, TypeInv, TypeOK
          <5> QED BY <5>1 DEF RunsHonest
        <4> QED BY <4>1, <4>2
      <3>2. acked' = acked
        BY <1>5 DEF Exit
      <3> QED BY <3>1, <3>2 DEF RunsHonest
    <2>3. RegistryKept'
      BY <1>5 DEF Exit, RegistryKept, TypeInv, TypeOK
    <2>4. AliveOK'
      BY <1>5 DEF Exit, AliveOK, TypeInv, TypeOK, ShapeOK
    <2> QED BY <2>1, <2>2, <2>3, <2>4
  <1> QED BY <1>2, <1>3, <1>4, <1>5 DEF Process

LEMMA DeliveryStep == TypeInv /\ DeliveryInv /\ [Next]_vars => DeliveryInv'
  <1> SUFFICES ASSUME TypeInv, DeliveryInv, [Next]_vars PROVE DeliveryInv'
    OBVIOUS
  <1>1. CASE UNCHANGED vars
    <2>1. RunsHonest'
      <3>1. run' = run /\ alive' = alive /\ acked' = acked
        BY <1>1 DEF vars
      <3> QED BY <3>1, Zenon DEF DeliveryInv, RunsHonest
    <2>2. StoresHonest' /\ RegistryKept' /\ AliveOK'
      BY <1>1 DEF DeliveryInv, StoresHonest, RegistryKept, AliveOK, vars
    <2> QED BY <2>1, <2>2 DEF DeliveryInv
  <1>2. CASE Next
    <2>1. ASSUME NEW e \in Events, Enqueue(e) \/ Backoff(e) PROVE DeliveryInv'
      BY <2>1, DeliveryEnqueue, DeliveryBackoff
    <2>2. ASSUME NEW s \in Servers, Tick(s) \/ Kick(s) \/ Studio(s) \/ Process(s)
          PROVE  DeliveryInv'
      BY <2>2, DeliveryStartRun, DeliveryStudio, DeliveryProcess
    <2>3. ASSUME NEW s \in Servers, NEW k \in Callers, Work(s, k) PROVE DeliveryInv'
      BY <2>3, DeliveryWork
    <2> QED BY <1>2, <2>1, <2>2, <2>3 DEF Next
  <1> QED BY <1>1, <1>2

LEMMA DeliveryInvariant == Spec => [](TypeInv /\ DeliveryInv)
  BY TypeInit, TypeStep, DeliveryInit, DeliveryStep, PTL DEF Spec

(* deliveredWebhooks names only webhooks that answered 2xx, for any number  *)
(* of servers, through every fault, lost acknowledgement and crash.         *)
THEOREM RecordsAreHonest == Spec => []HonestRecord
  <1>1. TypeInv /\ DeliveryInv => HonestRecord
    BY DeliveryMeans
  <1> QED BY DeliveryInvariant, <1>1, PTL

(* An event marked DELIVERED was acknowledged by every destination of the   *)
(* environment that the Studio leaves alone, under the same conditions.     *)
THEOREM DeliveredToEnvironment == Spec => []EnvDelivered
  <1>1. TypeInv /\ DeliveryInv => EnvDelivered
    BY DeliveryMeans
  <1> QED BY DeliveryInvariant, <1>1, PTL

-----------------------------------------------------------------------------
(* Retries and completion: when an event is given up.                       *)

(* What any number of servers keep: a process works on one batch at a time, *)
(* a batch holds records that exist, a run's copies never count more        *)
(* attempts than the documents, and an event is stored where it should be.  *)

RunFits(r, q, m) ==
    /\ r.pc \in {"idle", "query"} => r.batch = {}
    /\ r.pc \in {"send", "record", "settle"} => r.cur \in r.batch
    /\ \A e \in r.batch : IF r.live THEN m[e].status = "PENDING" ELSE Present(q[e])
    /\ \A e \in Events : r.seen[e].attempts <= q[e].attempts

RunsFit == \A s \in Servers, k \in Callers : RunFits(run[s][k], mongo, mem[s])

OneAtATime ==
    \A s \in Servers :
        /\ \A k \in Callers : run[s][k].pc # "idle" => busy[s]
        /\ \A j, k \in Callers : run[s][j].pc # "idle" /\ run[s][k].pc # "idle" => j = k

Placed ==
    \A e \in Events :
        /\ ~Present(mongo[e]) => mongo[e] = NoDoc
        /\ Present(mongo[e]) => stage[e] # "absent"
        /\ \A s \in Servers :
              /\ ~Present(mem[s][e]) => mem[s][e] = NoDoc
              /\ Present(mem[s][e]) => stage[e] = "stored" /\ home[e] = s

(* No create has taken effect and been reported as an error. *)
Apart == ~AckLoss \/ faults = 0

OneStore ==
    Apart => \A e \in Events, s \in Servers : ~(Present(mongo[e]) /\ Present(mem[s][e]))

GivenUp == Apart => GivenUpLate

RetryInv == RunsFit /\ OneAtATime /\ Placed /\ OneStore /\ GivenUp

(* With one server a batch read from MongoDB stays what the documents are,   *)
(* so the verdict on an event counts every failed round.                    *)
Single == \A s, t \in Servers : s = t

RunCurrent(r, q) ==
    ~r.live => \A e \in r.batch :
        q[e].status = "PENDING" /\ r.seen[e].attempts = q[e].attempts

RunsCurrent == \A s \in Servers, k \in Callers : RunCurrent(run[s][k], mongo)

CopiesBounded == Apart => AttemptsBounded

SoloInv == RunsCurrent /\ CopiesBounded
-----------------------------------------------------------------------------
(* What each step of a worker leaves in place of its run, in full. *)

LEMMA IdleRunFields ==
  /\ IdleRun.pc = "idle" /\ ~IdleRun.live /\ IdleRun.batch = {}
  /\ IdleRun.todo = {} /\ IdleRun.cur = None
  /\ IdleRun.seen = [e \in Events |-> NoDoc]
  BY DEF IdleRun

LEMMA ScanMemoryIs ==
  ASSUME TypeOK, NEW s \in Servers, NEW k \in Callers, ScanMemory(s, k)
  PROVE  \E r \in Run :
            /\ SetRun(s, k, r)
            /\ busy' = [busy EXCEPT ![s] = r.pc # "idle"]
            /\ r.pc \in {"idle", "pick"} /\ (r.pc = "pick" => r.live)
            /\ r.pc = "idle" => r.batch = {}
            /\ r.batch \subseteq ReadyInMemory(s)
            /\ r.seen = [e \in Events |-> NoDoc] /\ r.todo = {}
  <1> DEFINE ready == First(BatchLimit, ReadyInMemory(s), slot[s])
             found == [IdleRun EXCEPT !.pc = "pick", !.live = TRUE, !.batch = ready]
  <1>1. ready \subseteq ReadyInMemory(s) /\ ready \in SUBSET Events
    BY FirstSubset DEF ReadyInMemory
  <1> HIDE DEF ready
  <1>2. found \in Run
    BY <1>1, IdleRunType DEF Run
  <1>3. /\ found.pc = "pick" /\ found.live /\ found.batch = ready
        /\ found.seen = IdleRun.seen /\ found.todo = IdleRun.todo
    BY IdleRunType DEF Run
  <1>4. busy' = [busy EXCEPT ![s] = ready # {}]
    BY DEF ScanMemory, ready
  <1> HIDE DEF found
  <1>5. SetRun(s, k, IF ready = {} THEN IdleRun ELSE found)
    BY DEF ScanMemory, ready, found
  <1>6. CASE ready = {}
    <2>1. SetRun(s, k, IdleRun) /\ (ready # {}) = (IdleRun.pc # "idle")
      BY <1>5, <1>6, IdleRunFields
    <2> QED BY <1>4, <2>1, IdleRunType, IdleRunFields
  <1>7. CASE ready # {}
    <2>1. SetRun(s, k, found) /\ (ready # {}) = (found.pc # "idle")
      BY <1>3, <1>5, <1>7
    <2> QED BY <1>1, <1>2, <1>3, <1>4, <2>1, IdleRunFields
  <1> QED BY <1>6, <1>7

LEMMA StartRunIs ==
  ASSUME TypeOK, NEW s \in Servers, NEW k \in Callers, StartRun(s, k)
  PROVE  /\ ~busy[s]
         /\ \E r \in Run :
            /\ SetRun(s, k, r)
            /\ busy' = [busy EXCEPT ![s] = r.pc # "idle"]
            /\ r.pc \in {"idle", "query", "pick"}
            /\ (r.pc = "pick" => r.live) /\ (r.pc = "query" => connected[s])
            /\ r.pc \in {"idle", "query"} => r.batch = {}
            /\ \A e \in r.batch : e \in Events /\ Ready(mem[s][e])
            /\ r.seen = [e \in Events |-> NoDoc] /\ r.todo = {}
  <1>1. ~busy[s]
    BY DEF StartRun
  <1>2. CASE ScanMemory(s, k)
    <2>1. PICK r \in Run :
            /\ SetRun(s, k, r)
            /\ busy' = [busy EXCEPT ![s] = r.pc # "idle"]
            /\ r.pc \in {"idle", "pick"} /\ (r.pc = "pick" => r.live)
            /\ r.pc = "idle" => r.batch = {}
            /\ r.batch \subseteq ReadyInMemory(s)
            /\ r.seen = [e \in Events |-> NoDoc] /\ r.todo = {}
      BY <1>2, ScanMemoryIs
    <2>2. \A e \in r.batch : e \in Events /\ Ready(mem[s][e])
      BY <2>1 DEF ReadyInMemory
    <2> QED BY <1>1, <2>1, <2>2
  <1>3. CASE /\ connected[s] /\ SetRun(s, k, [IdleRun EXCEPT !.pc = "query"])
             /\ busy' = [busy EXCEPT ![s] = TRUE]
    <2> DEFINE r == [IdleRun EXCEPT !.pc = "query"]
    <2>1. /\ r \in Run /\ r.pc = "query" /\ r.seen = IdleRun.seen
          /\ r.batch = IdleRun.batch /\ r.todo = IdleRun.todo
      BY IdleRunType DEF Run
    <2>2. SetRun(s, k, r)
      BY <1>3
    <2> HIDE DEF r
    <2>3. (r.pc # "idle") = TRUE
      BY <2>1
    <2>4. busy' = [busy EXCEPT ![s] = r.pc # "idle"]
      BY <1>3, <2>3
    <2> QED BY <1>1, <1>3, <2>1, <2>2, <2>4, IdleRunFields
  <1> QED BY <1>2, <1>3 DEF StartRun

LEMMA QueryReturnsIs ==
  ASSUME TypeOK, NEW s \in Servers, NEW k \in Callers, QueryReturns(s, k)
  PROVE  \E r \in Run :
            /\ SetRun(s, k, r)
            /\ busy' = [busy EXCEPT ![s] = r.pc # "idle"] \/ (busy' = busy /\ r.pc # "idle")
            /\ r.pc \in {"idle", "pick"} /\ (r.pc = "idle" => r.batch = {})
            /\ r.live => \A e \in r.batch : e \in Events /\ Ready(mem[s][e])
            /\ ~r.live => \A e \in r.batch :
                  e \in Events /\ Ready(mongo[e]) /\ r.seen[e] = mongo[e]
            /\ \A e \in Events : r.seen[e] \in {NoDoc, mongo[e]}
            /\ r.todo = {}
            /\ faults' = faults \/ Fault
            /\ r.pc = "pick" /\ ~r.live => run[s][k].pc = "query"
  <1> DEFINE docs == First(BatchLimit, ReadyInMongo, [e \in Events |-> e])
             copies == [e \in Events |-> IF e \in docs THEN mongo[e] ELSE NoDoc]
             found == [IdleRun EXCEPT !.pc = "pick", !.batch = docs, !.seen = copies]
  <1>0. run[s][k].pc = "query"
    BY DEF QueryReturns
  <1>1. docs \in SUBSET Events /\ \A e \in docs : Ready(mongo[e])
    BY FirstSubset DEF ReadyInMongo
  <1>2. /\ copies \in [Events -> Doc]
        /\ \A e \in Events : copies[e] \in {NoDoc, mongo[e]}
        /\ \A e \in docs : copies[e] = mongo[e]
    BY <1>1, NoDocType DEF TypeOK
  <1> HIDE DEF docs, copies
  <1>3. /\ found \in Run /\ found.pc = "pick" /\ found.seen = copies
        /\ found.batch = docs /\ found.todo = IdleRun.todo /\ found.live = IdleRun.live
    BY <1>1, <1>2, IdleRunType DEF Run
  <1> HIDE DEF found
  <1>4. \/ SetRun(s, k, found) /\ UNCHANGED <<busy, faults>>
        \/ ScanMemory(s, k) /\ UNCHANGED faults
        \/ ScanMemory(s, k) /\ Fault
    BY DEF QueryReturns, docs, copies, found
  <1>5. CASE SetRun(s, k, found) /\ UNCHANGED <<busy, faults>>
    <2>1. ~found.live /\ found.todo = {}
      BY <1>3, IdleRunFields
    <2> QED BY <1>0, <1>1, <1>2, <1>3, <1>5, <2>1
  <1>6. CASE ScanMemory(s, k) /\ (UNCHANGED faults \/ Fault)
    <2>1. PICK r \in Run :
            /\ SetRun(s, k, r)
            /\ busy' = [busy EXCEPT ![s] = r.pc # "idle"]
            /\ r.pc \in {"idle", "pick"} /\ (r.pc = "pick" => r.live)
            /\ r.pc = "idle" => r.batch = {}
            /\ r.batch \subseteq ReadyInMemory(s)
            /\ r.seen = [e \in Events |-> NoDoc] /\ r.todo = {}
      BY <1>6, ScanMemoryIs
    <2>2. \A e \in r.batch : e \in Events /\ Ready(mem[s][e])
      BY <2>1 DEF ReadyInMemory
    <2>3. \A e \in Events : r.seen[e] \in {NoDoc, mongo[e]}
      BY <2>1
    <2>4. ~r.live => r.batch = {}
      BY <2>1
    <2> QED BY <1>6, <2>1, <2>2, <2>3, <2>4
  <1> QED BY <1>4, <1>5, <1>6

LEMMA EndRunIs ==
  ASSUME NEW s \in Servers, NEW k \in Callers, EndRun(s, k)
  PROVE  SetRun(s, k, IdleRun) /\ busy' = [busy EXCEPT ![s] = IdleRun.pc # "idle"]
  <1>1. (IdleRun.pc # "idle") = FALSE
    BY IdleRunFields
  <1> QED BY <1>1 DEF EndRun

LEMMA NextRecordIs ==
  ASSUME TypeOK, NEW s \in Servers, NEW k \in Callers, NextRecord(s, k),
         run[s][k].cur \in Events
  PROVE  \E r \in Run :
            /\ SetRun(s, k, r)
            /\ busy' = [busy EXCEPT ![s] = r.pc # "idle"] \/ (busy' = busy /\ r.pc # "idle")
            /\ \/ r = IdleRun
               \/ r.pc = "pick" /\ r.live = run[s][k].live /\ r.todo = run[s][k].todo
            /\ r.batch \subseteq run[s][k].batch \ {run[s][k].cur}
            /\ \A e \in Events \ {run[s][k].cur} :
                  e \in r.batch => r.seen[e] = run[s][k].seen[e]
            /\ \A e \in Events : r.seen[e] \in {NoDoc, run[s][k].seen[e]}
  <1> DEFINE old == run[s][k]
             new == [old EXCEPT !.pc = "pick", !.batch = old.batch \ {old.cur},
                                !.seen[old.cur] = NoDoc, !.cur = None]
  <1>1. old \in Run
    BY DEF TypeOK
  <1>a. old.cur \in Events
    OBVIOUS
  <1> HIDE DEF old
  <1>2. old.seen \in [Events -> Doc] /\ old.batch \in SUBSET Events
    BY <1>1 DEF Run
  <1>3. [old.seen EXCEPT ![old.cur] = NoDoc] \in [Events -> Doc]
    BY <1>2, NoDocType
  <1>4. /\ new \in Run /\ new.pc = "pick" /\ new.seen = [old.seen EXCEPT ![old.cur] = NoDoc]
        /\ new.batch = old.batch \ {old.cur} /\ new.live = old.live /\ new.todo = old.todo
    BY <1>1, <1>2, <1>3 DEF Run
  <1>5. \A e \in Events : new.seen[e] = IF e = old.cur THEN NoDoc ELSE old.seen[e]
    BY <1>2, <1>4
  <1> HIDE DEF new
  <1>6. \/ EndRun(s, k)
        \/ SetRun(s, k, new) /\ UNCHANGED busy
    BY DEF NextRecord, old, new
  <1>7. CASE EndRun(s, k)
    <2>1. IdleRun.batch = {} /\ \A e \in Events : IdleRun.seen[e] = NoDoc
      BY IdleRunFields
    <2> QED BY <1>7, <2>1, EndRunIs, IdleRunType
  <1>8. CASE SetRun(s, k, new) /\ UNCHANGED busy
    <2>1. \A e \in Events : new.seen[e] \in {NoDoc, old.seen[e]}
      BY <1>5
    <2>2. \A e \in Events \ {old.cur} : new.seen[e] = old.seen[e]
      BY <1>5
    <2> QED BY <1>4, <1>8, <2>1, <2>2 DEF old
  <1> QED BY <1>6, <1>7, <1>8
-----------------------------------------------------------------------------
(* Documents only move on: an update keeps a document there, and neither     *)
(* its attempts nor its deliveries shrink.                                  *)

Follows(d, f) ==
    /\ f \in Doc
    /\ Present(d) <=> Present(f)
    /\ ~Present(d) => f = d
    /\ d.attempts <= f.attempts
    /\ d.delivered \subseteq f.delivered

LEMMA DueFollows ==
  ASSUME NEW d \in Doc
  PROVE  /\ Present(d) => Follows(d, [d EXCEPT !.due = TRUE])
         /\ [d EXCEPT !.due = TRUE].status = d.status
         /\ [d EXCEPT !.due = TRUE].attempts = d.attempts
         /\ [d EXCEPT !.due = TRUE].delivered = d.delivered
  <1> DEFINE f == [d EXCEPT !.due = TRUE]
  <1>1. /\ f \in Doc /\ f.status = d.status /\ f.attempts = d.attempts
        /\ f.delivered = d.delivered /\ d.attempts \in Nat
    BY DEF Doc
  <1> HIDE DEF f
  <1>2. Present(d) => Follows(d, f)
    BY <1>1 DEF Follows, Present
  <1> QED BY <1>1, <1>2 DEF f

LEMMA DeliveredIs ==
  ASSUME NEW d \in Doc
  PROVE  /\ Follows(d, Delivered(d)) /\ Delivered(d).attempts = d.attempts
         /\ Present(d) => Delivered(d).status = "DELIVERED"
         /\ Delivered(d).delivered = d.delivered
  <1>1. CASE Present(d)
    <2> DEFINE f == [d EXCEPT !.status = "DELIVERED"]
    <2>1. /\ f \in Doc /\ f.status = "DELIVERED" /\ f.attempts = d.attempts
          /\ f.delivered = d.delivered /\ d.attempts \in Nat
      BY DEF Doc
    <2>2. Delivered(d) = f
      BY <1>1, Zenon DEF Delivered
    <2> HIDE DEF f
    <2> QED BY <1>1, <2>1, <2>2 DEF Follows, Present
  <1>2. CASE ~Present(d)
    <2>1. Delivered(d) = d
      BY <1>2, Zenon DEF Delivered
    <2> QED BY <1>2, <2>1 DEF Follows, Doc
  <1> QED BY <1>1, <1>2

LEMMA FailedIs ==
  ASSUME NEW d \in Doc, NEW b \in BOOLEAN
  PROVE  /\ Follows(d, Failed(d, b))
         /\ Present(d) => /\ Failed(d, b).status = Verdict(b)
                          /\ Failed(d, b).attempts = d.attempts + 1
         /\ Failed(d, b).delivered = d.delivered
  <1>1. Verdict(b) \in {"PENDING", "FAILED"}
    BY DEF Verdict
  <1>2. CASE Present(d)
    <2> DEFINE f == [status |-> Verdict(b), attempts |-> d.attempts + 1,
                     due |-> FALSE, delivered |-> d.delivered]
    <2>1. /\ f.status = Verdict(b) /\ f.attempts = d.attempts + 1
          /\ f.delivered = d.delivered
      OBVIOUS
    <2>2. Failed(d, b) = f
      BY <1>2, Zenon DEF Failed
    <2>3. Failed(d, b) \in Doc /\ d.attempts \in Nat
      BY UpdateType DEF Doc
    <2> HIDE DEF f
    <2> QED BY <1>1, <1>2, <2>1, <2>2, <2>3 DEF Follows, Present
  <1>3. CASE ~Present(d)
    <2>1. Failed(d, b) = d
      BY <1>3, Zenon DEF Failed
    <2> QED BY <1>3, <2>1 DEF Follows, Doc
  <1> QED BY <1>2, <1>3

LEMMA RecordedIs ==
  ASSUME NEW d \in Doc, NEW h \in Hook
  PROVE  /\ Follows(d, Recorded(d, h))
         /\ Recorded(d, h).status = d.status /\ Recorded(d, h).attempts = d.attempts
         /\ Present(d) => Recorded(d, h).delivered = d.delivered \cup {h}
  <1>1. CASE Present(d)
    <2> DEFINE f == [d EXCEPT !.delivered = @ \cup {h}]
    <2>1. /\ f \in Doc /\ f.status = d.status /\ f.attempts = d.attempts
          /\ f.delivered = d.delivered \cup {h} /\ d.attempts \in Nat
      BY DEF Doc
    <2>2. Recorded(d, h) = f
      BY <1>1, Zenon DEF Recorded
    <2> HIDE DEF f
    <2> QED BY <1>1, <2>1, <2>2 DEF Follows, Present
  <1>2. CASE ~Present(d)
    <2>1. Recorded(d, h) = d
      BY <1>2, Zenon DEF Recorded
    <2> QED BY <1>2, <2>1 DEF Follows, Doc
  <1> QED BY <1>1, <1>2

(* A store is later than another when each of its documents is. *)
Later(q, q2) ==
    \A e \in Events :
        q[e].attempts <= q2[e].attempts /\ (Present(q[e]) => Present(q2[e]))

LEMMA LaterItself ==
  ASSUME NEW q \in [Events -> Doc]
  PROVE  Later(q, q)
  BY DEF Later, Doc

(* A fault is counted, so what holds until the first one held before. *)
LEMMA CalmBefore ==
  ASSUME TypeOK, faults' = faults \/ Fault
  PROVE  (faults' = 0 => faults = 0) /\ (Apart' => Apart)
  BY DEF TypeOK, Fault, Apart

-----------------------------------------------------------------------------
(* The invariant of any number of servers. *)

LEMMA RunFitsLater ==
  ASSUME NEW r \in Run, NEW q \in [Events -> Doc], NEW q2 \in [Events -> Doc],
         NEW m, NEW m2, RunFits(r, q, m), Later(q, q2),
         r.live => \A e \in r.batch : m[e].status = "PENDING" => m2[e].status = "PENDING"
  PROVE  RunFits(r, q2, m2)
  <1>1. r.batch \in SUBSET Events /\ r.seen \in [Events -> Doc]
    BY DEF Run
  <1>2. ASSUME NEW e \in Events PROVE r.seen[e].attempts <= q2[e].attempts
    <2>1. r.seen[e].attempts \in Nat /\ q[e].attempts \in Nat /\ q2[e].attempts \in Nat
      BY <1>1 DEF Doc
    <2>2. r.seen[e].attempts <= q[e].attempts /\ q[e].attempts <= q2[e].attempts
      BY DEF RunFits, Later
    <2> QED BY <2>1, <2>2
  <1>3. ASSUME NEW e \in r.batch
        PROVE  IF r.live THEN m2[e].status = "PENDING" ELSE Present(q2[e])
    BY <1>1 DEF RunFits, Later
  <1> QED BY <1>2, <1>3 DEF RunFits

LEMMA SetRunIs ==
  ASSUME TypeInv, NEW s \in Servers, NEW k \in Callers, NEW r \in Run, SetRun(s, k, r)
  PROVE  \A t \in Servers, j \in Callers :
            run'[t][j] = IF t = s /\ j = k THEN r ELSE run[t][j]
  <1>1. run \in [Servers -> [Callers -> Run]]
    BY DEF TypeInv, TypeOK
  <1> QED BY <1>1, SetRunEffect

(* Where a worker stands at work, the other caller of its process does not. *)
Aside(s, k) == \A j \in Callers \ {k} : run[s][j].pc = "idle"

LEMMA OthersAside ==
  ASSUME OneAtATime, NEW s \in Servers, NEW k \in Callers,
         ~busy[s] \/ run[s][k].pc # "idle"
  PROVE  Aside(s, k)
  BY DEF OneAtATime, Aside

LEMMA OneStaysOne ==
  ASSUME TypeInv, OneAtATime, NEW s \in Servers, NEW k \in Callers, Aside(s, k),
         NEW r \in Run, SetRun(s, k, r),
         \/ busy' = [busy EXCEPT ![s] = r.pc # "idle"]
         \/ busy' = busy /\ busy[s]
  PROVE  OneAtATime'
  <1>1. \A t \in Servers, j \in Callers :
           run'[t][j] = IF t = s /\ j = k THEN r ELSE run[t][j]
    BY SetRunIs
  <1>2. ASSUME NEW t \in Servers, t # s
        PROVE  busy'[t] = busy[t] /\ \A j \in Callers : run'[t][j] = run[t][j]
    BY <1>1, <1>2 DEF TypeInv, TypeOK
  <1>3. \A j \in Callers : run'[s][j].pc # "idle" => busy'[s]
    BY <1>1 DEF Aside, TypeInv, TypeOK
  <1>4. \A j, i \in Callers : run'[s][j].pc # "idle" /\ run'[s][i].pc # "idle" => j = i
    BY <1>1 DEF Aside
  <1> QED BY <1>2, <1>3, <1>4 DEF OneAtATime

LEMMA RunsStayFit ==
  ASSUME TypeInv, TypeInv', RunsFit, NEW s \in Servers, NEW k \in Callers,
         Aside(s, k), NEW r \in Run, SetRun(s, k, r), RunFits(r, mongo', mem'[s]),
         Later(mongo, mongo'),
         \A t \in Servers \ {s} : mem'[t] = mem[t]
  PROVE  RunsFit'
  <1>1. \A t \in Servers, j \in Callers :
           run'[t][j] = IF t = s /\ j = k THEN r ELSE run[t][j]
    BY SetRunIs
  <1>2. mongo \in [Events -> Doc] /\ mongo' \in [Events -> Doc]
    BY DEF TypeInv, TypeOK
  <1>3. ASSUME NEW t \in Servers, NEW j \in Callers
        PROVE  RunFits(run'[t][j], mongo', mem'[t])
    <2>1. CASE t = s /\ j = k
      BY <1>1, <2>1
    <2>2. CASE ~(t = s /\ j = k)
      <3>1. RunFits(run[t][j], mongo, mem[t]) /\ run[t][j] \in Run
        BY DEF RunsFit, TypeInv, TypeOK
      <3>2. t = s => run[t][j].batch = {}
        BY <2>2, <3>1 DEF Aside, RunFits
      <3>3. \A e \in run[t][j].batch : mem'[t][e] = mem[t][e]
        BY <3>2
      <3>4. RunFits(run[t][j], mongo', mem'[t])
        BY <1>2, <3>1, <3>3, RunFitsLater
      <3> QED BY <1>1, <2>2, <3>4
    <2> QED BY <2>1, <2>2
  <1> QED BY <1>3 DEF RunsFit

(* No run changes, and what the runs read moves on. *)
LEMMA RunsFitOn ==
  ASSUME TypeInv, TypeInv', RunsFit, run' = run, Later(mongo, mongo'),
         \A s \in Servers, e \in Events :
            mem[s][e].status = "PENDING" => mem'[s][e].status = "PENDING"
  PROVE  RunsFit'
  <1>1. mongo \in [Events -> Doc] /\ mongo' \in [Events -> Doc]
    BY DEF TypeInv, TypeOK
  <1>2. ASSUME NEW s \in Servers, NEW k \in Callers
        PROVE  RunFits(run[s][k], mongo', mem'[s])
    <2>1. RunFits(run[s][k], mongo, mem[s]) /\ run[s][k] \in Run
      BY DEF RunsFit, TypeInv, TypeOK
    <2>2. run[s][k].batch \subseteq Events
      BY <2>1 DEF Run
    <2> QED BY <1>1, <2>1, <2>2, RunFitsLater
  <1> QED BY <1>2 DEF RunsFit

(* A step that moves no event and no run. *)
LEMMA RetryUnmoved ==
  ASSUME TypeInv, TypeInv', RetryInv,
         UNCHANGED <<busy, run, stage, home, mongo, mem>>,
         faults' = faults \/ Fault
  PROVE  RetryInv'
  <1>1. RunsFit'
    BY LaterItself, RunsFitOn DEF RetryInv, TypeInv, TypeOK
  <1>2. OneAtATime'
    BY DEF RetryInv, OneAtATime
  <1>3. Placed'
    BY DEF RetryInv, Placed
  <1>4. OneStore' /\ GivenUp'
    BY CalmBefore DEF RetryInv, OneStore, GivenUp, GivenUpLate, TypeInv
  <1> QED BY <1>1, <1>2, <1>3, <1>4 DEF RetryInv

LEMMA NoDocFields ==
  /\ ~Present(NoDoc) /\ NoDoc.attempts = 0 /\ NoDoc.delivered = {} /\ NoDoc.status = "NONE"
  /\ Present(Fresh) /\ Fresh.attempts = 0 /\ Fresh.delivered = {} /\ Fresh.status = "PENDING"
  BY DEF Present, NoDoc, Fresh

LEMMA RetryInit == Init => RetryInv
  <1> SUFFICES ASSUME Init PROVE RetryInv
    OBVIOUS
  <1>1. RunsFit
    <2>1. ASSUME NEW s \in Servers, NEW k \in Callers PROVE RunFits(run[s][k], mongo, mem[s])
      <3>1. run[s][k] = IdleRun /\ mongo = [e \in Events |-> NoDoc]
        BY DEF Init
      <3>2. \A e \in Events : IdleRun.seen[e] = NoDoc /\ mongo[e] = NoDoc
        BY <3>1, IdleRunFields
      <3> QED BY <3>1, <3>2, IdleRunFields, NoDocFields DEF RunFits
    <2> QED BY <2>1 DEF RunsFit
  <1>2. OneAtATime
    BY IdleRunFields DEF Init, OneAtATime
  <1>3. Placed /\ OneStore /\ GivenUp
    BY NoDocFields DEF Init, Placed, OneStore, GivenUp, GivenUpLate
  <1> QED BY <1>1, <1>2, <1>3 DEF RetryInv
-----------------------------------------------------------------------------
(* Enqueueing puts an event where it was not. *)

LEMMA StoreInMemoryIs ==
  ASSUME TypeInv, NEW s \in Servers, NEW e \in Events, StoreInMemory(s, e)
  PROVE  \A t \in Servers, d \in Events :
            mem'[t][d] = IF t = s /\ d = e THEN Fresh ELSE mem[t][d]
  BY DEF StoreInMemory, TypeInv, TypeOK

LEMMA RetryEmit ==
  ASSUME TypeInv, TypeInv', RetryInv, NEW s \in Servers, NEW e \in Events, Emit(s, e)
  PROVE  RetryInv'
  <1> USE DEF RetryInv
  <1>0. /\ UNCHANGED <<busy, run, mongo, faults>>
        /\ stage[e] = "absent" /\ home' = [home EXCEPT ![e] = s]
    BY DEF Emit, workerVars, storeVars
  <1>1. ~Present(mongo[e]) /\ \A t \in Servers : ~Present(mem[t][e])
    BY <1>0 DEF Placed
  <1>2. /\ \A d \in Events : stage'[d] # stage[d] \/ home'[d] # home[d] => d = e
        /\ stage'[e] \in {"creating", "stored"} /\ home'[e] = s
        /\ stage'[e] = "creating" => mem' = mem
        /\ stage'[e] = "stored" => StoreInMemory(s, e)
    BY <1>0 DEF Emit, storeVars, TypeInv, TypeOK
  <1>3. \A t \in Servers, d \in Events :
           mem'[t][d] = mem[t][d] \/ (t = s /\ d = e /\ stage'[e] = "stored" /\ mem'[t][d] = Fresh)
    BY <1>2, StoreInMemoryIs
  <1>4. RunsFit'
    <2>1. Later(mongo, mongo')
      BY <1>0, LaterItself DEF TypeInv, TypeOK
    <2>2. \A t \in Servers, d \in Events :
             mem[t][d].status = "PENDING" => mem'[t][d].status = "PENDING"
      BY <1>3, NoDocFields
    <2> QED BY <1>0, <2>1, <2>2, RunsFitOn
  <1>5. OneAtATime'
    BY <1>0 DEF OneAtATime
  <1>6. Placed'
    <2>1. ASSUME NEW d \in Events
          PROVE  /\ ~Present(mongo'[d]) => mongo'[d] = NoDoc
                 /\ Present(mongo'[d]) => stage'[d] # "absent"
      BY <1>0, <1>2 DEF Placed
    <2>2. ASSUME NEW d \in Events, NEW t \in Servers
          PROVE  /\ ~Present(mem'[t][d]) => mem'[t][d] = NoDoc
                 /\ Present(mem'[t][d]) => stage'[d] = "stored" /\ home'[d] = t
      <3>1. CASE mem'[t][d] = mem[t][d]
        BY <1>1, <1>2, <3>1 DEF Placed
      <3>2. CASE t = s /\ d = e /\ stage'[e] = "stored" /\ mem'[t][d] = Fresh
        BY <1>2, <3>2, NoDocFields
      <3> QED BY <1>3, <3>1, <3>2
    <2> QED BY <2>1, <2>2 DEF Placed
  <1>7. OneStore' /\ GivenUp'
    BY <1>0, <1>1, <1>3 DEF OneStore, GivenUp, GivenUpLate, Apart
  <1> QED BY <1>4, <1>5, <1>6, <1>7

LEMMA RetryLands ==
  ASSUME TypeInv, TypeInv', RetryInv, NEW e \in Events, CreateLands(e)
  PROVE  RetryInv'
  <1> USE DEF RetryInv
  <1>0. /\ UNCHANGED <<busy, run, mem, stage, home, faults>>
        /\ stage[e] \in {"creating", "orphaned"} /\ mongo[e] = NoDoc
    BY DEF CreateLands, workerVars, eventVars, Placed
  <1>1. \A d \in Events : mongo'[d] = IF d = e THEN Fresh ELSE mongo[d]
    BY DEF CreateLands, TypeInv, TypeOK
  <1>2. Later(mongo, mongo')
    <2>1. \A d \in Events : mongo[d].attempts \in Nat
      BY DEF TypeInv, TypeOK, Doc
    <2> QED BY <1>0, <1>1, <2>1, NoDocFields DEF Later
  <1>3. RunsFit' /\ OneAtATime'
    BY <1>0, <1>2, RunsFitOn DEF OneAtATime
  <1>4. Placed'
    BY <1>0, <1>1, NoDocFields DEF Placed
  <1>5. OneStore' /\ GivenUp'
    BY <1>0, <1>1, NoDocFields DEF Placed, OneStore, GivenUp, GivenUpLate, Apart
  <1> QED BY <1>3, <1>4, <1>5

LEMMA RetryResolves ==
  ASSUME TypeInv, TypeInv', RetryInv, NEW e \in Events, CreateResolves(e)
  PROVE  RetryInv'
  <1> USE DEF RetryInv
  <1>0. UNCHANGED <<busy, run, mem, mongo, home, faults>>
    BY DEF CreateResolves, workerVars, storeVars
  <1>1. \A d \in Events : stage'[d] = IF d = e THEN "stored" ELSE stage[d]
    BY DEF CreateResolves, TypeInv, TypeOK
  <1>2. RunsFit' /\ OneAtATime'
    BY <1>0, LaterItself, RunsFitOn DEF OneAtATime, TypeInv, TypeOK
  <1>3. Placed'
    BY <1>0, <1>1 DEF Placed
  <1>4. OneStore' /\ GivenUp'
    BY <1>0 DEF OneStore, GivenUp, GivenUpLate, Apart
  <1> QED BY <1>2, <1>3, <1>4

(* A create that is reported as an error took no effect, or the stores are   *)
(* apart no longer.                                                         *)
LEMMA RetryRejects ==
  ASSUME TypeInv, TypeInv', RetryInv, NEW e \in Events, CreateRejects(e)
  PROVE  RetryInv'
  <1> USE DEF RetryInv
  <1>0. /\ UNCHANGED <<busy, run, mongo, home>> /\ Fault
        /\ stage[e] = "creating" /\ home[e] \in Servers
        /\ Present(mongo[e]) => AckLoss
        /\ StoreInMemory(home[e], e)
    BY DEF CreateRejects, workerVars, TypeInv, ShapeOK
  <1>1. \A d \in Events : stage'[d] = IF d = e THEN "stored" ELSE stage[d]
    BY DEF CreateRejects, TypeInv, TypeOK
  <1>2. \A t \in Servers, d \in Events :
           mem'[t][d] = IF t = home[e] /\ d = e THEN Fresh ELSE mem[t][d]
    BY <1>0, StoreInMemoryIs
  <1>3. RunsFit' /\ OneAtATime'
    <2>1. \A t \in Servers, d \in Events :
             mem[t][d].status = "PENDING" => mem'[t][d].status = "PENDING"
      BY <1>2, NoDocFields
    <2> QED BY <1>0, <2>1, LaterItself, RunsFitOn DEF OneAtATime, TypeInv, TypeOK
  <1>4. Placed'
    <2>1. ASSUME NEW d \in Events, NEW t \in Servers
          PROVE  /\ ~Present(mem'[t][d]) => mem'[t][d] = NoDoc
                 /\ Present(mem'[t][d]) => stage'[d] = "stored" /\ home'[d] = t
      BY <1>0, <1>1, <1>2, NoDocFields DEF Placed
    <2> QED BY <1>0, <1>1, <2>1 DEF Placed
  <1>5. Apart' => ~AckLoss /\ Apart
    BY <1>0 DEF Apart, Fault, TypeInv, TypeOK
  <1>6. OneStore' /\ GivenUp'
    BY <1>0, <1>2, <1>5 DEF OneStore, GivenUp, GivenUpLate
  <1> QED BY <1>3, <1>4, <1>6

LEMMA RetryEnqueue ==
  ASSUME TypeInv, TypeInv', RetryInv, NEW e \in Events, Enqueue(e)
  PROVE  RetryInv'
  BY RetryEmit, RetryLands, RetryResolves, RetryRejects DEF Enqueue

-----------------------------------------------------------------------------
(* Updates of the documents, by the clock or by a run. *)

(* Documents that only move on stay where they are. *)
LEMMA UpdatesStayPlaced ==
  ASSUME TypeInv, RetryInv, UNCHANGED <<stage, home>>, faults' = faults \/ Fault,
         \A e \in Events : Follows(mongo[e], mongo'[e]),
         \A s \in Servers, e \in Events : Follows(mem[s][e], mem'[s][e])
  PROVE  Placed' /\ OneStore' /\ Later(mongo, mongo')
  <1>1. Placed'
    BY DEF RetryInv, Placed, Follows
  <1>2. Later(mongo, mongo')
    BY DEF Later, Follows
  <1>3. OneStore'
    BY CalmBefore DEF RetryInv, OneStore, Follows, TypeInv
  <1> QED BY <1>1, <1>2, <1>3

LEMMA FollowsItself == ASSUME NEW d \in Doc PROVE Follows(d, d)
  BY DEF Follows, Doc

LEMMA BackoffIs ==
  ASSUME TypeInv, NEW e \in Events, Backoff(e)
  PROVE  /\ UNCHANGED <<busy, run, stage, home, faults>>
         /\ \A x \in Events : Follows(mongo[x], mongo'[x])
                              /\ mongo'[x].status = mongo[x].status
                              /\ mongo'[x].attempts = mongo[x].attempts
         /\ \A s \in Servers, x \in Events :
               /\ Follows(mem[s][x], mem'[s][x])
               /\ mem'[s][x].status = mem[s][x].status
               /\ mem'[s][x].attempts = mem[s][x].attempts
  <1>0. UNCHANGED <<busy, run, stage, home, faults>>
    BY DEF Backoff, BackoffElapsesInMongo, BackoffElapsesInMemory, workerVars, eventVars
  <1>1. \A x \in Events : /\ mongo'[x] \in {mongo[x], [mongo[x] EXCEPT !.due = TRUE]}
                          /\ mongo'[x] # mongo[x] => Present(mongo[x])
    <2>1. CASE BackoffElapsesInMongo(e)
      BY <2>1 DEF BackoffElapsesInMongo, Present, TypeInv, TypeOK
    <2>2. CASE mongo' = mongo
      BY <2>2
    <2> QED BY <2>1, <2>2 DEF Backoff, BackoffElapsesInMemory
  <1>2. \A s \in Servers, x \in Events :
           /\ mem'[s][x] \in {mem[s][x], [mem[s][x] EXCEPT !.due = TRUE]}
           /\ mem'[s][x] # mem[s][x] => Present(mem[s][x])
    <2>1. ASSUME NEW t \in Servers, BackoffElapsesInMemory(t, e)
          PROVE  \A s \in Servers, x \in Events :
                    /\ mem'[s][x] \in {mem[s][x], [mem[s][x] EXCEPT !.due = TRUE]}
                    /\ mem'[s][x] # mem[s][x] => Present(mem[s][x])
      BY <2>1 DEF BackoffElapsesInMemory, Present, TypeInv, TypeOK
    <2>2. CASE mem' = mem
      BY <2>2
    <2> QED BY <2>1, <2>2 DEF Backoff, BackoffElapsesInMongo
  <1>3. ASSUME NEW x \in Events
        PROVE  /\ Follows(mongo[x], mongo'[x])
               /\ mongo'[x].status = mongo[x].status
               /\ mongo'[x].attempts = mongo[x].attempts
    <2>1. mongo[x] \in Doc
      BY DEF TypeInv, TypeOK
    <2> QED BY <1>1, <2>1, DueFollows, FollowsItself
  <1>4. ASSUME NEW s \in Servers, NEW x \in Events
        PROVE  /\ Follows(mem[s][x], mem'[s][x])
               /\ mem'[s][x].status = mem[s][x].status
               /\ mem'[s][x].attempts = mem[s][x].attempts
    <2>1. mem[s][x] \in Doc
      BY DEF TypeInv, TypeOK
    <2> QED BY <1>2, <2>1, DueFollows, FollowsItself
  <1> QED BY <1>0, <1>3, <1>4

LEMMA RetryBackoff ==
  ASSUME TypeInv, TypeInv', RetryInv, NEW e \in Events, Backoff(e)
  PROVE  RetryInv'
  <1>1. Placed' /\ OneStore' /\ Later(mongo, mongo')
    BY BackoffIs, UpdatesStayPlaced
  <1>2. RunsFit' /\ OneAtATime'
    BY <1>1, BackoffIs, RunsFitOn DEF RetryInv, OneAtATime
  <1>3. GivenUp'
    BY BackoffIs DEF RetryInv, GivenUp, GivenUpLate, Apart
  <1> QED BY <1>1, <1>2, <1>3 DEF RetryInv
-----------------------------------------------------------------------------
(* The worker's steps. *)

LEMMA WriteBothIs ==
  ASSUME TypeInv, NEW s \in Servers, NEW e \in Events, NEW a, NEW b, WriteBoth(s, e, a, b)
  PROVE  /\ \/ /\ connected[s] /\ faults' = faults
               /\ \A d \in Events : mongo'[d] = IF d = e THEN a ELSE mongo[d]
            \/ connected[s] /\ Fault /\ mongo' = mongo
            \/ ~connected[s] /\ faults' = faults /\ mongo' = mongo
         /\ \A t \in Servers, d \in Events :
               mem'[t][d] = IF t = s /\ d = e THEN b ELSE mem[t][d]
         /\ \A t \in Servers \ {s} : mem'[t] = mem[t]
  BY DEF WriteBoth, TypeInv, TypeOK

(* An update of one record moves both stores on. *)
LEMMA WriteBothOn ==
  ASSUME TypeInv, RetryInv, NEW s \in Servers, NEW e \in Events,
         NEW a, NEW b, WriteBoth(s, e, a, b),
         Follows(mongo[e], a), Follows(mem[s][e], b), UNCHANGED <<stage, home>>
  PROVE  /\ faults' = faults \/ Fault
         /\ Placed' /\ OneStore' /\ Later(mongo, mongo')
  <1>1. faults' = faults \/ Fault
    BY WriteBothIs
  <1>2. ASSUME NEW d \in Events PROVE Follows(mongo[d], mongo'[d])
    <2>1. mongo[d] \in Doc
      BY DEF TypeInv, TypeOK
    <2> QED BY <2>1, WriteBothIs, FollowsItself
  <1>3. ASSUME NEW t \in Servers, NEW d \in Events PROVE Follows(mem[t][d], mem'[t][d])
    <2>1. mem[t][d] \in Doc
      BY DEF TypeInv, TypeOK
    <2> QED BY <2>1, WriteBothIs, FollowsItself
  <1> QED BY <1>1, <1>2, <1>3, UpdatesStayPlaced

(* A run that goes on with the same batch fits as before. *)
LEMMA RunFitsAgain ==
  ASSUME NEW r, NEW r2, NEW q, NEW m, RunFits(r, q, m),
         r2.batch = r.batch, r2.live = r.live, r2.seen = r.seen,
         r2.pc \in {"send", "record", "settle"}, r2.cur \in r.batch
  PROVE  RunFits(r2, q, m)
  BY DEF RunFits

LEMMA RetryStartRun ==
  ASSUME TypeInv, TypeInv', RetryInv, NEW s \in Servers, Tick(s) \/ Kick(s)
  PROVE  RetryInv'
  <1>0. UNCHANGED <<stage, home, mongo, mem, faults>>
    BY DEF Tick, Kick, eventVars, storeVars
  <1>1. ASSUME NEW k \in Callers, StartRun(s, k) PROVE RetryInv'
    <2>1. PICK r \in Run :
            /\ SetRun(s, k, r)
            /\ busy' = [busy EXCEPT ![s] = r.pc # "idle"]
            /\ r.pc \in {"idle", "query", "pick"}
            /\ (r.pc = "pick" => r.live) /\ (r.pc = "query" => connected[s])
            /\ r.pc \in {"idle", "query"} => r.batch = {}
            /\ \A e \in r.batch : e \in Events /\ Ready(mem[s][e])
            /\ r.seen = [e \in Events |-> NoDoc] /\ r.todo = {}
      BY <1>1, StartRunIs DEF TypeInv
    <2>2. Aside(s, k)
      BY <1>1, OthersAside DEF StartRun, RetryInv
    <2>3. RunFits(r, mongo, mem[s])
      <3>1. \A e \in Events : r.seen[e].attempts <= mongo[e].attempts
        <4>1. \A e \in Events : mongo[e].attempts \in Nat
          BY DEF TypeInv, TypeOK, Doc
        <4> QED BY <2>1, <4>1, NoDocFields
      <3>2. \A e \in r.batch : r.live /\ mem[s][e].status = "PENDING"
        BY <2>1 DEF Ready
      <3> QED BY <2>1, <3>1, <3>2 DEF RunFits
    <2>4. RunsFit'
      BY <1>0, <2>1, <2>2, <2>3, LaterItself, RunsStayFit DEF RetryInv, TypeInv, TypeOK
    <2>5. OneAtATime'
      BY <2>1, <2>2, OneStaysOne DEF RetryInv
    <2>6. Placed' /\ OneStore' /\ GivenUp'
      BY <1>0 DEF RetryInv, Placed, OneStore, GivenUp, GivenUpLate, Apart
    <2> QED BY <2>4, <2>5, <2>6 DEF RetryInv
  <1>2. CASE UNCHANGED workerVars
    BY <1>0, <1>2, RetryUnmoved DEF workerVars
  <1> QED BY <1>1, <1>2 DEF Tick, Kick, Callers

(* A worker's step is through once its new run fits and the stores moved on. *)
LEMMA RetryRun ==
  ASSUME TypeInv, TypeInv', RetryInv, NEW s \in Servers, NEW k \in Callers,
         run[s][k].pc # "idle", NEW r \in Run, SetRun(s, k, r),
         \/ busy' = [busy EXCEPT ![s] = r.pc # "idle"]
         \/ busy' = busy,
         RunFits(r, mongo', mem'[s]),
         \A t \in Servers \ {s} : mem'[t] = mem[t],
         Placed', OneStore', GivenUp', Later(mongo, mongo')
  PROVE  RetryInv'
  <1>1. Aside(s, k) /\ busy[s]
    BY OthersAside DEF RetryInv, OneAtATime
  <1>2. RunsFit'
    BY <1>1, RunsStayFit DEF RetryInv
  <1>3. OneAtATime'
    BY <1>1, OneStaysOne DEF RetryInv
  <1> QED BY <1>2, <1>3 DEF RetryInv

LEMMA RetryQuery ==
  ASSUME TypeInv, TypeInv', RetryInv, NEW s \in Servers, NEW k \in Callers,
         QueryReturns(s, k)
  PROVE  RetryInv'
  <1>0. UNCHANGED <<stage, home, mongo, mem>> /\ run[s][k].pc = "query"
    BY DEF QueryReturns, eventVars, storeVars
  <1>1. PICK r \in Run :
            /\ SetRun(s, k, r)
            /\ busy' = [busy EXCEPT ![s] = r.pc # "idle"] \/ (busy' = busy /\ r.pc # "idle")
            /\ r.pc \in {"idle", "pick"} /\ (r.pc = "idle" => r.batch = {})
            /\ r.live => \A e \in r.batch : e \in Events /\ Ready(mem[s][e])
            /\ ~r.live => \A e \in r.batch :
                  e \in Events /\ Ready(mongo[e]) /\ r.seen[e] = mongo[e]
            /\ \A e \in Events : r.seen[e] \in {NoDoc, mongo[e]}
            /\ r.todo = {}
            /\ faults' = faults \/ Fault
            /\ r.pc = "pick" /\ ~r.live => run[s][k].pc = "query"
    BY QueryReturnsIs DEF TypeInv
  <1>2. RunFits(r, mongo, mem[s])
    <2>1. \A e \in Events : r.seen[e].attempts <= mongo[e].attempts
      <3>1. \A e \in Events : mongo[e].attempts \in Nat
        BY DEF TypeInv, TypeOK, Doc
      <3> QED BY <1>1, <3>1, NoDocFields
    <2>2. \A e \in r.batch : IF r.live THEN mem[s][e].status = "PENDING" ELSE Present(mongo[e])
      BY <1>1 DEF Ready, Present
    <2> QED BY <1>1, <2>1, <2>2 DEF RunFits
  <1>3. Placed' /\ OneStore' /\ GivenUp' /\ Later(mongo, mongo')
    BY <1>0, <1>1, CalmBefore, LaterItself
       DEF RetryInv, Placed, OneStore, GivenUp, GivenUpLate, TypeInv, TypeOK
  <1> QED BY <1>0, <1>1, <1>2, <1>3, RetryRun

(* Turning to the next webhook of the same record. *)
LEMMA RetryNextHook ==
  ASSUME TypeInv, TypeInv', RetryInv, NEW s \in Servers, NEW k \in Callers,
         run[s][k].pc # "idle", busy' = busy,
         NEW rec \in Run, NEW rest \in SUBSET Hook, NextHook(s, k, rec, rest),
         rec.batch = run[s][k].batch, rec.live = run[s][k].live, rec.seen = run[s][k].seen,
         rec.cur \in rec.batch,
         \A t \in Servers \ {s} : mem'[t] = mem[t],
         \A e \in Events : mem'[s][e].status = mem[s][e].status,
         Placed', OneStore', GivenUp', Later(mongo, mongo')
  PROVE  RetryInv'
  <1>1. rec.cur \in Events
    BY DEF Run
  <1>2. PICK r \in Run :
            /\ SetRun(s, k, r)
            /\ r.cur = rec.cur /\ r.seen = rec.seen
            /\ r.batch = rec.batch /\ r.live = rec.live
            /\ r.pc \in {"settle", "send"}
    BY <1>1, NextHookType DEF TypeInv
  <1>3. RunFits(run[s][k], mongo, mem[s])
    BY DEF RetryInv, RunsFit
  <1>4. RunFits(r, mongo, mem[s])
    BY <1>2, <1>3, RunFitsAgain
  <1>5. RunFits(r, mongo', mem'[s])
    <2>1. mongo \in [Events -> Doc] /\ mongo' \in [Events -> Doc] /\ r.batch \subseteq Events
      BY DEF TypeInv, TypeOK, Run
    <2> QED BY <1>4, <2>1, RunFitsLater
  <1> QED BY <1>2, <1>5, RetryRun

(* Nothing is written while a webhook is called. *)
LEMMA StoresRest ==
  ASSUME TypeInv, RetryInv, UNCHANGED <<stage, home, mongo, mem, faults>>
  PROVE  /\ Placed' /\ OneStore' /\ GivenUp' /\ Later(mongo, mongo')
         /\ \A s \in Servers : mem'[s] = mem[s]
  BY LaterItself DEF RetryInv, Placed, OneStore, GivenUp, GivenUpLate, Apart, TypeInv, TypeOK

LEMMA RetryDispatch ==
  ASSUME TypeInv, TypeInv', RetryInv, NEW s \in Servers, NEW k \in Callers,
         Pick(s, k) \/ Dispatch(s, k)
  PROVE  RetryInv'
  <1> DEFINE me == run[s][k]
  <1>0. /\ UNCHANGED <<stage, home, mongo, mem, faults>>
        /\ me \in Run /\ RunFits(me, mongo, mem[s])
    BY DEF Pick, Dispatch, DispatchSucceeds, DispatchFails, DispatchThrows, eventVars,
           storeVars, RetryInv, RunsFit, TypeInv, TypeOK
  <1>1. /\ Placed' /\ OneStore' /\ GivenUp' /\ Later(mongo, mongo')
        /\ \A t \in Servers : mem'[t] = mem[t]
    BY <1>0, StoresRest
  <1>2. CASE Pick(s, k)
    <2>1. PICK e \in me.batch :
             NextHook(s, k, [me EXCEPT !.cur = e, !.failed = FALSE],
                      HooksFor(s, e) \ Record(s, k, e).delivered)
      BY <1>2 DEF Pick
    <2> DEFINE rec == [me EXCEPT !.cur = e, !.failed = FALSE]
               rest == HooksFor(s, e) \ Record(s, k, e).delivered
    <2>2. e \in Events
      BY <1>0 DEF Run
    <2>3. /\ rec \in Run /\ rec.cur = e /\ rec.batch = me.batch
          /\ rec.live = me.live /\ rec.seen = me.seen
      BY <1>0, <2>2 DEF Run
    <2>4. rest \in SUBSET Hook
      BY <2>2, HooksType DEF TypeInv
    <2>5. NextHook(s, k, rec, rest)
      BY <2>1
    <2>6. me.pc # "idle" /\ busy' = busy
      BY <1>2 DEF Pick
    <2> HIDE DEF rec, rest
    <2> QED BY <1>1, <2>3, <2>4, <2>5, <2>6, RetryNextHook
  <1>3. CASE DispatchSucceeds(s, k)
    <2> DEFINE r == [me EXCEPT !.pc = "record"]
    <2>1. /\ r \in Run /\ r.cur = me.cur /\ r.batch = me.batch
          /\ r.live = me.live /\ r.seen = me.seen /\ r.pc = "record"
      BY <1>0 DEF Run
    <2>2. SetRun(s, k, r) /\ me.pc = "send" /\ busy' = busy
      BY <1>3 DEF DispatchSucceeds
    <2> HIDE DEF r
    <2>3. me.cur \in me.batch
      BY <1>0, <2>2 DEF RunFits
    <2>4. RunFits(r, mongo, mem[s])
      BY <1>0, <2>1, <2>3, RunFitsAgain
    <2> QED BY <1>0, <1>1, <2>1, <2>2, <2>4, RetryRun
  <1>4. CASE DispatchFails(s, k)
    <2> DEFINE rec == [me EXCEPT !.failed = TRUE]
    <2>1. /\ rec \in Run /\ rec.cur = me.cur /\ rec.batch = me.batch
          /\ rec.live = me.live /\ rec.seen = me.seen
      BY <1>0 DEF Run
    <2>2. NextHook(s, k, rec, me.todo) /\ me.pc = "send" /\ busy' = busy
      BY <1>4 DEF DispatchFails
    <2> HIDE DEF rec
    <2>3. me.cur \in me.batch /\ me.todo \in SUBSET Hook
      BY <1>0, <2>2 DEF RunFits, Run
    <2> QED BY <1>1, <2>1, <2>2, <2>3, RetryNextHook
  <1>5. CASE DispatchThrows(s, k)
    <2>1. SetRun(s, k, IdleRun) /\ busy' = [busy EXCEPT ![s] = IdleRun.pc # "idle"]
      BY <1>5, EndRunIs DEF DispatchThrows
    <2>2. me.pc # "idle"
      BY <1>5 DEF DispatchThrows
    <2>3. RunFits(IdleRun, mongo, mem[s])
      <3>1. \A e \in Events : mongo[e].attempts \in Nat /\ IdleRun.seen[e] = NoDoc
        BY IdleRunFields DEF TypeInv, TypeOK, Doc
      <3> QED BY <3>1, IdleRunFields, NoDocFields DEF RunFits
    <2> QED BY <1>0, <1>1, <2>1, <2>2, <2>3, IdleRunType, RetryRun
  <1> QED BY <1>2, <1>3, <1>4, <1>5 DEF Dispatch
LEMMA RetryRecord ==
  ASSUME TypeInv, TypeInv', RetryInv, NEW s \in Servers, NEW k \in Callers,
         RecordWebhookDelivery(s, k)
  PROVE  RetryInv'
  <1> DEFINE me == run[s][k]
             cur == run[s][k].cur
             a == Recorded(mongo[cur], me.hook)
             b == Recorded(mem[s][cur], me.hook)
  <1>0. /\ UNCHANGED <<stage, home, busy>> /\ me.pc = "record" /\ me \in Run
        /\ RunShape(me) /\ RunFits(me, mongo, mem[s])
        /\ WriteBoth(s, cur, a, b) /\ NextHook(s, k, me, me.todo)
    BY DEF RecordWebhookDelivery, eventVars, RetryInv, RunsFit, TypeInv, TypeOK, ShapeOK
  <1>1. /\ cur \in Events /\ cur \in me.batch /\ me.hook \in Hook
        /\ me.todo \in SUBSET Hook
    BY <1>0 DEF RunShape, RunFits, Run
  <1>2. mongo[cur] \in Doc /\ mem[s][cur] \in Doc
    BY <1>1 DEF TypeInv, TypeOK
  <1>3. /\ Follows(mongo[cur], a) /\ a.status = mongo[cur].status
        /\ a.attempts = mongo[cur].attempts
        /\ Follows(mem[s][cur], b) /\ b.status = mem[s][cur].status
    BY <1>1, <1>2, RecordedIs
  <1> HIDE DEF a, b
  <1>4. Placed' /\ OneStore' /\ Later(mongo, mongo') /\ (faults' = faults \/ Fault)
    BY <1>0, <1>1, <1>3, WriteBothOn
  <1>5. /\ \A d \in Events : mongo'[d].status = mongo[d].status /\ mongo'[d].attempts = mongo[d].attempts
        /\ \A d \in Events : mem'[s][d].status = mem[s][d].status
        /\ \A t \in Servers \ {s} : mem'[t] = mem[t]
    BY <1>0, <1>1, <1>3, WriteBothIs
  <1>6. GivenUp'
    BY <1>4, <1>5, CalmBefore DEF RetryInv, GivenUp, GivenUpLate, TypeInv
  <1> QED BY <1>0, <1>1, <1>4, <1>5, <1>6, RetryNextHook

(* Settling a record: the rest of the batch is as it was. *)
LEMMA RetrySettle ==
  ASSUME TypeInv, TypeInv', RetryInv, NEW s \in Servers, NEW k \in Callers,
         run[s][k].pc = "settle", NextRecord(s, k), UNCHANGED <<stage, home>>,
         NEW a, NEW b, WriteBoth(s, run[s][k].cur, a, b),
         Follows(mongo[run[s][k].cur], a), Follows(mem[s][run[s][k].cur], b), GivenUp'
  PROVE  RetryInv'
  <1> DEFINE me == run[s][k]
             cur == run[s][k].cur
  <1>0. me \in Run /\ RunShape(me) /\ RunFits(me, mongo, mem[s])
    BY DEF RetryInv, RunsFit, TypeInv, TypeOK, ShapeOK
  <1>1. cur \in Events /\ me.batch \subseteq Events
    BY <1>0 DEF RunShape, Run
  <1>2. Placed' /\ OneStore' /\ Later(mongo, mongo')
    BY <1>1, WriteBothOn
  <1>3. PICK r \in Run :
            /\ SetRun(s, k, r)
            /\ busy' = [busy EXCEPT ![s] = r.pc # "idle"] \/ (busy' = busy /\ r.pc # "idle")
            /\ \/ r = IdleRun
               \/ r.pc = "pick" /\ r.live = me.live /\ r.todo = me.todo
            /\ r.batch \subseteq me.batch \ {cur}
            /\ \A e \in Events \ {cur} : e \in r.batch => r.seen[e] = me.seen[e]
            /\ \A e \in Events : r.seen[e] \in {NoDoc, me.seen[e]}
    BY <1>1, NextRecordIs DEF TypeInv
  <1>4. /\ \A d \in Events \ {cur} : mem'[s][d] = mem[s][d]
        /\ \A t \in Servers \ {s} : mem'[t] = mem[t]
    BY <1>1, WriteBothIs
  <1>5. RunFits(r, mongo, mem'[s])
    <2>1. \A e \in Events : r.seen[e].attempts <= mongo[e].attempts
      <3>1. \A e \in Events : mongo[e].attempts \in Nat
        BY DEF TypeInv, TypeOK, Doc
      <3>2. \A e \in Events : me.seen[e].attempts <= mongo[e].attempts
        BY <1>0 DEF RunFits
      <3> QED BY <1>3, <3>1, <3>2, NoDocFields
    <2>2. r.pc \in {"idle", "pick"} /\ (r.pc = "idle" => r.batch = {})
      BY <1>3, IdleRunFields
    <2>3. ASSUME NEW e \in r.batch
          PROVE  IF r.live THEN mem'[s][e].status = "PENDING" ELSE Present(mongo[e])
      <3>1. r.live = me.live /\ e \in me.batch /\ e \in Events \ {cur}
        BY <1>1, <1>3, IdleRunFields
      <3> QED BY <1>0, <1>4, <3>1 DEF RunFits
    <2> QED BY <2>1, <2>2, <2>3 DEF RunFits
  <1>6. RunFits(r, mongo', mem'[s])
    <2>1. mongo \in [Events -> Doc] /\ mongo' \in [Events -> Doc]
      BY DEF TypeInv, TypeOK
    <2> QED BY <1>2, <1>5, <2>1, RunFitsLater
  <1> QED BY <1>2, <1>3, <1>4, <1>6, RetryRun

LEMMA RetryMarkDelivered ==
  ASSUME TypeInv, TypeInv', RetryInv, NEW s \in Servers, NEW k \in Callers,
         MarkDelivered(s, k)
  PROVE  RetryInv'
  <1> DEFINE cur == run[s][k].cur
             a == Delivered(mongo[cur])
             b == Delivered(mem[s][cur])
  <1>0. /\ UNCHANGED <<stage, home>> /\ run[s][k].pc = "settle"
        /\ RunShape(run[s][k]) /\ WriteBoth(s, cur, a, b) /\ NextRecord(s, k)
    BY DEF MarkDelivered, eventVars, TypeInv, ShapeOK
  <1>1. cur \in Events
    BY <1>0 DEF RunShape
  <1>2. mongo[cur] \in Doc /\ mem[s][cur] \in Doc
    BY <1>1 DEF TypeInv, TypeOK
  <1>3. /\ Follows(mongo[cur], a) /\ Follows(mem[s][cur], b)
        /\ Present(mongo[cur]) => a.status = "DELIVERED"
    BY <1>2, DeliveredIs
  <1> HIDE DEF a, b
  <1>4. faults' = faults \/ Fault
    BY <1>0, <1>1, WriteBothIs
  <1>5. \A d \in Events : mongo'[d] # mongo[d] => mongo'[d].status # "FAILED"
    <2>1. mongo[cur] # a => a.status # "FAILED"
      BY <1>3 DEF Follows
    <2> QED BY <1>0, <1>1, <2>1, WriteBothIs
  <1>6. GivenUp'
    BY <1>4, <1>5, CalmBefore DEF RetryInv, GivenUp, GivenUpLate, TypeInv
  <1> QED BY <1>0, <1>3, <1>6, RetrySettle

(* The verdict of a run counts no more rounds than the document has.        *)
LEMMA VerdictIsLate ==
  ASSUME TypeInv, RetryInv, NEW s \in Servers, NEW k \in Callers,
         run[s][k].pc = "settle", Apart,
         Present(mongo[run[s][k].cur]), MaxExceeded(s, k)
  PROVE  mongo[run[s][k].cur].attempts + 1 >= MaxAttempts
  <1> DEFINE me == run[s][k]
             cur == run[s][k].cur
  <1>0. me \in Run /\ RunShape(me) /\ RunFits(me, mongo, mem[s])
    BY DEF RetryInv, RunsFit, TypeInv, TypeOK, ShapeOK
  <1>1. cur \in Events /\ cur \in me.batch
    BY <1>0 DEF RunShape, RunFits
  <1>2. ~me.live
    BY <1>0, <1>1 DEF RunFits, RetryInv, OneStore, Present
  <1>3. me.seen[cur].attempts + 1 >= MaxAttempts
    BY <1>2 DEF MaxExceeded, Record
  <1>4. me.seen[cur].attempts <= mongo[cur].attempts
    BY <1>0, <1>1 DEF RunFits
  <1>5. mongo[cur].attempts \in Nat /\ me.seen[cur].attempts \in Nat
    BY <1>0, <1>1 DEF TypeInv, TypeOK, Run, Doc
  <1> QED BY <1>3, <1>4, <1>5, SizesAssumption

LEMMA RetryMarkFailed ==
  ASSUME TypeInv, TypeInv', RetryInv, NEW s \in Servers, NEW k \in Callers,
         MarkFailed(s, k)
  PROVE  RetryInv'
  <1> DEFINE cur == run[s][k].cur
             x == MaxExceeded(s, k)
             a == Failed(mongo[cur], x)
             b == Failed(mem[s][cur], x)
  <1>0. /\ UNCHANGED <<stage, home>> /\ run[s][k].pc = "settle"
        /\ RunShape(run[s][k]) /\ WriteBoth(s, cur, a, b) /\ NextRecord(s, k)
    BY DEF MarkFailed, eventVars, TypeInv, ShapeOK
  <1>1. cur \in Events /\ x \in BOOLEAN
    BY <1>0 DEF RunShape, MaxExceeded
  <1>2. mongo[cur] \in Doc /\ mem[s][cur] \in Doc
    BY <1>1 DEF TypeInv, TypeOK
  <1>x. Apart /\ Present(mongo[cur]) /\ x => mongo[cur].attempts + 1 >= MaxAttempts
    BY <1>0, VerdictIsLate
  <1> HIDE DEF x
  <1>3. /\ Follows(mongo[cur], a) /\ Follows(mem[s][cur], b)
        /\ Present(mongo[cur]) =>
              a.status = Verdict(x) /\ a.attempts = mongo[cur].attempts + 1
    BY <1>1, <1>2, FailedIs
  <1> HIDE DEF a, b
  <1>4. faults' = faults \/ Fault
    BY <1>0, <1>1, WriteBothIs
  <1>5. Apart => \A d \in Events : mongo'[d] # mongo[d] =>
           (mongo'[d].status = "FAILED" => mongo'[d].attempts >= MaxAttempts)
    <2>1. Apart /\ mongo[cur] # a /\ a.status = "FAILED" => a.attempts >= MaxAttempts
      BY <1>3, <1>x DEF Follows, Verdict
    <2> QED BY <1>0, <1>1, <2>1, WriteBothIs
  <1>6. GivenUp'
    BY <1>4, <1>5, CalmBefore DEF RetryInv, GivenUp, GivenUpLate, TypeInv
  <1> QED BY <1>0, <1>3, <1>6, RetrySettle

LEMMA RetryWork ==
  ASSUME TypeInv, TypeInv', RetryInv, NEW s \in Servers, NEW k \in Callers, Work(s, k)
  PROVE  RetryInv'
  BY RetryQuery, RetryDispatch, RetryRecord, RetryMarkDelivered, RetryMarkFailed DEF Work

-----------------------------------------------------------------------------
(* The Studio and the process. *)

LEMMA RetryStudio ==
  ASSUME TypeInv, TypeInv', RetryInv, NEW s \in Servers, Studio(s)
  PROVE  RetryInv'
  <1>1. UNCHANGED <<busy, run, stage, home, mongo, mem, faults>>
    BY DEF Studio, RegisterWebhook, UnregisterWebhook, workerVars, eventVars, storeVars
  <1> QED BY <1>1, RetryUnmoved

LEMMA RetryExit ==
  ASSUME TypeInv, TypeInv', RetryInv, NEW s \in Servers, Exit(s)
  PROVE  RetryInv'
  <1> USE DEF RetryInv
  <1>0. /\ UNCHANGED <<mongo, home, faults>>
        /\ \A t \in Servers, k \in Callers :
              run'[t][k] = IF t = s THEN IdleRun ELSE run[t][k]
        /\ \A t \in Servers : busy'[t] = IF t = s THEN FALSE ELSE busy[t]
        /\ \A t \in Servers \ {s} : mem'[t] = mem[t]
        /\ \A e \in Events : mem'[s][e] = NoDoc
        /\ \A e \in Events : \/ stage'[e] = stage[e]
                             \/ stage[e] = "creating" /\ stage'[e] = "orphaned"
    BY DEF Exit, TypeInv, TypeOK
  <1>1. RunsFit'
    <2>1. ASSUME NEW t \in Servers, NEW k \in Callers
          PROVE  RunFits(run'[t][k], mongo', mem'[t])
      <3>1. CASE t = s
        <4>1. \A e \in Events : mongo[e].attempts \in Nat /\ IdleRun.seen[e] = NoDoc
          BY IdleRunFields DEF TypeInv, TypeOK, Doc
        <4>2. RunFits(IdleRun, mongo, mem'[t])
          BY <4>1, IdleRunFields, NoDocFields DEF RunFits
        <4> QED BY <1>0, <3>1, <4>2
      <3>2. CASE t # s
        <4>1. RunFits(run[t][k], mongo, mem[t])
          BY DEF RunsFit
        <4> QED BY <1>0, <3>2, <4>1
      <3> QED BY <3>1, <3>2
    <2> QED BY <2>1 DEF RunsFit
  <1>2. OneAtATime'
    <2>1. ASSUME NEW t \in Servers
          PROVE  /\ \A k \in Callers : run'[t][k].pc # "idle" => busy'[t]
                 /\ \A j, k \in Callers : run'[t][j].pc # "idle" /\ run'[t][k].pc # "idle" => j = k
      <3>1. CASE t = s
        BY <1>0, <3>1, IdleRunFields
      <3>2. CASE t # s
        <4>1. busy'[t] = busy[t] /\ \A k \in Callers : run'[t][k] = run[t][k]
          BY <1>0, <3>2
        <4> QED BY <4>1 DEF OneAtATime
      <3> QED BY <3>1, <3>2
    <2> QED BY <2>1 DEF OneAtATime
  <1>3. Placed'
    BY <1>0, NoDocFields DEF Placed
  <1>4. OneStore' /\ GivenUp'
    BY <1>0, NoDocFields DEF OneStore, GivenUp, GivenUpLate, Apart
  <1> QED BY <1>1, <1>2, <1>3, <1>4

LEMMA RetryProcess ==
  ASSUME TypeInv, TypeInv', RetryInv, NEW s \in Servers, Process(s)
  PROVE  RetryInv'
  <1>1. CASE Boot(s) \/ Connect(s) \/ Disconnect(s) \/ Drain(s)
    <2>1. /\ UNCHANGED <<busy, run, stage, home, mongo, mem>>
          /\ faults' = faults \/ Fault
      BY <1>1 DEF Boot, Connect, Disconnect, Drain, workerVars, eventVars, storeVars
    <2> QED BY <2>1, RetryUnmoved
  <1> QED BY <1>1, RetryExit DEF Process

LEMMA RetryStep == TypeInv /\ RetryInv /\ [Next]_vars => RetryInv'
  <1> SUFFICES ASSUME TypeInv, RetryInv, [Next]_vars PROVE RetryInv'
    OBVIOUS
  <1>0. TypeInv'
    BY TypeStep
  <1>1. CASE UNCHANGED vars
    <2>1. UNCHANGED <<busy, run, stage, home, mongo, mem, faults>>
      BY <1>1 DEF vars
    <2> QED BY <1>0, <2>1, RetryUnmoved
  <1>2. CASE Next
    <2>1. ASSUME NEW e \in Events, Enqueue(e) \/ Backoff(e) PROVE RetryInv'
      BY <1>0, <2>1, RetryEnqueue, RetryBackoff
    <2>2. ASSUME NEW s \in Servers, Tick(s) \/ Kick(s) \/ Studio(s) \/ Process(s)
          PROVE  RetryInv'
      BY <1>0, <2>2, RetryStartRun, RetryStudio, RetryProcess
    <2>3. ASSUME NEW s \in Servers, NEW k \in Callers, Work(s, k) PROVE RetryInv'
      BY <1>0, <2>3, RetryWork
    <2> QED BY <1>2, <2>1, <2>2, <2>3 DEF Next
  <1> QED BY <1>1, <1>2

LEMMA RetryInvariant == Spec => [](TypeInv /\ RetryInv)
  BY TypeInit, TypeStep, RetryInit, RetryStep, PTL DEF Spec

(* MongoDB gives an event up only after MaxAttempts failed rounds, for any   *)
(* number of servers with stale copies of the document, through faults and  *)
(* crashes, unless a create that took effect was reported as an error.      *)
THEOREM GivenUpAfterAllAttempts ==
  ASSUME ~AckLoss
  PROVE  Spec => []GivenUpLate
  <1>1. RetryInv => GivenUpLate
    BY DEF RetryInv, GivenUp, Apart
  <1> QED BY RetryInvariant, <1>1, PTL
-----------------------------------------------------------------------------
(* One server. *)

DocBounded(d) ==
    /\ d.attempts <= MaxAttempts
    /\ d.status = "PENDING" => d.attempts < MaxAttempts
    /\ d.status = "FAILED" => d.attempts = MaxAttempts

LEMMA BoundedMeans ==
  AttemptsBounded <=>
    \A e \in Events : DocBounded(mongo[e]) /\ \A s \in Servers : DocBounded(mem[s][e])
  BY DEF AttemptsBounded, DocBounded

LEMMA NewDocsBounded == DocBounded(Fresh) /\ DocBounded(NoDoc)
  BY SizesAssumption, NoDocFields DEF DocBounded

Alike(d, f) == f.status = d.status /\ f.attempts = d.attempts

(* What every step but settling does to the documents: none changes its      *)
(* status or its attempts, a new one comes to MongoDB where there was none, *)
(* a memory queue takes a new one or loses its own.                         *)
QuietDocs ==
    /\ faults' = faults \/ Fault
    /\ \A e \in Events : \/ Alike(mongo[e], mongo'[e])
                         \/ ~Present(mongo[e]) /\ mongo'[e] = Fresh
    /\ \A s \in Servers, e \in Events :
          Alike(mem[s][e], mem'[s][e]) \/ mem'[s][e] \in {Fresh, NoDoc}

LEMMA QuietStill ==
  ASSUME UNCHANGED <<mongo, mem>>, faults' = faults \/ Fault
  PROVE  QuietDocs
  BY DEF QuietDocs, Alike

LEMMA QuietEnqueue ==
  ASSUME TypeInv, NEW e \in Events, Enqueue(e)
  PROVE  QuietDocs /\ UNCHANGED <<run, busy>>
  <1> USE DEF workerVars, storeVars
  <1>1. ASSUME NEW s \in Servers, Emit(s, e) PROVE QuietDocs /\ UNCHANGED <<run, busy>>
    <2>1. UNCHANGED <<run, busy, mongo, faults>>
      BY <1>1 DEF Emit
    <2>2. mem' = mem \/ StoreInMemory(s, e)
      BY <1>1 DEF Emit
    <2>3. \A t \in Servers, d \in Events : mem'[t][d] = mem[t][d] \/ mem'[t][d] = Fresh
      BY <2>2, StoreInMemoryIs
    <2> QED BY <2>1, <2>3 DEF QuietDocs, Alike
  <1>2. CASE CreateLands(e)
    <2>1. \A d \in Events : mongo'[d] = IF d = e THEN Fresh ELSE mongo[d]
      BY <1>2 DEF CreateLands, TypeInv, TypeOK
    <2> QED BY <1>2, <2>1 DEF CreateLands, QuietDocs, Alike
  <1>3. CASE CreateResolves(e)
    BY <1>3, QuietStill DEF CreateResolves
  <1>4. CASE CreateRejects(e)
    <2>1. StoreInMemory(home[e], e) /\ home[e] \in Servers
      BY <1>4 DEF CreateRejects, TypeInv, ShapeOK
    <2>2. \A t \in Servers, d \in Events : mem'[t][d] = mem[t][d] \/ mem'[t][d] = Fresh
      BY <2>1, StoreInMemoryIs
    <2>3. UNCHANGED <<run, busy, mongo>> /\ Fault
      BY <1>4 DEF CreateRejects
    <2> QED BY <2>2, <2>3 DEF QuietDocs, Alike
  <1> QED BY <1>1, <1>2, <1>3, <1>4 DEF Enqueue

LEMMA QuietBackoff ==
  ASSUME TypeInv, NEW e \in Events, Backoff(e)
  PROVE  QuietDocs /\ UNCHANGED <<run, busy>>
  BY BackoffIs DEF QuietDocs, Alike

LEMMA QuietProcess ==
  ASSUME TypeInv, NEW s \in Servers, Tick(s) \/ Kick(s) \/ Studio(s) \/ Process(s)
  PROVE  QuietDocs
  <1>1. CASE Tick(s) \/ Kick(s) \/ Studio(s)
    <2>1. UNCHANGED <<mongo, mem, faults>>
      BY <1>1 DEF Tick, Kick, Studio, RegisterWebhook, UnregisterWebhook, storeVars
    <2> QED BY <2>1, QuietStill
  <1>2. CASE Boot(s) \/ Connect(s) \/ Disconnect(s) \/ Drain(s)
    <2>1. UNCHANGED <<mongo, mem>> /\ (faults' = faults \/ Fault)
      BY <1>2 DEF Boot, Connect, Disconnect, Drain, storeVars
    <2> QED BY <2>1, QuietStill
  <1>3. CASE Exit(s)
    <2>1. mongo' = mongo /\ faults' = faults
      BY <1>3 DEF Exit
    <2>2. \A t \in Servers, e \in Events : mem'[t][e] = mem[t][e] \/ mem'[t][e] = NoDoc
      BY <1>3 DEF Exit, TypeInv, TypeOK
    <2> QED BY <2>1, <2>2 DEF QuietDocs, Alike
  <1> QED BY <1>1, <1>2, <1>3 DEF Process

LEMMA QuietWork ==
  ASSUME TypeInv, NEW s \in Servers, NEW k \in Callers,
         \/ QueryReturns(s, k) \/ Pick(s, k) \/ Dispatch(s, k)
         \/ RecordWebhookDelivery(s, k)
  PROVE  QuietDocs
  <1>1. CASE QueryReturns(s, k)
    <2>1. UNCHANGED <<mongo, mem>> /\ (faults' = faults \/ Fault)
      BY <1>1 DEF QueryReturns, storeVars
    <2> QED BY <2>1, QuietStill
  <1>2. CASE Pick(s, k) \/ Dispatch(s, k)
    <2>1. UNCHANGED <<mongo, mem, faults>>
      BY <1>2 DEF Pick, Dispatch, DispatchSucceeds, DispatchFails, DispatchThrows, storeVars
    <2> QED BY <2>1, QuietStill
  <1>3. CASE RecordWebhookDelivery(s, k)
    <2> DEFINE cur == run[s][k].cur
               a == Recorded(mongo[cur], run[s][k].hook)
               b == Recorded(mem[s][cur], run[s][k].hook)
    <2>1. RunShape(run[s][k]) /\ run[s][k].pc = "record" /\ WriteBoth(s, cur, a, b)
      BY <1>3 DEF RecordWebhookDelivery, TypeInv, ShapeOK
    <2>2. cur \in Events /\ run[s][k].hook \in Hook
      BY <2>1 DEF RunShape
    <2>3. mongo[cur] \in Doc /\ mem[s][cur] \in Doc
      BY <2>2 DEF TypeInv, TypeOK
    <2>4. Alike(mongo[cur], a) /\ Alike(mem[s][cur], b)
      BY <2>2, <2>3, RecordedIs DEF Alike
    <2> HIDE DEF a, b
    <2> QED BY <2>1, <2>2, <2>4, WriteBothIs DEF QuietDocs, Alike
  <1> QED BY <1>1, <1>2, <1>3

LEMMA QuietBounded ==
  ASSUME TypeInv, CopiesBounded, QuietDocs
  PROVE  CopiesBounded'
  <1>1. Apart' => Apart
    BY CalmBefore DEF QuietDocs, TypeInv
  <1>2. ASSUME Apart
        PROVE  \A e \in Events :
                  DocBounded(mongo'[e]) /\ \A s \in Servers : DocBounded(mem'[s][e])
    <2>1. \A e \in Events : DocBounded(mongo[e]) /\ \A s \in Servers : DocBounded(mem[s][e])
      BY <1>2, BoundedMeans DEF CopiesBounded
    <2>2. \A d, f : Alike(d, f) /\ DocBounded(d) => DocBounded(f)
      BY DEF Alike, DocBounded
    <2> QED BY <2>1, <2>2, NewDocsBounded DEF QuietDocs
  <1>3. AttemptsBounded' <=>
           \A e \in Events :
              DocBounded(mongo'[e]) /\ \A s \in Servers : DocBounded(mem'[s][e])
    BY DEF AttemptsBounded, DocBounded
  <1> QED BY <1>1, <1>2, <1>3 DEF CopiesBounded

(* A run that goes on, or does not begin, is as current as it was. *)
LEMMA CurrentOn ==
  ASSUME QuietDocs, NEW r, r.batch \subseteq Events, RunCurrent(r, mongo)
  PROVE  RunCurrent(r, mongo')
  <1> SUFFICES ASSUME ~r.live, NEW e \in r.batch
               PROVE  mongo'[e].status = "PENDING" /\ r.seen[e].attempts = mongo'[e].attempts
    BY DEF RunCurrent
  <1>1. mongo[e].status = "PENDING" /\ r.seen[e].attempts = mongo[e].attempts
    BY DEF RunCurrent
  <1> QED BY <1>1 DEF QuietDocs, Alike, Present

LEMMA RunsStayCurrent ==
  ASSUME Single, TypeInv, RetryInv, NEW s \in Servers, NEW k \in Callers,
         Aside(s, k), NEW r \in Run, SetRun(s, k, r), RunCurrent(r, mongo')
  PROVE  RunsCurrent'
  <1>1. ASSUME NEW t \in Servers, NEW j \in Callers PROVE RunCurrent(run'[t][j], mongo')
    <2>1. t = s
      BY DEF Single
    <2>2. CASE j = k
      BY <2>1, <2>2, SetRunIs
    <2>3. CASE j # k
      <3>1. run'[t][j] = run[s][j]
        BY <2>1, <2>3, SetRunIs
      <3>2. run[s][j].batch = {}
        BY <2>3 DEF Aside, RetryInv, RunsFit, RunFits
      <3> QED BY <3>1, <3>2 DEF RunCurrent
    <2> QED BY <2>2, <2>3
  <1> QED BY <1>1 DEF RunsCurrent

LEMMA CurrentStill ==
  ASSUME TypeInv, RunsCurrent, QuietDocs, run' = run
  PROVE  RunsCurrent'
  <1>1. ASSUME NEW s \in Servers, NEW k \in Callers PROVE RunCurrent(run[s][k], mongo')
    <2>1. run[s][k].batch \subseteq Events
      BY DEF TypeInv, TypeOK, Run
    <2> QED BY <2>1, CurrentOn DEF RunsCurrent
  <1> QED BY <1>1 DEF RunsCurrent

LEMMA SoloInit == Init => SoloInv
  <1> SUFFICES ASSUME Init PROVE SoloInv
    OBVIOUS
  <1>1. RunsCurrent
    BY IdleRunFields DEF Init, RunsCurrent, RunCurrent
  <1>2. CopiesBounded
    BY NewDocsBounded, BoundedMeans DEF Init, CopiesBounded
  <1> QED BY <1>1, <1>2 DEF SoloInv

LEMMA CurrentStartRun ==
  ASSUME Single, TypeInv, RetryInv, SoloInv, NEW s \in Servers, Tick(s) \/ Kick(s)
  PROVE  RunsCurrent'
  <1>1. QuietDocs
    BY QuietProcess
  <1>2. ASSUME NEW k \in Callers, StartRun(s, k) PROVE RunsCurrent'
    <2>1. PICK r \in Run :
            /\ SetRun(s, k, r)
            /\ busy' = [busy EXCEPT ![s] = r.pc # "idle"]
            /\ r.pc \in {"idle", "query", "pick"}
            /\ (r.pc = "pick" => r.live) /\ (r.pc = "query" => connected[s])
            /\ r.pc \in {"idle", "query"} => r.batch = {}
            /\ \A e \in r.batch : e \in Events /\ Ready(mem[s][e])
            /\ r.seen = [e \in Events |-> NoDoc] /\ r.todo = {}
      BY <1>2, StartRunIs DEF TypeInv
    <2>2. Aside(s, k)
      BY <1>2, OthersAside DEF StartRun, RetryInv
    <2>3. RunCurrent(r, mongo')
      BY <2>1 DEF RunCurrent
    <2> QED BY <2>1, <2>2, <2>3, RunsStayCurrent
  <1>3. CASE UNCHANGED workerVars
    BY <1>1, <1>3, CurrentStill DEF SoloInv, workerVars
  <1> QED BY <1>2, <1>3 DEF Tick, Kick, Callers

LEMMA CurrentNextHook ==
  ASSUME Single, TypeInv, RetryInv, NEW s \in Servers, NEW k \in Callers,
         run[s][k].pc # "idle", NEW rec \in Run, rec.cur \in Events,
         NEW rest \in SUBSET Hook, NextHook(s, k, rec, rest), RunCurrent(rec, mongo')
  PROVE  RunsCurrent'
  <1>1. PICK r \in Run : /\ SetRun(s, k, r) /\ r.seen = rec.seen
                         /\ r.batch = rec.batch /\ r.live = rec.live
    BY NextHookType DEF TypeInv
  <1>2. RunCurrent(r, mongo')
    BY <1>1 DEF RunCurrent
  <1> QED BY <1>1, <1>2, OthersAside, RunsStayCurrent DEF RetryInv

LEMMA CurrentWork ==
  ASSUME Single, TypeInv, RetryInv, SoloInv, NEW s \in Servers, NEW k \in Callers,
         \/ QueryReturns(s, k) \/ Pick(s, k) \/ Dispatch(s, k)
         \/ RecordWebhookDelivery(s, k)
  PROVE  RunsCurrent'
  <1> DEFINE me == run[s][k]
  <1>0. me \in Run /\ RunShape(me) /\ RunCurrent(me, mongo) /\ me.batch \subseteq Events
    BY DEF SoloInv, RunsCurrent, TypeInv, TypeOK, ShapeOK, Run
  <1>1. QuietDocs
    BY QuietWork
  <1>2. RunCurrent(me, mongo')
    BY <1>0, <1>1, CurrentOn
  <1>3. me.pc # "idle" /\ Aside(s, k)
    <2>1. me.pc # "idle"
      BY DEF QueryReturns, Pick, Dispatch, DispatchSucceeds, DispatchFails,
             DispatchThrows, RecordWebhookDelivery
    <2> QED BY <2>1, OthersAside DEF RetryInv
  <1>4. CASE QueryReturns(s, k)
    <2>0. mongo' = mongo
      BY <1>4 DEF QueryReturns, storeVars
    <2>1. PICK r \in Run :
            /\ SetRun(s, k, r)
            /\ busy' = [busy EXCEPT ![s] = r.pc # "idle"] \/ (busy' = busy /\ r.pc # "idle")
            /\ r.pc \in {"idle", "pick"} /\ (r.pc = "idle" => r.batch = {})
            /\ r.live => \A e \in r.batch : e \in Events /\ Ready(mem[s][e])
            /\ ~r.live => \A e \in r.batch :
                  e \in Events /\ Ready(mongo[e]) /\ r.seen[e] = mongo[e]
            /\ \A e \in Events : r.seen[e] \in {NoDoc, mongo[e]}
            /\ r.todo = {}
            /\ faults' = faults \/ Fault
            /\ r.pc = "pick" /\ ~r.live => run[s][k].pc = "query"
      BY <1>4, QueryReturnsIs DEF TypeInv
    <2>2. RunCurrent(r, mongo')
      BY <2>0, <2>1 DEF RunCurrent, Ready
    <2> QED BY <1>3, <2>1, <2>2, RunsStayCurrent
  <1>5. CASE Pick(s, k)
    <2>1. PICK e \in me.batch :
             NextHook(s, k, [me EXCEPT !.cur = e, !.failed = FALSE],
                      HooksFor(s, e) \ Record(s, k, e).delivered)
      BY <1>5 DEF Pick
    <2> DEFINE rec == [me EXCEPT !.cur = e, !.failed = FALSE]
               rest == HooksFor(s, e) \ Record(s, k, e).delivered
    <2>2. e \in Events /\ rest \in SUBSET Hook
      BY <1>0, HooksType DEF TypeInv
    <2>3. /\ rec \in Run /\ rec.cur = e /\ rec.batch = me.batch
          /\ rec.live = me.live /\ rec.seen = me.seen
      BY <1>0, <2>2 DEF Run
    <2>4. NextHook(s, k, rec, rest)
      BY <2>1
    <2> HIDE DEF rec, rest
    <2>5. RunCurrent(rec, mongo')
      BY <1>2, <2>3 DEF RunCurrent
    <2> QED BY <1>3, <2>2, <2>3, <2>4, <2>5, CurrentNextHook
  <1>6. CASE DispatchSucceeds(s, k)
    <2> DEFINE r == [me EXCEPT !.pc = "record"]
    <2>1. r \in Run /\ r.batch = me.batch /\ r.live = me.live /\ r.seen = me.seen
      BY <1>0 DEF Run
    <2>2. SetRun(s, k, r)
      BY <1>6 DEF DispatchSucceeds
    <2> HIDE DEF r
    <2>3. RunCurrent(r, mongo')
      BY <1>2, <2>1 DEF RunCurrent
    <2> QED BY <1>3, <2>1, <2>2, <2>3, RunsStayCurrent
  <1>7. CASE DispatchFails(s, k)
    <2> DEFINE rec == [me EXCEPT !.failed = TRUE]
    <2>1. /\ rec \in Run /\ rec.cur = me.cur /\ rec.batch = me.batch
          /\ rec.live = me.live /\ rec.seen = me.seen
      BY <1>0 DEF Run
    <2>2. NextHook(s, k, rec, me.todo) /\ me.cur \in Events /\ me.todo \in SUBSET Hook
      BY <1>0, <1>7 DEF DispatchFails, RunShape, Run
    <2> HIDE DEF rec
    <2>3. RunCurrent(rec, mongo')
      BY <1>2, <2>1 DEF RunCurrent
    <2> QED BY <1>3, <2>1, <2>2, <2>3, CurrentNextHook
  <1>8. CASE DispatchThrows(s, k)
    <2>1. SetRun(s, k, IdleRun)
      BY <1>8, EndRunIs DEF DispatchThrows
    <2>2. RunCurrent(IdleRun, mongo')
      BY IdleRunFields DEF RunCurrent
    <2> QED BY <1>3, <2>1, <2>2, IdleRunType, RunsStayCurrent
  <1>9. CASE RecordWebhookDelivery(s, k)
    <2>1. NextHook(s, k, me, me.todo) /\ me.cur \in Events /\ me.todo \in SUBSET Hook
      BY <1>0, <1>9 DEF RecordWebhookDelivery, RunShape, Run
    <2> QED BY <1>0, <1>2, <1>3, <2>1, CurrentNextHook
  <1> QED BY <1>4, <1>5, <1>6, <1>7, <1>8, <1>9 DEF Dispatch
(* The record being settled is what the run takes it for, and is in one      *)
(* store only while the stores are apart.                                   *)
LEMMA SettledRecord ==
  ASSUME TypeInv, RetryInv, SoloInv, NEW s \in Servers, NEW k \in Callers,
         run[s][k].pc \in {"send", "record", "settle"}
  PROVE  LET me == run[s][k]
             cur == me.cur
         IN /\ me \in Run /\ cur \in Events /\ cur \in me.batch
            /\ mongo[cur] \in Doc /\ mem[s][cur] \in Doc
            /\ ~me.live => /\ mongo[cur].status = "PENDING"
                           /\ me.seen[cur].attempts = mongo[cur].attempts
                           /\ Apart => ~Present(mem[s][cur])
            /\ me.live => /\ mem[s][cur].status = "PENDING"
                          /\ Apart => ~Present(mongo[cur])
  <1> DEFINE me == run[s][k]
             cur == me.cur
  <1>1. /\ me \in Run /\ RunShape(me) /\ RunFits(me, mongo, mem[s])
        /\ RunCurrent(me, mongo)
    BY DEF RetryInv, RunsFit, SoloInv, RunsCurrent, TypeInv, TypeOK, ShapeOK
  <1>2. cur \in Events /\ cur \in me.batch
    BY <1>1 DEF RunShape, RunFits
  <1>3. mongo[cur] \in Doc /\ mem[s][cur] \in Doc
    BY <1>2 DEF TypeInv, TypeOK
  <1>4. ~me.live => /\ mongo[cur].status = "PENDING"
                    /\ me.seen[cur].attempts = mongo[cur].attempts
    BY <1>1, <1>2 DEF RunCurrent
  <1>5. me.live => mem[s][cur].status = "PENDING"
    BY <1>1, <1>2 DEF RunFits
  <1>6. Apart => ~(Present(mongo[cur]) /\ Present(mem[s][cur]))
    BY <1>2 DEF RetryInv, OneStore
  <1> QED BY <1>1, <1>2, <1>3, <1>4, <1>5, <1>6 DEF Present

LEMMA CurrentSettle ==
  ASSUME Single, TypeInv, RetryInv, SoloInv, NEW s \in Servers, NEW k \in Callers,
         run[s][k].pc = "settle", NextRecord(s, k),
         NEW a, NEW b, WriteBoth(s, run[s][k].cur, a, b)
  PROVE  RunsCurrent'
  <1> DEFINE me == run[s][k]
             cur == run[s][k].cur
  <1>0. /\ me \in Run /\ cur \in Events /\ me.batch \subseteq Events
        /\ RunCurrent(me, mongo)
    BY SettledRecord DEF SoloInv, RunsCurrent, Run
  <1>1. PICK r \in Run :
            /\ SetRun(s, k, r)
            /\ busy' = [busy EXCEPT ![s] = r.pc # "idle"] \/ (busy' = busy /\ r.pc # "idle")
            /\ \/ r = IdleRun
               \/ r.pc = "pick" /\ r.live = me.live /\ r.todo = me.todo
            /\ r.batch \subseteq me.batch \ {cur}
            /\ \A e \in Events \ {cur} : e \in r.batch => r.seen[e] = me.seen[e]
            /\ \A e \in Events : r.seen[e] \in {NoDoc, me.seen[e]}
    BY <1>0, NextRecordIs DEF TypeInv
  <1>2. \A d \in Events \ {cur} : mongo'[d] = mongo[d]
    BY <1>0, WriteBothIs
  <1>3. RunCurrent(r, mongo')
    <2>1. CASE r = IdleRun
      BY <2>1, IdleRunFields DEF RunCurrent
    <2>2. CASE r.live = me.live
      BY <1>0, <1>1, <1>2, <2>2 DEF RunCurrent
    <2> QED BY <1>1, <2>1, <2>2
  <1>4. Aside(s, k)
    BY OthersAside DEF RetryInv
  <1> QED BY <1>1, <1>3, <1>4, RunsStayCurrent

(* A document that is written within the limits stays within them. *)
LEMMA WrittenBounded ==
  ASSUME TypeInv, CopiesBounded, NEW s \in Servers, NEW e \in Events,
         NEW a, NEW b, WriteBoth(s, e, a, b),
         Apart => DocBounded(a) /\ DocBounded(b)
  PROVE  CopiesBounded'
  <1>1. Apart' => Apart
    <2>1. faults' = faults \/ Fault
      BY WriteBothIs
    <2> QED BY <2>1, CalmBefore DEF TypeInv
  <1>2. ASSUME Apart
        PROVE  \A d \in Events :
                  DocBounded(mongo'[d]) /\ \A t \in Servers : DocBounded(mem'[t][d])
    <2>1. \A d \in Events : DocBounded(mongo[d]) /\ \A t \in Servers : DocBounded(mem[t][d])
      BY <1>2, BoundedMeans DEF CopiesBounded
    <2>2. ASSUME NEW d \in Events PROVE DocBounded(mongo'[d])
      BY <1>2, <2>1, WriteBothIs
    <2>3. ASSUME NEW t \in Servers, NEW d \in Events PROVE DocBounded(mem'[t][d])
      <3>1. mem'[t][d] = b \/ mem'[t][d] = mem[t][d]
        BY WriteBothIs
      <3> QED BY <1>2, <2>1, <3>1
    <2> QED BY <2>2, <2>3
  <1>3. AttemptsBounded' <=>
           \A d \in Events :
              DocBounded(mongo'[d]) /\ \A t \in Servers : DocBounded(mem'[t][d])
    BY DEF AttemptsBounded, DocBounded
  <1> QED BY <1>1, <1>2, <1>3 DEF CopiesBounded

LEMMA SoloMarkDelivered ==
  ASSUME Single, TypeInv, RetryInv, SoloInv, NEW s \in Servers, NEW k \in Callers,
         MarkDelivered(s, k)
  PROVE  SoloInv'
  <1> DEFINE cur == run[s][k].cur
             a == Delivered(mongo[cur])
             b == Delivered(mem[s][cur])
  <1>0. run[s][k].pc = "settle" /\ WriteBoth(s, cur, a, b) /\ NextRecord(s, k)
    BY DEF MarkDelivered
  <1>1. cur \in Events /\ mongo[cur] \in Doc /\ mem[s][cur] \in Doc
    BY <1>0, SettledRecord
  <1>2. ASSUME NEW d \in Doc, DocBounded(d) PROVE DocBounded(Delivered(d))
    <2>1. Delivered(d).status = "DELIVERED" \/ Delivered(d) = d
      BY DeliveredIs DEF Follows
    <2> QED BY <1>2, <2>1, DeliveredIs DEF DocBounded
  <1>3. Apart => DocBounded(mongo[cur]) /\ DocBounded(mem[s][cur])
    BY <1>1, BoundedMeans DEF SoloInv, CopiesBounded
  <1>4. Apart => DocBounded(a) /\ DocBounded(b)
    BY <1>1, <1>2, <1>3
  <1> HIDE DEF a, b
  <1>5. CopiesBounded'
    BY <1>0, <1>1, <1>4, WrittenBounded DEF SoloInv
  <1>6. RunsCurrent'
    BY <1>0, CurrentSettle
  <1> QED BY <1>5, <1>6 DEF SoloInv

(* A failed round on a pending record with the record's own count. *)
LEMMA FailedBounded ==
  ASSUME NEW d \in Doc, DocBounded(d), d.status = "PENDING"
  PROVE  DocBounded(Failed(d, d.attempts + 1 >= MaxAttempts))
  <1> DEFINE x == d.attempts + 1 >= MaxAttempts
             f == Failed(d, x)
  <1>1. x \in BOOLEAN
    OBVIOUS
  <1>2. d.attempts \in Nat /\ d.attempts < MaxAttempts /\ MaxAttempts \in Nat
    BY SizesAssumption DEF DocBounded, Doc
  <1>3. x => d.attempts + 1 = MaxAttempts
    BY <1>2
  <1>4. ~x => d.attempts + 1 < MaxAttempts
    BY <1>2
  <1> HIDE DEF x
  <1>5. f.status = Verdict(x) /\ f.attempts = d.attempts + 1
    BY <1>1, FailedIs DEF Present
  <1>6. f.status = IF x THEN "FAILED" ELSE "PENDING"
    BY <1>5 DEF Verdict
  <1> HIDE DEF f
  <1>7. DocBounded(f)
    BY <1>2, <1>3, <1>4, <1>5, <1>6 DEF DocBounded
  <1> QED BY <1>7 DEF f, x

LEMMA SoloMarkFailed ==
  ASSUME Single, TypeInv, RetryInv, SoloInv, NEW s \in Servers, NEW k \in Callers,
         MarkFailed(s, k)
  PROVE  SoloInv'
  <1> DEFINE me == run[s][k]
             cur == run[s][k].cur
             x == MaxExceeded(s, k)
             a == Failed(mongo[cur], x)
             b == Failed(mem[s][cur], x)
  <1>0. me.pc = "settle" /\ WriteBoth(s, cur, a, b) /\ NextRecord(s, k)
    BY DEF MarkFailed
  <1>1. /\ cur \in Events /\ mongo[cur] \in Doc /\ mem[s][cur] \in Doc
        /\ ~me.live => /\ mongo[cur].status = "PENDING"
                       /\ me.seen[cur].attempts = mongo[cur].attempts
                       /\ Apart => ~Present(mem[s][cur])
        /\ me.live => /\ mem[s][cur].status = "PENDING"
                      /\ Apart => ~Present(mongo[cur])
    BY <1>0, SettledRecord
  <1>2. x \in BOOLEAN
    BY DEF MaxExceeded
  <1>3. /\ ~me.live => x = (mongo[cur].attempts + 1 >= MaxAttempts)
        /\ me.live => x = (mem[s][cur].attempts + 1 >= MaxAttempts)
    BY <1>1 DEF MaxExceeded, Record
  <1>4. Apart => DocBounded(mongo[cur]) /\ DocBounded(mem[s][cur])
    BY <1>1, BoundedMeans DEF SoloInv, CopiesBounded
  <1> HIDE DEF x
  <1>5. /\ ~Present(mongo[cur]) => a = mongo[cur]
        /\ ~Present(mem[s][cur]) => b = mem[s][cur]
    BY <1>1, <1>2, FailedIs DEF Follows
  <1>6. ASSUME Apart PROVE DocBounded(a) /\ DocBounded(b)
    <2>1. CASE me.live
      <3>1. a = mongo[cur] /\ b = Failed(mem[s][cur], mem[s][cur].attempts + 1 >= MaxAttempts)
        BY <1>1, <1>3, <1>5, <1>6, <2>1
      <3> QED BY <1>1, <1>4, <1>6, <2>1, <3>1, FailedBounded
    <2>2. CASE ~me.live
      <3>1. b = mem[s][cur] /\ a = Failed(mongo[cur], mongo[cur].attempts + 1 >= MaxAttempts)
        BY <1>1, <1>3, <1>5, <1>6, <2>2
      <3> QED BY <1>1, <1>4, <1>6, <2>2, <3>1, FailedBounded
    <2> QED BY <2>1, <2>2
  <1> HIDE DEF a, b
  <1>7. CopiesBounded'
    BY <1>0, <1>1, <1>6, WrittenBounded DEF SoloInv
  <1>8. RunsCurrent'
    BY <1>0, CurrentSettle
  <1> QED BY <1>7, <1>8 DEF SoloInv

LEMMA SoloStep == Single /\ TypeInv /\ RetryInv /\ SoloInv /\ [Next]_vars => SoloInv'
  <1> SUFFICES ASSUME Single, TypeInv, RetryInv, SoloInv, [Next]_vars PROVE SoloInv'
    OBVIOUS
  <1>0. ASSUME QuietDocs, RunsCurrent' PROVE SoloInv'
    BY <1>0, QuietBounded DEF SoloInv
  <1>1. CASE UNCHANGED vars
    <2>1. UNCHANGED <<mongo, mem, faults, run>>
      BY <1>1 DEF vars
    <2> QED BY <1>0, <2>1, QuietStill, CurrentStill DEF SoloInv
  <1>2. CASE Next
    <2>1. ASSUME NEW e \in Events, Enqueue(e) \/ Backoff(e) PROVE SoloInv'
      BY <1>0, <2>1, QuietEnqueue, QuietBackoff, CurrentStill DEF SoloInv
    <2>2. ASSUME NEW s \in Servers, Tick(s) \/ Kick(s) PROVE SoloInv'
      BY <1>0, <2>2, QuietProcess, CurrentStartRun
    <2>3. ASSUME NEW s \in Servers, Studio(s) \/ Process(s) PROVE SoloInv'
      <3>1. QuietDocs
        BY <2>3, QuietProcess
      <3>2. CASE run' = run
        BY <1>0, <3>1, <3>2, CurrentStill DEF SoloInv
      <3>3. CASE Exit(s)
        <4>1. ASSUME NEW t \in Servers, NEW k \in Callers PROVE RunCurrent(run'[t][k], mongo')
          <5>1. run'[t][k] = IdleRun
            BY <3>3 DEF Exit, Single, TypeInv, TypeOK
          <5> QED BY <5>1, IdleRunFields DEF RunCurrent
        <4> QED BY <1>0, <3>1, <4>1 DEF RunsCurrent
      <3>4. run' = run \/ Exit(s)
        BY <2>3 DEF Studio, RegisterWebhook, UnregisterWebhook, Process, Boot, Connect,
                    Disconnect, Drain, workerVars
      <3> QED BY <3>2, <3>3, <3>4
    <2>4. ASSUME NEW s \in Servers, NEW k \in Callers, Work(s, k) PROVE SoloInv'
      <3>1. CASE \/ QueryReturns(s, k) \/ Pick(s, k) \/ Dispatch(s, k)
                 \/ RecordWebhookDelivery(s, k)
        BY <1>0, <3>1, QuietWork, CurrentWork
      <3> QED BY <2>4, <3>1, SoloMarkDelivered, SoloMarkFailed DEF Work
    <2> QED BY <1>2, <2>1, <2>2, <2>3, <2>4 DEF Next
  <1> QED BY <1>1, <1>2

LEMMA SoloInvariant ==
  ASSUME Single
  PROVE  Spec => [](TypeInv /\ RetryInv /\ SoloInv)
  <1>1. TypeInv /\ RetryInv /\ SoloInv /\ [Next]_vars => SoloInv'
    BY SoloStep
  <1> QED BY TypeInit, TypeStep, RetryInit, RetryStep, SoloInit, <1>1, PTL DEF Spec

(* With one server, and no create that took effect reported as an error, a   *)
(* record is retried until exactly MaxAttempts rounds have failed, through  *)
(* crashes, failed updates and disconnections, in either store.             *)
THEOREM AttemptsAreExact ==
  ASSUME Single, ~AckLoss
  PROVE  Spec => []AttemptsBounded
  <1>1. SoloInv => AttemptsBounded
    BY DEF SoloInv, CopiesBounded, Apart
  <1> QED BY SoloInvariant, <1>1, PTL

(* Under the same conditions a record that is DELIVERED or FAILED in MongoDB *)
(* never changes its status: no run holds a batch with a settled record.    *)
THEOREM SettledIsFinal ==
  ASSUME Single, ~AckLoss
  PROVE  Spec => TerminalIsFinal
  <1>1. ASSUME TypeInv, RetryInv, SoloInv, [Next]_vars, NEW e \in Events, Done(mongo[e])
        PROVE  mongo'[e].status = mongo[e].status
    <2>1. ASSUME QuietDocs PROVE mongo'[e].status = mongo[e].status
      BY <1>1, <2>1 DEF QuietDocs, Alike, Done, Present
    <2>2. ASSUME NEW s \in Servers, NEW k \in Callers, MarkDelivered(s, k) \/ MarkFailed(s, k)
          PROVE  mongo'[e].status = mongo[e].status
      <3> DEFINE me == run[s][k]
                 cur == run[s][k].cur
      <3>1. me.pc = "settle"
        BY <2>2 DEF MarkDelivered, MarkFailed
      <3>2. /\ cur \in Events /\ mongo[cur] \in Doc
            /\ ~me.live => mongo[cur].status = "PENDING"
            /\ me.live => ~Present(mongo[cur])
        BY <1>1, <3>1, SettledRecord DEF Apart
      <3>3. e # cur
        BY <1>1, <3>2 DEF Done, Present
      <3>4. PICK a, b : WriteBoth(s, cur, a, b)
        BY <2>2 DEF MarkDelivered, MarkFailed
      <3>5. mongo'[e] = mongo[e]
        BY <1>1, <3>2, <3>3, <3>4, WriteBothIs
      <3> QED BY <3>5
    <2>3. CASE UNCHANGED vars
      <3>1. UNCHANGED <<mongo, mem, faults>>
        BY <2>3 DEF vars
      <3> QED BY <2>1, <3>1, QuietStill
    <2>4. CASE Next
      <3>1. ASSUME NEW d \in Events, Enqueue(d) \/ Backoff(d) PROVE QuietDocs
        BY <1>1, <3>1, QuietEnqueue, QuietBackoff
      <3>2. ASSUME NEW s \in Servers, Tick(s) \/ Kick(s) \/ Studio(s) \/ Process(s)
            PROVE  QuietDocs
        BY <1>1, <3>2, QuietProcess
      <3>3. ASSUME NEW s \in Servers, NEW k \in Callers, Work(s, k)
            PROVE  mongo'[e].status = mongo[e].status
        <4>1. CASE \/ QueryReturns(s, k) \/ Pick(s, k) \/ Dispatch(s, k)
                   \/ RecordWebhookDelivery(s, k)
          BY <1>1, <2>1, <4>1, QuietWork
        <4> QED BY <2>2, <3>3, <4>1 DEF Work
      <3> QED BY <2>1, <2>4, <3>1, <3>2, <3>3 DEF Next
    <2> QED BY <1>1, <2>3, <2>4
  <1>2. TypeInv /\ RetryInv /\ SoloInv /\ [Next]_vars =>
           [\A e \in Events : Done(mongo[e]) => mongo'[e].status = mongo[e].status]_vars
    BY <1>1
  <1> QED BY SoloInvariant, <1>2, PTL DEF Spec, TerminalIsFinal

-----------------------------------------------------------------------------
(* Delivery with one server: every subscriber, no webhook twice, the contract. *)

(* Before the first exit: the process has booted at most once, so nothing    *)
(* owed has been forgotten.                                                 *)
Hooks == [url : Urls, at : Servers, gen : 1 .. (MaxGen + MaxExits + 1)]

FirstLife ==
    \A s \in Servers :
        /\ alive[s] => polling[s]
        /\ ~alive[s] => gen[s] = 0
        /\ gen[s] <= MaxGen + 1
        /\ registry[s] \subseteq Hooks

RunHooks(r) ==
    /\ r.todo \subseteq Hooks
    /\ r.pc \in {"send", "record"} => r.hook \in Hooks

RunOwes(r, ow, ac) ==
    /\ r.pc \in {"send", "record"} /\ ~r.failed =>
          ow[r.cur] \subseteq ac[r.cur] \cup r.todo \cup {r.hook}
    /\ r.pc = "settle" /\ ~r.failed => ow[r.cur] \subseteq ac[r.cur]

RunsOwe ==
    \A s \in Servers, k \in Callers :
        RunHooks(run[s][k]) /\ RunOwes(run[s][k], owed, acked)

Subscribers ==
    \A e \in Events, s \in Servers :
        /\ \A h \in owed[e] : h \in registry[s] /\ e \in Interest[h.url]
        /\ ~alive[s] => stage[e] = "absent"
        /\ stage[e] = "absent" => owed[e] = {}

CompleteOnes ==
    \A e \in Events : MarkedDelivered(e) => owed[e] \subseteq acked[e]

OwedInv == exits = 0 => FirstLife /\ RunsOwe /\ Subscribers /\ CompleteOnes

(* While nothing fails, what was answered is on record before anything else  *)
(* is sent.                                                                 *)
RunOnce(r, ac) ==
    /\ ~r.live => \A e \in r.batch :
          r.pc = "pick" \/ e # r.cur => ac[e] \subseteq r.seen[e].delivered
    /\ r.pc \in {"send", "record"} =>
          r.hook \notin r.todo /\ r.todo \cap ac[r.cur] = {}
    /\ r.pc = "send" => r.hook \notin ac[r.cur]

RunsOnce ==
    \A s \in Servers, k \in Callers :
        /\ RunOnce(run[s][k], acked)
        /\ \/ run[s][k].pc = "query"
           \/ run[s][k].pc # "idle" /\ ~run[s][k].live
           => connected[s]

OnRecord(d, e) ==
    Present(d) => \A h \in acked[e] : h \in d.delivered \/
        \E s \in Servers, k \in Callers :
           run[s][k].pc = "record" /\ run[s][k].cur = e /\ run[s][k].hook = h

AllOnRecord ==
    \A e \in Events :
        /\ OnRecord(mongo[e], e)
        /\ \A s \in Servers : OnRecord(mem[s][e], e)
        /\ ~Present(mongo[e]) /\ (\A s \in Servers : ~Present(mem[s][e])) => acked[e] = {}

OnceInv == faults = 0 /\ exits = 0 => RunsOnce /\ AllOnRecord
-----------------------------------------------------------------------------
(* What is owed, before the first exit. *)

LEMMA HooksAreHook == Hooks \subseteq Hook
  BY SizesAssumption DEF Hooks, Hook

(* No step takes an exit back. *)
LEMMA ExitsBefore ==
  ASSUME TypeInv, [Next]_vars
  PROVE  exits' = 0 => exits = 0
  <1>1. exits' = exits \/ exits' = exits + 1
    <2>1. ASSUME NEW e \in Events, Enqueue(e) \/ Backoff(e) PROVE exits' = exits
      BY <2>1 DEF Enqueue, Emit, CreateLands, CreateResolves, CreateRejects, Backoff,
                  BackoffElapsesInMongo, BackoffElapsesInMemory
    <2>2. ASSUME NEW s \in Servers, Tick(s) \/ Kick(s) \/ Studio(s) \/ Process(s)
          PROVE  exits' = exits \/ exits' = exits + 1
      BY <2>2 DEF Tick, Kick, Studio, RegisterWebhook, UnregisterWebhook, Process, Boot,
                  Connect, Disconnect, Drain, Exit
    <2>3. ASSUME NEW s \in Servers, NEW k \in Callers, Work(s, k) PROVE exits' = exits
      BY <2>3 DEF Work, Dispatch, QueryReturns, Pick, DispatchSucceeds, DispatchFails,
                  DispatchThrows, RecordWebhookDelivery, MarkDelivered, MarkFailed
    <2> QED BY <2>1, <2>2, <2>3 DEF Next, vars
  <1> QED BY <1>1 DEF TypeInv, TypeOK

(* An event that no store holds is not marked, and no step but MarkDelivered *)
(* marks one.                                                               *)
LEMMA QuietMarks ==
  ASSUME QuietDocs, NEW e \in Events, MarkedDelivered(e)'
  PROVE  MarkedDelivered(e)
  BY NoDocFields DEF QuietDocs, Alike, MarkedDelivered

LEMMA AbsentMarks ==
  ASSUME RetryInv, NEW e \in Events, stage[e] = "absent"
  PROVE  ~MarkedDelivered(e)
  BY DEF RetryInv, Placed, MarkedDelivered, Present

(* The record a run is at has been enqueued. *)
LEMMA RunsOnStored ==
  ASSUME TypeInv, RetryInv, NEW s \in Servers, NEW k \in Callers, NEW e \in run[s][k].batch
  PROVE  e \in Events /\ stage[e] # "absent"
  <1>1. RunFits(run[s][k], mongo, mem[s]) /\ run[s][k].batch \subseteq Events
    BY DEF RetryInv, RunsFit, TypeInv, TypeOK, Run
  <1> QED BY <1>1 DEF RunFits, RetryInv, Placed, Present

LEMMA RunsOweOn ==
  ASSUME TypeInv, RetryInv, RunsOwe, run' = run, acked' = acked,
         \A e \in Events : owed'[e] \subseteq owed[e] \/ stage[e] = "absent"
  PROVE  RunsOwe'
  <1>1. ASSUME NEW s \in Servers, NEW k \in Callers
        PROVE  RunHooks(run[s][k]) /\ RunOwes(run[s][k], owed', acked)
    <2>1. RunHooks(run[s][k]) /\ RunOwes(run[s][k], owed, acked)
      BY DEF RunsOwe
    <2>2. run[s][k].pc \in {"send", "record", "settle"} =>
             run[s][k].cur \in Events /\ stage[run[s][k].cur] # "absent"
      <3>1. RunFits(run[s][k], mongo, mem[s])
        BY DEF RetryInv, RunsFit
      <3> QED BY <3>1, RunsOnStored DEF RunFits
    <2> QED BY <2>1, <2>2 DEF RunOwes
  <1> QED BY <1>1 DEF RunsOwe

LEMMA RunsStayOwed ==
  ASSUME Single, TypeInv, RunsOwe, NEW s \in Servers, NEW k \in Callers, Aside(s, k),
         NEW r \in Run, SetRun(s, k, r), RunHooks(r), RunOwes(r, owed', acked')
  PROVE  RunsOwe'
  <1>1. ASSUME NEW t \in Servers, NEW j \in Callers
        PROVE  RunHooks(run'[t][j]) /\ RunOwes(run'[t][j], owed', acked')
    <2>1. t = s
      BY DEF Single
    <2>2. CASE j = k
      BY <2>1, <2>2, SetRunIs
    <2>3. CASE j # k
      <3>1. run'[t][j] = run[s][j] /\ run[s][j].pc = "idle"
        BY <2>1, <2>3, SetRunIs DEF Aside
      <3>2. RunHooks(run[s][j])
        BY DEF RunsOwe
      <3> QED BY <3>1, <3>2 DEF RunOwes
    <2> QED BY <2>2, <2>3
  <1> QED BY <1>1 DEF RunsOwe

(* Turning to the next webhook keeps everyone owed in sight. *)
LEMMA NextHookOwes ==
  ASSUME TypeInv, NEW s \in Servers, NEW k \in Callers,
         NEW rec \in Run, rec.cur \in Events,
         NEW rest \in SUBSET Hook, NextHook(s, k, rec, rest), rest \subseteq Hooks,
         NEW ow, NEW ac, ~rec.failed => ow[rec.cur] \subseteq ac[rec.cur] \cup rest
  PROVE  \E r \in Run : SetRun(s, k, r) /\ RunHooks(r) /\ RunOwes(r, ow, ac)
  <1>1. PICK r \in Run :
            /\ SetRun(s, k, r)
            /\ r.cur = rec.cur /\ r.failed = rec.failed
            /\ \/ r.pc = "settle" /\ rest = {}
               \/ r.pc = "send" /\ r.hook \in rest /\ r.todo = rest \ {r.hook}
            /\ r.pc = "settle" => r.todo = {}
    <2>1. CASE rest = {} /\ SetRun(s, k, [rec EXCEPT !.pc = "settle", !.todo = {}, !.hook = None])
      <3> DEFINE r == [rec EXCEPT !.pc = "settle", !.todo = {}, !.hook = None]
      <3>1. /\ r \in Run /\ r.cur = rec.cur /\ r.failed = rec.failed
            /\ r.pc = "settle" /\ r.todo = {}
        BY DEF Run
      <3>2. SetRun(s, k, r)
        BY <2>1
      <3> HIDE DEF r
      <3> QED BY <2>1, <3>1, <3>2
    <2>2. CASE rest # {}
      <3>1. PICK r \in Run :
            /\ SetRun(s, k, r)
            /\ r.cur = rec.cur /\ r.failed = rec.failed
            /\ \/ r.pc = "settle" /\ rest = {}
               \/ r.pc = "send" /\ r.hook \in rest /\ r.todo = rest \ {r.hook}
        BY NextHookType DEF TypeInv
      <3> QED BY <2>2, <3>1
    <2> QED BY <2>1, <2>2 DEF NextHook
  <1>2. RunHooks(r)
    BY <1>1 DEF RunHooks
  <1>3. RunOwes(r, ow, ac)
    BY <1>1 DEF RunOwes
  <1> QED BY <1>1, <1>2, <1>3

LEMMA IdleOwes ==
  ASSUME NEW ow, NEW ac
  PROVE  RunHooks(IdleRun) /\ RunOwes(IdleRun, ow, ac)
  BY IdleRunFields DEF RunHooks, RunOwes

LEMMA OwedInit == Init => OwedInv
  <1> SUFFICES ASSUME Init PROVE FirstLife /\ RunsOwe /\ Subscribers /\ CompleteOnes
    BY DEF OwedInv
  <1>1. FirstLife
    BY SizesAssumption DEF Init, FirstLife
  <1>2. RunsOwe
    BY IdleOwes DEF Init, RunsOwe
  <1>3. Subscribers /\ CompleteOnes
    BY DEF Init, Subscribers, CompleteOnes, NoDoc
  <1> QED BY <1>1, <1>2, <1>3

LEMMA OwedEnqueue ==
  ASSUME Single, TypeInv, RetryInv, OwedInv, exits = 0, NEW e \in Events, Enqueue(e)
  PROVE  FirstLife' /\ RunsOwe' /\ Subscribers' /\ CompleteOnes'
  <1> USE DEF OwedInv
  <1>0. /\ UNCHANGED <<serverVars, run, acked>> /\ QuietDocs
        /\ \A d \in Events : stage[d] # "absent" => stage'[d] # "absent"
    <2>1. UNCHANGED <<serverVars, run, acked>>
      BY DEF Enqueue, Emit, CreateLands, CreateResolves, CreateRejects, workerVars
    <2>2. \A d \in Events : stage[d] # "absent" => stage'[d] # "absent"
      BY DEF Enqueue, Emit, CreateLands, CreateResolves, CreateRejects, eventVars,
             TypeInv, TypeOK
    <2> QED BY <2>1, <2>2, QuietEnqueue
  <1>1. FirstLife'
    BY <1>0 DEF FirstLife, serverVars
  <1>2. \A d \in Events :
           \/ owed'[d] = owed[d] /\ (stage'[d] = "absent" <=> stage[d] = "absent")
           \/ /\ stage[d] = "absent" /\ stage'[d] # "absent"
              /\ owed'[d] = Subscribed(d)
              /\ \E s \in Servers : alive[s]
    <2>1. ASSUME NEW s \in Servers, Emit(s, e)
          PROVE  /\ \A d \in Events : d # e => owed'[d] = owed[d] /\ stage'[d] = stage[d]
                 /\ owed'[e] = Subscribed(e) /\ stage[e] = "absent"
                 /\ stage'[e] # "absent" /\ alive[s]
      BY <2>1 DEF Emit, TypeInv, TypeOK
    <2>2. CASE CreateLands(e) \/ CreateResolves(e) \/ CreateRejects(e)
      <3>1. owed' = owed
        BY <2>2 DEF CreateLands, CreateResolves, CreateRejects, eventVars
      <3>2. \A d \in Events : stage'[d] = "absent" <=> stage[d] = "absent"
        BY <2>2 DEF CreateLands, CreateResolves, CreateRejects, eventVars, TypeInv, TypeOK
      <3> QED BY <3>1, <3>2
    <2> QED BY <2>1, <2>2 DEF Enqueue
  <1>3. RunsOwe'
    BY <1>0, <1>2, RunsOweOn
  <1>4. Subscribers'
    <2>1. \A d \in Events, s \in Servers : \A h \in Subscribed(d) :
             h \in registry[s] /\ d \in Interest[h.url]
      BY DEF Subscribed, Single
    <2>2. ASSUME NEW d \in Events, NEW s \in Servers
          PROVE  /\ \A h \in owed'[d] : h \in registry[s] /\ d \in Interest[h.url]
                 /\ ~alive[s] => stage'[d] = "absent"
                 /\ stage'[d] = "absent" => owed'[d] = {}
      <3>1. CASE owed'[d] = owed[d] /\ (stage'[d] = "absent" <=> stage[d] = "absent")
        BY <3>1 DEF Subscribers
      <3>2. CASE /\ stage[d] = "absent" /\ stage'[d] # "absent"
                 /\ owed'[d] = Subscribed(d)
                 /\ \E t \in Servers : alive[t]
        BY <2>1, <3>2 DEF Single
      <3> QED BY <1>2, <3>1, <3>2
    <2> QED BY <1>0, <2>2 DEF Subscribers, serverVars
  <1>5. CompleteOnes'
    <2>1. ASSUME NEW d \in Events, MarkedDelivered(d)' PROVE owed'[d] \subseteq acked[d]
      <3>1. MarkedDelivered(d)
        BY <1>0, <2>1, QuietMarks
      <3>2. stage[d] # "absent"
        BY <3>1, AbsentMarks
      <3> QED BY <1>2, <3>1, <3>2 DEF CompleteOnes
    <2> QED BY <1>0, <2>1 DEF CompleteOnes
  <1> QED BY <1>1, <1>3, <1>4, <1>5

(* A step that moves neither processes, registries, events nor what is owed. *)
LEMMA OwedKept ==
  ASSUME TypeInv, RetryInv, OwedInv, exits = 0, QuietDocs, RunsOwe',
         UNCHANGED <<serverVars, stage, owed>>, \A e \in Events : acked[e] \subseteq acked'[e]
  PROVE  FirstLife' /\ RunsOwe' /\ Subscribers' /\ CompleteOnes'
  <1>1. FirstLife' /\ Subscribers'
    BY DEF OwedInv, FirstLife, Subscribers, serverVars
  <1>2. CompleteOnes'
    BY QuietMarks DEF OwedInv, CompleteOnes
  <1> QED BY <1>1, <1>2

LEMMA OwedBackoff ==
  ASSUME TypeInv, RetryInv, OwedInv, exits = 0, NEW e \in Events, Backoff(e)
  PROVE  FirstLife' /\ RunsOwe' /\ Subscribers' /\ CompleteOnes'
  <1>1. UNCHANGED <<serverVars, stage, owed, run, acked>>
    BY DEF Backoff, BackoffElapsesInMongo, BackoffElapsesInMemory, workerVars, eventVars
  <1>2. RunsOwe'
    BY <1>1, RunsOweOn DEF OwedInv
  <1> QED BY <1>1, <1>2, QuietBackoff, OwedKept

LEMMA OwedStartRun ==
  ASSUME Single, TypeInv, RetryInv, OwedInv, exits = 0, NEW s \in Servers, Tick(s) \/ Kick(s)
  PROVE  FirstLife' /\ RunsOwe' /\ Subscribers' /\ CompleteOnes'
  <1>1. UNCHANGED <<serverVars, stage, owed, acked>>
    BY DEF Tick, Kick, eventVars
  <1>2. ASSUME NEW k \in Callers, StartRun(s, k) PROVE RunsOwe'
    <2>1. PICK r \in Run :
            /\ SetRun(s, k, r)
            /\ busy' = [busy EXCEPT ![s] = r.pc # "idle"]
            /\ r.pc \in {"idle", "query", "pick"}
            /\ (r.pc = "pick" => r.live) /\ (r.pc = "query" => connected[s])
            /\ r.pc \in {"idle", "query"} => r.batch = {}
            /\ \A e \in r.batch : e \in Events /\ Ready(mem[s][e])
            /\ r.seen = [e \in Events |-> NoDoc] /\ r.todo = {}
      BY <1>2, StartRunIs DEF TypeInv
    <2>2. Aside(s, k)
      BY <1>2, OthersAside DEF StartRun, RetryInv
    <2>3. RunHooks(r) /\ RunOwes(r, owed', acked')
      BY <2>1 DEF RunHooks, RunOwes
    <2> QED BY <2>1, <2>2, <2>3, RunsStayOwed DEF OwedInv
  <1>3. ASSUME UNCHANGED workerVars PROVE RunsOwe'
    <2>1. run' = run /\ acked' = acked /\ \A e \in Events : owed'[e] \subseteq owed[e]
      BY <1>1, <1>3 DEF workerVars
    <2> QED BY <2>1, RunsOweOn DEF OwedInv
  <1>4. RunsOwe'
    BY <1>2, <1>3 DEF Tick, Kick, Callers
  <1> QED BY <1>1, <1>4, QuietProcess, OwedKept

LEMMA OwedNextHook ==
  ASSUME Single, TypeInv, RetryInv, OwedInv, exits = 0,
         NEW s \in Servers, NEW k \in Callers, run[s][k].pc # "idle",
         NEW rec \in Run, rec.cur \in Events,
         NEW rest \in SUBSET Hook, NextHook(s, k, rec, rest), rest \subseteq Hooks,
         ~rec.failed => owed'[rec.cur] \subseteq acked'[rec.cur] \cup rest
  PROVE  RunsOwe'
  <1>1. PICK r \in Run : SetRun(s, k, r) /\ RunHooks(r) /\ RunOwes(r, owed', acked')
    BY NextHookOwes
  <1> QED BY <1>1, OthersAside, RunsStayOwed DEF OwedInv, RetryInv

(* While a batch is worked off, nothing is owed that is not in sight. *)
LEMMA OwedWork ==
  ASSUME Single, TypeInv, RetryInv, DeliveryInv, OwedInv, exits = 0,
         NEW s \in Servers, NEW k \in Callers,
         \/ QueryReturns(s, k) \/ Pick(s, k) \/ Dispatch(s, k)
         \/ RecordWebhookDelivery(s, k)
  PROVE  FirstLife' /\ RunsOwe' /\ Subscribers' /\ CompleteOnes'
  <1> DEFINE me == run[s][k]
             cur == run[s][k].cur
  <1>0. /\ me \in Run /\ RunShape(me) /\ me.batch \subseteq Events
        /\ RunHooks(me) /\ RunOwes(me, owed, acked) /\ me.todo \in SUBSET Hook
        /\ me.todo \subseteq Hooks
    BY DEF OwedInv, RunsOwe, RunHooks, TypeInv, TypeOK, ShapeOK, Run
  <1>1. /\ UNCHANGED <<serverVars, stage, owed>>
        /\ \A e \in Events : acked[e] \subseteq acked'[e]
    <2>1. UNCHANGED <<serverVars, stage, owed>>
      BY DEF QueryReturns, Pick, Dispatch, DispatchSucceeds, DispatchFails,
             DispatchThrows, RecordWebhookDelivery, eventVars
    <2>2. acked' = acked \/ acked' = [acked EXCEPT ![me.cur] = @ \cup {me.hook}]
      BY DEF QueryReturns, Pick, Dispatch, DispatchSucceeds, DispatchFails,
             DispatchThrows, RecordWebhookDelivery
    <2>3. \A e \in Events : acked[e] \subseteq acked'[e]
      BY <2>2 DEF TypeInv, TypeOK
    <2> QED BY <2>1, <2>3
  <1>2. me.pc # "idle" /\ Aside(s, k)
    <2>1. me.pc # "idle"
      BY DEF QueryReturns, Pick, Dispatch, DispatchSucceeds, DispatchFails,
             DispatchThrows, RecordWebhookDelivery
    <2> QED BY <2>1, OthersAside DEF RetryInv
  <1>3. CASE QueryReturns(s, k)
    <2>1. PICK r \in Run :
            /\ SetRun(s, k, r)
            /\ busy' = [busy EXCEPT ![s] = r.pc # "idle"] \/ (busy' = busy /\ r.pc # "idle")
            /\ r.pc \in {"idle", "pick"} /\ (r.pc = "idle" => r.batch = {})
            /\ r.live => \A e \in r.batch : e \in Events /\ Ready(mem[s][e])
            /\ ~r.live => \A e \in r.batch :
                  e \in Events /\ Ready(mongo[e]) /\ r.seen[e] = mongo[e]
            /\ \A e \in Events : r.seen[e] \in {NoDoc, mongo[e]}
            /\ r.todo = {}
            /\ faults' = faults \/ Fault
            /\ r.pc = "pick" /\ ~r.live => run[s][k].pc = "query"
      BY <1>3, QueryReturnsIs DEF TypeInv
    <2>2. RunHooks(r) /\ RunOwes(r, owed', acked')
      BY <2>1 DEF RunHooks, RunOwes
    <2>3. RunsOwe'
      BY <1>2, <2>1, <2>2, RunsStayOwed DEF OwedInv
    <2> QED BY <1>1, <1>3, <2>3, QuietWork, OwedKept
  <1>4. CASE Pick(s, k)
    <2>1. PICK e \in me.batch :
             NextHook(s, k, [me EXCEPT !.cur = e, !.failed = FALSE],
                      HooksFor(s, e) \ Record(s, k, e).delivered)
      BY <1>4 DEF Pick
    <2> DEFINE rec == [me EXCEPT !.cur = e, !.failed = FALSE]
               rest == HooksFor(s, e) \ Record(s, k, e).delivered
    <2>2. e \in Events /\ rest \in SUBSET Hook
      BY <1>0, HooksType DEF TypeInv
    <2>3. rec \in Run /\ rec.cur = e
      BY <1>0, <2>2 DEF Run
    <2>4. NextHook(s, k, rec, rest)
      BY <2>1
    <2>5. rest \subseteq Hooks
      BY DEF OwedInv, FirstLife, HooksFor
    <2>6. owed[e] \subseteq HooksFor(s, e)
      BY <2>2 DEF OwedInv, Subscribers, HooksFor
    <2>7. owed'[e] \subseteq acked'[e] \cup rest
      BY <1>1, <2>2, <2>6, RecordHonest
    <2> HIDE DEF rec, rest
    <2>8. RunsOwe'
      BY <1>2, <2>2, <2>3, <2>4, <2>5, <2>7, OwedNextHook
    <2> QED BY <1>1, <1>4, <2>8, QuietWork, OwedKept
  <1>5. CASE DispatchSucceeds(s, k)
    <2> DEFINE r == [me EXCEPT !.pc = "record"]
    <2>1. /\ r \in Run /\ r.pc = "record" /\ r.cur = cur /\ r.todo = me.todo
          /\ r.hook = me.hook /\ r.failed = me.failed
      BY <1>0 DEF Run
    <2>2. SetRun(s, k, r) /\ me.pc = "send"
      BY <1>5 DEF DispatchSucceeds
    <2>3. cur \in Events
      BY <1>0, <2>2 DEF RunShape
    <2> HIDE DEF r
    <2>4. RunHooks(r)
      BY <1>0, <2>1, <2>2 DEF RunHooks
    <2>5. RunOwes(r, owed', acked')
      BY <1>0, <1>1, <2>1, <2>2, <2>3 DEF RunOwes
    <2>6. RunsOwe'
      BY <1>2, <2>1, <2>2, <2>4, <2>5, RunsStayOwed DEF OwedInv
    <2> QED BY <1>1, <1>5, <2>6, QuietWork, OwedKept DEF Dispatch
  <1>6. CASE DispatchFails(s, k)
    <2> DEFINE rec == [me EXCEPT !.failed = TRUE]
    <2>1. rec \in Run /\ rec.cur = cur /\ rec.failed
      BY <1>0 DEF Run
    <2>2. NextHook(s, k, rec, me.todo) /\ cur \in Events
      BY <1>0, <1>6 DEF DispatchFails, RunShape
    <2> HIDE DEF rec
    <2>3. RunsOwe'
      BY <1>0, <1>2, <2>1, <2>2, OwedNextHook
    <2> QED BY <1>1, <1>6, <2>3, QuietWork, OwedKept DEF Dispatch
  <1>7. CASE DispatchThrows(s, k)
    <2>1. SetRun(s, k, IdleRun)
      BY <1>7, EndRunIs DEF DispatchThrows
    <2>2. RunHooks(IdleRun) /\ RunOwes(IdleRun, owed', acked')
      BY IdleOwes
    <2>3. RunsOwe'
      BY <1>2, <2>1, <2>2, IdleRunType, RunsStayOwed DEF OwedInv
    <2> QED BY <1>1, <1>7, <2>3, QuietWork, OwedKept DEF Dispatch
  <1>8. CASE RecordWebhookDelivery(s, k)
    <2>1. NextHook(s, k, me, me.todo) /\ cur \in Events /\ me.pc = "record"
      BY <1>0, <1>8 DEF RecordWebhookDelivery, RunShape
    <2>2. me.hook \in acked[cur]
      BY <2>1 DEF DeliveryInv, RunsHonest, RunHonest
    <2>3. ~me.failed => owed'[cur] \subseteq acked'[cur] \cup me.todo
      BY <1>0, <1>1, <2>1, <2>2 DEF RunOwes
    <2>4. RunsOwe'
      BY <1>0, <1>2, <2>1, <2>3, OwedNextHook
    <2> QED BY <1>1, <1>8, <2>4, QuietWork, OwedKept
  <1> QED BY <1>3, <1>4, <1>5, <1>6, <1>7, <1>8 DEF Dispatch

(* Settling: only a round without a failure marks a record DELIVERED. *)
LEMMA OwedSettle ==
  ASSUME Single, TypeInv, RetryInv, SoloInv, OwedInv, exits = 0,
         NEW s \in Servers, NEW k \in Callers, MarkDelivered(s, k) \/ MarkFailed(s, k)
  PROVE  FirstLife' /\ RunsOwe' /\ Subscribers' /\ CompleteOnes'
  <1> DEFINE me == run[s][k]
             cur == run[s][k].cur
  <1>0. me.pc = "settle" /\ NextRecord(s, k) /\ UNCHANGED <<serverVars, stage, owed, acked>>
    BY DEF MarkDelivered, MarkFailed, eventVars
  <1>1. /\ me \in Run /\ cur \in Events /\ mongo[cur] \in Doc /\ mem[s][cur] \in Doc
        /\ RunHooks(me) /\ RunOwes(me, owed, acked)
    BY <1>0, SettledRecord DEF OwedInv, RunsOwe
  <1>2. FirstLife' /\ Subscribers'
    BY <1>0 DEF OwedInv, FirstLife, Subscribers, serverVars
  <1>3. RunsOwe'
    <2>1. PICK r \in Run :
            /\ SetRun(s, k, r)
            /\ busy' = [busy EXCEPT ![s] = r.pc # "idle"] \/ (busy' = busy /\ r.pc # "idle")
            /\ \/ r = IdleRun
               \/ r.pc = "pick" /\ r.live = me.live /\ r.todo = me.todo
            /\ r.batch \subseteq me.batch \ {cur}
            /\ \A e \in Events \ {cur} : e \in r.batch => r.seen[e] = me.seen[e]
            /\ \A e \in Events : r.seen[e] \in {NoDoc, me.seen[e]}
      BY <1>0, <1>1, NextRecordIs DEF TypeInv
    <2>2. RunHooks(r) /\ RunOwes(r, owed', acked')
      <3>1. CASE r = IdleRun
        BY <3>1, IdleOwes
      <3>2. CASE r.pc = "pick" /\ r.todo = me.todo
        BY <1>1, <3>2 DEF RunHooks, RunOwes
      <3> QED BY <2>1, <3>1, <3>2
    <2> QED BY <1>0, <2>1, <2>2, OthersAside, RunsStayOwed DEF OwedInv, RetryInv
  <1>4. PICK a, b :
           /\ WriteBoth(s, cur, a, b)
           /\ \/ a.status # "DELIVERED" /\ b.status # "DELIVERED"
              \/ owed[cur] \subseteq acked[cur]
              \/ a = mongo[cur] /\ b.status # "DELIVERED"
              \/ b = mem[s][cur] /\ a.status # "DELIVERED"
    <2>1. CASE MarkDelivered(s, k)
      BY <1>0, <1>1, <2>1 DEF MarkDelivered, RunOwes
    <2>2. CASE MarkFailed(s, k)
      <3> DEFINE x == MaxExceeded(s, k)
                 a == Failed(mongo[cur], x)
                 b == Failed(mem[s][cur], x)
      <3>1. x \in BOOLEAN
        BY DEF MaxExceeded
      <3>2. WriteBoth(s, cur, a, b)
        BY <2>2 DEF MarkFailed
      <3> HIDE DEF x
      <3>3. \A d \in Doc : Failed(d, x).status # "DELIVERED" \/ Failed(d, x) = d
        <4>1. Verdict(x) # "DELIVERED"
          BY DEF Verdict
        <4> QED BY <3>1, <4>1, FailedIs DEF Follows
      <3>4. MarkedDelivered(cur) => owed[cur] \subseteq acked[cur]
        BY <1>1 DEF OwedInv, CompleteOnes
      <3>5. (a.status # "DELIVERED" \/ a = mongo[cur]) /\ (b.status # "DELIVERED" \/ b = mem[s][cur])
        BY <1>1, <3>3
      <3> QED BY <1>1, <3>2, <3>4, <3>5 DEF MarkedDelivered
    <2> QED BY <2>1, <2>2
  <1>5. CompleteOnes'
    <2>1. ASSUME NEW d \in Events, MarkedDelivered(d)' PROVE owed[d] \subseteq acked[d]
      <3>1. MarkedDelivered(d) \/ d = cur
        BY <1>1, <1>4, <2>1, WriteBothIs DEF MarkedDelivered
      <3>2. d = cur => MarkedDelivered(cur) \/ owed[cur] \subseteq acked[cur]
        BY <1>1, <1>4, <2>1, WriteBothIs DEF MarkedDelivered
      <3> QED BY <3>1, <3>2 DEF OwedInv, CompleteOnes
    <2> QED BY <1>0, <2>1 DEF CompleteOnes
  <1> QED BY <1>2, <1>3, <1>5

LEMMA OwedStudio ==
  ASSUME Single, TypeInv, RetryInv, OwedInv, exits = 0, NEW s \in Servers, Studio(s)
  PROVE  FirstLife' /\ RunsOwe' /\ Subscribers' /\ CompleteOnes'
  <1>0. /\ UNCHANGED <<alive, polling, run, stage, acked>> /\ QuietDocs
        /\ \A e \in Events : owed'[e] \subseteq owed[e]
    <2>1. UNCHANGED <<alive, polling, run, stage, acked>>
      BY DEF Studio, RegisterWebhook, UnregisterWebhook, workerVars, eventVars
    <2>2. owed' = owed \/ \E h : owed' = [e \in Events |-> owed[e] \ {h}]
      BY DEF Studio, RegisterWebhook, UnregisterWebhook, eventVars
    <2> QED BY <2>1, <2>2, QuietProcess
  <1>1. RunsOwe'
    BY <1>0, RunsOweOn DEF OwedInv
  <1>2. CompleteOnes'
    <2>1. ASSUME NEW d \in Events, MarkedDelivered(d)' PROVE owed'[d] \subseteq acked[d]
      <3>1. MarkedDelivered(d)
        BY <1>0, <2>1, QuietMarks
      <3> QED BY <1>0, <3>1 DEF OwedInv, CompleteOnes
    <2> QED BY <1>0, <2>1 DEF CompleteOnes
  <1>3. ASSUME NEW u \in Managed, RegisterWebhook(s, u) PROVE FirstLife' /\ Subscribers'
    <2>1. [url |-> u, at |-> s, gen |-> gen[s] + 1] \in Hooks
      <3>1. u \in Urls /\ gen[s] \in Nat /\ gen[s] < MaxGen
        BY <1>3, UrlsAssumption DEF RegisterWebhook, TypeInv, TypeOK
      <3>2. gen[s] + 1 \in 1 .. (MaxGen + MaxExits + 1)
        BY <3>1, SizesAssumption
      <3> QED BY <3>1, <3>2 DEF Hooks
    <2>2. /\ registry'[s] = registry[s] \cup {[url |-> u, at |-> s, gen |-> gen[s] + 1]}
          /\ gen'[s] = gen[s] + 1 /\ gen[s] < MaxGen /\ alive[s] /\ owed' = owed
      BY <1>3 DEF RegisterWebhook, eventVars, TypeInv, TypeOK
    <2>3. FirstLife'
      <3>1. ASSUME NEW t \in Servers
            PROVE  /\ alive[t] => polling[t]
                   /\ ~alive[t] => gen'[t] = 0
                   /\ gen'[t] <= MaxGen + 1
                   /\ registry'[t] \subseteq Hooks
        <4>1. t = s
          BY DEF Single
        <4>2. gen[s] + 1 <= MaxGen + 1
          BY <2>2, SizesAssumption DEF TypeInv, TypeOK
        <4> QED BY <2>1, <2>2, <4>1, <4>2 DEF OwedInv, FirstLife
      <3> QED BY <1>0, <3>1 DEF FirstLife
    <2>4. Subscribers'
      <3>1. \A t \in Servers : registry[t] \subseteq registry'[t]
        BY <2>2 DEF Single
      <3> QED BY <1>0, <2>2, <3>1 DEF OwedInv, Subscribers
    <2> QED BY <2>3, <2>4
  <1>4. ASSUME NEW h \in registry[s], UnregisterWebhook(s, h) PROVE FirstLife' /\ Subscribers'
    <2>1. /\ \A t \in Servers : registry'[t] = registry[t] \ {h}
          /\ gen' = gen /\ \A e \in Events : owed'[e] = owed[e] \ {h}
      <3>1. registry' = [registry EXCEPT ![s] = @ \ {h}] /\ gen' = gen
            /\ owed' = [e \in Events |-> owed[e] \ {h}]
        BY <1>4 DEF UnregisterWebhook
      <3> QED BY <3>1 DEF Single, TypeInv, TypeOK
    <2> QED BY <1>0, <2>1 DEF OwedInv, FirstLife, Subscribers
  <1> QED BY <1>1, <1>2, <1>3, <1>4 DEF Studio

(* The first boot finds nothing emitted; an exit ends the first life. *)
LEMMA OwedProcess ==
  ASSUME Single, TypeInv, RetryInv, OwedInv, exits = 0, exits' = 0,
         NEW s \in Servers, Process(s)
  PROVE  FirstLife' /\ RunsOwe' /\ Subscribers' /\ CompleteOnes'
  <1>1. ~Drain(s) /\ ~Exit(s)
    BY DEF Drain, Exit, OwedInv, FirstLife
  <1>2. CASE Connect(s) \/ Disconnect(s)
    <2>1. UNCHANGED <<alive, polling, registry, gen, run, stage, owed, acked>>
      BY <1>2 DEF Connect, Disconnect, workerVars, eventVars
    <2>2. RunsOwe'
      BY <2>1, RunsOweOn DEF OwedInv
    <2>3. FirstLife' /\ Subscribers'
      BY <2>1 DEF OwedInv, FirstLife, Subscribers
    <2>4. CompleteOnes'
      BY <2>1, QuietProcess, QuietMarks DEF OwedInv, CompleteOnes
    <2> QED BY <2>2, <2>3, <2>4
  <1>3. CASE Boot(s)
    <2>1. /\ UNCHANGED <<run, stage, owed, acked>> /\ ~alive[s]
          /\ alive'[s] /\ polling'[s] /\ gen'[s] = gen[s] + 1
          /\ registry'[s] = {[url |-> u, at |-> s, gen |-> gen[s] + 1] : u \in EnvUrls}
      BY <1>3 DEF Boot, workerVars, eventVars, TypeInv, TypeOK
    <2>2. gen[s] = 0
      BY <2>1 DEF OwedInv, FirstLife
    <2>3. registry'[s] \subseteq Hooks
      <3>1. 1 \in 1 .. (MaxGen + MaxExits + 1) /\ EnvUrls \subseteq Urls
        BY SizesAssumption, UrlsAssumption
      <3> QED BY <2>1, <2>2, <3>1 DEF Hooks
    <2>4. FirstLife'
      <3>1. gen'[s] <= MaxGen + 1
        BY <2>1, <2>2, SizesAssumption
      <3> QED BY <2>1, <2>3, <3>1 DEF Single, FirstLife
    <2>5. Subscribers'
      <3>1. \A e \in Events : stage[e] = "absent" /\ owed[e] = {}
        BY <2>1 DEF OwedInv, Subscribers
      <3> QED BY <2>1, <3>1 DEF Subscribers
    <2>6. RunsOwe'
      BY <2>1, RunsOweOn DEF OwedInv
    <2>7. CompleteOnes'
      BY <1>3, <2>1, QuietProcess, QuietMarks DEF OwedInv, CompleteOnes, Process
    <2> QED BY <2>4, <2>5, <2>6, <2>7
  <1> QED BY <1>1, <1>2, <1>3 DEF Process

LEMMA OwedStep ==
  Single /\ TypeInv /\ RetryInv /\ DeliveryInv /\ SoloInv /\ OwedInv /\ [Next]_vars => OwedInv'
  <1> SUFFICES ASSUME Single, TypeInv, RetryInv, DeliveryInv, SoloInv, OwedInv, [Next]_vars,
                      exits' = 0
               PROVE  FirstLife' /\ RunsOwe' /\ Subscribers' /\ CompleteOnes'
    BY DEF OwedInv
  <1>0. exits = 0
    BY ExitsBefore
  <1>1. CASE UNCHANGED vars
    BY <1>0, <1>1 DEF vars, OwedInv, FirstLife, RunsOwe, Subscribers, CompleteOnes,
                      MarkedDelivered
  <1>2. CASE Next
    <2>1. ASSUME NEW e \in Events, Enqueue(e) \/ Backoff(e)
          PROVE  FirstLife' /\ RunsOwe' /\ Subscribers' /\ CompleteOnes'
      BY <1>0, <2>1, OwedEnqueue, OwedBackoff
    <2>2. ASSUME NEW s \in Servers, Tick(s) \/ Kick(s) \/ Studio(s) \/ Process(s)
          PROVE  FirstLife' /\ RunsOwe' /\ Subscribers' /\ CompleteOnes'
      BY <1>0, <2>2, OwedStartRun, OwedStudio, OwedProcess
    <2>3. ASSUME NEW s \in Servers, NEW k \in Callers, Work(s, k)
          PROVE  FirstLife' /\ RunsOwe' /\ Subscribers' /\ CompleteOnes'
      BY <1>0, <2>3, OwedWork, OwedSettle DEF Work
    <2> QED BY <1>2, <2>1, <2>2, <2>3 DEF Next
  <1> QED BY <1>1, <1>2

LEMMA OwedInvariant ==
  ASSUME Single
  PROVE  Spec => [](TypeInv /\ RetryInv /\ DeliveryInv /\ SoloInv /\ OwedInv)
  <1>1. TypeInv /\ RetryInv /\ DeliveryInv /\ SoloInv /\ OwedInv /\ [Next]_vars => OwedInv'
    BY OwedStep
  <1>2. Spec => [](TypeInv /\ RetryInv /\ SoloInv)
    BY SoloInvariant
  <1> QED BY <1>1, <1>2, DeliveryInvariant, OwedInit, PTL DEF Spec

(* With one server that has not exited, an event marked DELIVERED has been   *)
(* acknowledged by every webhook that was subscribed when it was emitted    *)
(* and has not been removed since, through faults and disconnections.       *)
THEOREM DeliveredUntilExit ==
  ASSUME Single
  PROVE  Spec => [](exits = 0 => DeliveredMeansReceived)
  <1>1. OwedInv /\ exits = 0 => DeliveredMeansReceived
    BY DEF OwedInv, CompleteOnes, DeliveredMeansReceived, Received
  <1> QED BY <1>1, OwedInvariant, PTL
-----------------------------------------------------------------------------
(* No webhook is called twice while nothing fails. *)

(* A document goes on with what it has on record, or comes before anything  *)
(* was acknowledged.                                                        *)
Keeps(d, f, ac) ==
    /\ Present(d) => Present(f)
    /\ Present(f) => \/ ac = {}
                     \/ Present(d) /\ d.delivered \subseteq f.delivered

DocsKeep ==
    \A e \in Events : /\ Keeps(mongo[e], mongo'[e], acked[e])
                      /\ \A s \in Servers : Keeps(mem[s][e], mem'[s][e], acked[e])

LEMMA FollowsKeeps ==
  ASSUME NEW d, NEW f, NEW ac, Follows(d, f) \/ d = f
  PROVE  Keeps(d, f, ac)
  BY DEF Follows, Keeps

LEMMA FreshKeeps ==
  ASSUME NEW d
  PROVE  Keeps(d, Fresh, {})
  BY NoDocFields DEF Keeps

LEMMA RecordGoesOn ==
  ASSUME AllOnRecord, DocsKeep, acked' = acked, run' = run
  PROVE  AllOnRecord'
  BY DEF AllOnRecord, OnRecord, DocsKeep, Keeps

(* Unless someone is about to record an answer, every answer is recorded. *)
LEMMA WhollyRecorded ==
  ASSUME Single, AllOnRecord, NEW s \in Servers, NEW k \in Callers, Aside(s, k),
         run[s][k].pc # "record"
  PROVE  \A e \in Events :
            /\ Present(mongo[e]) => acked[e] \subseteq mongo[e].delivered
            /\ \A t \in Servers : Present(mem[t][e]) => acked[e] \subseteq mem[t][e].delivered
  <1>1. \A t \in Servers, j \in Callers : run[t][j].pc # "record"
    BY DEF Single, Aside
  <1> QED BY <1>1 DEF AllOnRecord, OnRecord

LEMMA RecordStays ==
  ASSUME Single, AllOnRecord, DocsKeep, acked' = acked,
         NEW s \in Servers, NEW k \in Callers, Aside(s, k), run[s][k].pc # "record"
  PROVE  AllOnRecord'
  <1>1. \A e \in Events :
            /\ Present(mongo'[e]) => acked[e] \subseteq mongo'[e].delivered
            /\ \A t \in Servers : Present(mem'[t][e]) => acked[e] \subseteq mem'[t][e].delivered
            /\ ~Present(mongo'[e]) /\ (\A t \in Servers : ~Present(mem'[t][e])) => acked[e] = {}
    BY WhollyRecorded DEF DocsKeep, Keeps, AllOnRecord
  <1> QED BY <1>1 DEF AllOnRecord, OnRecord

(* A run that needs MongoDB has its connection. *)
NeedsMongo(r) == r.pc = "query" \/ (r.pc # "idle" /\ ~r.live)

LEMMA OnceParts ==
  RunsOnce <=> \A s \in Servers, k \in Callers :
                  RunOnce(run[s][k], acked) /\ (NeedsMongo(run[s][k]) => connected[s])
  BY DEF RunsOnce, NeedsMongo

LEMMA OncePartsNext ==
  RunsOnce' <=> \A s \in Servers, k \in Callers :
                  RunOnce(run'[s][k], acked') /\ (NeedsMongo(run'[s][k]) => connected'[s])
  BY DEF RunsOnce, NeedsMongo

LEMMA RunsStayOnce ==
  ASSUME Single, TypeInv, RetryInv, NEW s \in Servers, NEW k \in Callers, Aside(s, k),
         NEW r \in Run, SetRun(s, k, r), RunOnce(r, acked'),
         NeedsMongo(r) => connected'[s]
  PROVE  RunsOnce'
  <1>1. ASSUME NEW t \in Servers, NEW j \in Callers
        PROVE  RunOnce(run'[t][j], acked') /\ (NeedsMongo(run'[t][j]) => connected'[t])
    <2>1. t = s
      BY DEF Single
    <2>2. CASE j = k
      BY <2>1, <2>2, SetRunIs
    <2>3. CASE j # k
      <3>1. run'[t][j] = run[s][j] /\ run[s][j].pc = "idle"
        BY <2>1, <2>3, SetRunIs DEF Aside
      <3>2. run[s][j].batch = {}
        BY <3>1 DEF RetryInv, RunsFit, RunFits
      <3> QED BY <3>1, <3>2 DEF RunOnce, NeedsMongo
    <2> QED BY <2>2, <2>3
  <1> QED BY <1>1, OncePartsNext

LEMMA OnceStill ==
  ASSUME RunsOnce, run' = run, acked' = acked,
         \A s \in Servers : connected[s] => connected'[s]
  PROVE  RunsOnce'
  BY DEF RunsOnce

LEMMA IdleOnce == ASSUME NEW ac PROVE RunOnce(IdleRun, ac) /\ ~NeedsMongo(IdleRun)
  BY IdleRunFields DEF RunOnce, NeedsMongo

(* Turning to the next webhook. *)
LEMMA NextHookOnce ==
  ASSUME Single, TypeInv, RetryInv, NEW s \in Servers, NEW k \in Callers,
         run[s][k].pc # "idle", NEW rec \in Run, rec.cur \in Events,
         NEW rest \in SUBSET Hook, NextHook(s, k, rec, rest),
         rest \cap acked'[rec.cur] = {},
         ~rec.live => \A e \in rec.batch \ {rec.cur} : acked'[e] \subseteq rec.seen[e].delivered,
         ~rec.live => connected'[s]
  PROVE  RunsOnce'
  <1>1. PICK r \in Run :
            /\ SetRun(s, k, r)
            /\ r.cur = rec.cur /\ r.seen = rec.seen
            /\ r.batch = rec.batch /\ r.live = rec.live
            /\ \/ r.pc = "settle" /\ rest = {}
               \/ r.pc = "send" /\ r.hook \in rest /\ r.todo = rest \ {r.hook}
    BY NextHookType DEF TypeInv
  <1>2. RunOnce(r, acked')
    BY <1>1 DEF RunOnce
  <1>3. NeedsMongo(r) => connected'[s]
    BY <1>1 DEF NeedsMongo
  <1>4. Aside(s, k)
    BY OthersAside DEF RetryInv
  <1> QED BY <1>1, <1>2, <1>3, <1>4, RunsStayOnce

LEMMA OnceInit == Init => OnceInv
  <1> SUFFICES ASSUME Init PROVE RunsOnce /\ AllOnRecord
    BY DEF OnceInv
  <1>1. RunsOnce
    BY IdleOnce, OnceParts DEF Init
  <1>2. AllOnRecord
    BY NoDocFields DEF Init, AllOnRecord, OnRecord
  <1> QED BY <1>1, <1>2

(* What OnceInv asks of a step before the first failed operation and exit. *)
Calm == faults = 0 /\ exits = 0

LEMMA CalmStep ==
  ASSUME TypeInv, OwedInv, [Next]_vars, Calm'
  PROVE  /\ Calm /\ ~Fault
         /\ \A s \in Servers : connected[s] => connected'[s]
         /\ \A s \in Servers : ~Exit(s) /\ ~Drain(s) /\ ~Disconnect(s)
  <1>1. ~Fault
    BY DEF Fault, Calm, TypeInv, TypeOK
  <1>2. faults' = faults
    <2>1. ASSUME NEW e \in Events, Enqueue(e) \/ Backoff(e) PROVE faults' = faults
      BY <1>1, <2>1 DEF Enqueue, Emit, CreateLands, CreateResolves, CreateRejects, Backoff,
                        BackoffElapsesInMongo, BackoffElapsesInMemory
    <2>2. ASSUME NEW s \in Servers, Tick(s) \/ Kick(s) \/ Studio(s) \/ Process(s)
          PROVE  faults' = faults
      BY <1>1, <2>2 DEF Tick, Kick, Studio, RegisterWebhook, UnregisterWebhook, Process,
                        Boot, Connect, Disconnect, Drain, Exit
    <2>3. ASSUME NEW s \in Servers, NEW k \in Callers, Work(s, k) PROVE faults' = faults
      BY <1>1, <2>3 DEF Work, Dispatch, QueryReturns, Pick, DispatchSucceeds, DispatchFails,
                  DispatchThrows, RecordWebhookDelivery, MarkDelivered, MarkFailed, WriteBoth
    <2> QED BY <2>1, <2>2, <2>3 DEF Next, vars
  <1>3. Calm
    BY <1>2, ExitsBefore DEF Calm
  <1>4. ASSUME NEW s \in Servers PROVE ~Exit(s) /\ ~Drain(s) /\ ~Disconnect(s)
    BY <1>1, <1>3 DEF Calm, Exit, Drain, Disconnect, OwedInv, FirstLife
  <1>5. \A s \in Servers : connected[s] => connected'[s]
    <2>1. ASSUME NEW e \in Events, Enqueue(e) \/ Backoff(e) PROVE connected' = connected
      BY <2>1 DEF Enqueue, Emit, CreateLands, CreateResolves, CreateRejects, Backoff,
                  BackoffElapsesInMongo, BackoffElapsesInMemory, serverVars
    <2>2. ASSUME NEW s \in Servers, Tick(s) \/ Kick(s) \/ Studio(s) \/ Boot(s)
          PROVE  connected' = connected
      BY <2>2 DEF Tick, Kick, Studio, RegisterWebhook, UnregisterWebhook, Boot, serverVars
    <2>3. ASSUME NEW s \in Servers, NEW k \in Callers, Work(s, k) PROVE connected' = connected
      BY <2>3 DEF Work, Dispatch, QueryReturns, Pick, DispatchSucceeds, DispatchFails,
                  DispatchThrows, RecordWebhookDelivery, MarkDelivered, MarkFailed, serverVars
    <2>4. ASSUME NEW s \in Servers, Connect(s)
          PROVE  \A t \in Servers : connected[t] => connected'[t]
      BY <2>4 DEF Connect, TypeInv, TypeOK
    <2> QED BY <1>4, <2>1, <2>2, <2>3, <2>4 DEF Next, Process, vars
  <1> QED BY <1>1, <1>3, <1>4, <1>5

LEMMA OnceEnqueue ==
  ASSUME TypeInv, RetryInv, RunsOnce, AllOnRecord, ~Fault, NEW e \in Events, Enqueue(e)
  PROVE  RunsOnce' /\ AllOnRecord'
  <1>1. UNCHANGED <<run, acked, connected>>
    BY DEF Enqueue, Emit, CreateLands, CreateResolves, CreateRejects, workerVars, serverVars
  <1>2. DocsKeep
    <2>1. ASSUME NEW s \in Servers, Emit(s, e) PROVE DocsKeep
      <3>1. stage[e] = "absent" /\ mongo' = mongo /\ (mem' = mem \/ StoreInMemory(s, e))
        BY <2>1 DEF Emit, storeVars
      <3>2. acked[e] = {}
        BY <3>1 DEF RetryInv, Placed, AllOnRecord
      <3>3. \A t \in Servers, d \in Events :
               mem'[t][d] = mem[t][d] \/ (d = e /\ mem'[t][d] = Fresh)
        BY <3>1, StoreInMemoryIs
      <3>4. \A t \in Servers, d \in Events : Keeps(mem[t][d], mem'[t][d], acked[d])
        BY <3>2, <3>3, FreshKeeps, FollowsKeeps
      <3> QED BY <3>1, <3>4, FollowsKeeps DEF DocsKeep
    <2>2. CASE CreateLands(e)
      <3>1. /\ stage[e] \in {"creating", "orphaned"} /\ ~Present(mongo[e]) /\ mem' = mem
            /\ \A d \in Events : mongo'[d] = IF d = e THEN Fresh ELSE mongo[d]
        BY <2>2 DEF CreateLands, TypeInv, TypeOK
      <3>2. acked[e] = {}
        BY <3>1 DEF RetryInv, Placed, AllOnRecord
      <3>3. \A d \in Events : Keeps(mongo[d], mongo'[d], acked[d])
        BY <3>1, <3>2, FreshKeeps, FollowsKeeps
      <3> QED BY <3>1, <3>3, FollowsKeeps DEF DocsKeep
    <2>3. CASE CreateResolves(e)
      BY <2>3, FollowsKeeps DEF CreateResolves, storeVars, DocsKeep
    <2> QED BY <2>1, <2>2, <2>3 DEF Enqueue, CreateRejects
  <1> QED BY <1>1, <1>2, OnceStill, RecordGoesOn

LEMMA OnceBackoff ==
  ASSUME TypeInv, RunsOnce, AllOnRecord, NEW e \in Events, Backoff(e)
  PROVE  RunsOnce' /\ AllOnRecord'
  <1>1. UNCHANGED <<run, acked, connected>>
    BY DEF Backoff, BackoffElapsesInMongo, BackoffElapsesInMemory, workerVars, serverVars
  <1>2. DocsKeep
    BY BackoffIs, FollowsKeeps DEF DocsKeep
  <1> QED BY <1>1, <1>2, OnceStill, RecordGoesOn

LEMMA OnceStudio ==
  ASSUME RunsOnce, AllOnRecord, NEW s \in Servers, Studio(s) \/ Boot(s) \/ Connect(s),
         \A t \in Servers : connected[t] => connected'[t]
  PROVE  RunsOnce' /\ AllOnRecord'
  <1>1. UNCHANGED <<run, acked, mongo, mem>>
    BY DEF Studio, RegisterWebhook, UnregisterWebhook, Boot, Connect, workerVars, storeVars
  <1>2. DocsKeep
    BY <1>1, FollowsKeeps DEF DocsKeep
  <1> QED BY <1>1, <1>2, OnceStill, RecordGoesOn

LEMMA OnceStartRun ==
  ASSUME Single, TypeInv, RetryInv, RunsOnce, AllOnRecord,
         NEW s \in Servers, Tick(s) \/ Kick(s)
  PROVE  RunsOnce' /\ AllOnRecord'
  <1>1. UNCHANGED <<connected, acked, mongo, mem>>
    BY DEF Tick, Kick, storeVars, serverVars
  <1>2. DocsKeep
    BY <1>1, FollowsKeeps DEF DocsKeep
  <1>3. ASSUME NEW k \in Callers, StartRun(s, k) PROVE RunsOnce' /\ AllOnRecord'
    <2>1. PICK r \in Run :
            /\ SetRun(s, k, r)
            /\ busy' = [busy EXCEPT ![s] = r.pc # "idle"]
            /\ r.pc \in {"idle", "query", "pick"}
            /\ (r.pc = "pick" => r.live) /\ (r.pc = "query" => connected[s])
            /\ r.pc \in {"idle", "query"} => r.batch = {}
            /\ \A e \in r.batch : e \in Events /\ Ready(mem[s][e])
            /\ r.seen = [e \in Events |-> NoDoc] /\ r.todo = {}
      BY <1>3, StartRunIs DEF TypeInv
    <2>2. Aside(s, k) /\ run[s][k].pc = "idle"
      BY <1>3, OthersAside DEF StartRun, RetryInv
    <2>3. RunOnce(r, acked') /\ (NeedsMongo(r) => connected'[s])
      BY <1>1, <2>1 DEF RunOnce, NeedsMongo
    <2>4. RunsOnce'
      BY <2>1, <2>2, <2>3, RunsStayOnce
    <2> QED BY <1>1, <1>2, <2>2, <2>4, RecordStays
  <1>4. ASSUME UNCHANGED workerVars PROVE RunsOnce' /\ AllOnRecord'
    BY <1>1, <1>2, <1>4, OnceStill, RecordGoesOn DEF workerVars
  <1> QED BY <1>3, <1>4 DEF Tick, Kick, Callers

(* An answer is recorded before anything else is sent. *)
LEMMA OnceWork ==
  ASSUME Single, TypeInv, RetryInv, RunsOnce, AllOnRecord, ~Fault, Apart,
         NEW s \in Servers, NEW k \in Callers,
         \/ QueryReturns(s, k) \/ Pick(s, k) \/ Dispatch(s, k)
         \/ RecordWebhookDelivery(s, k)
  PROVE  RunsOnce' /\ AllOnRecord'
  <1> DEFINE me == run[s][k]
             cur == run[s][k].cur
  <1>0. /\ me \in Run /\ RunShape(me) /\ me.batch \subseteq Events
        /\ RunOnce(me, acked) /\ (NeedsMongo(me) => connected[s])
        /\ me.todo \in SUBSET Hook /\ RunFits(me, mongo, mem[s])
    BY OnceParts DEF TypeInv, TypeOK, ShapeOK, Run, RetryInv, RunsFit
  <1>1. UNCHANGED connected
    BY DEF QueryReturns, Pick, Dispatch, DispatchSucceeds, DispatchFails, DispatchThrows,
           RecordWebhookDelivery, serverVars
  <1>2. me.pc # "idle" /\ Aside(s, k)
    <2>1. me.pc # "idle"
      BY DEF QueryReturns, Pick, Dispatch, DispatchSucceeds, DispatchFails,
             DispatchThrows, RecordWebhookDelivery
    <2> QED BY <2>1, OthersAside DEF RetryInv
  <1>3. ASSUME UNCHANGED <<mongo, mem, acked>>, me.pc # "record" PROVE AllOnRecord'
    <2>1. DocsKeep
      BY <1>3, FollowsKeeps DEF DocsKeep
    <2> QED BY <1>2, <1>3, <2>1, RecordStays
  <1>4. CASE QueryReturns(s, k)
    <2>0. UNCHANGED <<mongo, mem, acked>> /\ me.pc = "query"
      BY <1>4 DEF QueryReturns, storeVars
    <2>1. PICK r \in Run :
            /\ SetRun(s, k, r)
            /\ busy' = [busy EXCEPT ![s] = r.pc # "idle"] \/ (busy' = busy /\ r.pc # "idle")
            /\ r.pc \in {"idle", "pick"} /\ (r.pc = "idle" => r.batch = {})
            /\ r.live => \A e \in r.batch : e \in Events /\ Ready(mem[s][e])
            /\ ~r.live => \A e \in r.batch :
                  e \in Events /\ Ready(mongo[e]) /\ r.seen[e] = mongo[e]
            /\ \A e \in Events : r.seen[e] \in {NoDoc, mongo[e]}
            /\ r.todo = {}
            /\ faults' = faults \/ Fault
            /\ r.pc = "pick" /\ ~r.live => run[s][k].pc = "query"
      BY <1>4, QueryReturnsIs DEF TypeInv
    <2>2. ~r.live => \A e \in r.batch : acked[e] \subseteq r.seen[e].delivered
      BY <1>2, <2>0, <2>1, WhollyRecorded DEF Ready, Present
    <2>3. RunOnce(r, acked')
      BY <2>0, <2>1, <2>2 DEF RunOnce
    <2>4. NeedsMongo(r) => connected'[s]
      BY <1>0, <1>1, <2>0 DEF NeedsMongo
    <2> QED BY <1>2, <1>3, <2>0, <2>1, <2>3, <2>4, RunsStayOnce
  <1>5. CASE Pick(s, k)
    <2>1. PICK e \in me.batch :
             NextHook(s, k, [me EXCEPT !.cur = e, !.failed = FALSE],
                      HooksFor(s, e) \ Record(s, k, e).delivered)
      BY <1>5 DEF Pick
    <2> DEFINE rec == [me EXCEPT !.cur = e, !.failed = FALSE]
               rest == HooksFor(s, e) \ Record(s, k, e).delivered
    <2>2. /\ e \in Events /\ rest \in SUBSET Hook /\ me.pc = "pick"
          /\ UNCHANGED <<mongo, mem, acked>>
      BY <1>0, <1>5, HooksType DEF TypeInv, Pick, storeVars
    <2>3. /\ rec \in Run /\ rec.cur = e /\ rec.batch = me.batch
          /\ rec.live = me.live /\ rec.seen = me.seen
      BY <1>0, <2>2 DEF Run
    <2>4. NextHook(s, k, rec, rest)
      BY <2>1
    <2>5. acked[e] \subseteq Record(s, k, e).delivered
      <3>1. CASE me.live
        <4>1. Present(mem[s][e])
          BY <1>0, <3>1 DEF RunFits, Present
        <4> QED BY <1>2, <2>2, <3>1, <4>1, WhollyRecorded DEF Record
      <3>2. CASE ~me.live
        BY <1>0, <2>2, <3>2 DEF Record, RunOnce
      <3> QED BY <3>1, <3>2
    <2>6. rest \cap acked'[e] = {}
      BY <2>2, <2>5
    <2>7. ~me.live => \A d \in me.batch : acked'[d] \subseteq me.seen[d].delivered
      BY <1>0, <2>2 DEF RunOnce
    <2>8. ~me.live => connected'[s]
      BY <1>0, <1>1, <1>2 DEF NeedsMongo
    <2> HIDE DEF rec, rest
    <2>9. RunsOnce'
      BY <1>2, <2>2, <2>3, <2>4, <2>6, <2>7, <2>8, NextHookOnce
    <2> QED BY <1>3, <2>2, <2>9
  <1>6. CASE DispatchSucceeds(s, k)
    <2> DEFINE r == [me EXCEPT !.pc = "record"]
    <2>1. /\ r \in Run /\ r.pc = "record" /\ r.cur = cur /\ r.todo = me.todo
          /\ r.hook = me.hook /\ r.batch = me.batch /\ r.live = me.live /\ r.seen = me.seen
      BY <1>0 DEF Run
    <2>2. /\ SetRun(s, k, r) /\ me.pc = "send" /\ cur \in Events
          /\ UNCHANGED <<mongo, mem>>
      BY <1>0, <1>6 DEF DispatchSucceeds, storeVars, RunShape
    <2>3. \A e \in Events : acked'[e] = IF e = cur THEN acked[e] \cup {me.hook} ELSE acked[e]
      BY <1>6 DEF DispatchSucceeds, TypeInv, TypeOK
    <2>4. me.hook \notin me.todo /\ me.todo \cap acked[cur] = {}
      BY <1>0, <2>2 DEF RunOnce
    <2> HIDE DEF r
    <2>5. RunOnce(r, acked')
      <3>1. ~r.live => \A e \in r.batch : e # cur => acked'[e] \subseteq r.seen[e].delivered
        BY <1>0, <2>1, <2>2, <2>3 DEF RunOnce
      <3>2. r.todo \cap acked'[cur] = {}
        BY <2>1, <2>2, <2>3, <2>4
      <3> QED BY <2>1, <2>4, <3>1, <3>2 DEF RunOnce
    <2>6. NeedsMongo(r) => connected'[s]
      BY <1>0, <1>1, <2>1, <2>2 DEF NeedsMongo
    <2>7. RunsOnce'
      BY <1>2, <2>1, <2>2, <2>5, <2>6, RunsStayOnce
    <2>8. run'[s][k].pc = "record" /\ run'[s][k].cur = cur /\ run'[s][k].hook = me.hook
      BY <2>1, <2>2, SetRunIs
    <2>9. Present(mongo[cur]) \/ Present(mem[s][cur])
      BY <1>0, <2>2 DEF RunFits, Present
    <2>10. ASSUME NEW e \in Events
           PROVE  /\ OnRecord(mongo[e], e)'
                  /\ \A t \in Servers : OnRecord(mem[t][e], e)'
                  /\ ~Present(mongo[e]) /\ (\A t \in Servers : ~Present(mem[t][e]))
                        => acked'[e] = {}
      <3>1. /\ Present(mongo[e]) => acked[e] \subseteq mongo[e].delivered
            /\ \A t \in Servers : Present(mem[t][e]) => acked[e] \subseteq mem[t][e].delivered
            /\ ~Present(mongo[e]) /\ (\A t \in Servers : ~Present(mem[t][e])) => acked[e] = {}
        BY <1>2, <2>2, WhollyRecorded DEF AllOnRecord
      <3>2. \A h \in acked'[e] : h \in acked[e] \/
               \E t \in Servers, j \in Callers :
                  run'[t][j].pc = "record" /\ run'[t][j].cur = e /\ run'[t][j].hook = h
        BY <2>3, <2>8
      <3>3. e # cur => acked'[e] = acked[e]
        BY <2>3
      <3> QED BY <2>2, <2>9, <3>1, <3>2, <3>3 DEF OnRecord
    <2> QED BY <2>2, <2>7, <2>10 DEF AllOnRecord
  <1>7. CASE DispatchFails(s, k)
    <2> DEFINE rec == [me EXCEPT !.failed = TRUE]
    <2>1. /\ rec \in Run /\ rec.cur = cur /\ rec.batch = me.batch
          /\ rec.live = me.live /\ rec.seen = me.seen
      BY <1>0 DEF Run
    <2>2. /\ NextHook(s, k, rec, me.todo) /\ cur \in Events /\ me.pc = "send"
          /\ UNCHANGED <<mongo, mem, acked>>
      BY <1>0, <1>7 DEF DispatchFails, RunShape, storeVars
    <2>3. /\ me.todo \cap acked'[cur] = {} /\ (~me.live => connected'[s])
          /\ ~me.live => \A e \in me.batch \ {cur} : acked'[e] \subseteq me.seen[e].delivered
      BY <1>0, <1>1, <2>2 DEF RunOnce, NeedsMongo
    <2> HIDE DEF rec
    <2>4. RunsOnce'
      BY <1>0, <1>2, <2>1, <2>2, <2>3, NextHookOnce
    <2> QED BY <1>3, <2>2, <2>4
  <1>8. CASE DispatchThrows(s, k)
    <2>1. SetRun(s, k, IdleRun) /\ UNCHANGED <<mongo, mem, acked>> /\ me.pc = "send"
      BY <1>8, EndRunIs DEF DispatchThrows, storeVars
    <2>2. RunsOnce'
      BY <1>2, <2>1, IdleOnce, IdleRunType, RunsStayOnce
    <2> QED BY <1>3, <2>1, <2>2
  <1>9. CASE RecordWebhookDelivery(s, k)
    <2>1. /\ NextHook(s, k, me, me.todo) /\ cur \in Events /\ me.pc = "record"
          /\ me.hook \in Hook /\ acked' = acked
          /\ WriteBoth(s, cur, Recorded(mongo[cur], me.hook), Recorded(mem[s][cur], me.hook))
      BY <1>0, <1>9 DEF RecordWebhookDelivery, RunShape
    <2>2. /\ me.todo \cap acked'[cur] = {} /\ (~me.live => connected'[s])
          /\ ~me.live => \A e \in me.batch \ {cur} : acked'[e] \subseteq me.seen[e].delivered
      BY <1>0, <1>1, <2>1 DEF RunOnce, NeedsMongo
    <2>3. RunsOnce'
      BY <1>0, <1>2, <2>1, <2>2, NextHookOnce
    <2>4. \A t \in Servers, j \in Callers : run[t][j].pc = "record" => t = s /\ j = k
      BY <1>2 DEF Single, Aside
    <2>5. \A e \in Events : e # cur => mongo'[e] = mongo[e]
      BY <2>1, WriteBothIs
    <2>6. \A t \in Servers, e \in Events :
             mem'[t][e] = IF t = s /\ e = cur THEN Recorded(mem[s][cur], me.hook) ELSE mem[t][e]
      BY <2>1, WriteBothIs
    <2>7. \/ mongo'[cur] = Recorded(mongo[cur], me.hook)
          \/ ~Present(mongo[cur]) /\ mongo'[cur] = mongo[cur]
      <3>1. ~me.live => connected[s]
        BY <1>0, <2>1 DEF NeedsMongo
      <3>2. me.live => ~Present(mongo[cur])
        BY <1>0, <2>1 DEF RetryInv, OneStore, RunFits, Present
      <3> QED BY <2>1, <3>1, <3>2, WriteBothIs
    <2>8. mongo[cur] \in Doc /\ mem[s][cur] \in Doc
      BY <2>1 DEF TypeInv, TypeOK
    <2>9. ASSUME NEW d \in Doc, OnRecord(d, cur)
          PROVE  /\ Present(d) <=> Present(Recorded(d, me.hook))
                 /\ Present(d) => acked[cur] \subseteq Recorded(d, me.hook).delivered
      <3>1. /\ Present(d) <=> Present(Recorded(d, me.hook))
            /\ Present(d) => Recorded(d, me.hook).delivered = d.delivered \cup {me.hook}
        BY <2>1, RecordedIs DEF Follows
      <3>2. Present(d) => acked[cur] \subseteq d.delivered \cup {me.hook}
        BY <2>4, <2>9 DEF OnRecord
      <3> QED BY <3>1, <3>2
    <2>10. ASSUME NEW e \in Events
           PROVE  /\ Present(mongo'[e]) => acked[e] \subseteq mongo'[e].delivered
                  /\ \A t \in Servers : Present(mem'[t][e]) => acked[e] \subseteq mem'[t][e].delivered
                  /\ ~Present(mongo'[e]) /\ (\A t \in Servers : ~Present(mem'[t][e]))
                        => acked[e] = {}
      <3>1. /\ OnRecord(mongo[e], e) /\ \A t \in Servers : OnRecord(mem[t][e], e)
            /\ ~Present(mongo[e]) /\ (\A t \in Servers : ~Present(mem[t][e])) => acked[e] = {}
        BY DEF AllOnRecord
      <3>2. CASE e # cur
        <4>1. /\ Present(mongo[e]) => acked[e] \subseteq mongo[e].delivered
              /\ \A t \in Servers : Present(mem[t][e]) => acked[e] \subseteq mem[t][e].delivered
          BY <2>4, <3>1, <3>2 DEF OnRecord
        <4> QED BY <2>5, <2>6, <3>1, <3>2, <4>1
      <3>3. CASE e = cur
        <4>1. /\ Present(mem[s][cur]) <=> Present(mem'[s][cur])
              /\ Present(mem'[s][cur]) => acked[cur] \subseteq mem'[s][cur].delivered
          BY <2>1, <2>6, <2>8, <2>9, <3>1, <3>3
        <4>2. /\ Present(mongo[cur]) <=> Present(mongo'[cur])
              /\ Present(mongo'[cur]) => acked[cur] \subseteq mongo'[cur].delivered
          BY <2>7, <2>8, <2>9, <3>1, <3>3
        <4> QED BY <3>1, <3>3, <4>1, <4>2 DEF Single
      <3> QED BY <3>2, <3>3
    <2>11. AllOnRecord'
      BY <2>1, <2>10 DEF AllOnRecord, OnRecord
    <2> QED BY <2>3, <2>11
  <1> QED BY <1>4, <1>5, <1>6, <1>7, <1>8, <1>9 DEF Dispatch

LEMMA OnceSettle ==
  ASSUME Single, TypeInv, RetryInv, SoloInv, RunsOnce, AllOnRecord,
         NEW s \in Servers, NEW k \in Callers, MarkDelivered(s, k) \/ MarkFailed(s, k)
  PROVE  RunsOnce' /\ AllOnRecord'
  <1> DEFINE me == run[s][k]
             cur == run[s][k].cur
  <1>0. me.pc = "settle" /\ NextRecord(s, k) /\ UNCHANGED <<connected, acked>>
    BY DEF MarkDelivered, MarkFailed, serverVars
  <1>1. /\ me \in Run /\ cur \in Events /\ mongo[cur] \in Doc /\ mem[s][cur] \in Doc
        /\ RunOnce(me, acked) /\ (NeedsMongo(me) => connected[s]) /\ me.batch \subseteq Events
    BY <1>0, SettledRecord, OnceParts DEF Run
  <1>2. Aside(s, k)
    BY <1>0, OthersAside DEF RetryInv
  <1>3. PICK r \in Run :
            /\ SetRun(s, k, r)
            /\ busy' = [busy EXCEPT ![s] = r.pc # "idle"] \/ (busy' = busy /\ r.pc # "idle")
            /\ \/ r = IdleRun
               \/ r.pc = "pick" /\ r.live = me.live /\ r.todo = me.todo
            /\ r.batch \subseteq me.batch \ {cur}
            /\ \A e \in Events \ {cur} : e \in r.batch => r.seen[e] = me.seen[e]
            /\ \A e \in Events : r.seen[e] \in {NoDoc, me.seen[e]}
    BY <1>0, <1>1, NextRecordIs DEF TypeInv
  <1>4. RunOnce(r, acked') /\ (NeedsMongo(r) => connected'[s])
    <2>1. CASE r = IdleRun
      BY <2>1, IdleOnce
    <2>2. CASE r.pc = "pick" /\ r.live = me.live
      <3>1. ~r.live => \A e \in r.batch : acked[e] \subseteq r.seen[e].delivered
        BY <1>1, <1>3, <2>2 DEF RunOnce
      <3> QED BY <1>0, <1>1, <2>2, <3>1 DEF RunOnce, NeedsMongo
    <2> QED BY <1>3, <2>1, <2>2
  <1>5. DocsKeep
    <2>1. PICK a, b : WriteBoth(s, cur, a, b) /\ Follows(mongo[cur], a) /\ Follows(mem[s][cur], b)
      <3>1. CASE MarkDelivered(s, k)
        BY <1>1, <3>1, DeliveredIs DEF MarkDelivered
      <3>2. CASE MarkFailed(s, k)
        <4>1. MaxExceeded(s, k) \in BOOLEAN
          BY DEF MaxExceeded
        <4> QED BY <1>1, <3>2, <4>1, FailedIs DEF MarkFailed
      <3> QED BY <3>1, <3>2
    <2>2. \A e \in Events : mongo'[e] = mongo[e] \/ Follows(mongo[e], mongo'[e])
      BY <1>1, <2>1, WriteBothIs
    <2>3. \A t \in Servers, e \in Events : mem'[t][e] = mem[t][e] \/ Follows(mem[t][e], mem'[t][e])
      BY <1>1, <2>1, WriteBothIs
    <2> QED BY <2>2, <2>3, FollowsKeeps DEF DocsKeep
  <1>6. RunsOnce'
    BY <1>2, <1>3, <1>4, RunsStayOnce
  <1>7. AllOnRecord'
    BY <1>0, <1>2, <1>5, RecordStays
  <1> QED BY <1>6, <1>7

LEMMA OnceStep ==
  Single /\ TypeInv /\ RetryInv /\ SoloInv /\ OwedInv /\ OnceInv /\ [Next]_vars => OnceInv'
  <1> SUFFICES ASSUME Single, TypeInv, RetryInv, SoloInv, OwedInv, OnceInv, [Next]_vars, Calm'
               PROVE  RunsOnce' /\ AllOnRecord'
    BY DEF OnceInv, Calm
  <1>0. /\ Calm /\ ~Fault /\ Apart /\ RunsOnce /\ AllOnRecord
        /\ \A s \in Servers : connected[s] => connected'[s]
        /\ \A s \in Servers : ~Exit(s) /\ ~Drain(s) /\ ~Disconnect(s)
    BY CalmStep DEF OnceInv, Calm, Apart
  <1>1. CASE UNCHANGED vars
    BY <1>0, <1>1 DEF vars, RunsOnce, AllOnRecord, OnRecord
  <1>2. CASE Next
    <2>1. ASSUME NEW e \in Events, Enqueue(e) \/ Backoff(e) PROVE RunsOnce' /\ AllOnRecord'
      BY <1>0, <2>1, OnceEnqueue, OnceBackoff
    <2>2. ASSUME NEW s \in Servers, Tick(s) \/ Kick(s) \/ Studio(s) \/ Process(s)
          PROVE  RunsOnce' /\ AllOnRecord'
      BY <1>0, <2>2, OnceStartRun, OnceStudio DEF Process
    <2>3. ASSUME NEW s \in Servers, NEW k \in Callers, Work(s, k)
          PROVE  RunsOnce' /\ AllOnRecord'
      BY <1>0, <2>3, OnceWork, OnceSettle DEF Work
    <2> QED BY <1>2, <2>1, <2>2, <2>3 DEF Next
  <1> QED BY <1>1, <1>2

LEMMA OnceInvariant ==
  ASSUME Single
  PROVE  Spec => [](TypeInv /\ RetryInv /\ SoloInv /\ OwedInv /\ OnceInv)
  <1>1. TypeInv /\ RetryInv /\ SoloInv /\ OwedInv /\ OnceInv /\ [Next]_vars => OnceInv'
    BY OnceStep
  <1>2. Spec => [](TypeInv /\ RetryInv /\ DeliveryInv /\ SoloInv /\ OwedInv)
    BY OwedInvariant
  <1> QED BY <1>1, <1>2, OnceInit, PTL DEF Spec

(* With one server, while every MongoDB operation takes effect and the       *)
(* process does not stop, a webhook is not called again for an event once   *)
(* it answered 2xx to it.                                                   *)
THEOREM NoneCalledTwice ==
  ASSUME Single
  PROVE  Spec => []NoDuplicateDelivery
  <1>1. OnceInv => NoDuplicateDelivery
    BY DEF OnceInv, RunsOnce, RunOnce, NoDuplicateDelivery
  <1> QED BY <1>1, OnceInvariant, PTL
-----------------------------------------------------------------------------
(* The outbox of one server keeps its contract.                              *)

Rounds == [e \in Events |-> Copy(e).attempts]

(* With one server an event's copy is MongoDB's document or, without one,    *)
(* the memory queue's.                                                      *)
LEMMA CopyIs ==
  ASSUME Single, TypeInv, RetryInv, NEW s \in Servers, NEW e \in Events
  PROVE  Copy(e) = IF Present(mongo[e]) THEN mongo[e] ELSE mem[s][e]
  <1>1. home[e] \in Servers \cup {None} /\ None \notin Servers
    BY NoneAssumption DEF TypeInv, TypeOK
  <1>2. CASE home[e] = None
    <2>1. stage[e] = "absent"
      BY <1>1, <1>2 DEF TypeInv, ShapeOK
    <2>2. mongo[e] = NoDoc /\ mem[s][e] = NoDoc
      BY <2>1 DEF RetryInv, Placed
    <2> QED BY <1>2, <2>2 DEF Copy
  <1>3. CASE home[e] \in Servers
    <2>1. home[e] = s /\ home[e] # None
      BY <1>1, <1>3 DEF Single
    <2> QED BY <2>1 DEF Copy
  <1> QED BY <1>1, <1>2, <1>3

LEMMA CopyNext ==
  ASSUME Single, TypeInv', RetryInv', NEW s \in Servers, NEW e \in Events
  PROVE  Copy(e)' = IF Present(mongo'[e]) THEN mongo'[e] ELSE mem'[s][e]
  <1>1. home'[e] \in Servers \cup {None} /\ None \notin Servers
    BY NoneAssumption DEF TypeInv, TypeOK
  <1>2. CASE home'[e] = None
    <2>1. stage'[e] = "absent"
      BY <1>1, <1>2 DEF TypeInv, ShapeOK
    <2>2. mongo'[e] = NoDoc /\ mem'[s][e] = NoDoc
      BY <2>1 DEF RetryInv, Placed
    <2> QED BY <1>2, <2>2 DEF Copy
  <1>3. CASE home'[e] \in Servers
    <2>1. home'[e] = s /\ home'[e] # None
      BY <1>1, <1>3 DEF Single
    <2> QED BY <2>1 DEF Copy
  <1> QED BY <1>1, <1>2, <1>3

(* The contract's name for the progress of a copy. *)
Named(st, d) ==
    IF st = "absent" THEN "none"
    ELSE CASE d.status = "DELIVERED" -> "delivered"
           [] d.status = "FAILED" -> "failed"
           [] OTHER -> "pending"

LEMMA NamedIs ==
  ASSUME NEW st, NEW d
  PROVE  /\ st = "absent" => Named(st, d) = "none"
         /\ st # "absent" /\ d.status = "DELIVERED" => Named(st, d) = "delivered"
         /\ st # "absent" /\ d.status = "FAILED" => Named(st, d) = "failed"
         /\ st # "absent" /\ d.status \in {"NONE", "PENDING"} => Named(st, d) = "pending"
  BY DEF Named

LEMMA StatusIs ==
  /\ ContractStatus = [e \in Events |-> Named(stage[e], Copy(e))]
  /\ ContractStatus' = [e \in Events |-> Named(stage'[e], Copy(e)')]
  BY DEF ContractStatus, Named

(* An event on which a step has no visible effect. *)
Unseen(e) ==
    /\ stage'[e] = "absent" <=> stage[e] = "absent"
    /\ Copy(e)'.attempts = Copy(e).attempts
    /\ \/ Copy(e)'.status = Copy(e).status
       \/ Copy(e).status \in {"NONE", "PENDING"} /\ Copy(e)'.status \in {"NONE", "PENDING"}

LEMMA UnseenIs ==
  ASSUME NEW e \in Events, Unseen(e)
  PROVE  Named(stage'[e], Copy(e)') = Named(stage[e], Copy(e)) /\ Rounds'[e] = Rounds[e]
  <1>1. Rounds'[e] = Copy(e)'.attempts /\ Rounds[e] = Copy(e).attempts
    BY DEF Rounds
  <1>2. CASE stage[e] = "absent"
    <2>1. Named(stage[e], Copy(e)) = "none" /\ Named(stage'[e], Copy(e)') = "none"
      BY <1>2, NamedIs DEF Unseen
    <2> QED BY <1>1, <2>1 DEF Unseen
  <1>3. CASE stage[e] # "absent" /\ Copy(e)'.status = Copy(e).status
    <2>1. Named(stage'[e], Copy(e)') = Named(stage[e], Copy(e))
      BY <1>3 DEF Unseen, Named
    <2> QED BY <1>1, <2>1 DEF Unseen
  <1>4. CASE /\ stage[e] # "absent"
             /\ Copy(e).status \in {"NONE", "PENDING"} /\ Copy(e)'.status \in {"NONE", "PENDING"}
    <2>1. Named(stage[e], Copy(e)) = "pending"
      BY <1>4, NamedIs
    <2>2. Named(stage'[e], Copy(e)') = "pending"
      BY <1>4, NamedIs DEF Unseen
    <2> QED BY <1>1, <2>1, <2>2 DEF Unseen
  <1> QED BY <1>1, <1>2, <1>3, <1>4 DEF Unseen

LEMMA MapStays ==
  ASSUME \A e \in Events : Unseen(e)
  PROVE  ContractStatus' = ContractStatus /\ Rounds' = Rounds
  <1>1. \A e \in Events : Named(stage'[e], Copy(e)') = Named(stage[e], Copy(e))
                          /\ Rounds'[e] = Rounds[e]
    BY UnseenIs
  <1>2. ContractStatus' = ContractStatus
    BY <1>1, StatusIs
  <1>3. Rounds' = Rounds
    <2>1. Rounds' = [e \in Events |-> Rounds'[e]] /\ Rounds = [e \in Events |-> Rounds[e]]
      BY DEF Rounds
    <2> QED BY <1>1, <2>1
  <1> QED BY <1>2, <1>3

LEMMA MapMoves ==
  ASSUME NEW e \in Events, \A d \in Events \ {e} : Unseen(d)
  PROVE  /\ ContractStatus' = [ContractStatus EXCEPT ![e] = Named(stage'[e], Copy(e)')]
         /\ Rounds' = [Rounds EXCEPT ![e] = Copy(e)'.attempts]
  <1>1. \A d \in Events \ {e} : Named(stage'[d], Copy(d)') = Named(stage[d], Copy(d))
                                /\ Rounds'[d] = Rounds[d]
    BY UnseenIs
  <1>2. ContractStatus' = [ContractStatus EXCEPT ![e] = Named(stage'[e], Copy(e)')]
    BY <1>1, StatusIs
  <1>3. Rounds' = [Rounds EXCEPT ![e] = Copy(e)'.attempts]
    <2>1. /\ Rounds' = [d \in Events |-> Rounds'[d]] /\ Rounds = [d \in Events |-> Rounds[d]]
          /\ Rounds'[e] = Copy(e)'.attempts
      BY DEF Rounds
    <2> QED BY <1>1, <2>1
  <1> QED BY <1>2, <1>3

(* Most steps only move documents quietly. *)
LEMMA QuietlyUnseen ==
  ASSUME Single, TypeInv, TypeInv', RetryInv, RetryInv', NEW s \in Servers, NEW e \in Events,
         stage'[e] = "absent" <=> stage[e] = "absent",
         \/ Alike(mongo[e], mongo'[e]) /\ Alike(mem[s][e], mem'[s][e])
         \/ /\ ~Present(mongo[e]) /\ ~Present(mem[s][e])
            /\ mongo'[e] = Fresh
  PROVE  Unseen(e)
  <1>1. /\ Copy(e) = IF Present(mongo[e]) THEN mongo[e] ELSE mem[s][e]
        /\ Copy(e)' = IF Present(mongo'[e]) THEN mongo'[e] ELSE mem'[s][e]
    BY CopyIs, CopyNext
  <1>2. CASE Alike(mongo[e], mongo'[e]) /\ Alike(mem[s][e], mem'[s][e])
    <2>1. Copy(e)'.attempts = Copy(e).attempts /\ Copy(e)'.status = Copy(e).status
      BY <1>1, <1>2 DEF Alike, Present
    <2> QED BY <2>1 DEF Unseen
  <1>3. CASE ~Present(mongo[e]) /\ ~Present(mem[s][e]) /\ mongo'[e] = Fresh
    <2>1. Copy(e) = NoDoc /\ Copy(e)' = Fresh
      BY <1>1, <1>3, NoDocFields DEF RetryInv, Placed
    <2> QED BY <2>1, NoDocFields DEF Unseen
  <1> QED BY <1>2, <1>3

LEMMA ContractInit == Init => Contract!Init
  <1> SUFFICES ASSUME Init PROVE Contract!Init
    OBVIOUS
  <1>1. \A e \in Events : stage[e] = "absent" /\ Copy(e) = NoDoc
    BY DEF Init, Copy
  <1>2. \A e \in Events : Named(stage[e], Copy(e)) = "none" /\ Copy(e).attempts = 0
    BY <1>1, NamedIs, NoDocFields
  <1>3. ContractStatus = [e \in Events |-> "none"]
    BY <1>2, StatusIs
  <1>4. [e \in Events |-> Copy(e).attempts] = [e \in Events |-> 0]
    BY <1>2
  <1> QED BY <1>3, <1>4 DEF Contract!Init, Init

LEMMA ContractStutters ==
  ASSUME \A e \in Events : Unseen(e), owed' = owed, acked' = acked
  PROVE  [Contract!Next]_(Contract!vars)
  <1>1. ContractStatus' = ContractStatus /\ Rounds' = Rounds
    BY MapStays
  <1> QED BY <1>1 DEF Contract!vars, Rounds

LEMMA ContractEnqueue ==
  ASSUME Single, TypeInv, TypeInv', RetryInv, RetryInv', FirstLife, ~Fault,
         NEW e \in Events, Enqueue(e)
  PROVE  [Contract!Next]_(Contract!vars)
  <1>1. ASSUME NEW s \in Servers, Emit(s, e) PROVE Contract!Accept(e)
    <2>1. /\ stage[e] = "absent" /\ stage'[e] # "absent" /\ UNCHANGED <<mongo, acked>>
          /\ owed' = [owed EXCEPT ![e] = Subscribed(e)]
          /\ mem' = mem \/ StoreInMemory(s, e)
          /\ \A d \in Events \ {e} : stage'[d] = stage[d]
      BY <1>1 DEF Emit, storeVars, TypeInv, TypeOK
    <2>2. \A d \in Events : mem'[s][d] = mem[s][d] \/ (d = e /\ mem'[s][d] = Fresh)
      BY <2>1, StoreInMemoryIs
    <2>3. \A d \in Events \ {e} : Unseen(d)
      BY <2>1, <2>2, QuietlyUnseen DEF Alike
    <2>4. /\ Copy(e) = IF Present(mongo[e]) THEN mongo[e] ELSE mem[s][e]
          /\ Copy(e)' = IF Present(mongo'[e]) THEN mongo'[e] ELSE mem'[s][e]
      BY CopyIs, CopyNext
    <2>5. Copy(e) = NoDoc /\ Copy(e)' \in {NoDoc, Fresh}
      BY <2>1, <2>2, <2>4, NoDocFields DEF RetryInv, Placed
    <2>6. Named(stage[e], Copy(e)) = "none" /\ Named(stage'[e], Copy(e)') = "pending"
      BY <2>1, <2>5, NamedIs, NoDocFields
    <2>7. /\ ContractStatus' = [ContractStatus EXCEPT ![e] = "pending"]
          /\ ContractStatus[e] = "none"
      BY <2>3, <2>6, MapMoves, StatusIs
    <2>8. Rounds' = Rounds
      <3>1. Rounds' = [Rounds EXCEPT ![e] = Rounds[e]]
        BY <2>3, <2>5, MapMoves, NoDocFields DEF Rounds
      <3> QED BY <3>1 DEF Rounds
    <2>9. Subscribed(e) \subseteq Hooks
      BY DEF Subscribed, FirstLife
    <2> QED BY <2>1, <2>7, <2>8, <2>9 DEF Contract!Accept, Rounds, Hooks
  <1>2. CASE CreateLands(e)
    <2>1. /\ UNCHANGED <<stage, mem, owed, acked>> /\ ~Present(mongo[e])
          /\ stage[e] \in {"creating", "orphaned"}
          /\ \A d \in Events : mongo'[d] = IF d = e THEN Fresh ELSE mongo[d]
      BY <1>2 DEF CreateLands, eventVars, TypeInv, TypeOK
    <2>2. \A s \in Servers : ~Present(mem[s][e])
      BY <2>1 DEF RetryInv, Placed
    <2>3. \E s \in Servers : TRUE
      BY <2>1 DEF TypeInv, ShapeOK
    <2>4. \A d \in Events : Unseen(d)
      BY <2>1, <2>2, <2>3, QuietlyUnseen DEF Alike
    <2> QED BY <2>1, <2>4, ContractStutters
  <1>3. CASE CreateResolves(e)
    <2>1. /\ UNCHANGED <<mongo, mem, owed, acked>> /\ stage[e] = "creating"
          /\ \A d \in Events : stage'[d] = "absent" <=> stage[d] = "absent"
      BY <1>3 DEF CreateResolves, storeVars, TypeInv, TypeOK
    <2>2. \E s \in Servers : TRUE
      BY <2>1 DEF TypeInv, ShapeOK
    <2>3. \A d \in Events : Unseen(d)
      BY <2>1, <2>2, QuietlyUnseen DEF Alike
    <2> QED BY <2>1, <2>3, ContractStutters
  <1>4. Contract!Accept(e) => Contract!Next
    BY DEF Contract!Next
  <1> QED BY <1>1, <1>2, <1>3, <1>4 DEF Enqueue, CreateRejects

(* A step that leaves every document's status and count alone. *)
LEMMA AlikeUnseen ==
  ASSUME Single, TypeInv, TypeInv', RetryInv, RetryInv', NEW s \in Servers, stage' = stage,
         \A e \in Events : Alike(mongo[e], mongo'[e]) /\ Alike(mem[s][e], mem'[s][e])
  PROVE  \A e \in Events : Unseen(e)
  BY QuietlyUnseen

LEMMA ContractBackoff ==
  ASSUME Single, TypeInv, TypeInv', RetryInv, RetryInv', NEW s \in Servers,
         NEW e \in Events, Backoff(e)
  PROVE  [Contract!Next]_(Contract!vars)
  <1>1. UNCHANGED <<stage, owed, acked>>
    BY DEF Backoff, BackoffElapsesInMongo, BackoffElapsesInMemory, eventVars
  <1>2. \A d \in Events : Alike(mongo[d], mongo'[d]) /\ Alike(mem[s][d], mem'[s][d])
    BY BackoffIs DEF Alike
  <1> QED BY <1>1, <1>2, AlikeUnseen, ContractStutters

LEMMA ContractServer ==
  ASSUME Single, TypeInv, TypeInv', RetryInv, RetryInv', FirstLife, NEW s \in Servers,
         Tick(s) \/ Kick(s) \/ Studio(s) \/ Boot(s) \/ Connect(s)
  PROVE  [Contract!Next]_(Contract!vars)
  <1>1. UNCHANGED <<stage, mongo, mem, acked>>
    BY DEF Tick, Kick, Studio, RegisterWebhook, UnregisterWebhook, Boot, Connect,
           eventVars, storeVars
  <1>2. \A e \in Events : Unseen(e)
    BY <1>1, AlikeUnseen DEF Alike
  <1>3. CASE owed' = owed
    BY <1>1, <1>2, <1>3, ContractStutters
  <1>4. ASSUME NEW h \in registry[s], UnregisterWebhook(s, h) PROVE Contract!Next
    <2>1. h \in Hooks
      BY DEF FirstLife
    <2>2. ContractStatus' = ContractStatus /\ Rounds' = Rounds
      BY <1>2, MapStays
    <2>3. Contract!Release(h)
      BY <1>1, <1>4, <2>2 DEF Contract!Release, UnregisterWebhook, Rounds
    <2> QED BY <2>1, <2>3 DEF Contract!Next, Hooks
  <1>5. owed' = owed \/ \E h \in registry[s] : UnregisterWebhook(s, h)
    BY DEF Tick, Kick, Studio, RegisterWebhook, Boot, Connect, eventVars
  <1> QED BY <1>3, <1>4, <1>5

(* The event a run works on is pending, by its copy and in the contract. *)
LEMMA WorkedOn ==
  ASSUME Single, TypeInv, RetryInv, SoloInv, Apart, NEW s \in Servers, NEW k \in Callers,
         run[s][k].pc \in {"send", "record", "settle"}
  PROVE  LET cur == run[s][k].cur
         IN /\ cur \in Events /\ stage[cur] # "absent"
            /\ Copy(cur) = IF run[s][k].live THEN mem[s][cur] ELSE mongo[cur]
            /\ Copy(cur) \in Doc /\ Copy(cur).status = "PENDING"
            /\ Copy(cur).attempts < MaxAttempts
            /\ Record(s, k, cur).attempts = Copy(cur).attempts
            /\ ContractStatus[cur] = "pending" /\ Rounds[cur] = Copy(cur).attempts
  <1> DEFINE me == run[s][k]
             cur == me.cur
  <1>1. /\ me \in Run /\ cur \in Events /\ cur \in me.batch
        /\ mongo[cur] \in Doc /\ mem[s][cur] \in Doc
        /\ ~me.live => /\ mongo[cur].status = "PENDING"
                       /\ me.seen[cur].attempts = mongo[cur].attempts
        /\ me.live => /\ mem[s][cur].status = "PENDING"
                      /\ ~Present(mongo[cur])
    BY SettledRecord
  <1>2. stage[cur] # "absent"
    BY <1>1, RunsOnStored
  <1>3. Copy(cur) = IF me.live THEN mem[s][cur] ELSE mongo[cur]
    <2>1. Copy(cur) = IF Present(mongo[cur]) THEN mongo[cur] ELSE mem[s][cur]
      BY <1>1, CopyIs
    <2> QED BY <1>1, <2>1 DEF Present
  <1>4. Copy(cur) \in Doc /\ Copy(cur).status = "PENDING"
    BY <1>1, <1>3
  <1>5. Copy(cur).attempts < MaxAttempts
    <2>1. DocBounded(mongo[cur]) /\ DocBounded(mem[s][cur])
      BY <1>1, BoundedMeans DEF SoloInv, CopiesBounded
    <2> QED BY <1>3, <1>4, <2>1 DEF DocBounded
  <1>6. Record(s, k, cur).attempts = Copy(cur).attempts
    BY <1>1, <1>3 DEF Record
  <1>7. ContractStatus[cur] = "pending" /\ Rounds[cur] = Copy(cur).attempts
    BY <1>1, <1>2, <1>4, NamedIs, StatusIs DEF Rounds
  <1> QED BY <1>1, <1>2, <1>3, <1>4, <1>5, <1>6, <1>7

LEMMA ContractWork ==
  ASSUME Single, TypeInv, TypeInv', RetryInv, RetryInv', SoloInv, RunsOwe, Apart,
         NEW s \in Servers, NEW k \in Callers,
         \/ QueryReturns(s, k) \/ Pick(s, k) \/ Dispatch(s, k)
         \/ RecordWebhookDelivery(s, k)
  PROVE  [Contract!Next]_(Contract!vars)
  <1> DEFINE me == run[s][k]
             cur == run[s][k].cur
  <1>0. UNCHANGED <<stage, owed>>
    BY DEF QueryReturns, Pick, Dispatch, DispatchSucceeds, DispatchFails, DispatchThrows,
           RecordWebhookDelivery, eventVars
  <1>1. \A e \in Events : Alike(mongo[e], mongo'[e]) /\ Alike(mem[s][e], mem'[s][e])
    <2>1. CASE UNCHANGED <<mongo, mem>>
      BY <2>1 DEF Alike
    <2>2. CASE RecordWebhookDelivery(s, k)
      <3>1. /\ me.pc = "record" /\ me.hook \in Hook /\ cur \in Events
            /\ WriteBoth(s, cur, Recorded(mongo[cur], me.hook), Recorded(mem[s][cur], me.hook))
        BY <2>2 DEF RecordWebhookDelivery, TypeInv, ShapeOK, RunShape
      <3>2. mongo[cur] \in Doc /\ mem[s][cur] \in Doc
        BY <3>1 DEF TypeInv, TypeOK
      <3>3. /\ Alike(mongo[cur], Recorded(mongo[cur], me.hook))
            /\ Alike(mem[s][cur], Recorded(mem[s][cur], me.hook))
        BY <3>1, <3>2, RecordedIs DEF Alike
      <3> QED BY <3>1, <3>3, WriteBothIs DEF Alike
    <2>3. UNCHANGED <<mongo, mem>> \/ RecordWebhookDelivery(s, k)
      BY DEF QueryReturns, Pick, Dispatch, DispatchSucceeds, DispatchFails, DispatchThrows,
             storeVars
    <2> QED BY <2>1, <2>2, <2>3
  <1>2. \A e \in Events : Unseen(e)
    BY <1>0, <1>1, AlikeUnseen
  <1>3. CASE acked' = acked
    BY <1>0, <1>2, <1>3, ContractStutters
  <1>4. CASE DispatchSucceeds(s, k)
    <2>1. me.pc = "send" /\ acked' = [acked EXCEPT ![cur] = @ \cup {me.hook}]
      BY <1>4 DEF DispatchSucceeds
    <2>2. cur \in Events /\ ContractStatus[cur] = "pending"
      BY <2>1, WorkedOn
    <2>3. me.hook \in Hooks
      BY <2>1 DEF RunsOwe, RunHooks
    <2>4. ContractStatus' = ContractStatus /\ Rounds' = Rounds
      BY <1>2, MapStays
    <2>5. Contract!Acknowledge(cur, me.hook)
      BY <1>0, <2>1, <2>2, <2>4 DEF Contract!Acknowledge, Rounds
    <2> QED BY <2>2, <2>3, <2>5 DEF Contract!Next, Hooks
  <1>5. acked' = acked \/ DispatchSucceeds(s, k)
    BY DEF QueryReturns, Pick, Dispatch, DispatchFails, DispatchThrows, RecordWebhookDelivery
  <1> QED BY <1>3, <1>4, <1>5

(* Settling takes effect where the record is. *)
LEMMA SettlesCopy ==
  ASSUME Single, TypeInv, TypeInv', RetryInv, RetryInv', SoloInv, RunsOnce, Apart, ~Fault,
         NEW s \in Servers, NEW k \in Callers, run[s][k].pc = "settle", stage' = stage,
         NEW cur \in Events, cur = run[s][k].cur, NEW a, NEW b, WriteBoth(s, cur, a, b),
         Follows(mongo[cur], a), Follows(mem[s][cur], b)
  PROVE  /\ Copy(cur)' = IF run[s][k].live THEN b ELSE a
         /\ \A e \in Events \ {cur} : Unseen(e)
  <1> DEFINE me == run[s][k]
  <1>1. /\ mongo[cur] \in Doc /\ mem[s][cur] \in Doc
        /\ ~me.live => mongo[cur].status = "PENDING"
        /\ me.live => mem[s][cur].status = "PENDING" /\ ~Present(mongo[cur])
    BY SettledRecord
  <1>2. \A e \in Events \ {cur} : mongo'[e] = mongo[e] /\ mem'[s][e] = mem[s][e]
    BY <1>1, WriteBothIs
  <1>3. \A e \in Events \ {cur} : Unseen(e)
    BY <1>2, QuietlyUnseen DEF Alike
  <1>4. mem'[s][cur] = b
    BY <1>1, WriteBothIs
  <1>5. Copy(cur)' = IF Present(mongo'[cur]) THEN mongo'[cur] ELSE mem'[s][cur]
    BY <1>1, CopyNext
  <1>6. CASE me.live
    <2>1. ~Present(mongo'[cur])
      BY <1>1, <1>6, WriteBothIs DEF Follows
    <2> QED BY <1>3, <1>4, <1>5, <1>6, <2>1
  <1>7. CASE ~me.live
    <2>1. connected[s]
      BY <1>7, OnceParts DEF NeedsMongo
    <2>2. mongo'[cur] = a
      BY <1>1, <2>1, WriteBothIs
    <2>3. Present(a)
      BY <1>1, <1>7 DEF Follows, Present
    <2> QED BY <1>3, <1>5, <1>7, <2>2, <2>3
  <1> QED BY <1>6, <1>7

LEMMA ContractSettle ==
  ASSUME Single, TypeInv, TypeInv', RetryInv, RetryInv', SoloInv, RunsOwe, RunsOnce,
         Apart, ~Fault, NEW s \in Servers, NEW k \in Callers,
         MarkDelivered(s, k) \/ MarkFailed(s, k)
  PROVE  [Contract!Next]_(Contract!vars)
  <1> DEFINE me == run[s][k]
  <1>0. me.pc = "settle" /\ UNCHANGED <<stage, owed, acked>>
    BY DEF MarkDelivered, MarkFailed, eventVars
  <1>c. PICK cur \in Events : cur = me.cur
    BY <1>0, WorkedOn
  <1>1. /\ cur \in Events /\ stage[cur] # "absent"
        /\ Copy(cur) = IF me.live THEN mem[s][cur] ELSE mongo[cur]
        /\ Copy(cur) \in Doc /\ Copy(cur).status = "PENDING"
        /\ Copy(cur).attempts < MaxAttempts
        /\ Record(s, k, cur).attempts = Copy(cur).attempts
        /\ ContractStatus[cur] = "pending" /\ Rounds[cur] = Copy(cur).attempts
    BY <1>0, <1>c, WorkedOn
  <1>2. mongo[cur] \in Doc /\ mem[s][cur] \in Doc
    BY <1>1 DEF TypeInv, TypeOK
  <1>3. CASE MarkDelivered(s, k)
    <2>1. ~me.failed /\ WriteBoth(s, cur, Delivered(mongo[cur]), Delivered(mem[s][cur]))
      BY <1>c, <1>3 DEF MarkDelivered
    <2>2. /\ Copy(cur)' = IF me.live THEN Delivered(mem[s][cur]) ELSE Delivered(mongo[cur])
          /\ \A e \in Events \ {cur} : Unseen(e)
      BY <1>c, <1>0, <1>2, <2>1, DeliveredIs, SettlesCopy
    <2>3. Copy(cur)' = Delivered(Copy(cur))
      BY <1>1, <2>2
    <2>4. Copy(cur)'.status = "DELIVERED" /\ Copy(cur)'.attempts = Copy(cur).attempts
      BY <1>1, <2>3, DeliveredIs DEF Present
    <2>5. ContractStatus' = [ContractStatus EXCEPT ![cur] = "delivered"]
      BY <1>0, <1>1, <2>2, <2>4, MapMoves, NamedIs
    <2>6. Rounds' = Rounds
      <3>1. Rounds' = [Rounds EXCEPT ![cur] = Rounds[cur]]
        BY <1>1, <2>2, <2>4, MapMoves
      <3> QED BY <3>1 DEF Rounds
    <2>7. owed[cur] \subseteq acked[cur]
      BY <1>c, <1>0, <2>1 DEF RunsOwe, RunOwes
    <2>8. Contract!Complete(cur)
      BY <1>0, <1>1, <2>5, <2>6, <2>7 DEF Contract!Complete, Rounds
    <2> QED BY <1>1, <2>8 DEF Contract!Next
  <1>4. CASE MarkFailed(s, k)
    <2> DEFINE x == MaxExceeded(s, k)
    <2>1. WriteBoth(s, cur, Failed(mongo[cur], x), Failed(mem[s][cur], x)) /\ x \in BOOLEAN
      BY <1>c, <1>4 DEF MarkFailed, MaxExceeded
    <2>2. x <=> Copy(cur).attempts + 1 = MaxAttempts
      <3>1. x <=> Copy(cur).attempts + 1 >= MaxAttempts
        BY <1>c, <1>1 DEF MaxExceeded
      <3>2. Copy(cur).attempts \in Nat /\ MaxAttempts \in Nat
        BY <1>1, SizesAssumption DEF Doc
      <3> QED BY <1>1, <3>1, <3>2
    <2> HIDE DEF x
    <2>3. /\ Copy(cur)' = IF me.live THEN Failed(mem[s][cur], x) ELSE Failed(mongo[cur], x)
          /\ \A e \in Events \ {cur} : Unseen(e)
      BY <1>c, <1>0, <1>2, <2>1, FailedIs, SettlesCopy
    <2>4. Copy(cur)' = Failed(Copy(cur), x)
      BY <1>1, <2>3
    <2>5. Copy(cur)'.status = Verdict(x) /\ Copy(cur)'.attempts = Copy(cur).attempts + 1
      BY <1>1, <2>1, <2>4, FailedIs DEF Present
    <2>6. Named(stage'[cur], Copy(cur)') = IF x THEN "failed" ELSE "pending"
      BY <1>0, <1>1, <2>1, <2>5, NamedIs DEF Verdict
    <2>7. ContractStatus' = [ContractStatus EXCEPT ![cur] =
                               IF Rounds[cur] + 1 = MaxAttempts THEN "failed" ELSE @]
      <3>1. ContractStatus' = [ContractStatus EXCEPT ![cur] = IF x THEN "failed" ELSE "pending"]
        BY <1>1, <2>3, <2>6, MapMoves
      <3> QED BY <1>1, <2>2, <3>1
    <2>8. Rounds' = [Rounds EXCEPT ![cur] = @ + 1]
      BY <1>1, <2>3, <2>5, MapMoves
    <2>9. Contract!FailRound(cur)
      BY <1>0, <1>1, <2>7, <2>8 DEF Contract!FailRound, Rounds
    <2> QED BY <1>1, <2>9 DEF Contract!Next
  <1> QED BY <1>3, <1>4

LEMMA ContractStep ==
  ASSUME Single, TypeInv, RetryInv, SoloInv, OwedInv, OnceInv, Next, Calm'
  PROVE  [Contract!Next]_(Contract!vars)
  <1>0. TypeInv' /\ RetryInv'
    BY TypeStep, RetryStep
  <1>1. /\ Calm /\ ~Fault /\ Apart /\ RunsOnce /\ FirstLife /\ RunsOwe
        /\ \A s \in Servers : ~Exit(s) /\ ~Drain(s) /\ ~Disconnect(s)
    BY CalmStep DEF OnceInv, OwedInv, Calm, Apart
  <1>2. ASSUME NEW e \in Events, Enqueue(e) PROVE [Contract!Next]_(Contract!vars)
    BY <1>0, <1>1, <1>2, ContractEnqueue
  <1>3. ASSUME NEW e \in Events, Backoff(e) PROVE [Contract!Next]_(Contract!vars)
    <2>1. stage[e] # "absent"
      BY <1>3 DEF Backoff, BackoffElapsesInMongo, BackoffElapsesInMemory, RetryInv,
                  Placed, Present
    <2>2. home[e] \in Servers
      BY <2>1 DEF TypeInv, ShapeOK
    <2> QED BY <1>0, <1>3, <2>2, ContractBackoff
  <1>4. ASSUME NEW s \in Servers, Tick(s) \/ Kick(s) \/ Studio(s) \/ Process(s)
        PROVE  [Contract!Next]_(Contract!vars)
    BY <1>0, <1>1, <1>4, ContractServer DEF Process
  <1>5. ASSUME NEW s \in Servers, NEW k \in Callers, Work(s, k)
        PROVE  [Contract!Next]_(Contract!vars)
    BY <1>0, <1>1, <1>5, ContractWork, ContractSettle DEF Work
  <1> QED BY <1>2, <1>3, <1>4, <1>5 DEF Next

(* The outbox of one server implements OutboxContract up to its first failed *)
(* operation or exit: its first state is the contract's, and each step up   *)
(* to then is a step of the contract or leaves it unmoved.                  *)
THEOREM OutboxKeepsContract ==
  ASSUME Single
  PROVE  Spec => KeepsContract
  <1>1. TypeInv /\ RetryInv /\ SoloInv /\ OwedInv /\ OnceInv /\ [Next]_vars =>
           [faults' = 0 /\ exits' = 0 => [Contract!Next]_(Contract!vars)]_vars
    BY ContractStep DEF Calm
  <1> QED BY ContractInit, OnceInvariant, <1>1, PTL DEF Spec, KeepsContract
=============================================================================
