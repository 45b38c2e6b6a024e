------------------------------- MODULE Outbox -------------------------------
(***************************************************************************)
(* The Birdwatch outbox: how a mutation event is persisted, fetched,       *)
(* dispatched to webhooks and settled by the server processes that share   *)
(* one MongoDB collection.  Each process also has a webhook registry and   *)
(* an in-memory fallback queue of its own, both lost when it exits.        *)
(*                                                                         *)
(* Time is abstract: a document is "due" when nextAttemptAt has passed.    *)
(* HTTP is abstract: a request is answered 2xx, or it fails (another       *)
(* status, a network error, the 5 s abort).                                *)
(***************************************************************************)
EXTENDS Integers, FiniteSets

CONSTANTS
    Servers,      \* server processes
    NumEvents,    \* number of mutations; events are numbered by createdAt
    Urls,         \* webhook destinations
    EnvUrls,      \* the destinations of AUTOGRAPHQL_WEBHOOK_URLS
    Interest,     \* the events that the patterns of a destination match
    Managed,      \* the destinations added and removed in the Studio
    Unsignable,   \* destinations for which dispatchWebhook throws
    MaxAttempts,  \* maxAttempts of an outbox record (5 in the code)
    BatchLimit,   \* getPendingEvents' limit (25 in the code)
    AckLoss,      \* can a create that took effect be reported as an error?
    MaxGen,       \* bound: webhook registrations per server
    MaxFaults,    \* bound: failed MongoDB operations and disconnections
    MaxExits,     \* bound: crashes and shutdowns
    None          \* no event, no webhook

Events == 1 .. NumEvents

ASSUME SizesAssumption ==
    /\ NumEvents \in Nat
    /\ MaxAttempts \in Nat \ {0}
    /\ BatchLimit \in Nat \ {0}
    /\ MaxGen \in Nat /\ MaxFaults \in Nat /\ MaxExits \in Nat
    /\ AckLoss \in BOOLEAN

ASSUME UrlsAssumption ==
    /\ EnvUrls \subseteq Urls
    /\ Managed \subseteq Urls /\ Unsignable \subseteq Urls
    /\ Interest \in [Urls -> SUBSET Events]
    /\ \A u \in EnvUrls : Interest[u] = Events     \* registered for ['*']

ASSUME NoneAssumption == None \notin Servers

-----------------------------------------------------------------------------
(* Every registration gets a fresh cuid, so a registration is told apart by *)
(* the server and by its number there, which is also the registry's order.  *)
Hook == [url : Urls, at : Servers, gen : Nat]

Doc == [status : {"NONE", "PENDING", "DELIVERED", "FAILED"},
        attempts : Nat, due : BOOLEAN, delivered : SUBSET Hook]

NoDoc == [status |-> "NONE", attempts |-> 0, due |-> FALSE, delivered |-> {}]
Fresh == [status |-> "PENDING", attempts |-> 0, due |-> TRUE, delivered |-> {}]

Present(d) == d.status # "NONE"

Ready(d) == d.status = "PENDING" /\ d.due
Done(d) == d.status \in {"DELIVERED", "FAILED"}

(* The two callers of processPendingEvents: the interval and a trigger. *)
Callers == {"tick", "kick"}

Run == [pc : {"idle", "query", "pick", "send", "record", "settle"},
        live : BOOLEAN,             \* the batch came from the memory queue
        batch : SUBSET Events,
        seen : [Events -> Doc],     \* the documents as the query returned them
        cur : Events \cup {None},
        todo : SUBSET Hook, hook : Hook \cup {None}, failed : BOOLEAN]

IdleRun == [pc |-> "idle", live |-> FALSE, batch |-> {},
            seen |-> [e \in Events |-> NoDoc],
            cur |-> None, todo |-> {}, hook |-> None, failed |-> FALSE]

VARIABLES
    alive, polling, connected,  \* process, workerInterval, isMongoConnected
    registry, gen,              \* webhookRegistry and registrations made so far
    kicks,                      \* setImmediate callbacks not yet run
    busy, run,                  \* isProcessing and the calls in progress
    stage, home,                \* progress of an event's enqueue, and its server
    mongo, mem, slot,           \* OutboxEvent, inMemoryOutbox and its order
    owed, acked,                \* history: hooks subscribed at emission; 2xx seen
    faults, exits               \* faults and exits so far

serverVars == <<alive, polling, connected, registry, gen>>
workerVars == <<busy, run>>
eventVars  == <<stage, home, owed>>
storeVars  == <<mongo, mem, slot>>
vars == <<alive, polling, connected, registry, gen, kicks, busy, run, stage,
          home, mongo, mem, slot, owed, acked, faults, exits>>

Init ==
    /\ alive = [s \in Servers |-> FALSE]
    /\ polling = [s \in Servers |-> FALSE]
    /\ connected = [s \in Servers |-> FALSE]
    /\ registry = [s \in Servers |-> {}]
    /\ gen = [s \in Servers |-> 0]
    /\ kicks = [s \in Servers |-> 0]
    /\ busy = [s \in Servers |-> FALSE]
    /\ run = [s \in Servers |-> [k \in Callers |-> IdleRun]]
    /\ stage = [e \in Events |-> "absent"]
    /\ home = [e \in Events |-> None]
    /\ mongo = [e \in Events |-> NoDoc]
    /\ mem = [s \in Servers |-> [e \in Events |-> NoDoc]]
    /\ slot = [s \in Servers |-> [e \in Events |-> 0]]
    /\ owed = [e \in Events |-> {}]
    /\ acked = [e \in Events |-> {}]
    /\ faults = 0
    /\ exits = 0

(* A MongoDB operation rejects. *)
Fault == faults < MaxFaults /\ faults' = faults + 1

-----------------------------------------------------------------------------
(* Enqueueing: birdwatch and enqueueEvent.                                  *)

(* inMemoryOutbox.set: a Map keeps insertion order. *)
StoreInMemory(s, e) ==
    /\ mem' = [mem EXCEPT ![s][e] = Fresh]
    /\ slot' = [slot EXCEPT ![s][e] =
                  1 + Cardinality({d \in Events : slot[s][d] > 0})]

TriggerWorker(s) == kicks' = [kicks EXCEPT ![s] = @ + 1]

(* The webhooks that subscribe to e somewhere at this moment. *)
Subscribed(e) ==
    {h \in UNION {registry[s] : s \in Servers} : e \in Interest[h.url]}

(* A mutation of server s calls birdwatch: the record goes to MongoDB when  *)
(* the connection is up, else straight to the memory queue.                 *)
Emit(s, e) ==
    /\ alive[s] /\ stage[e] = "absent"
    /\ \A d \in Events : d < e => stage[d] # "absent"
    /\ home' = [home EXCEPT ![e] = s]
    /\ owed' = [owed EXCEPT ![e] = Subscribed(e)]
    /\ \/ /\ connected[s]
          /\ stage' = [stage EXCEPT ![e] = "creating"]
          /\ UNCHANGED <<storeVars, kicks>>
       \/ /\ ~connected[s]
          /\ stage' = [stage EXCEPT ![e] = "stored"]
          /\ StoreInMemory(s, e) /\ TriggerWorker(s)
          /\ UNCHANGED mongo
    /\ UNCHANGED <<serverVars, workerVars, acked, faults, exits>>

(* MongoDB inserts the document, perhaps after the process has gone. *)
CreateLands(e) ==
    /\ stage[e] \in {"creating", "orphaned"} /\ ~Present(mongo[e])
    /\ mongo' = [mongo EXCEPT ![e] = Fresh]
    /\ UNCHANGED <<serverVars, workerVars, eventVars, kicks, mem, slot, acked,
                   faults, exits>>

(* OutboxEvent.create resolves. *)
CreateResolves(e) ==
    /\ stage[e] = "creating" /\ Present(mongo[e])
    /\ stage' = [stage EXCEPT ![e] = "stored"]
    /\ TriggerWorker(home[e])
    /\ UNCHANGED <<serverVars, workerVars, storeVars, home, owed, acked, faults,
                   exits>>

(* OutboxEvent.create rejects, with AckLoss perhaps although it took effect *)
(* (the connection broke before the answer): fall back to memory.           *)
CreateRejects(e) ==
    /\ stage[e] = "creating" /\ (Present(mongo[e]) => AckLoss)
    /\ Fault
    /\ stage' = [stage EXCEPT ![e] = "stored"]
    /\ StoreInMemory(home[e], e) /\ TriggerWorker(home[e])
    /\ UNCHANGED <<serverVars, workerVars, mongo, home, owed, acked, exits>>

-----------------------------------------------------------------------------
(* The worker: processPendingEvents, one run at a time per process.         *)

First(limit, ready, rank) ==
    {e \in ready : Cardinality({d \in ready : rank[d] < rank[e]}) < limit}

ReadyInMemory(s) == {e \in Events : Ready(mem[s][e])}
ReadyInMongo == {e \in Events : Ready(mongo[e])}

SetRun(s, k, r) == run' = [run EXCEPT ![s][k] = r]

(* getPendingEvents' second half.  The records are the queue's own objects, *)
(* so the run reads them live; an empty batch ends the run.                 *)
ScanMemory(s, k) ==
    LET ready == First(BatchLimit, ReadyInMemory(s), slot[s])
    IN /\ SetRun(s, k, IF ready = {} THEN IdleRun
                       ELSE [IdleRun EXCEPT !.pc = "pick", !.live = TRUE, !.batch = ready])
       /\ busy' = [busy EXCEPT ![s] = ready # {}]

(* Variant: without the guard, a tick and a kick overlap. *)
StartRunUnguarded(s, k) ==
    /\ run[s][k].pc = "idle"
    /\ \/ /\ connected[s]
          /\ SetRun(s, k, [IdleRun EXCEPT !.pc = "query"])
          /\ busy' = [busy EXCEPT ![s] = TRUE]
       \/ ~connected[s] /\ ScanMemory(s, k)

(* The isProcessing guard, and getPendingEvents up to its first await. *)
StartRun(s, k) ==
    /\ ~busy[s] /\ run[s][k].pc = "idle"
    /\ \/ /\ connected[s]
          /\ SetRun(s, k, [IdleRun EXCEPT !.pc = "query"])
          /\ busy' = [busy EXCEPT ![s] = TRUE]
       \/ ~connected[s] /\ ScanMemory(s, k)

(* The polling interval fires. *)
Tick(s) ==
    /\ polling[s]
    /\ StartRun(s, "tick")
    /\ UNCHANGED <<serverVars, eventVars, storeVars, kicks, acked, faults, exits>>

(* A setImmediate of triggerOutboxWorker runs; a busy worker ignores it. *)
Kick(s) ==
    /\ kicks[s] > 0 /\ kicks' = [kicks EXCEPT ![s] = @ - 1]
    /\ \/ StartRun(s, "kick")
       \/ busy[s] /\ UNCHANGED workerVars
    /\ UNCHANGED <<serverVars, eventVars, storeVars, acked, faults, exits>>

(* The query answers with documents; or with none, or fails, and the run    *)
(* turns to the memory queue.                                               *)
QueryReturns(s, k) ==
    LET docs == First(BatchLimit, ReadyInMongo, [e \in Events |-> e])
    IN /\ run[s][k].pc = "query"
       /\ \/ /\ docs # {}
             /\ SetRun(s, k, [IdleRun EXCEPT !.pc = "pick", !.batch = docs,
                   !.seen = [e \in Events |-> IF e \in docs THEN mongo[e] ELSE NoDoc]])
             /\ UNCHANGED <<busy, faults>>
          \/ docs = {} /\ ScanMemory(s, k) /\ UNCHANGED faults
          \/ Fault /\ ScanMemory(s, k)
       /\ UNCHANGED <<serverVars, eventVars, storeVars, kicks, acked, exits>>

(* The record a run holds for event e: the query's copy or the live object. *)
Record(s, k, e) == IF run[s][k].live THEN mem[s][e] ELSE run[s][k].seen[e]

(* The batch's next record, in the order of the query or of the Map. *)
NextInBatch(s, k, e) ==
    LET rank == [d \in Events |-> IF run[s][k].live THEN slot[s][d] ELSE d]
    IN e \in First(1, run[s][k].batch, rank)

(* Variant: only the first webhook that matches. *)
HooksForFirst(s, e) ==
    {h \in registry[s] : /\ e \in Interest[h.url]
                         /\ \A g \in registry[s] : e \in Interest[g.url] => h.gen <= g.gen}

(* getWebhooksForEvent *)
HooksFor(s, e) == {h \in registry[s] : e \in Interest[h.url]}

(* Turn to the next webhook in registry order, or to settling the record.   *)
(* Environment hooks share a gen: the variable may list them in any order.  *)
NextHook(s, k, rec, rest) ==
    \/ /\ rest = {}
       /\ SetRun(s, k, [rec EXCEPT !.pc = "settle", !.todo = {}, !.hook = None])
    \/ \E h \in rest :
          /\ \A g \in rest : h.gen <= g.gen
          /\ SetRun(s, k, [rec EXCEPT !.pc = "send", !.todo = rest \ {h}, !.hook = h])

(* The next iteration of the batch loop: which webhooks remain.  With none, *)
(* the record is settled as delivered at once.                              *)
Pick(s, k) ==
    /\ run[s][k].pc = "pick"
    /\ \E e \in run[s][k].batch :
          /\ NextInBatch(s, k, e)
          /\ NextHook(s, k, [run[s][k] EXCEPT !.cur = e, !.failed = FALSE],
                      HooksFor(s, e) \ Record(s, k, e).delivered)
    /\ UNCHANGED <<busy, serverVars, eventVars, storeVars, kicks, acked, faults,
                   exits>>

(* Variant: isProcessing is not reset at the end of a batch. *)
EndRunStuck(s, k) == SetRun(s, k, IdleRun) /\ UNCHANGED busy

EndRun(s, k) ==
    /\ SetRun(s, k, IdleRun)
    /\ busy' = [busy EXCEPT ![s] = FALSE]

(* Variant: the last answer alone decides allSuccessful. *)
DispatchSucceedsForgets(s, k) ==
    LET r == run[s][k]
    IN /\ r.pc = "send" /\ r.hook.url \notin Unsignable
       /\ acked' = [acked EXCEPT ![r.cur] = @ \cup {r.hook}]
       /\ SetRun(s, k, [r EXCEPT !.pc = "record", !.failed = FALSE])
       /\ UNCHANGED <<busy, serverVars, eventVars, storeVars, kicks, faults, exits>>

(* dispatchWebhook answers success. *)
DispatchSucceeds(s, k) ==
    LET r == run[s][k]
    IN /\ r.pc = "send" /\ r.hook.url \notin Unsignable
       /\ acked' = [acked EXCEPT ![r.cur] = @ \cup {r.hook}]
       /\ SetRun(s, k, [r EXCEPT !.pc = "record"])
       /\ UNCHANGED <<busy, serverVars, eventVars, storeVars, kicks, faults, exits>>

(* Variant: a failed delivery is recorded like a successful one. *)
DispatchFailsRecorded(s, k) ==
    LET r == run[s][k]
    IN /\ r.pc = "send" /\ r.hook.url \notin Unsignable
       /\ SetRun(s, k, [r EXCEPT !.pc = "record", !.failed = TRUE])
       /\ UNCHANGED <<busy, serverVars, eventVars, storeVars, kicks, acked, faults,
                      exits>>

(* Variant: a failed delivery does not fail the round. *)
DispatchFailsUnnoticed(s, k) ==
    LET r == run[s][k]
    IN /\ r.pc = "send" /\ r.hook.url \notin Unsignable
       /\ NextHook(s, k, r, r.todo)
       /\ UNCHANGED <<busy, serverVars, eventVars, storeVars, kicks, acked, faults,
                      exits>>

(* dispatchWebhook answers failure: remember it and go on to the next one. *)
DispatchFails(s, k) ==
    LET r == run[s][k]
    IN /\ r.pc = "send" /\ r.hook.url \notin Unsignable
       /\ NextHook(s, k, [r EXCEPT !.failed = TRUE], r.todo)
       /\ UNCHANGED <<busy, serverVars, eventVars, storeVars, kicks, acked, faults,
                      exits>>

(* Serialising or signing throws, outside dispatchWebhook's try: the catch  *)
(* of processPendingEvents ends the whole batch.                            *)
DispatchThrows(s, k) ==
    /\ run[s][k].pc = "send" /\ run[s][k].hook.url \in Unsignable
    /\ EndRun(s, k)
    /\ UNCHANGED <<serverVars, eventVars, storeVars, kicks, acked, faults, exits>>

-----------------------------------------------------------------------------
(* The three updates of an outbox record.  Each is applied to MongoDB by id *)
(* when connected, an error only being logged, and to the memory queue when *)
(* the event is there.  None looks at the status the document has by then.  *)
(* Variant: updateOne runs no validators, so a wrong status gets through. *)
DeliveredMisspelt(d) == IF Present(d) THEN [d EXCEPT !.status = "DONE"] ELSE d

Delivered(d) == IF Present(d) THEN [d EXCEPT !.status = "DELIVERED"] ELSE d

Verdict(exceeded) == IF exceeded THEN "FAILED" ELSE "PENDING"

Failed(d, exceeded) ==
    IF Present(d)
    THEN [status |-> Verdict(exceeded), attempts |-> d.attempts + 1,
          due |-> FALSE, delivered |-> d.delivered]
    ELSE d

(* Variant: deliveries are not recorded. *)
RecordedNowhere(d, h) == d

Recorded(d, h) == IF Present(d) THEN [d EXCEPT !.delivered = @ \cup {h}] ELSE d

WriteBoth(s, e, inMongo, inMemory) ==
    /\ \/ connected[s] /\ mongo' = [mongo EXCEPT ![e] = inMongo] /\ UNCHANGED faults
       \/ connected[s] /\ Fault /\ UNCHANGED mongo
       \/ ~connected[s] /\ UNCHANGED <<mongo, faults>>
    /\ mem' = [mem EXCEPT ![s][e] = inMemory]
    /\ UNCHANGED slot

RecordWebhookDelivery(s, k) ==
    LET r == run[s][k]
    IN /\ r.pc = "record"
       /\ WriteBoth(s, r.cur, Recorded(mongo[r.cur], r.hook),
                    Recorded(mem[s][r.cur], r.hook))
       /\ NextHook(s, k, r, r.todo)
       /\ UNCHANGED <<busy, serverVars, eventVars, kicks, acked, exits>>

(* The record is settled: on to the next, or the end of the batch. *)
NextRecord(s, k) ==
    LET r == run[s][k]
        rest == r.batch \ {r.cur}
    IN \/ rest = {} /\ EndRun(s, k)
       \/ /\ rest # {}
          /\ SetRun(s, k, [r EXCEPT !.pc = "pick", !.batch = rest,
                                    !.seen[r.cur] = NoDoc, !.cur = None])
          /\ UNCHANGED busy

MarkDelivered(s, k) ==
    LET r == run[s][k]
    IN /\ r.pc = "settle" /\ ~r.failed
       /\ WriteBoth(s, r.cur, Delivered(mongo[r.cur]), Delivered(mem[s][r.cur]))
       /\ NextRecord(s, k)
       /\ UNCHANGED <<serverVars, eventVars, kicks, acked, exits>>

(* Variants of the limit: one round late, one round early.                  *)
MaxExceededLate(s, k) == Record(s, k, run[s][k].cur).attempts >= MaxAttempts
MaxExceededEarly(s, k) == Record(s, k, run[s][k].cur).attempts + 2 >= MaxAttempts

(* Whether the event is given up is decided from the record the run holds. *)
MaxExceeded(s, k) == Record(s, k, run[s][k].cur).attempts + 1 >= MaxAttempts

MarkFailed(s, k) ==
    LET r == run[s][k]
    IN /\ r.pc = "settle" /\ r.failed
       /\ WriteBoth(s, r.cur, Failed(mongo[r.cur], MaxExceeded(s, k)),
                    Failed(mem[s][r.cur], MaxExceeded(s, k)))
       /\ NextRecord(s, k)
       /\ UNCHANGED <<serverVars, eventVars, kicks, acked, exits>>

(* nextAttemptAt passes. *)
BackoffElapsesInMongo(e) ==
    /\ mongo[e].status = "PENDING" /\ ~mongo[e].due
    /\ mongo' = [mongo EXCEPT ![e].due = TRUE]
    /\ UNCHANGED <<serverVars, workerVars, eventVars, mem, slot, kicks, acked,
                   faults, exits>>

BackoffElapsesInMemory(s, e) ==
    /\ mem[s][e].status = "PENDING" /\ ~mem[s][e].due
    /\ mem' = [mem EXCEPT ![s][e].due = TRUE]
    /\ UNCHANGED <<serverVars, workerVars, eventVars, mongo, slot, kicks, acked,
                   faults, exits>>

-----------------------------------------------------------------------------
(* Webhook management from the Studio of one server. *)

RegisterWebhook(s, u) ==
    /\ alive[s] /\ gen[s] < MaxGen
    /\ gen' = [gen EXCEPT ![s] = @ + 1]
    /\ registry' = [registry EXCEPT ![s] = @ \cup {[url |-> u, at |-> s, gen |-> gen[s] + 1]}]
    /\ UNCHANGED <<alive, polling, connected, workerVars, eventVars, storeVars,
                   kicks, acked, faults, exits>>

UnregisterWebhook(s, h) ==
    /\ alive[s] /\ h \in registry[s]
    /\ registry' = [registry EXCEPT ![s] = @ \ {h}]
    /\ owed' = [e \in Events |-> owed[e] \ {h}]
    /\ UNCHANGED <<alive, polling, connected, gen, workerVars, stage, home,
                   storeVars, kicks, acked, faults, exits>>

-----------------------------------------------------------------------------
(* The process and its connection. *)

(* Loading webhooks/manager registers the environment's destinations with  *)
(* new ids; startServer starts the polling before the server listens.       *)
Boot(s) ==
    /\ ~alive[s]
    /\ alive' = [alive EXCEPT ![s] = TRUE]
    /\ polling' = [polling EXCEPT ![s] = TRUE]
    /\ gen' = [gen EXCEPT ![s] = @ + 1]
    /\ registry' = [registry EXCEPT ![s] =
                      {[url |-> u, at |-> s, gen |-> gen[s] + 1] : u \in EnvUrls}]
    /\ UNCHANGED <<connected, workerVars, eventVars, storeVars, kicks, acked,
                   faults, exits>>

Connect(s) ==
    /\ alive[s] /\ ~connected[s]
    /\ connected' = [connected EXCEPT ![s] = TRUE]
    /\ UNCHANGED <<alive, polling, registry, gen, workerVars, eventVars, storeVars,
                   kicks, acked, faults, exits>>

Disconnect(s) ==
    /\ connected[s] /\ Fault
    /\ connected' = [connected EXCEPT ![s] = FALSE]
    /\ UNCHANGED <<alive, polling, registry, gen, workerVars, eventVars, storeVars,
                   kicks, acked, exits>>

(* Shutdown begins: drainServer stops the polling and nothing else. *)
Drain(s) ==
    /\ alive[s] /\ polling[s] /\ exits < MaxExits
    /\ exits' = exits + 1
    /\ polling' = [polling EXCEPT ![s] = FALSE]
    /\ UNCHANGED <<alive, connected, registry, gen, workerVars, eventVars,
                   storeVars, kicks, acked, faults>>

(* The process goes, after a drain or by a crash, with all its memory. *)
Exit(s) ==
    /\ alive[s]
    /\ \/ ~polling[s] /\ UNCHANGED exits
       \/ polling[s] /\ exits < MaxExits /\ exits' = exits + 1
    /\ alive' = [alive EXCEPT ![s] = FALSE]
    /\ polling' = [polling EXCEPT ![s] = FALSE]
    /\ connected' = [connected EXCEPT ![s] = FALSE]
    /\ registry' = [registry EXCEPT ![s] = {}]
    /\ kicks' = [kicks EXCEPT ![s] = 0]
    /\ busy' = [busy EXCEPT ![s] = FALSE]
    /\ run' = [run EXCEPT ![s] = [k \in Callers |-> IdleRun]]
    /\ mem' = [mem EXCEPT ![s] = [e \in Events |-> NoDoc]]
    /\ slot' = [slot EXCEPT ![s] = [e \in Events |-> 0]]
    /\ stage' = [e \in Events |->
                   IF stage[e] = "creating" /\ home[e] = s THEN "orphaned" ELSE stage[e]]
    /\ UNCHANGED <<gen, home, mongo, owed, acked, faults>>

-----------------------------------------------------------------------------
Enqueue(e) ==
    \/ \E s \in Servers : Emit(s, e)
    \/ CreateLands(e) \/ CreateResolves(e) \/ CreateRejects(e)

Dispatch(s, k) ==
    DispatchSucceeds(s, k) \/ DispatchFails(s, k) \/ DispatchThrows(s, k)

Work(s, k) ==
    \/ QueryReturns(s, k) \/ Pick(s, k) \/ Dispatch(s, k)
    \/ RecordWebhookDelivery(s, k) \/ MarkDelivered(s, k) \/ MarkFailed(s, k)

Backoff(e) ==
    BackoffElapsesInMongo(e) \/ \E s \in Servers : BackoffElapsesInMemory(s, e)

Studio(s) ==
    \/ \E u \in Managed : RegisterWebhook(s, u)
    \/ \E h \in registry[s] : h.url \in Managed /\ UnregisterWebhook(s, h)

Process(s) == Boot(s) \/ Connect(s) \/ Disconnect(s) \/ Drain(s) \/ Exit(s)

Next ==
    \/ \E e \in Events : Enqueue(e) \/ Backoff(e)
    \/ \E s \in Servers : Tick(s) \/ Kick(s) \/ Studio(s) \/ Process(s)
    \/ \E s \in Servers, k \in Callers : Work(s, k)

Spec == Init /\ [][Next]_vars

(* The event loop runs every ready callback; requests answer or time out,   *)
(* clocks advance, a stopped process is restarted and the driver            *)
(* reconnects.  Users, faults and crashes are under no obligation.          *)
Fairness ==
    /\ \A e \in Events :
          /\ WF_vars(CreateLands(e) /\ stage[e] = "creating")
          /\ WF_vars(CreateResolves(e))
          /\ WF_vars(Backoff(e))
    /\ \A s \in Servers :
          /\ WF_vars(Tick(s)) /\ WF_vars(Kick(s))
          /\ WF_vars(Boot(s)) /\ WF_vars(Connect(s))
    /\ \A s \in Servers, k \in Callers : WF_vars(Work(s, k))

FairSpec == Spec /\ Fairness

-----------------------------------------------------------------------------
(* Properties.                                                              *)

(* Every variable has its type. *)
TypeOK ==
    /\ alive \in [Servers -> BOOLEAN]
    /\ polling \in [Servers -> BOOLEAN]
    /\ connected \in [Servers -> BOOLEAN]
    /\ registry \in [Servers -> SUBSET Hook]
    /\ gen \in [Servers -> Nat]
    /\ kicks \in [Servers -> Nat]
    /\ busy \in [Servers -> BOOLEAN]
    /\ run \in [Servers -> [Callers -> Run]]
    /\ stage \in [Events -> {"absent", "creating", "orphaned", "stored"}]
    /\ home \in [Events -> Servers \cup {None}]
    /\ mongo \in [Events -> Doc]
    /\ mem \in [Servers -> [Events -> Doc]]
    /\ slot \in [Servers -> [Events -> Nat]]
    /\ owed \in [Events -> SUBSET Hook]
    /\ acked \in [Events -> SUBSET Hook]
    /\ faults \in Nat
    /\ exits \in Nat

(* deliveredWebhooks never names a webhook that has not answered 2xx to the *)
(* event, in either store, whichever servers wrote it and whatever failed:  *)
(* a retry that skips a webhook skips one that has the event.               *)
HonestRecord ==
    \A e \in Events :
        /\ mongo[e].delivered \subseteq acked[e]
        /\ \A s \in Servers : mem[s][e].delivered \subseteq acked[e]

Received(e, u) == \E h \in acked[e] : h.url = u

MarkedDelivered(e) ==
    \/ mongo[e].status = "DELIVERED"
    \/ \E s \in Servers : mem[s][e].status = "DELIVERED"

(* An event marked DELIVERED has been acknowledged by every destination of  *)
(* the environment that the Studio leaves alone, on any number of servers,  *)
(* through faults, crashes and lost acknowledgements: nothing a stale run   *)
(* writes can complete an event too early.                                  *)
EnvDelivered ==
    \A e \in Events : MarkedDelivered(e) => \A u \in EnvUrls \ Managed : Received(e, u)

(* An event marked DELIVERED has been acknowledged by every destination     *)
(* that was subscribed when it was emitted and has not been removed since,  *)
(* Studio registrations included.                                           *)
DeliveredMeansReceived ==
    \A e \in Events : MarkedDelivered(e) => \A h \in owed[e] : Received(e, h.url)

(* MongoDB gives an event up only after MaxAttempts failed rounds: the $inc *)
(* of concurrent servers and the status decided from a stale copy agree.    *)
GivenUpLate ==
    \A e \in Events : mongo[e].status = "FAILED" => mongo[e].attempts >= MaxAttempts

(* With one server, a record is retried until exactly MaxAttempts failed    *)
(* rounds and not once more, through crashes and failed updates.            *)
AttemptsBounded ==
    \A e \in Events :
        LET Bounded(d) ==
              /\ d.attempts <= MaxAttempts
              /\ d.status = "PENDING" => d.attempts < MaxAttempts
              /\ d.status = "FAILED" => d.attempts = MaxAttempts
        IN Bounded(mongo[e]) /\ \A s \in Servers : Bounded(mem[s][e])

(* A record in MongoDB that is DELIVERED or "permanently FAILED" stays so.  *)
TerminalIsFinal ==
    [][\A e \in Events : Done(mongo[e]) => mongo'[e].status = mongo[e].status]_vars

(* While every MongoDB operation takes effect and no process stops, a        *)
(* webhook is not called again for an event once it answered 2xx to it.     *)
(* (A URL registered twice is two webhooks, and gets each event twice.)     *)
NoDuplicateDelivery ==
    faults = 0 /\ exits = 0 => \A s \in Servers, k \in Callers :
        run[s][k].pc = "send" => run[s][k].hook \notin acked[run[s][k].cur]

(* Every emitted event is eventually settled: some copy of it is marked     *)
(* DELIVERED or FAILED and none is pending.                                 *)
Settled(e) ==
    LET copies == {mongo[e]} \cup {mem[s][e] : s \in Servers}
    IN (\E d \in copies : Done(d)) /\ \A d \in copies : d.status # "PENDING"

(* A destination whose dispatch throws does not keep the events that go to  *)
(* other destinations only from being settled.                              *)
OthersSettle ==
    \A e \in Events :
        (\A u \in Unsignable : e \notin Interest[u]) => (stage[e] # "absent" ~> Settled(e))

EveryEventSettles == \A e \in Events : stage[e] # "absent" ~> Settled(e)
=============================================================================
