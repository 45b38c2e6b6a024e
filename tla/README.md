# AutoGraphQL: models, checks and proofs

AutoGraphQL turns a directory of GraphQL type definitions into a server: it
parses the annotated schema, generates Mongoose/Sequelize models, queries,
mutations and subscriptions, and wraps them in permission checks, hooks, an
event outbox and a Studio back office. This directory holds TLA+ models of the
parts whose behaviour depends on order, failure or boundaries, the TLC runs
that check them and the TLAPS proofs about them. Paths below are relative to
the repository root.

## Inventory

| Component | State it keeps | Operations | What is hard | What makes it correct |
|---|---|---|---|---|
| Birdwatch outbox (`src/birdwatch`) | MongoDB collection `OutboxEvent`; per process: fallback `Map`, webhook registry, `isProcessing`, timer | `birdwatch`, `enqueueEvent`, `processPendingEvents`, `markDelivered`, `markFailed`, `recordWebhookDelivery`, register/unregister, start/stop worker | several processes on one collection, updates by id without a status condition, process memory lost on exit, failures swallowed | DELIVERED means received, bounded attempts, final states stay final, everything settles |
| Relation mutations (`resolvers/mutation/relation`, `delete`) | references at both ends | addTo, removeFrom, delete | no transactions, check-then-act, writes that outlive the answer | both ends agree, acknowledged changes hold |
| Nested mutations (`resolvers/mutation/add`, `update`, `utils`) | records and references | add and update with nested records and connections | several unawaited phases, a roll-back nobody waits for | a success is linked at both ends, a failure leaves nothing behind and deletes nothing that was there |
| Array updates (`controllers/utils/arrayOperationUtil.js`) | embedded arrays | push, pushToSet, pop, popFront, popBack, popAll, update, updateAll | which references leave with the elements | what the array no longer refers to is disconnected, and what stays is not, but for the two cases its property states |
| Filters (`QueryController/filters.js`, `compileFilter.js`) | none | a filter as a MongoDB query, a Sequelize clause, a test in memory | three interpreters of one language, which compare texts in three ways | each selects what the operators mean in its own way of comparing, and the three are related |
| Row-level security (`src/security/rls.js`) | none | put a policy into a filter | keys that replace each other, reads that drop the policy | a list or a count is never widened; a read by id is not secured |
| Permissions (`validation`, `MasterController`) | none | rules of types and fields, the controllers' gate | four places, allow and deny, apps and users, entries that repeat an app | a rule passes what its entries cover by the code's reading of them |
| Authentication (`authMiddleware.js`, `CacheController.js`) | Redis: users, app tokens; a blacklist | decode, look up, remember | nothing invalidates what is remembered, errors are values | what a request believes was true recently |
| Persisted queries (`src/persistedQueries`) | one map a process | register, look up, load the manifest | servers share nothing, restart | a request that gives a hash runs a text of that hash |
| Data loaders (`src/dataloader`) | a queue and a memory per request | load, batch | order and gaps of an answer, writes meanwhile | each load gets its own document, no older than the request |
| Pagination (`paginate.js`, `getPaginationAndFilterParams.js`) | none | first, last, after, before | writes between pages, two orders, two databases | where ids and times are in order a walk sees what was there all the time, once |
| Reads over two applications (`fetchList.js`, `fetchSingle.js`, relation directives) | none | local and remote parts of one record | two unordered answers, changes and failures on each side | parts are joined to their own record |
| Query limits (`validation/rules`) | none | depth and complexity | fragments, nesting, variables | what passes answers no more than the limit |
| Subscriptions (`resolvers/index.js`, `subscribeToEvents.js`, `pubsub.js`) | channels | publish, filter, resolve | notices out of order, the record has changed or gone, loaders that live as long as the subscription | a subscriber knows the end where reads are not memoized |
| Schema reading and generation (`src/autoGenerate/utils`, `models`, `types`, `query.js`, `mutation.js`) | the parsed schema | types served, fields, resolvers, inputs, columns | text spliced by position, relations matched by name | what is declared is served and stored as declared |
| File upload (`graphqlUpload.js`, `middlewares/utils`) | S3 objects | check, upload, report | several files, one fails, puts that nobody waits for | only what is allowed is sent, and an answer without an error sent all |
| Files and their use counts (`uploadFile.js`, `deleteMany.js`, `removeConnectionWhenDisconnected.js`) | `File` documents and their objects | make, use, release, delete | counts and removals that nobody waits for | a file in use stays |
| Studio data (`studio/api/modelAdapter.js`) | rows | list, get, create, update, delete, import, seed, purge | two names for a row | a change reaches the row that was shown |
| Aggregation pipelines, Studio routes, field directives, MongoDB connection, governance, SDK, server start, external services | - | - | - | see "Not modelled" |

A request over HTTP passes the authentication middleware, the multipart
middleware, the persisted-query plugin and the query limits; its context gets
loaders of its own. An operation over a WebSocket meets neither the plugin nor the
limits (`src/src/app.js:164-180`), and all notices of a subscription share one
context. The generated resolver checks permissions, calls a query or mutation
resolver and then the post-hook, also when the resolver answered an error. The
post-hook publishes to subscribers and calls `birdwatch`, which stores the
event and triggers the worker. The worker reads the collection (or the memory
queue), asks the registry which webhooks match, and posts to them. The Studio's
REST routes change the registry and the rows. Mutation resolvers reach MongoDB
through `MutationController` and `QueryController`, and call their own server's
GraphQL API for some reads (`callLocalGraphqlApi`).

## Modules

| Module | Models |
|---|---|
| `Outbox` | the outbox in full: any number of server processes, one MongoDB collection, per-process memory, webhooks, faults and exits |
| `OutboxContract` | what the outbox promises about one event, whichever store holds it |
| `OutboxRefinement` | the mapping of the outbox of one server to the contract |
| `MCOutbox` | instances for TLC |
| `OutboxProofs` | theorems for every value of the constants: types, honest records, delivery to the environment, attempts and terminal states, and of one server every subscriber, no duplicates, the contract |
| `RelationMutations` | adding to, removing from and deleting documents of one relation: overlapping mutations, each several database operations without a transaction |
| `RelationContract` | what these mutations do to the relation, as one set of pairs, when they do not overlap |
| `RelationRefinement` | the mapping of these mutations to the contract |
| `MCRelation` | instances for TLC |
| `RelationProofs` | theorems about `RelationMutations`, with overlap and without |
| `NestedMutations`, `MCNested` | add and update with nested records and connections, from the creation of the related records to the roll-back |
| `FilterTests` | the tests of a filter and what MongoDB makes of them, relation filters |
| `Filters` | nested filters, as a MongoDB query and as a test in memory |
| `RowSecurity` | filters as a Sequelize clause, and the policy that is put into them |
| `Schema` | reading of types and fields, what a secondary application serves, generated operations and resolvers, arguments of relation fields, storage in both databases |
| `Access` | rules of types and fields, and the controllers' gate |
| `QueryLimits` | depth and complexity of a query |
| `ArrayUpdates` | operations on embedded arrays and what they disconnect |
| `Uploads` | what the multipart middleware does with each file |
| `PlainSamples` | inputs and properties of `FilterTests`, `RowSecurity`, `Access`, `Schema`, `ArrayUpdates` and `Uploads`: parts without state that need no recursion over nested inputs |
| `Samples` | extends it by those of `Filters` and `QueryLimits`, which do |
| `Paging` | a client that walks through pages while others write |
| `StudioData` | clients of the Studio's data browser on one collection |
| `Sessions` | requests, Redis and a database that changes |
| `PersistedQueries` | clients and servers that share nothing |
| `RequestLoaders` | the loaders of overlapping requests |
| `Files` | documents, objects, counts and what mutations leave behind |
| `Reads` | one read of each kind over a local and a remote side that change |
| `Notices` | mutations, their notices in any order, and subscribers |
| `Common` | what these parts share |
| `MCParts` | instances of these for TLC, one part running at a time |
| `NestedProofs` | theorems about `NestedMutations`: what a roll-back deletes, and the references |
| `RequestProofs` | what a request rests on: theorems about `Sessions`, `PersistedQueries` and `RequestLoaders` |
| `RecordProofs` | what is written about records: theorems about `Files` and `StudioData` |
| `ReadingProofs` | what is read in steps while others write: theorems about `Reads` and `Paging` |
| `NoticesProofs` | a theorem about `Notices` |
| `SamplesProofs` | theorems about the properties of `PlainSamples`, for every input |

The outbox, the relation mutations and the nested mutations have state spaces
of their own. The other parts share no state with each other, so `MCParts` puts
them side by side: `focus` says which part runs, and the number of states is
the sum of theirs, not the product. It extends them all, so their names are
different (`SessionInit`, `LoaderInit`, ...) and TLC evaluates their assumptions.

### How `Outbox` corresponds to the code

* `mongo[e]` is the `OutboxEvent` document of event `e`, `mem[s][e]` the entry
  of server `s`'s `inMemoryOutbox`, `slot` the Map's insertion order.
  `nextAttemptAt <= now` is the field `due`; `BackoffElapses...` makes it true.
* `Emit`, `CreateLands`, `CreateResolves`, `CreateRejects` are the parts of
  `birdwatch`/`enqueueEvent` before and after its awaits. The insert may take
  effect before, or without, its answer reaching the server. The in-process
  listeners (external code) run before `enqueueEvent` and do not touch this
  state. A server process may die between any two of them.
* `run[s][k]` is a call of `processPendingEvents`: by the timer (`Tick`) or by
  `setImmediate` (`Kick`). Its `pc` is the await it stands at. Records fetched
  from MongoDB are copies (`seen`); records of the memory queue are the queue's
  own objects and are read live (`Record`), as in JavaScript.
* `MarkDelivered`, `MarkFailed`, `RecordWebhookDelivery` write MongoDB when
  connected, without a condition on the status, and the memory entry if any.
  A rejected write is swallowed.
* `DispatchThrows` is the path outside `dispatchWebhook`'s `try`.
* A webhook is identified by server and registration number, because its id is
  a fresh `cuid` per registration.
* `Boot`, `Connect`, `Disconnect`, `Drain`, `Exit` are the process and its
  connection. `Exit` loses everything in memory.
* `owed` and `acked` are history: who was subscribed when an event was emitted,
  and who answered 2xx.

Left out: the content of payloads and signatures, HTTP details, clock skew
between servers (events are numbered by `createdAt`), and an answer that is
lost after the receiver processed the request (the server sees a failure, and
sends again: a receiver may see an event twice, which no sender can avoid). An
update that is in flight when its process dies takes effect before the exit or
not at all; only the insert of a new event may land afterwards. An update that
takes effect although it is reported as failed is the same as one that succeeds,
because the error is only logged. `setEventNextAttempt`, `clearInMemoryOutbox`
and `clearWebhooks` are called by tests only.

A restart also renames the environment's webhooks (their ids are fresh), so a
retry after a restart reaches a destination that already acknowledged, and it
forgets the Studio's, so an event owed to them alone completes as DELIVERED.
Both follow from `Boot` and `Exit`; `NoDuplicateDelivery` and
`DeliveredMeansReceived` are therefore checked without exits, and `EnvDelivered`
is stated for environment destinations, which survive.

### How `RelationMutations` corresponds to the code

* `As` are the documents of `typeName`, `Bs` those of `relatedType`.
  `ref[d][x]` counts the relation objects in `d`'s field whose `typeId` is `x`;
  a single field holds at most one, a list can hold one twice. A deleted
  document holds nothing; other documents may still refer to it.
* `schema` is what the resolvers read from the parsed AST: whether each field
  is a list, and whether the relation has a far field. It never changes.
  `hasUpdate` says whether the model class has the method `update` that
  `MutationController.update` calls. `package.json` asks for Mongoose ^7.6.10
  and the lock file fixes 7.8.12, where it is gone: with the versions as they
  are `hasUpdate` is FALSE. Runs assume TRUE where they ask whether the
  resolvers' logic is right, and the run `relation_pinned` shows what happens
  otherwise.
* `req[r].at` is the await at which a mutation stands: the check that the pair
  is, or is not, related (`AddChecks`, `RemoveChecks`), the two fetches of old
  partners (`FetchOldA`, `FetchOldB`), `Promise.all` (`Answers`). The
  synchronous code up to the next await belongs to the action.
* `jobs` are the database operations that a mutation has started. A `link` is
  `updateDocument`: `findOne` and merge (`LinkFinds`), then `save`
  (`LinkSaves`). The merge is done on the copy that was read, and Mongoose
  writes the changed paths, so two saves of one list both take effect, and can
  both add the same reference. An `unlink` is one `$pull`, or one `$set` to `{}`
  that does not look at what the single field holds.
* `updateDocument` rejects if its document is gone; `update` does not.
* `JobFails` rejects an operation before or after it took effect, `ReadFails`
  one of the reads before the writes. A rejection ends the mutation while its
  other operations go on; the resolvers' `rollBack` is empty, so nothing is
  undone. `delete` swallows it (`checkAndDeleteReferences`).
* A multi-document update of `delete` is one `unlink` per document. A read that
  only produces the answer (`fetchById` after an update) is merged with it.
* `settled` is history: documents and relation when last nothing was running.

Left out: additional relation fields, version history, permission checks,
remote relations, usage counts of files and subset deletes.

### How `NestedMutations` corresponds to the code

* A mutation is about one parent; its input has, for each relation field, new
  related records (`news`) and ids to connect (`connects`). `req[r].at` is the
  phase at which it waits: `create` and `count`
  (`processRelationInputFields`), `fetch` (update only), `hook`
  (`callPrehooksForRelationsAddedInRecord`), `save`, `link`
  (`saveReferenceInRelatedTypeField`).
* `todo` are the fields whose results are still to be looked at, in order;
  `broken` those for which a creation was rejected; `saved` is
  `allSavedRelationRecords`, what a roll-back would delete.
* `jobs` are database calls in flight: `save` a related record or the parent,
  `link` a reference back, `cut` a former partner's reference, `undo` a
  deletion of the roll-back. Cuts and undos go on after the answer.
* Former partners are those that a single field named in the copy that was
  fetched. They are noted under the name of the field that refers back
  (`Disconnected`).
* `gone` and `blurred` are history: related records that other clients deleted,
  and mutations with an operation that was rejected but took effect, or with a
  rejected cut or deletion of the roll-back.
* `KeepsExisting` holds because what is noted as saved is created by the
  mutation itself; `RollBackUndoes` is stated for the failures that are caught:
  a rejected prehook is awaited outside of the `catch` and leaves the related
  records behind.

### How the parts correspond to the code

* A filter has three interpreters: `MongoHolds` and `MemoryMatches` in `Filters`,
  `SqlHolds` in `RowSecurity`. It is a sequence of entries, because the order of
  its keys matters to Sequelize. `FilterTests` has a single test: `Means` is what
  its operator says, `Condition` and `Meets` what the code hands to MongoDB and
  what MongoDB does with it. `Means` takes one of four ways of comparing texts:
  as written (`"exact"`, in memory), without regard to capitals (`"folded"`), as
  an unescaped regular expression with the option `i` (`"regex"`, what MongoDB is
  given) and as a pattern of `ILIKE` (`"like"`, PostgreSQL).
* `RowSecurity`: `Secured` replaces the policy's field by the claim, and
  `AskedFor` says what reaches the database: what the policy makes of the filter
  `by` a `"filter"`, the id as it came `by` an `"id"`. The keys of one object
  replace each other, those of the parts of `and` and `or` do not touch them, so
  of a part only counts whether the row passes it (`held`).
* `Schema` reads a list of types with their wrappers, relations and directives.
  `WithArguments` splices into the first occurrence of a name in the printed
  type, as `query.js` does; the text is a sequence of fields whose names are
  sequences, so that one name can end another. `MongoField` distinguishes
  scalars, enumerations and embedded types, each of which a generator of its own
  turns into a field of Mongoose, and leaves out of a list what Mongoose does not
  heed there; `SqlTable` is what Sequelize is given for all of them.
* `Access`: a rule is a list of entries for apps, roles and operations; `Verdict`
  goes through a selection as `validate.js` does; `Gate` is `MasterController`. A
  selection is the set of paths to its fields, `TypeAt` the type that a path
  leads to. `Within` is `includes` of a text, given by the pairs of names one of
  which contains the other (`Contained`); `CoversApp` tells a list of app names
  from a `Single` one, which is compared in that way too.
* `Paging`: a record has the id that the cursor compares and the time by which
  pages are sorted; `InsertListed` gives ids and times in any order, equal times
  included, and `ordered` notes whether they were in order so far. A walk is on
  one of the two databases (`pg`), with or without a filter of ids: `Chosen` has
  MongoDB replace the filter's test of the id by the cursor, `Unanswerable` is
  the query that PostgreSQL refuses, which `FailPage` reports. `Sortings` are all
  the orders that a sort by time may give; `CountListed` and `ReadBackward` are
  the two queries behind `last`.
* `StudioData`: a name is a key of MongoDB or an id of the application, and
  `Targets` are the rows that `$or` finds.
* `Sessions`: reads of Redis and of the database are steps of their own, what is
  written to Redis lands later (`Land`), `Tick` is the time that ages it. The
  lags say how long ago a belief was last true.
* `PersistedQueries`: `Ask`, `Retry` and `Bare` are the three kinds of requests,
  at any server; `Mistake` sends a hash with another text; `Restart` reads the
  manifest again. `Words` says which of the tested words a text includes, and
  `IsIntrospection` is the test of the code, for substrings.
* `RequestLoaders`: `Load` queues or answers from the memory, `Dispatch` is the
  batch, answered in any order and without what does not exist.
* `Files`: mutations one after the other, since `removeRelation` and `deleteUtils`
  already count by what they read; what they do not wait for is in `late` and
  happens at any time. `risked` notes deletions by id, and a use between the two
  late steps of a removal. `Model.update` is taken to exist.
* `Reads`: a part of a record is the id of the record it came with, so that a
  part on the wrong record shows. `ModeKnown` says whether the constant that the
  check in front of every read needs is defined: FALSE at this commit
  (run `reads`), TRUE in run `parts`, where the rest of the resolvers is
  checked as the documentation of the `cascade` mode has it.
* `Notices`: a notice carries what the mutation wrote; filter and relations are
  read when it arrives. A subscription has one context, and so one set of loaders:
  `memoizes` says whether the type's single query goes through them (types with
  aggregation or a policy do not), `memo` is what the subscription's loader
  remembers. The local read is taken to work, as in `Reads` with `ModeKnown`.
* `Uploads`: `CheckedAndSent` hands a file to S3 and goes on; which puts fail
  comes later and is no part of the answer (`Stored`).
* `ArrayUpdates`: `Fails` says which operations throw, `Done` what the others do.
* `Uploads`, `ArrayUpdates`, `QueryLimits` are functions of one request.

Every definition whose comment begins with "Variant:" is a plausible bug of the
definition that follows. None is used by the specifications; each shows that a
property would notice it.

## Runs

The outbox. Bounds: `MaxGen` registrations per server, `MaxFaults` failed
MongoDB operations and disconnections together, `MaxExits` crashes and
shutdowns. `MaxAttempts` is 2 instead of 5 and `BatchLimit` 1 or 2 instead of
25: two attempts distinguish the first, the last and a stale copy; two events
with a limit of one make the second wait its turn. Deadlock is checked in every
run of the outbox, of relations and of nested mutations: some server can always
tick, or boot, and finished mutations stutter explicitly where they may all be
over.

| Run | Configuration | Shows |
|---|---|---|
| `solo` | 1 server, 2 events, a fault, an exit, a destination that throws | `TypeOK`; `AttemptsBounded`: exactly `MaxAttempts` rounds; `TerminalIsFinal` |
| `fleet` | 2 servers, 1 event, a fault and an exit (servers symmetric) | `HonestRecord`, `EnvDelivered`, `GivenUpLate` in spite of stale copies |
| `settles` | 1 server, 2 events, batch limit 1, an environment and a Studio destination, one fault, which may be a create whose answer is lost | `NoDuplicateDelivery`; `DeliveredMeansReceived`, also with the event in both stores; `KeepsContract`: up to the fault the outbox implements `OutboxContract`; liveness: `EveryEventSettles` |
| `failed_again` | 2 servers | finding: a stale run makes a settled record pending again |
| `throwing_webhook` | 1 server | finding: a dispatch that throws blocks every later event |

Relations. Every kind of relation is checked: lists or single fields at either
end, with and without a far field, from every legal initial relation.
`MaxOpen` mutations overlap, `MaxFaults` operations are rejected. Two documents
of a type are what a single field and a list can tell apart. Where requests are
symmetric, TLC is told so, except for liveness.

| Run | Configuration | Shows |
|---|---|---|
| `relation_serial` | 2 + 2 documents, 3 mutations one at a time | `BothEndsAgree`, `DeleteLeavesNoReference`, and `KeepsRelation`: the refinement of `RelationContract` |
| `relation_overlap` | 1 + 2 documents, 2 mutations at a time, a fault, with and without `Model.update` | `TypeOK`; `KeptLinks`: additions to lists hold; `RemovedStays`: removals hold; liveness: `EveryMutationEnds`, writes that outlive an early error included |
| `relation_split` | 2 + 1 documents, 2 additions to a single field | finding: both ends disagree after overlapping additions |
| `relation_pinned` | 1 + 1 documents, a deletion, no `Model.update` | finding: references to the deleted document stay |

What the serial run shows does not hold with overlap or faults: two additions
of one pair can store it twice, a rejected write leaves the other end alone.
The properties of the overlap run are those that survive both.

Nested mutations and the parts.

| Run | Configuration | Shows |
|---|---|---|
| `nested` | 2 parents, 5 related records of 2 fields (a list and a single one, with either kind of far field), 2 mutations at a time, each with up to 2 related records, and one fault or deletion by another client | `KeepsExisting`: a roll-back deletes nothing that was there; `RollBackUndoes`: it deletes all that was created; `AnsweredIsLinked`: a success is linked at both ends; `FormerIsFree`: the partner that was replaced is released |
| `reads` | a read of each kind | finding: every list and single read ends in a TypeError |
| `parts` | see below | one property for each part |

Two mutations are what the hazards of `nested` need: one that rolls back or cuts
late, and one that uses the record meanwhile. One field a list and one single is
enough to mix them in one input and to make the second fail after the first.
The types of the two fields refer back under different names.

In `parts` each pure part is checked on every input of a family that its comment
in `PlainSamples` or `Samples` gives: filters of up to two levels with every
operator that `query.js` offers, against records with absent, single and several
values, texts in capitals and not, and arguments with a special character of
regular expressions; filters and ids in front of a policy, with up to three keys;
up to four links, dangling ones among them; three types with every combination of
two wrappers and references; up to four relation ends on two types; three fields
of scalar, enumerated, embedded and related types, whose names may end each other;
every place of a rule with up to two entries, which may name the same app, an app
or a role that contains another, a list or all; three nested selections; arrays of
three elements, embedded or plain, whose references may be shared or kept; two
files, any of whose puts may fail. The others run through all interleavings: three
insertions among four ids, with equal times, on either database, with and without
a filter of three of the ids, and pages of one and two (`first` 3 is capped at
`DefaultLimit` 2); three rows and pages of two; two requests, one change, one
failed read and a clock to 4 with ages of 1 and 2; two servers, one client and
four texts, two of them with one hash and one that asks for `__typename`; two
requests, two ids and three versions; two files, two records and three things left
behind; two records on two sides and two writes; three mutations and four kinds of
subscribers, with and without memoized reads. Three records are what a walk needs
to have one behind its cursor, one ahead and one that comes or goes. Deadlock is
not checked in `parts` and `reads`: a sample, a read and a walk end.

| Property | Part | What it says |
|---|---|---|
| `FiltersAgree` | `Filters` | MongoDB selects what the operators mean without regard to capitals, the interpreter in memory what they mean as written; so what the second selects the first does too, but for `not_contains` |
| `SecuredRows` | `RowSecurity` | rows of a list or a count are of the claimed tenant whatever the client's filter, and are all that the rest of it asks for; a read by id answers whichever tenant's row |
| `RelationFilterMeans` | `FilterTests` | `_some` and `_none` are about related documents that exist, a test of an additional field about the link, dangling or not; beside tests of the documents it is tried by itself, and the answer errs on the sides that the property states |
| `SecondaryCloses` | `Schema` | a secondary application serves every type that its types refer to |
| `ConnectMutationsServed` | `Schema` | every declared addTo and removeFrom writes the ends it promised |
| `FieldsSurvive` | `Schema` | arguments leave the fields as they were; PostgreSQL, the inputs and the Studio agree on a field, MongoDB on scalars and on just the default of enumerations |
| `OnlyThePermittedPass` | `Access` | a rule passes what its entries cover - for an app what the first entry that names it covers -, its opposite the rest; the gate stops the blocked, and the unpermitted of apps with integrated permissions |
| `CostCoversAnswer` | `QueryLimits` | what passes both limits answers no more |
| `RemovedAreDisconnected` | `ArrayUpdates` | what an array no longer refers to is disconnected, and, but for `replace` and shared references, only that |
| `StoredAsAllowed` | `Uploads` | a file is sent only if it may be, whatever becomes of the others; what is missing after an answer without an error are the files whose puts failed |
| `WalkIsComplete` | `Paging` | with ids and times in order a walk sees every lasting record once; the filter holds on PostgreSQL and on MongoDB's first page; on PostgreSQL just the walks without a filter fail, after one page |
| `TouchesWhatWasShown` | `StudioData` | a name changes the row it was shown for |
| `SessionIsCurrent` | `Sessions` | what a request believes was true at most so long ago |
| `RunsWhatWasAsked` | `PersistedQueries` | the text that runs has the hash that was asked for, and on a safelist is of the manifest or includes `__schema` or `__type` |
| `LoadsAreOwnAndFresh` | `RequestLoaders` | a load answers its own document, no older than the request |
| `FilesInUseStay` | `Files` | a file in use exists, is counted and is stored |
| `AnswersBelongTogether` | `Reads` | parts are on their own record, and nothing lasting is lost |
| `NoticesCatchUp` | `Notices` | when all is quiet, subscribers without memoized reads know the end; with them, all answers with relations are the first one's |

The exceptions that a property makes are in its comment. Under "hazards",
`PROJECT.json` lists the forty places of this code that matter most, each with
the properties that cover it or the reason why none does.

Fairness. `Outbox`: the event loop runs callbacks that are ready (`Tick`,
`Kick`, the worker's steps; requests are bounded by the 5 s abort), clocks
advance (`Backoff`), an insert that was sent lands and is answered, a stopped
process is started again and the driver reconnects. Nothing is assumed of the
Studio's users, of faults and of crashes; the liveness run allows a bounded
number of faults and no exit, because what is in process memory is not meant to
survive one. `RelationMutations`: a promise callback that is ready runs, and the
database answers some operation whenever one is in flight; it may reject. The
other modules state safety only.

## Proofs

`OutboxProofs` has three parts that build on each other. The first proves, for
any sets of servers, events and destinations and any bounds:

* `TypeCorrect`: `Spec => []TypeOK`. The invariant `TypeInv` adds `ShapeOK`: a
  run at a webhook has a record and a webhook, and a created event has a home;
  without it `acked` and the stores could be written at no event.
* `RecordsAreHonest` and `DeliveredToEnvironment`. The invariant `DeliveryInv`
  follows the evidence from a 2xx answer to the stores: `DocHonest` says of
  every document what the properties say, `RunHonest` says that a run's copies
  are honest and that, unless it has failed, each environment destination is
  still in its list or already in `acked`, `RegistryKept` that a live server
  has a registration for each such destination, `AliveOK` that timers and
  pending callbacks belong to live processes. New acknowledgements only help
  (`HonestGrows`), so stale copies stay honest: this is why the result needs no
  assumption on the number of servers, on faults or on crashes.

The second follows the number of attempts:

* `GivenUpAfterAllAttempts`: `Spec => []GivenUpLate`, for any number of servers,
  with every fault but one, `AckLoss` (a create that is reported as failed after
  it took effect). `RetryInv` says how a run's number of attempts relates to its
  caller's step (`RunsFit`), that a server has one batch at a time although a
  timer, a mutation and a start can all ask for one (`OneAtATime`), that an event
  is in the store its enqueue chose and in no other (`Placed`, `OneStore`), and
  that who gave up had used all attempts (`GivenUp`). A stale copy can take the
  number of attempts back, so nothing sharper holds of several servers (run
  `failed_again`); with `AckLoss` an event has a record in both stores and the
  numbers of one tell nothing about the other.
* `AttemptsAreExact` and `SettledIsFinal`: `Spec => []AttemptsBounded` and
  `Spec => TerminalIsFinal`, with one server (`Single`). `SoloInv` adds that the
  run's number is the stored one (`RunsCurrent`): what one server read nobody else
  changes before it writes, also across a failed update, a shutdown that lets the
  batch end, and a crash.

The third follows who is owed what, with one server:

* `DeliveredUntilExit`: `Spec => [](exits = 0 => DeliveredMeansReceived)`,
  whatever operations fail. `OwedInv` says that a webhook that was registered at
  the emission and has not answered 2xx is still registered and in the list of
  the run that is about the event (`RunsOwe`, `Subscribers`), and that a complete
  record therefore has no such webhook (`CompleteOnes`). After an exit the
  webhooks have new ids and the Studio's are forgotten, so nothing is claimed.
* `NoneCalledTwice`: `Spec => []NoDuplicateDelivery`. `OnceInv` says that, up to
  the first fault or exit, every acknowledgement is in the stored record or in
  the run that is about it (`AllOnRecord`, `RunsOnce`): the next batch reads it
  from there and leaves the webhook out.
* `OutboxKeepsContract`: `Spec => KeepsContract`, the refinement. Emission is
  the contract's `Accept`, an answer 2xx its `Acknowledge`, `MarkDelivered` its
  `Complete` by `DeliveredUntilExit`'s invariant, `MarkFailed` its `FailRound` by
  `SoloInv`, the removal of a webhook its `Release`; every other step stutters.

Several servers are not covered, and run `failed_again` shows why:
`getPendingEvents` (`src/src/birdwatch/outbox/index.js:61`) is a plain read, and
nothing keeps a second server from the same batch.

`RelationProofs` proves, for any sets of documents and requests, any kind of
relation and any number of overlapping mutations and rejected operations:

* `RelationTypeCorrect`: `Spec => []TypeOK`, from `DataOK`, its part that does
  not mention the history variable.
* The invariant `ShapeInv` that the other two rest on: arguments have the right
  sides, an operation in flight belongs to a mutation that started it and has a
  reason (`Causes`), and a mutation that was answered "ok" has nothing in flight
  (`AnsweredLast`).
* `RemovalsStay`: `Spec => []RemovedStays`. `RemovalInv` says of every removal
  that is past its check and has not failed, if nobody asks to add the pair: at
  each end the reference is gone or its `unlink` is in flight. `NewReferences`
  shows that only an addition of the pair can bring it back.
* `AdditionsStay`: `Spec => []KeptLinks`. `AdditionInv` says the same of an
  addition to lists that nobody disturbs: at each end the reference is there or
  its `link` is in flight, and a `link` that found the reference present can
  rely on it until it saves. `UnlinkEnds` and `Causes` show that an operation
  which takes a reference away belongs to a removal of that pair, to the
  deletion of one of the two, or to a single field whose partner is replaced.

Its second half is about mutations that do not overlap. The hypothesis `Serial`
is a statement about the constants: `MaxOpen = 1`, `MaxFaults = 0`, finitely many
requests, and schemas with `Model.update`. Without the first the results are
false (run `relation_split`), without the last as well (`relation_pinned`), and a
rejected write leaves one end as it was, since nothing is undone. Documents,
kinds of relation and the number of mutations remain arbitrary.

* `SerialBothEndsAgree`: `Spec => []BothEndsAgree`.
* `SerialDeletes`: `Spec => []DeleteLeavesNoReference`.
* `SerialKeepsRelation`: `Spec => KeepsRelation`, the refinement of
  `RelationContract`: what takes a mutation up to two reads and several writes
  becomes one `Connect`, `Disconnect` or `Delete` when the last write has ended,
  and a refused mutation becomes a stutter.

`SerialInv` compares the documents with `settled`, the relation before the
mutation. A document that the running mutation has yet to write (`Waits`) shows
the old relation, every other document the new one (`Progress`); `New` says what
the operation is to make of the relation, with the partners that a single field
loses. Waiting is what the lookups need: `fetchOldRelatedTypeId` reads the old
partner of the far side after the near side has been written, and finds it only
because the far side still waits. `JobsRight` says that no two operations are on
one document, and that an `unlink` finds the reference it is to remove: a single
field is reset whatever it holds, so it would otherwise cut off somebody else.
`Tidy` keeps a single field at one partner and references away from deleted
documents' fields, and `NoneDangles` says who still has to cut a reference to a
deleted document. `JobMeans` is the heart: what an operation makes of its document
(`After`) is what the mutation is to make of it. `ResolverKeeps` and `DatabaseKeeps`
carry this through each action, `FinishedRefines` reads the contract's step off it.

`NestedProofs` proves, for any records, fields and kinds of relation and any
number of overlapping mutations, faults and deletions by other clients:

* `NestedTypeCorrect` and `ExistingAreKept`: `Spec => []KeepsExisting`.
  `NestedInv` says that what a mutation creates or notes as saved was not there
  at the start (`FreshInv`), and that a deletion of a roll-back is never about a
  record that was. All steps but the beginning of a mutation and the two kinds of
  deletion are `Ordinary`: they make no record disappear and put nothing else
  into the notes than what the mutation makes itself.
* `NothingIsLeftBehind`: `Spec => []RollBackUndoes`. `UndoInv` adds that each
  record has one mutation that makes it and none exists that nobody made
  (`OwnRight`), that related records are saved only before the first of them is
  noted (`SavesRight`), that from the creation on all new records are noted and
  the mutation's own as soon as it exists (`NotedRight`), and that after a
  failure each of them that exists has a deletion in flight (`UndoRight`). Other
  mutations cannot bring one back, because only its maker saves it and an update
  rejects when its record is gone (`OthersKeep`).

Its second half goes on from `UndoInv` to the references, with the same
generality:

* `LinkedWhenAnswered`: `Spec => []AnsweredIsLinked`. `LinkInv` says that a call
  in flight belongs to a mutation with a reason to make it (`CallsRight`), that
  what a mutation noted is consistent (`NotesRight`: a former partner is never
  one to be connected), that what it counted is still there if nobody else has
  to do with it (`AreLive`), that a connect which a list held already is linked
  at both ends (`Skips`), and of a saved record that it has its references
  (`Refs`) and that each reference back is there, in flight or rejected
  (`Backs`). `Skips` needs to know where such a reference came from: one that no
  mutation had a hand in is of the beginning and at both ends (`Symmetric`), and
  only records that exist have references (`OfLive`).
  `MutationLinked` and `CallLinks` say once what every step of a mutation and
  every call leaves alone, so that each action has only its own mutation to
  answer for.
* `FormerPartnersAreFree`: `Spec => []FormerIsFree`, under `NamesDiffer`: each
  field that refers back has a name of its own. Without it the result is false,
  since `generateObjectToBeDisconnected` keeps one former partner per name.
  `FormerInv` adds that a record which nobody has saved yet refers to whoever
  refers to it (`BackHasRef`), that an update has noted everybody its connects
  replace (`NotesFormer`), and that a kid which still refers to the saved record
  is one it refers to, or is about to be cut off, or the cut was rejected
  (`LeavesNone`, `TakesAll`).

`RequestProofs` begins with two theorems about what a request meets before it is
executed. `WhatRunsWasAsked` holds for any servers, clients and texts, and any
words in them. `RunInv` says of every server that each text is known under its own
hash (`KnownRight`), and that a safelist has no more than the manifest
(`SafelistRight`), if the manifest is right, which `loadManifest` does not check.

`BeliefsAreRecent` holds for any number of requests, changes and faults, any
ages and any delay of a write. `SessionInv` gives each value an age: a write on
its way says what was true when it was read (`WriteRight`), an entry of Redis
was true at most as long ago as it has been held and its write took
(`EntryRight`), a request's belief follows from the entry it was read from
(`CallRight`). `StillRight` shows that this survives every step in which time
stands still, `AgedRight` that it survives a tick, because an entry grows older
by what time goes on. Once a read of the database has failed, nothing is
claimed.

Its third theorem is `LoadsAnswerTheirOwn`, for any requests and ids.
`LoaderInv` says that what a request keeps is under its own id and was read since
the request began; the versions of the database only grow. The work is in the
batch: `FoundAll` says that a query finds each document that exists, in any
order, and `AnswersRight` that matching by id puts each on its own place, also
when documents are missing and an id stands in the queue twice.

`RecordProofs` proves `UsedFilesStay`, for any files and records, any number of
uses and of steps left behind. `FileInv` counts: as long as nothing was risked,
the use count of a file covers its users together with the decrements that late
steps still owe (`Owed`, `FileRight`), so a late step that finds 0 finds no user;
a file about to be removed has none; and what is counted is stored or its store
is under way (`Stored`). `OfMade` keeps late steps to files that were made:
an id is given once.

It also proves `NamesReachTheirRow`, for any number of rows and any
size of a page. `StudioInv` says that keys and ids are unique (`RowsRight`), that
what a client was shown is still there under one of its two names (`ShownRight`),
and that who has the name of the last update or deletion is the row it was about
(`HitRight`), also if a row is created later. `FoundByName` is where the
property's exception is needed: an id that is another row's key lets one name
find two rows. `JobRight` keeps the ids of an import to names, so that the absent
name is none of them.

`ReadingProofs` proves `AnswersAreWhole`, for any finite set of records, any order
in which rows and remote parts come back and any number of writes on both sides
meanwhile. `ReadInv` says at each await what the read holds: the ids that one side
answered are distinct, asked for, and among them is all that lasts (`Listed`); a
remote part that is back belongs to its row, and is missing only from a record
that does not last or after a fault (`PartsRight`). `OrdersAre` says what a find
returns, `AnswersCounted` that each record is answered once.

It also proves `WalksAreComplete`, for any set of ids, any filters of them, any
lengths of pages and any number of insertions, deletions and pages, on either
database and whichever order a sort gives records of one time. `ListInv` says that
no two records share an id, nor a time as long as ids and times were given in
order, when both orders are one (`ListRight`); that all a walk on PostgreSQL has
seen meets its filter, and on MongoDB all on its first page, and which walks fail
(`FilterRight`). Where ids and times are in order and nothing was deleted between
a count and its query, all that a walk has seen is behind its cursor, each id
once, and all which was there at its beginning, met the filter and still is has
been seen or is ahead (`SeenRight`); and the count behind `last` is no more than
what is ahead now, with all that was there at the beginning and still is among
the first so many (`CountRight`): the query that skips by a stale count still ends
just before the cursor. `PageRight` shows that a window of any of the sorted lists
is a page of the records in order. On MongoDB a page after the first may hold records
outside the filter, so what lies ahead of a cursor is every record there (`Coming`).

`NoticesProofs` proves `SubscribersCatchUp`, for any sets of subscribers, any
subscribed events, any number of mutations, and types whose reads are memoized or
not. `NoticeInv` accounts for every notice that was ever owed: it is due, waits,
or was answered (`Counted`, and by name `Accounted`, for who reads the data of the
notice), and what waits is owed (`Owed`). Where nothing is memoized, the last
answer with relations was read from the database when it was given, so that
whatever it does not know belongs to a notice that still waits (`Knows`);
`VersionsRight` supplies that a record which is there is of the newest version and
nobody was told of its deletion. Where reads are memoized, every answer with
relations tells what the memo holds, which some notice was no newer than
(`Frozen`).

`SamplesProofs` is about functions of one input, and says for every input what
`parts` checks on a family of them:

* `UploadsAreChecked`: any number of files of any size, kind and extension, any
  type whose name is no MIME type, any field and caller, and any puts that fail.
  `FileByFile` follows the middleware's loop through the files and its first
  error.
* `SecondaryIsClosed`: any well-formed schema without lists of non-null elements.
  `Reached` repeats a step as often as there are types; `EnoughSteps` counts that
  this is enough, because every step that is not the last adds a type.
* `RelationFiltersMean`: any links, dangling ones included, any collections, any
  set of tests of every operator but bounds of 0 and the tests of texts, tests of
  additional fields, which are for equality, alone and beside others.
* `ConnectionsAreServed`: any schema in which a relation has at most two ends and
  their fields have different names. The declarations follow the first field of a
  relation and the resolvers the last; `FirstAndLast` shows that both are there,
  `EndsSeeEachOther` and `ShapesAgree` that they see the same pair of ends.
* `RemovalsDisconnect`: any array of embedded objects or plain values, references
  shared or not, any input and any operation but those that overwrite elements;
  where the operation throws nothing is claimed.
* `RowsAreSecured`: any sequence of entries with the operators that Sequelize is
  given, any row of at most one tenant and any claims, by filter or by id.
  `SecuredIs` says that the filter keeps its entries but for the tenant's and has
  the claim. Since the claim has no operator, a later key on its column throws
  (`SqlThrows`) and cannot replace it, so the row must meet it.
* `AccessIsAsRuled`: any number of entries, with apps that repeat and names that
  contain each other, for any app, role and operation, and any request at the
  gate, its app with permissions integrated or not. `RuleMeans` says that a rule
  which was read admits by its entries as they were written, `OnItsPlace` that it
  decides where it is and nowhere else, `TypesOnTheWay` which types a selection
  passes.
* `TypesSurvive`: any type with the wrappers that the grammar has, of scalar,
  enumerated, embedded and related fields, without the marks for generated fields
  and without defaults of embedded types, where no name ends an earlier one.

Their hypotheses (`AnyUpload`, `AnySchema`, `AnyLinked`, `AnyRelations`,
`AnyArray`, `AnyFields`, `AnySecured`, `AnyRule`, `AnyGate`) say what an input
is, and the exceptions that the properties' comments make. `EverySampleHolds`,
`PlainSpec => []SamplesHold`, shows that none is too narrow: whatever the run
picks satisfies them (`UploadsPicked`, `SchemasPicked`, ...). Folds and sums of
these definitions are unfolded without an induction theorem of the library: a
property of numbers is a set of numbers (`Induct`, `InductUpto`), shown to have
no least exception by the library's theorem on well-founded relations
(`LeastOf`), and a definition that goes step by step has a function of its steps
(`Stepwise`).

The proofs use the named assumptions on the constants: `SizesAssumption`,
`UrlsAssumption` and `NoneAssumption` (`Outbox`), `SidesAssumption`, `SchemasAssumption`,
`OpsAssumption` and `BoundsAssumption` (`RelationMutations`), `DocsAssumption`,
`FieldsAssumption`, `SchemasAssumption` and `BoundsAssumption`
(`NestedMutations`), `NoneAssumption` (`Files`: the missing count and the missing
record are no number and no set), `RowsAssumption` (`StudioData`: the missing
name is no name), `RecordsAssumption` (`Reads`: finitely many records),
`ListIdsAssumption` and `LimitsAssumption` (`Paging`: ids are numbers, which
stand for their order, filters are of ids, and no page is empty by its length), `VersionsAssumption`
(`Notices`: the missing record is no version), `NamesAssumption`,
`FieldNamesAssumption` and `RulesAssumption` (`PlainSamples`: what is missing has
no name, the family's fields are not called `id`, and its directives are there
and list their permissions). TLC evaluates all of them. Theorems state
three hypotheses themselves: `Ages` (`BeliefsAreRecent`), `NamesDiffer`
(`FormerPartnersAreFree`) and `Serial` (the three theorems on relations without
overlap).

Only model-checked are `FiltersAgree` and `CostCoversAnswer`: filters and queries
are nested to any depth, `Filters` and `QueryLimits` follow them with recursive
operators, and these are out of the prover's reach. So is liveness under fairness
(`EveryEventSettles`, `EveryMutationEnds`). `OthersSettle` and `ReadsAreServed` are
violated and nothing else checks them.

## Where the code differs from what one would expect

Reading the code for these models met differences from its documents, its
comments or from what a caller would expect. Five are shown by runs
(`failed_again`, `throwing_webhook`, `relation_split`, `relation_pinned`, `reads`).
The following are modelled as the code has them; the properties of `parts` state
the behaviour with its exceptions. Paths are those of `src/src` unless they begin
with `docs`.

* Texts in filters (`FiltersAgree`). MongoDB gets `contains`, `startsWith` and
  `not_contains` as regular expressions that ignore case and in which special
  characters of the argument keep their meaning (`filters.js:274,278,347`); an
  argument that is no valid pattern is an error, which is left out. The
  interpreter in memory compares as written (`compileFilter.js:54-62`). PostgreSQL
  uses `ILIKE`, without escaping; its `%` is left out. `not_contains` is
  documented as `NOT ILIKE` (`docs/postgresql-guide.md:241`), but a key is cut at
  its last underscore, so the clause has no such operator.
* Row-level security (`SecuredRows`). `fetchById` heeds only the refusal of
  `applyRowLevelSecurity` and reads by the bare id
  (`QueryController/index.js:89-131`); so do updates and deletions by id.
  `verifyRLSOwnership` and `applyRLSToInput` have no callers.
  `docs/directives-reference.md:109-114` promises filtered reads, tagged creations
  and rejected modifications.
* Relation filters (`RelationFilterMeans`). A test of an additional field looks
  at the link only, so a link to a deleted document passes it. In an `and` or `or`
  it becomes a condition beside the one for all tests of the related document
  (`filters.js:87-134`): different links may meet the two, `_none` with `or` also
  answers documents of which some link passes one of its tests, and an `or` of
  additional fields alone answers every document with a link that does not dangle,
  because no tests at all select every related document.
* Storage (`FieldsSurvive`). On MongoDB, fields of enumerations lose `required`,
  `unique` and the index, fields of embedded types their default as well
  (`models/index.js:20-110`, `getEnumTypeMongooseSchema.js:2-13`), and Mongoose does
  not heed the index and default that stand beside a list. `@createIndex` and
  `@defaultValue` without a value, or with a falsy one, are as if absent.
  `docs/directives-reference.md:419-424` promises the index for every field.
* Rules (`OnlyThePermittedPass`). Of an app rule the first entry that names the
  app decides; `"*"` and lists of apps match no app there. A user rule takes a
  role, and a single app name, for covered when it lies within the text of a named
  one (`validateAppAndUserPermissionOnFields.js:23,44,78`). The permissions of
  users are asked for in apps that have them integrated, and at this commit the
  list of those apps is empty (`constants/index.js:22`).
* Arrays (`RemovedAreDisconnected`). `pushToSet` always throws: it calls
  `validateClassItemsUniqueness`, which `controllers/utils/utils.js:154-159` does
  not export. Operations that take plain values out of an array throw at
  `toObject`. `replace` also disconnects what the new array keeps
  (`arrayOperationUtil.js:87-93`), and a removal what another element still refers
  to. An array that is null in the database is not modelled.
* Uploads (`StoredAsAllowed`). The put to S3 is neither awaited nor returned
  (`resizeAndUpload.js:8`), so its rejection reaches only
  `process.on('unhandledRejection')` and the client was told of success. Allowed
  types are MIME types that are compared with names of GraphQL types
  (`constants/index.js:139-144`, `checkFileSizeAndExtensions.js:123`), so no file
  of another kind is ever accepted. `docs/file-management-guide.md:82-84` gives a
  limit of 25 MB; the code's are 50, 55 and 200 by kind, and read no such
  variable.
* Pages (`WalkIsComplete`). On MongoDB the cursor replaces what the filter said of
  the id, so that later pages leave the filter. On PostgreSQL a walk with neither
  filter nor policy fails at its second page, because the cursor becomes a value
  to be equal to (`getPaginationAndFilterParams.js:102-104`,
  `sqlModelGenerator.js:318-319`). Equal times of creation, or ids that are not in
  the order of creation (they are made by several servers), let a walk miss or
  repeat records.
* Persisted queries (`RunsWhatWasAsked`). With only the safelist allowed, a text
  without a hash runs if it includes `__schema` or `__type`, and so does any that
  asks for `__typename` (`persistedQueries/index.js:196-198`), although the comment
  above and the error's text say that arbitrary queries are rejected. Operations
  over WebSockets do not meet the plugin. Apollo Server's own persisted queries are
  not modelled.
* Subscriptions (`NoticesCatchUp`). The loaders of a subscription remember its
  first read for all later notices, although the comment at
  `dataloader/index.js:60` speaks of a single request tick: from the second notice
  on an answer with relations may be older than the change it announces. Types
  with aggregation or a policy are read without loaders.

## Not modelled

* Aggregation pipelines: `checkIfDatabaseAggregationAllowedOnType` throws before
  any pipeline is built (run `reads`), and what would be built is one query.
* The MongoDB connection: timers around the driver's own reconnection. `Outbox`
  takes the connection as a switch.
* Governance: `schemaDiff.js` hands two schemas to `findBreakingChanges` of
  graphql-js and sorts its answer. SDK generation prints text. Field directives
  format one value each.
* Studio routes: REST routes over the other components, prompts for a language
  model, counters. Its webhook routes are actions of `Outbox`.
* Server start, mail, SMS, push, APM and logging: wiring and calls of external
  services.
* Of modelled components: additional fields of relations outside of filters,
  version history and its filters, remote relations in mutations, `updateMany`,
  subset deletes, sums and counts by group, overlapping mutations of one file,
  the iterator that custom subscriptions share, `clear` of loaders,
  `applyRLSToInput` and `verifyRLSOwnership` (nothing calls them).

The hazards without a property say in their note what stands in the way.
