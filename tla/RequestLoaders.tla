--------------------------- MODULE RequestLoaders ---------------------------
(***************************************************************************)
(* The loaders of a request: dataloader/index.js, made in app.js for every *)
(* request and used by fetchById and fetchOne of QueryController.  Loads   *)
(* of one tick become one query; what was loaded is kept until the request *)
(* ends, also when a mutation of the request changes it, since nothing     *)
(* calls clear.  A document is the number of its version, 0 if there is    *)
(* none.                                                                   *)
(***************************************************************************)
EXTENDS Common, Naturals, Sequences, FiniteSets, Functions, SequencesExt

CONSTANTS Contexts,  \* those of the requests that may overlap
          Ids, MaxVersion

VARIABLES docs,     \* id -> version in the database
          loaders,  \* request -> [open, queue, memo, from: docs when it began]
          loaded    \* the last answer: [id, doc, from]

loaderVars == <<docs, loaders, loaded>>

Unread == [i \in {} |-> 0]
New(open, from) == [open |-> open, queue |-> <<>>, memo |-> Unread, from |-> from]

LoaderInit ==
    /\ docs = [i \in Ids |-> 0]
    /\ loaders = [r \in Contexts |-> New(FALSE, docs)] /\ loaded = None

(* Any request, or another process, creates or changes a document.          *)
Write(i) ==
    /\ docs[i] < MaxVersion
    /\ docs' = [docs EXCEPT ![i] = @ + 1]
    /\ UNCHANGED <<loaders, loaded>>

(* createDataLoaders in the context of a request.                           *)
Open(r) ==
    /\ ~loaders[r].open
    /\ loaders' = [loaders EXCEPT ![r] = New(TRUE, docs)]
    /\ UNCHANGED <<docs, loaded>>

Answer(r, i, doc) == loaded' = [id |-> i, doc |-> doc, from |-> loaders[r].from[i]]

(* load: what is there is answered at once, the rest queued once.           *)
Load(r, i) ==
    /\ loaders[r].open
    /\ IF i \in DOMAIN loaders[r].memo
       THEN Answer(r, i, loaders[r].memo[i]) /\ UNCHANGED loaders
       ELSE /\ i \notin Range(loaders[r].queue)
            /\ loaders' = [loaders EXCEPT ![r].queue = Append(@, i)]
            /\ UNCHANGED loaded
    /\ UNCHANGED docs

(* What the query finds: the documents that exist, in any order.            *)
Found(ids) ==
    SetToSeqs({[id |-> i, doc |-> docs[i]] : i \in {j \in Range(ids) : docs[j] # 0}})

(* Variant: the answers are taken in the order of the query. *)
MatchedInOrder(ids, found) ==
    [k \in DOMAIN ids |-> IF k <= Len(found) THEN found[k] ELSE [id |-> ids[k], doc |-> 0]]

(* The answers in the order of the ids, null for those not found.           *)
Matched(ids, found) ==
    [k \in DOMAIN ids |->
        IF \E d \in Range(found) : d.id = ids[k]
        THEN CHOOSE d \in Range(found) : d.id = ids[k] ELSE [id |-> ids[k], doc |-> 0]]

(* The answers next to what the loader has.                                 *)
Kept(memo, ids, answers) ==
    [i \in DOMAIN memo \cup Range(ids) |->
        IF i \in Range(ids) THEN answers[CHOOSE k \in DOMAIN ids : ids[k] = i] ELSE memo[i]]

Dispatch(r) ==
    /\ loaders[r].queue # <<>>
    /\ LET ids == loaders[r].queue
       IN \E found \in Found(ids) :
             loaders' = [loaders EXCEPT ![r].queue = <<>>,
                                        ![r].memo = Kept(@, ids, Matched(ids, found))]
    /\ UNCHANGED <<docs, loaded>>

End(r) ==
    /\ loaders[r].open /\ loaders[r].queue = <<>>
    /\ loaders' = [loaders EXCEPT ![r].open = FALSE]
    /\ UNCHANGED <<docs, loaded>>

LoaderNext ==
    \/ \E i \in Ids : Write(i)
    \/ \E r \in Contexts : Open(r) \/ Dispatch(r) \/ End(r) \/ \E i \in Ids : Load(r, i)

LoaderSpec == LoaderInit /\ [][LoaderNext]_loaderVars

-----------------------------------------------------------------------------
(* What a loader answers is the document with the id it was asked for,      *)
(* however many the query found and in whatever order, and not older than   *)
(* the request: nothing is kept from an earlier one.                        *)
LoadsAreOwnAndFresh ==
    loaded # None => loaded.doc.id = loaded.id /\ loaded.doc.doc >= loaded.from
=============================================================================
