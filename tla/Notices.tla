------------------------------ MODULE Notices ------------------------------
(***************************************************************************)
(* Subscriptions to one record: the wrapper of all mutations publishes a   *)
(* notice of what was written after the post-hooks, and each subscriber's  *)
(* iterator filters and resolves its notices one by one                    *)
(* (resolvers/index.js, subscribeToEvents.js).  The hooks, the outbox's    *)
(* among them, take their time: mutations publish in any order.            *)
(*                                                                         *)
(* doc is the version of the record in the database, None when it is gone; *)
(* running holds the mutations between their write and their notice.  A    *)
(* notice is [mutation, data], data the version the mutation wrote or,     *)
(* DELETED, the last there was.  In queues a subscriber's notices wait,    *)
(* passed says whether the first one has passed the filter, got is what    *)
(* was answered.  A subscription has one context, and so one set of        *)
(* loaders, for all of its notices (app.js:164-177): where the type's      *)
(* single query goes through them, memo is what it once read, in a         *)
(* sequence, and is never cleared.  results are the notices owed by the    *)
(* mutations so far: no two are alike, because an update has a version of  *)
(* its own and a record is deleted once.                                   *)
(***************************************************************************)
EXTENDS Common, Naturals, FiniteSets, SequencesExt

CONSTANTS
    Subscribers,
    Linked,          \* those that ask for fields of relations
    Filtered,        \* those with a filter
    Subscribed,      \* the kinds of mutation in the type's @subscribe directive
    MaxMutations     \* bound on the mutations of a run

ASSUME VersionsAssumption == None \notin Nat

VARIABLES doc, versions, running, queues, passed, got, results,
          memoizes,  \* the type is not one of those read by aggregation or secured by row
          memo

noticeVars == <<doc, versions, running, queues, passed, got, results, memoizes, memo>>

\* Any filter does, as long as versions move in and out of it.
Fits(version) == version # None /\ version % 2 = 0

NoticeInit ==
    /\ doc = 0 /\ versions = 0 /\ running = {} /\ results = {}
    /\ queues = [s \in Subscribers |-> <<>>]
    /\ passed = [s \in Subscribers |-> FALSE]
    /\ got = [s \in Subscribers |-> <<>>]
    /\ memoizes \in BOOLEAN /\ memo = [s \in Subscribers |-> <<>>]

-----------------------------------------------------------------------------
(* Mutations.  Versions number the mutations, so that no two are one record *)
(* of running.  A refused mutation, and one of many records, whose result   *)
(* is an array, have no id in their result.                                 *)

Runs(mutation, data, hasId) ==
    /\ versions < MaxMutations
    /\ versions' = versions + 1
    /\ running' = running \cup {[nr |-> versions', mutation |-> mutation, data |-> data,
                                 hasId |-> hasId]}
    /\ results' = IF hasId /\ mutation \in Subscribed
                  THEN results \cup {[mutation |-> mutation, data |-> data]}
                  ELSE results
    /\ UNCHANGED <<queues, passed, got, memoizes, memo>>

UpdateOne == doc # None /\ doc' = versions + 1 /\ Runs("UPDATED", doc', TRUE)

UpdateMany == doc # None /\ doc' = versions + 1 /\ Runs("UPDATED", doc', FALSE)

DeleteOne == doc # None /\ doc' = None /\ Runs("DELETED", doc, TRUE)

Refused == \E kind \in {"UPDATED", "DELETED"} : Runs(kind, None, FALSE) /\ UNCHANGED doc

\* subscribeToEvents, after the post-hooks.
Publishes(m) == m.hasId /\ m.mutation \in Subscribed

Publish ==
    \E m \in running :
        /\ running' = running \ {m}
        /\ queues' = IF Publishes(m)
                     THEN [s \in Subscribers |->
                              Append(queues[s], [mutation |-> m.mutation, data |-> m.data])]
                     ELSE queues
        /\ UNCHANGED <<doc, versions, passed, got, results, memoizes, memo>>

-----------------------------------------------------------------------------
(* Subscribers.                                                             *)

\* withFilter: a filter is asked of the record as it now is, of a notice of
\* its deletion too.
Passes(s) == s \notin Filtered \/ Fits(doc)

Filter ==
    \E s \in Subscribers :
        /\ queues[s] # <<>> /\ ~passed[s]
        /\ IF Passes(s) THEN passed' = [passed EXCEPT ![s] = TRUE] /\ UNCHANGED queues
           ELSE queues' = [queues EXCEPT ![s] = Tail(@)] /\ UNCHANGED passed
        /\ UNCHANGED <<doc, versions, running, got, results, memoizes, memo>>

\* Variant: the answer is always made of the notice.
ResolvedFromPayload(s, n) == n

\* resolve: fields of relations are asked of the single query, others come
\* with the notice.  fetchOne reads through the loader of the subscription.
Refetches(s, n) == s \in Linked /\ n.mutation # "DELETED"

Read(s) == IF memoizes /\ memo[s] # <<>> THEN memo[s][1] ELSE doc

Resolved(s, n) == IF Refetches(s, n) THEN [n EXCEPT !.data = Read(s)] ELSE n

Resolve ==
    \E s \in Subscribers :
        /\ passed[s]
        /\ passed' = [passed EXCEPT ![s] = FALSE]
        /\ queues' = [queues EXCEPT ![s] = Tail(@)]
        /\ got' = [got EXCEPT ![s] = Append(@, Resolved(s, Head(queues[s])))]
        /\ memo' = IF Refetches(s, Head(queues[s])) THEN [memo EXCEPT ![s] = <<Read(s)>>] ELSE memo
        /\ UNCHANGED <<doc, versions, running, results, memoizes>>

-----------------------------------------------------------------------------
NoticeNext ==
    \/ UpdateOne \/ UpdateMany \/ DeleteOne \/ Refused \/ Publish
    \/ Filter \/ Resolve

NoticeSpec == NoticeInit /\ [][NoticeNext]_noticeVars

Quiet == running = {} /\ \A s \in Subscribers : queues[s] = <<>>

(* In any order of the notices, when all is quiet: a subscriber without a   *)
(* filter got one answer for each mutation of the record that succeeded,    *)
(* with the data that it wrote if no relations were asked for.  Where reads *)
(* are not memoized, the last answer with relations tells that the record   *)
(* is gone, or, if nobody was told of a deletion, is of no older version    *)
(* than any that was told.  Where they are, it catches up with nothing: all *)
(* answers with relations that are not of a deletion tell one version, that *)
(* the first of them read, which is no older than some notice, or that the  *)
(* record is gone (resolvers/index.js:108-131, 185-234,                     *)
(* subscribeToEvents.js:4-28, dataloader/index.js:60-64).                   *)
NoticesCatchUp ==
    /\ Quiet =>
          \A s \in Subscribers \ Filtered :
              /\ Len(got[s]) = Cardinality(results)
              /\ s \notin Linked => IsInjective(got[s]) /\ Range(got[s]) = results
              /\ (s \in Linked /\ ~memoizes /\ got[s] # <<>>) =>
                    LET end == got[s][Len(got[s])]
                    IN \/ end.mutation = "DELETED" \/ end.data = None
                       \/ \A n \in results : n.mutation = "UPDATED" /\ n.data <= end.data
    /\ memoizes =>
          \A s \in Subscribers \cap Linked :
              \A a, b \in Range(got[s]) : (a.mutation = "UPDATED" /\ b.mutation = "UPDATED") =>
                  /\ a.data = b.data
                  /\ \/ a.data = None
                     \/ \E n \in results : n.mutation = "UPDATED" /\ n.data <= a.data
=============================================================================
