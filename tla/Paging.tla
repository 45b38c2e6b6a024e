------------------------------- MODULE Paging -------------------------------
(***************************************************************************)
(* Reading a list page by page: paginate.js, getPaginationAndFilterParams  *)
(* and the two ways QueryController runs the query, on a collection of     *)
(* MongoDB or a table of PostgreSQL, while other clients add and delete    *)
(* records.  A record is [id, at]: its id, which also is the cursor, and   *)
(* the time it was created.                                                *)
(***************************************************************************)
EXTENDS Common, Naturals, FiniteSets, SequencesExt

CONSTANTS
    ListIds,
    DefaultLimit,
    Firsts,          \* the lengths of a page that clients ask for
    IdFilters,       \* the ids that their filters ask for, None for no filter
    MaxCreated,      \* bound on the insertions of a run
    MaxPages         \* bound on the pages of a walk

ASSUME ListIdsAssumption ==
    /\ ListIds \subseteq Nat
    /\ None \notin Nat \cup {"forward", "backward"}
    /\ \A ids \in IdFilters \ {None} : ids \subseteq ListIds
ASSUME LimitsAssumption == DefaultLimit \in Nat \ {0} /\ Firsts \subseteq Nat \ {0}

VARIABLES records,   \* the collection
          created,   \* the insertions so far, by which the clock advances
          walk,      \* a client that reads the list page by page
          ordered,   \* ids and times were given in the order of creation so far
          shrunk     \* something was deleted between a count and its query

listVars == <<records, created, walk, ordered, shrunk>>

WalkStart == [way |-> None, size |-> 0, pg |-> FALSE, ids |-> None, cursor |-> None,
              count |-> None, pages |-> 0, had |-> {}, kept |-> {}, seen |-> <<>>,
              over |-> FALSE, failed |-> FALSE]

-----------------------------------------------------------------------------
(* The parameters of a request, 0 and None where there is none.             *)

PageParams(first, last, after, before, skip) ==
    [first |-> first, last |-> last, after |-> after, before |-> before, skip |-> skip]

(* paginationValidationKeys *)
InvalidParams(p) ==
    \/ p.first # 0 /\ (p.last # 0 \/ p.before # None)
    \/ p.after # None /\ (p.last # 0 \/ p.before # None)

(* getPaginationAndFilterParams: first is capped, last is not.              *)
Limit(p) ==
    IF p.last # 0 THEN p.last
    ELSE IF p.first = 0 \/ p.first > DefaultLimit THEN DefaultLimit ELSE p.first

(* A cursor compares ids.  On MongoDB it replaces what the filter said of   *)
(* the id, on PostgreSQL it joins the filter.                               *)
HasCursor(p) == p.after # None \/ p.before # None

Chosen(p, pg, ids) ==
    {r \in records :
        /\ p.after # None => r.id > p.after
        /\ p.after = None /\ p.before # None => r.id < p.before
        /\ ids = None \/ (HasCursor(p) /\ ~pg) \/ r.id \in ids}

(* Without a filter the cursor stays a condition of MongoDB, which          *)
(* buildSequelizeWhereClause takes for a value to be equal to: the query    *)
(* fails.                                                                   *)
Unanswerable(p, pg, ids) == pg /\ ids = None /\ HasCursor(p)

(* Without orderBy a page is sorted by the time of creation, those of one   *)
(* time as it happens.                                                      *)
Sortings(chosen) ==
    LET n == Cardinality(chosen) IN
    {list \in [1 .. n -> chosen] :
        /\ \A i, j \in 1 .. n : list[i] = list[j] => i = j
        /\ \A i, j \in 1 .. n : i < j => list[i].at <= list[j].at}

Window(list, skip, limit) ==
    SubSeq(list, skip + 1, IF skip + limit < Len(list) THEN skip + limit ELSE Len(list))

(* Variant: the number of records skipped is that of the page's end. *)
SkipToEnd(count, p) == count

(* getQueriedResultFromLast: count the records, then skip all but the last; *)
(* getQueriedResult skips what was asked.                                   *)
SkipFor(count, p) == IF count > Limit(p) + p.skip THEN count - Limit(p) - p.skip ELSE 0

-----------------------------------------------------------------------------
ListInit ==
    /\ records = {} /\ created = 0
    /\ walk = WalkStart
    /\ ordered = TRUE /\ shrunk = FALSE

(* An insertion.  Ids made by several servers need not be in order, and the *)
(* clock may not have advanced since the last one.                          *)
InsertListed(id, at) ==
    /\ created < MaxCreated
    /\ id \notin walk.had /\ \A r \in records : r.id # id
    /\ created' = created + 1
    /\ records' = records \cup {[id |-> id, at |-> at]}
    /\ ordered' = (ordered /\ \A r \in records : r.id < id /\ r.at < at)
    /\ UNCHANGED <<walk, shrunk>>

DeleteListed(r) ==
    /\ records' = records \ {r}
    /\ walk' = [walk EXCEPT !.kept = @ \ {r.id}]
    /\ shrunk' = (shrunk \/ walk.count # None)
    /\ UNCHANGED <<created, ordered>>

(* The client decides which way to go, how long its pages are and for which *)
(* ids of which database it asks.                                           *)
BeginWalk(way, size, pg, ids) ==
    /\ walk.way = None
    /\ walk' = [WalkStart EXCEPT !.way = way, !.size = size, !.pg = pg, !.ids = ids,
                   !.had = {r.id : r \in records},
                   !.kept = {r.id : r \in {s \in records : ids = None \/ s.id \in ids}}]
    /\ UNCHANGED <<records, created, ordered, shrunk>>

PageRequest ==
    IF walk.way = "forward" THEN PageParams(walk.size, 0, walk.cursor, None, 0)
    ELSE PageParams(0, walk.size, None, walk.cursor, 0)

Asks ==
    /\ walk.way # None /\ ~walk.over /\ ~walk.failed /\ walk.pages < MaxPages
    /\ ~InvalidParams(PageRequest)

Sought == Chosen(PageRequest, walk.pg, walk.ids)

PageFails == Unanswerable(PageRequest, walk.pg, walk.ids)

(* A page is answered; the next cursor is the id at its far end.            *)
Turned(page) ==
    walk' = [walk EXCEPT !.pages = @ + 1, !.count = None, !.over = page = <<>>,
                !.cursor = IF page = <<>> THEN @
                           ELSE IF walk.way = "forward" THEN Last(page).id ELSE Head(page).id,
                !.seen = @ \o [i \in DOMAIN page |-> page[i].id]]

ReadForward ==
    /\ Asks /\ ~PageFails /\ walk.way = "forward"
    /\ \E list \in Sortings(Sought) : Turned(Window(list, PageRequest.skip, Limit(PageRequest)))
    /\ UNCHANGED <<records, created, ordered, shrunk>>

CountListed ==
    /\ Asks /\ ~PageFails /\ walk.way = "backward" /\ walk.count = None
    /\ walk' = [walk EXCEPT !.count = Cardinality(Sought)]
    /\ UNCHANGED <<records, created, ordered, shrunk>>

ReadBackward ==
    /\ Asks /\ walk.way = "backward" /\ walk.count # None
    /\ \E list \in Sortings(Sought) :
          Turned(Window(list, SkipFor(walk.count, PageRequest), Limit(PageRequest)))
    /\ UNCHANGED <<records, created, ordered, shrunk>>

(* The client is told of the error.                                         *)
FailPage ==
    /\ Asks /\ PageFails
    /\ walk' = [walk EXCEPT !.failed = TRUE]
    /\ UNCHANGED <<records, created, ordered, shrunk>>

ListNext ==
    \/ \E id \in ListIds, at \in {created, created + 1} : InsertListed(id, at)
    \/ \E r \in records : DeleteListed(r)
    \/ \E way \in {"forward", "backward"}, size \in Firsts, pg \in BOOLEAN, ids \in IdFilters :
          BeginWalk(way, size, pg, ids)
    \/ ReadForward \/ CountListed \/ ReadBackward \/ FailPage

ListSpec == ListInit /\ [][ListNext]_listVars

-----------------------------------------------------------------------------
(* A client that follows the cursor until a page is empty has seen every    *)
(* record that was there all the time and meets its filter, and none twice, *)
(* although others add and delete records meanwhile - but only where ids    *)
(* and times are in the order of creation, no two times being equal, and    *)
(* nothing is deleted between the count and the query of                    *)
(* getQueriedResultFromLast.  On PostgreSQL all that it sees meets the      *)
(* filter; on MongoDB that holds of the first page, as the cursor replaces  *)
(* the filter's test of the id.  On PostgreSQL a walk without a filter      *)
(* never gets past its first page, and no other fails                       *)
(* (getPaginationAndFilterParams.js, buildSequelizeWhereClause).            *)
WalkIsComplete ==
    /\ ordered /\ ~shrunk =>
          /\ IsInjective(walk.seen)
          /\ walk.over => walk.kept \subseteq Range(walk.seen)
    /\ walk.ids # None /\ (walk.pg \/ walk.pages <= 1) => Range(walk.seen) \subseteq walk.ids
    /\ walk.pg /\ walk.ids = None => walk.pages <= 1
    /\ walk.failed => walk.pg /\ walk.ids = None
=============================================================================
