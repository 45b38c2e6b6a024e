----------------------------- MODULE StudioData -----------------------------
(***************************************************************************)
(* The data browser of the studio (studio/api/modelAdapter.js, behind      *)
(* dataRoutes.js) on one MongoDB collection.  A row has the key that       *)
(* MongoDB gave it (_id) and the id of the application; the browser shows  *)
(* now one, now the other, and takes both as names of the row.             *)
(***************************************************************************)
EXTENDS Common, Naturals, FiniteSets, SequencesExt

CONSTANTS MaxRows, PageSize

ASSUME RowsAssumption == MaxRows \in Nat /\ None \notin {"key", "cuid"} \X Nat

VARIABLES rows,      \* the collection: records [key, id]
          given,     \* keys given so far
          shown,     \* what clients were told: records [name, key]
          exported,  \* the ids in the last export
          job,       \* the ids that a running import has still to create
          hit        \* the last update or deletion of one row

studioVars == <<rows, given, shown, exported, job, hit>>

(* A name is a key written as text, or an id of the application.            *)
Key(n) == <<"key", n>>
Cuid(n) == <<"cuid", n>>
Cuids == {Cuid(n) : n \in 1 .. MaxRows}

Untouched == [name |-> None, key |-> 0, aliased |-> FALSE]

(* { $or: [{ _id: name }, { id: name }] }, or by id if no key looks so.     *)
Targets(name) == {r \in rows : Key(r.key) = name \/ r.id = name}

(* Some row's id is the key of another.                                     *)
Aliased == \E r, s \in rows : r.id = Key(s.key)

Show(pairs) == shown' = shown \cup pairs
Forget(gone) == shown' = {s \in shown : \A r \in gone : s.key # r.key}

(* The rows of a page, sorted by whatever field.                            *)
Pages == {page \in SUBSET rows :
            Cardinality(page) = IF Cardinality(rows) < PageSize THEN Cardinality(rows)
                                ELSE PageSize}

-----------------------------------------------------------------------------
StudioInit ==
    /\ rows = {} /\ given = 0 /\ shown = {} /\ exported = {} /\ job = <<>>
    /\ hit = Untouched

(* listRecords: the id of a listed row is its key.                          *)
List ==
    /\ \E page \in Pages : Show({[name |-> Key(r.key), key |-> r.key] : r \in page})
    /\ UNCHANGED <<rows, given, exported, job, hit>>

(* getRecordById: the id of a fetched row is that of the application.       *)
Get(name) ==
    /\ \E r \in Targets(name) : Show({[name |-> r.id, key |-> r.key]})
    /\ UNCHANGED <<rows, given, exported, job, hit>>

(* Variant: an id that is sent is taken, whoever has it. *)
CreatedAnyway(id) ==
    /\ given < MaxRows
    /\ given' = given + 1
    /\ rows' = rows \cup {[key |-> given', id |-> id]}
    /\ Show({[name |-> id, key |-> given']})
    /\ hit' = Untouched

(* createRecord; the id is unique.                                          *)
Created(id) ==
    /\ given < MaxRows /\ \A r \in rows : r.id # id
    /\ given' = given + 1
    /\ rows' = rows \cup {[key |-> given', id |-> id]}
    /\ Show({[name |-> id, key |-> given']})
    /\ hit' = Untouched

Create(id) == Created(id) /\ UNCHANGED <<exported, job>>

Noted(name, r) == hit' = [name |-> name, key |-> r.key, aliased |-> Aliased]

(* updateRecord and deleteRecord: some row with the name.                   *)
Update(name) ==
    /\ \E r \in Targets(name) : Noted(name, r)
    /\ UNCHANGED <<rows, given, shown, exported, job>>

Delete(name) ==
    /\ \E r \in Targets(name) : Noted(name, r) /\ rows' = rows \ {r} /\ Forget({r})
    /\ UNCHANGED <<given, exported, job>>

(* batchDeleteRecords knows keys alone; what is no key is an error.         *)
BatchDelete(names) ==
    /\ names \subseteq {Key(n) : n \in 1 .. MaxRows}
    /\ LET gone == {r \in rows : Key(r.key) \in names}
       IN rows' = rows \ gone /\ Forget(gone)
    /\ UNCHANGED <<given, exported, job, hit>>

Purge ==
    /\ rows # {} /\ rows' = {} /\ Forget(rows)
    /\ UNCHANGED <<given, exported, job, hit>>

(* exportRecords: the first page, each row with its key as its id.          *)
Export ==
    /\ rows # {}
    /\ \E page \in Pages : exported' = {Key(r.key) : r \in page}
    /\ UNCHANGED <<rows, given, shown, job, hit>>

(* importRecords creates one record after the other ...                     *)
Import ==
    /\ job = <<>> /\ exported # {}
    /\ job' = SetToSeq(exported)
    /\ UNCHANGED <<rows, given, shown, exported, hit>>

(* generateMockRecords: ... of its own making.                              *)
Seed ==
    /\ job = <<>>
    /\ \E ids \in {c \in SUBSET Cuids : Cardinality(c) = 2} : job' = SetToSeq(ids)
    /\ UNCHANGED <<rows, given, shown, exported, hit>>

(* ... and goes on after one that fails.                                    *)
Step ==
    /\ job # <<>> /\ job' = Tail(job)
    /\ \/ Created(Head(job))
       \/ /\ \E r \in rows : r.id = Head(job)
          /\ UNCHANGED <<rows, given, shown, hit>>
    /\ UNCHANGED exported

KnownNames == {s.name : s \in shown}

StudioNext ==
    \/ List \/ Purge \/ Export \/ Import \/ Seed \/ Step
    \/ \E id \in Cuids : Create(id)
    \/ \E name \in KnownNames : Get(name) \/ Update(name) \/ Delete(name)
    \/ \E names \in SUBSET KnownNames \ {{}} : BatchDelete(names)

StudioSpec == StudioInit /\ [][StudioNext]_studioVars

-----------------------------------------------------------------------------
(* Whatever name a client was shown for a row, by a list, a page of one     *)
(* record, an answer to a creation or an import, an update or deletion by   *)
(* that name changes that row and no other, whatever other clients did      *)
(* meanwhile - unless an export was imported beside the rows it was made    *)
(* of, so that a row's id is another's key (modelAdapter.js:266-285).       *)
TouchesWhatWasShown ==
    hit.aliased \/ \A s \in shown : s.name = hit.name => s.key = hit.key
=============================================================================
