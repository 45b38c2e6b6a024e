--------------------------- MODULE NoticesProofs ---------------------------
(***************************************************************************)
(* A theorem about Notices, for any subscribers, any subscribed events and *)
(* any number of mutations: when all is quiet, each subscriber without a   *)
(* filter knows what became of the record.                                 *)
(***************************************************************************)
EXTENDS Notices, FiniteSetTheorems, TLAPS

Kinds == {"UPDATED", "DELETED"}
Versions == Nat \cup {None}
Notice == [mutation : Kinds, data : Versions]
Mutation == [nr : Nat, mutation : Kinds, data : Versions, hasId : BOOLEAN]

TypesRight ==
    /\ doc \in Versions /\ versions \in Nat
    /\ running \in SUBSET Mutation /\ IsFiniteSet(running)
    /\ results \in SUBSET Notice /\ IsFiniteSet(results)
    /\ queues \in [Subscribers -> Seq(Notice)]
    /\ passed \in [Subscribers -> BOOLEAN]
    /\ got \in [Subscribers -> Seq(Notice)]
    /\ memoizes \in BOOLEAN
    /\ memo \in [Subscribers -> {<<>>} \cup {<<v>> : v \in Versions}]

(* Whose notice has passed the filter has one.                              *)
PassedRight == \A s \in Subscribers : passed[s] => queues[s] # <<>>

(* Mutations are numbered, and what a record's notice tells is no newer     *)
(* than the record, which is there as long as no deletion is told.          *)
VersionsRight ==
    /\ \A m \in running : m.nr <= versions
    /\ \A n \in results : n.data \in Nat /\ n.data <= versions
    /\ doc # None =>
          /\ doc <= versions
          /\ \A n \in results : n.mutation = "UPDATED" /\ n.data <= doc

(* What is told of a mutation, and the mutations that have still to tell.   *)
Told(m) == [mutation |-> m.mutation, data |-> m.data]
Due == {m \in running : Publishes(m)}

(* Each notice that was owed is due, waits or is answered, ...              *)
Counted(s) == Cardinality(results) = Cardinality(Due) + Len(queues[s]) + Len(got[s])

(* ... by itself where no relations were asked for.                         *)
Waiting(s) == {Told(m) : m \in Due} \cup Range(queues[s])
Accounted(s) == s \notin Linked => results = Waiting(s) \cup Range(got[s])

(* What waits is owed.                                                      *)
Owed(s) == Waiting(s) \subseteq results

(* Where nothing is memoized, what the last answer with relations does not  *)
(* know has still to come.                                                  *)
Knows(s) ==
    LET end == got[s][Len(got[s])]
    IN (/\ s \in Linked /\ ~memoizes /\ got[s] # <<>>
        /\ end.mutation = "UPDATED" /\ end.data # None) =>
          \A n \in results \ Waiting(s) : n.mutation = "UPDATED" /\ n.data <= end.data

(* Where reads are memoized, all answers with relations tell what the memo  *)
(* has, which some notice was no newer than.                                *)
Reaches(v) == v = None \/ \E n \in results : n.mutation = "UPDATED" /\ n.data <= v

Frozen(s) ==
    (memoizes /\ s \in Linked) =>
        /\ \A n \in Range(got[s]) : n.mutation = "UPDATED" => memo[s] = <<n.data>>
        /\ memo[s] # <<>> => Reaches(memo[s][1])

NoticeInv ==
    /\ TypesRight /\ PassedRight /\ VersionsRight
    /\ \A s \in Subscribers : Owed(s) /\ Frozen(s)
    /\ \A s \in Subscribers \ Filtered : Counted(s) /\ Accounted(s) /\ Knows(s)

-----------------------------------------------------------------------------
(* Sequences. *)

LEMMA RangeAppend ==
  ASSUME NEW S, NEW q \in Seq(S), NEW x \in S
  PROVE  /\ Append(q, x) \in Seq(S) /\ Len(Append(q, x)) = Len(q) + 1
         /\ Append(q, x) # <<>> /\ Append(q, x)[Len(Append(q, x))] = x
         /\ Range(Append(q, x)) = Range(q) \cup {x}
  <1>1. /\ Len(q) \in Nat /\ DOMAIN q = 1 .. Len(q)
        /\ DOMAIN Append(q, x) = 1 .. Len(q) + 1
        /\ \A i \in 1 .. Len(q) : Append(q, x)[i] = q[i]
        /\ Append(q, x)[Len(q) + 1] = x
    OBVIOUS
  <1>2. Range(Append(q, x)) \subseteq Range(q) \cup {x}
    BY <1>1 DEF Range
  <1>3. Range(q) \cup {x} \subseteq Range(Append(q, x))
    BY <1>1 DEF Range
  <1> QED BY <1>2, <1>3

LEMMA RangeTail ==
  ASSUME NEW S, NEW q \in Seq(S), q # <<>>
  PROVE  /\ Head(q) \in S /\ Tail(q) \in Seq(S) /\ Len(Tail(q)) = Len(q) - 1
         /\ Range(q) = Range(Tail(q)) \cup {Head(q)}
  <1>1. /\ Len(q) \in Nat \ {0} /\ DOMAIN q = 1 .. Len(q) /\ Head(q) = q[1]
        /\ Tail(q) \in Seq(S) /\ Len(Tail(q)) = Len(q) - 1
        /\ DOMAIN Tail(q) = 1 .. Len(q) - 1
        /\ \A i \in 1 .. Len(q) - 1 : Tail(q)[i] = q[i + 1]
    OBVIOUS
  <1>2. Range(q) \subseteq Range(Tail(q)) \cup {Head(q)}
    <2> SUFFICES ASSUME NEW i \in 1 .. Len(q), i # 1
                 PROVE  q[i] \in Range(Tail(q))
      BY <1>1 DEF Range
    <2>1. i - 1 \in 1 .. Len(q) - 1 /\ Tail(q)[i - 1] = q[i]
      BY <1>1
    <2> QED BY <1>1, <2>1 DEF Range
  <1>3. Range(Tail(q)) \cup {Head(q)} \subseteq Range(q)
    BY <1>1 DEF Range
  <1> QED BY <1>1, <1>2, <1>3

-----------------------------------------------------------------------------
(* What was read stays read.                                                *)
LEMMA FrozenStays ==
  ASSUME NEW s \in Subscribers, Frozen(s), got'[s] = got[s], memo'[s] = memo[s],
         memoizes' = memoizes, results \subseteq results'
  PROVE  Frozen(s)'
  BY DEF Frozen, Reaches

-----------------------------------------------------------------------------
(* The mutations. *)

(* A new notice is owed to each subscriber once more.                       *)
LEMMA RunsRight ==
  ASSUME NoticeInv, NEW mutation \in Kinds, NEW data \in Versions, NEW hasId \in BOOLEAN,
         Runs(mutation, data, hasId), doc' \in Versions,
         hasId => data \in Nat /\ data <= versions',
         \* the notice is a new one ...
         hasId => [mutation |-> mutation, data |-> data] \notin results,
         \* ... and the record is as new as it tells.
         doc' # None =>
            /\ doc # None \/ (results = {} /\ ~hasId)
            /\ doc' <= versions' /\ (doc # None => doc <= doc')
            /\ hasId => mutation = "UPDATED" /\ data <= doc'
  PROVE  NoticeInv'
  <1> DEFINE m == [nr |-> versions', mutation |-> mutation, data |-> data, hasId |-> hasId]
             n == [mutation |-> mutation, data |-> data]
  <1>1. /\ versions' = versions + 1 /\ running' = running \cup {m}
        /\ results' = IF hasId /\ mutation \in Subscribed THEN results \cup {n} ELSE results
        /\ UNCHANGED <<queues, passed, got, memoizes, memo>>
    BY DEF Runs
  <1>2. /\ versions \in Nat /\ m \in Mutation /\ n \in Notice /\ m \notin running
        /\ Told(m) = n /\ (Publishes(m) <=> hasId /\ mutation \in Subscribed)
    BY <1>1 DEF NoticeInv, TypesRight, VersionsRight, Mutation, Notice, Told, Publishes
  <1>3. Due' = IF Publishes(m) THEN Due \cup {m} ELSE Due
    BY <1>1 DEF Due, Publishes
  <1>4. m \notin Due /\ IsFiniteSet(Due)
    BY <1>2, FS_Subset DEF Due, NoticeInv, TypesRight
  <1>n. m.nr = versions' /\ n.mutation = mutation /\ n.data = data
    OBVIOUS
  <1> HIDE DEF m, n
  <1>5. TypesRight'
    <2>1. IsFiniteSet(running') /\ IsFiniteSet(results')
      BY <1>1, FS_AddElement DEF NoticeInv, TypesRight
    <2> QED BY <1>1, <1>2, <2>1 DEF NoticeInv, TypesRight
  <1>6. PassedRight'
    BY <1>1 DEF NoticeInv, PassedRight
  <1>7. VersionsRight'
    <2>1. \A k \in running' : k.nr <= versions'
      BY <1>1, <1>2, <1>n DEF NoticeInv, TypesRight, VersionsRight, Mutation
    <2>2. \A k \in results' : k.data \in Nat /\ k.data <= versions'
      BY <1>1, <1>2, <1>n DEF NoticeInv, VersionsRight
    <2>3. ASSUME doc' # None
          PROVE  doc' <= versions' /\ \A k \in results' : k.mutation = "UPDATED" /\ k.data <= doc'
      <3> SUFFICES ASSUME NEW k \in results'
                   PROVE  k.mutation = "UPDATED" /\ k.data <= doc'
        BY <2>3
      <3>1. doc' \in Nat
        BY <2>3 DEF Versions
      <3>2. CASE k \in results
        <4>1. doc # None /\ doc \in Nat /\ doc <= doc'
          BY <2>3, <3>2 DEF NoticeInv, TypesRight, Versions
        <4>2. k.mutation = "UPDATED" /\ k.data \in Nat /\ k.data <= doc
          BY <3>2, <4>1 DEF NoticeInv, VersionsRight
        <4> QED BY <3>1, <4>1, <4>2
      <3>3. CASE k \notin results
        BY <1>1, <1>n, <2>3, <3>3
      <3> QED BY <3>2, <3>3
    <2> QED BY <2>1, <2>2, <2>3 DEF VersionsRight
  <1>8. ASSUME NEW s \in Subscribers \ Filtered
        PROVE  (Counted(s) /\ Accounted(s) /\ Knows(s))'
    <2>0. Counted(s) /\ Accounted(s) /\ Knows(s)
      BY DEF NoticeInv
    <2>1. CASE ~Publishes(m)
      <3>1. Due' = Due /\ results' = results /\ UNCHANGED <<queues, got>>
        BY <1>1, <1>2, <1>3, <2>1
      <3> QED BY <1>1, <2>0, <3>1 DEF Counted, Accounted, Knows, Waiting
    <2>2. CASE Publishes(m)
      <3>1. /\ Due' = Due \cup {m} /\ results' = results \cup {n} /\ n \notin results
            /\ UNCHANGED <<queues, got>>
        BY <1>1, <1>2, <1>3, <2>2 DEF n
      <3>2. Cardinality(results') = Cardinality(results) + 1
        BY <3>1, FS_AddElement DEF NoticeInv, TypesRight
      <3>3. Cardinality(Due') = Cardinality(Due) + 1 /\ Cardinality(Due) \in Nat
        BY <1>4, <3>1, FS_AddElement, FS_CardinalityType
      <3>4. Counted(s)'
        BY <2>0, <3>1, <3>2, <3>3 DEF Counted, NoticeInv, TypesRight
      <3>5. Waiting(s)' = Waiting(s) \cup {n}
        <4>1. {Told(k) : k \in Due'} = {Told(k) : k \in Due} \cup {n}
          BY <1>2, <3>1
        <4> QED BY <3>1, <4>1 DEF Waiting
      <3>6. Accounted(s)'
        BY <2>0, <3>1, <3>5 DEF Accounted
      <3>7. Knows(s)'
        BY <1>1, <2>0, <3>1, <3>5 DEF Knows
      <3> QED BY <3>4, <3>6, <3>7
    <2> QED BY <2>1, <2>2
  <1>9. ASSUME NEW s \in Subscribers
        PROVE  (Owed(s) /\ Frozen(s))'
    <2>1. Owed(s) /\ Frozen(s)
      BY DEF NoticeInv
    <2>2. {Told(k) : k \in Due'} \subseteq {Told(k) : k \in Due} \cup {Told(m)}
      BY <1>3
    <2>3. Publishes(m) \/ Due' = Due
      BY <1>3
    <2>4. Owed(s)'
      BY <1>1, <1>2, <2>1, <2>2, <2>3 DEF Owed, Waiting
    <2> QED BY <1>1, <2>1, <2>4, FrozenStays
  <1> QED BY <1>5, <1>6, <1>7, <1>8, <1>9 DEF NoticeInv

LEMMA MutationsRight ==
  ASSUME VersionsAssumption, NoticeInv, UpdateOne \/ UpdateMany \/ DeleteOne \/ Refused
  PROVE  NoticeInv'
  <1>0. versions \in Nat /\ versions + 1 \in Versions /\ None \in Versions
        /\ "UPDATED" \in Kinds /\ "DELETED" \in Kinds
    BY DEF NoticeInv, TypesRight, Versions, Kinds
  <1>1. doc # None => doc \in Nat /\ doc \in Versions /\ doc <= versions
    BY DEF NoticeInv, TypesRight, VersionsRight, Versions
  <1>2. versions + 1 # None /\ None \notin Nat
    BY <1>0, VersionsAssumption
  <1>3. CASE UpdateOne \/ UpdateMany
    <2> DEFINE data == versions + 1
    <2>1. Runs("UPDATED", data, TRUE) \/ Runs("UPDATED", data, FALSE)
      BY <1>3 DEF UpdateOne, UpdateMany
    <2>2. doc # None /\ doc' = versions + 1 /\ versions' = versions + 1
      BY <1>3 DEF UpdateOne, UpdateMany, Runs
    <2>3. [mutation |-> "UPDATED", data |-> versions + 1] \notin results
      BY <1>0 DEF NoticeInv, VersionsRight
    <2>4. /\ data \in Versions /\ data \in Nat /\ data <= versions' /\ data <= doc'
          /\ doc # None /\ doc <= doc' /\ doc' <= versions' /\ doc' \in Versions
          /\ [mutation |-> "UPDATED", data |-> data] \notin results
      BY <1>0, <1>1, <2>2, <2>3
    <2> HIDE DEF data
    <2>5. CASE Runs("UPDATED", data, TRUE)
      BY <1>0, <2>4, <2>5, RunsRight
    <2>6. CASE Runs("UPDATED", data, FALSE)
      BY <1>0, <2>4, <2>6, RunsRight
    <2> QED BY <2>1, <2>5, <2>6
  <1>4. CASE DeleteOne
    <2>1. Runs("DELETED", doc, TRUE) /\ doc # None /\ doc' = None /\ versions' = versions + 1
      BY <1>4 DEF DeleteOne, Runs
    <2>2. [mutation |-> "DELETED", data |-> doc] \notin results
      BY <2>1 DEF NoticeInv, VersionsRight
    <2>3. doc \in Nat /\ doc <= versions + 1
      BY <1>0, <1>1, <2>1
    <2> QED BY <1>0, <1>1, <2>1, <2>2, <2>3, RunsRight
  <1>5. CASE Refused
    <2>1. PICK kind \in Kinds : Runs(kind, None, FALSE)
      BY <1>5 DEF Refused, Kinds
    <2>2. doc' = doc /\ versions' = versions + 1
      BY <1>5, <2>1 DEF Refused, Runs
    <2>3. doc' \in Versions /\ (doc # None => doc <= versions + 1 /\ doc <= doc)
      BY <1>0, <1>1, <2>2 DEF NoticeInv, TypesRight
    <2> QED BY <1>0, <2>1, <2>2, <2>3, RunsRight
  <1> QED BY <1>3, <1>4, <1>5

-----------------------------------------------------------------------------
(* The notices. *)

LEMMA PublishRight ==
  ASSUME NoticeInv, Publish
  PROVE  NoticeInv'
  <1>1. PICK m \in running :
          /\ running' = running \ {m}
          /\ queues' = IF Publishes(m)
                       THEN [s \in Subscribers |-> Append(queues[s], Told(m))]
                       ELSE queues
          /\ UNCHANGED <<doc, versions, passed, got, results, memoizes, memo>>
    BY DEF Publish, Told
  <1>2. m \in Mutation /\ Told(m) \in Notice
    BY DEF NoticeInv, TypesRight, Mutation, Notice, Told
  <1>3. Due' = Due \ {m} /\ (m \in Due <=> Publishes(m)) /\ IsFiniteSet(Due)
    BY <1>1, FS_Subset DEF Due, Publishes, NoticeInv, TypesRight
  <1>4. ASSUME NEW s \in Subscribers
        PROVE  /\ queues[s] \in Seq(Notice) /\ got[s] \in Seq(Notice) /\ got'[s] = got[s]
               /\ ~Publishes(m) => queues'[s] = queues[s]
               /\ Publishes(m) => queues'[s] = Append(queues[s], Told(m))
    <2>1. queues[s] \in Seq(Notice) /\ got[s] \in Seq(Notice) /\ got'[s] = got[s]
      BY <1>1 DEF NoticeInv, TypesRight
    <2>2. CASE Publishes(m)
      <3>1. queues' = [t \in Subscribers |-> Append(queues[t], Told(m))]
        BY <1>1, <2>2
      <3> QED BY <2>1, <2>2, <3>1
    <2>3. CASE ~Publishes(m)
      BY <1>1, <2>1, <2>3
    <2> QED BY <2>2, <2>3
  <1>5. TypesRight'
    <2>1. running' \in SUBSET Mutation /\ IsFiniteSet(running')
      BY <1>1, FS_RemoveElement DEF NoticeInv, TypesRight
    <2>2. queues' \in [Subscribers -> Seq(Notice)]
      BY <1>1, <1>2, <1>4, RangeAppend DEF NoticeInv, TypesRight
    <2> QED BY <1>1, <2>1, <2>2 DEF NoticeInv, TypesRight
  <1>6. PassedRight'
    BY <1>1, <1>2, <1>4, RangeAppend DEF NoticeInv, PassedRight
  <1>7. VersionsRight'
    BY <1>1 DEF NoticeInv, VersionsRight
  <1>8. ASSUME NEW s \in Subscribers \ Filtered
        PROVE  (Counted(s) /\ Accounted(s) /\ Knows(s))'
    <2>0. Counted(s) /\ Accounted(s) /\ Knows(s)
      BY DEF NoticeInv
    <2>1. CASE ~Publishes(m)
      <3>1. Due' = Due /\ results' = results /\ queues'[s] = queues[s] /\ got'[s] = got[s]
        BY <1>1, <1>3, <1>4, <2>1
      <3> QED BY <1>1, <2>0, <3>1 DEF Counted, Accounted, Knows, Waiting
    <2>2. CASE Publishes(m)
      <3>1. Cardinality(Due') = Cardinality(Due) - 1 /\ Cardinality(Due) \in Nat
        BY <1>3, <2>2, FS_RemoveElement, FS_CardinalityType
      <3>2. /\ Len(queues'[s]) = Len(queues[s]) + 1
            /\ Range(queues'[s]) = Range(queues[s]) \cup {Told(m)}
            /\ Len(queues[s]) \in Nat /\ Len(got[s]) \in Nat /\ got'[s] = got[s]
        <4>1. /\ queues[s] \in Seq(Notice) /\ got[s] \in Seq(Notice) /\ got'[s] = got[s]
              /\ queues'[s] = Append(queues[s], Told(m))
          BY <1>4, <2>2
        <4> QED BY <1>2, <4>1, RangeAppend
      <3>3. Counted(s)'
        BY <1>1, <2>0, <3>1, <3>2 DEF Counted
      <3>4. Waiting(s)' = Waiting(s)
        <4>1. {Told(k) : k \in Due} = {Told(k) : k \in Due'} \cup {Told(m)}
          BY <1>3, <2>2
        <4> QED BY <3>2, <4>1 DEF Waiting
      <3> QED BY <1>1, <2>0, <3>2, <3>3, <3>4 DEF Accounted, Knows
    <2> QED BY <2>1, <2>2
  <1>9. ASSUME NEW s \in Subscribers
        PROVE  (Owed(s) /\ Frozen(s))'
    <2>1. Owed(s) /\ Frozen(s)
      BY DEF NoticeInv
    <2>2. Waiting(s)' \subseteq Waiting(s)
      <3>1. CASE ~Publishes(m)
        BY <1>3, <1>4, <3>1 DEF Waiting
      <3>2. CASE Publishes(m)
        <4>1. Range(queues'[s]) = Range(queues[s]) \cup {Told(m)}
          <5>1. queues[s] \in Seq(Notice) /\ queues'[s] = Append(queues[s], Told(m))
            BY <1>4, <3>2
          <5> QED BY <1>2, <5>1, RangeAppend
        <4>2. Told(m) \in {Told(k) : k \in Due} /\ Due' \subseteq Due
          BY <1>3, <3>2
        <4> QED BY <4>1, <4>2 DEF Waiting
      <3> QED BY <3>1, <3>2
    <2>3. Owed(s)'
      BY <1>1, <2>1, <2>2 DEF Owed
    <2> QED BY <1>1, <1>4, <2>1, <2>3, FrozenStays
  <1> QED BY <1>5, <1>6, <1>7, <1>8, <1>9 DEF NoticeInv

LEMMA FilterRight ==
  ASSUME NoticeInv, Filter
  PROVE  NoticeInv'
  <1>1. PICK s \in Subscribers :
          /\ queues[s] # <<>> /\ ~passed[s]
          /\ IF Passes(s) THEN passed' = [passed EXCEPT ![s] = TRUE] /\ UNCHANGED queues
             ELSE queues' = [queues EXCEPT ![s] = Tail(@)] /\ UNCHANGED passed
    BY DEF Filter
  <1>2. UNCHANGED <<doc, versions, running, got, results, memoizes, memo>> /\ Due' = Due
    BY DEF Filter, Due, Publishes
  <1>3. Tail(queues[s]) \in Seq(Notice)
    BY <1>1, RangeTail DEF NoticeInv, TypesRight
  <1>4. TypesRight'
    BY <1>1, <1>2, <1>3 DEF NoticeInv, TypesRight
  <1>5. PassedRight'
    BY <1>1 DEF NoticeInv, TypesRight, PassedRight
  <1>6. VersionsRight'
    BY <1>2 DEF NoticeInv, VersionsRight
  <1>7. ASSUME NEW t \in Subscribers \ Filtered
        PROVE  (Counted(t) /\ Accounted(t) /\ Knows(t))'
    <2>1. queues'[t] = queues[t]
      BY <1>1 DEF Passes, NoticeInv, TypesRight
    <2> QED BY <1>2, <2>1 DEF NoticeInv, Counted, Accounted, Knows, Waiting
  <1>8. ASSUME NEW t \in Subscribers
        PROVE  (Owed(t) /\ Frozen(t))'
    <2>1. Owed(t) /\ Frozen(t) /\ queues[t] \in Seq(Notice)
      BY DEF NoticeInv, TypesRight
    <2>2. queues'[t] = queues[t] \/ (queues[t] # <<>> /\ queues'[t] = Tail(queues[t]))
      BY <1>1 DEF NoticeInv, TypesRight
    <2>3. Range(queues'[t]) \subseteq Range(queues[t])
      BY <2>1, <2>2, RangeTail
    <2>4. Owed(t)'
      BY <1>2, <2>1, <2>3 DEF Owed, Waiting
    <2> QED BY <1>2, <2>1, <2>4, FrozenStays
  <1> QED BY <1>4, <1>5, <1>6, <1>7, <1>8 DEF NoticeInv

LEMMA ResolveRight ==
  ASSUME NoticeInv, Resolve
  PROVE  NoticeInv'
  <1>1. PICK s \in Subscribers :
          /\ passed[s]
          /\ passed' = [passed EXCEPT ![s] = FALSE]
          /\ queues' = [queues EXCEPT ![s] = Tail(@)]
          /\ got' = [got EXCEPT ![s] = Append(@, Resolved(s, Head(queues[s])))]
          /\ memo' = IF Refetches(s, Head(queues[s]))
                     THEN [memo EXCEPT ![s] = <<Read(s)>>] ELSE memo
    BY DEF Resolve
  <1>2. UNCHANGED <<doc, versions, running, results, memoizes>> /\ Due' = Due
    BY DEF Resolve, Due, Publishes
  <1> DEFINE n == Head(queues[s])
             r == Resolved(s, n)
  <1>3. /\ queues[s] \in Seq(Notice) /\ queues[s] # <<>> /\ got[s] \in Seq(Notice)
        /\ queues'[s] = Tail(queues[s]) /\ got'[s] = Append(got[s], r)
    BY <1>1 DEF NoticeInv, TypesRight, PassedRight
  <1>4. /\ n \in Notice /\ Tail(queues[s]) \in Seq(Notice)
        /\ Len(Tail(queues[s])) = Len(queues[s]) - 1
        /\ Range(queues[s]) = Range(Tail(queues[s])) \cup {n}
    BY <1>3, RangeTail
  <1>m. /\ memo \in [Subscribers -> {<<>>} \cup {<<v>> : v \in Versions}]
        /\ memo[s] = <<>> \/ \E v \in Versions : memo[s] = <<v>>
        /\ memoizes \in BOOLEAN /\ doc \in Versions
    BY DEF NoticeInv, TypesRight
  <1>r. /\ Read(s) \in Versions /\ (~memoizes \/ memo[s] = <<>> => Read(s) = doc)
        /\ memoizes /\ memo[s] # <<>> => <<Read(s)>> = memo[s]
    BY <1>m DEF Read
  <1>5. /\ r \in Notice /\ r.mutation = n.mutation
        /\ s \notin Linked => r = n
        /\ Refetches(s, n) => r.data = Read(s)
        /\ Refetches(s, n) <=> s \in Linked /\ n.mutation # "DELETED"
    BY <1>4, <1>r DEF Resolved, Refetches, Notice
  <1> HIDE DEF n, r
  <1>6. /\ Append(got[s], r) \in Seq(Notice) /\ Len(Append(got[s], r)) = Len(got[s]) + 1
        /\ Append(got[s], r)[Len(Append(got[s], r))] = r
        /\ Range(Append(got[s], r)) = Range(got[s]) \cup {r}
    BY <1>3, <1>5, RangeAppend
  <1>7. TypesRight'
    <2>1. got' \in [Subscribers -> Seq(Notice)] /\ queues' \in [Subscribers -> Seq(Notice)]
      BY <1>1, <1>4, <1>6 DEF NoticeInv, TypesRight, r, n
    <2>2. memo' \in [Subscribers -> {<<>>} \cup {<<v>> : v \in Versions}]
      BY <1>1, <1>m, <1>r
    <2> QED BY <1>1, <1>2, <2>1, <2>2 DEF NoticeInv, TypesRight
  <1>8. PassedRight'
    BY <1>1 DEF NoticeInv, TypesRight, PassedRight
  <1>9. VersionsRight'
    BY <1>2 DEF NoticeInv, VersionsRight
  <1>10. ASSUME NEW t \in Subscribers \ Filtered
         PROVE  (Counted(t) /\ Accounted(t) /\ Knows(t))'
    <2>0. Counted(t) /\ Accounted(t) /\ Knows(t)
      BY DEF NoticeInv
    <2>1. CASE t # s
      <3>1. queues'[t] = queues[t] /\ got'[t] = got[t]
        BY <1>1, <2>1 DEF NoticeInv, TypesRight
      <3> QED BY <1>2, <2>0, <3>1 DEF Counted, Accounted, Knows, Waiting
    <2>2. CASE t = s
      <3>1. Counted(s)'
        <4>1. Len(queues[s]) \in Nat /\ Len(got[s]) \in Nat
          BY <1>3
        <4>2. Cardinality(Due) \in Nat
          BY FS_Subset, FS_CardinalityType DEF Due, NoticeInv, TypesRight
        <4>3. Len(queues'[s]) = Len(queues[s]) - 1 /\ Len(got'[s]) = Len(got[s]) + 1
          BY <1>3, <1>4, <1>6
        <4>4. Cardinality(results) = Cardinality(Due) + Len(queues[s]) + Len(got[s])
          BY <2>0, <2>2 DEF Counted
        <4>5. Cardinality(results') = Cardinality(Due') + Len(queues'[s]) + Len(got'[s])
          BY <1>2, <4>1, <4>2, <4>3, <4>4
        <4> QED BY <4>5 DEF Counted
      <3>2. Waiting(s) \subseteq Waiting(s)' \cup {n}
            /\ Waiting(s)' \subseteq Waiting(s) /\ n \in Waiting(s)
        BY <1>2, <1>3, <1>4 DEF Waiting, Told
      <3>3. Accounted(s)'
        BY <1>2, <1>3, <1>5, <1>6, <2>0, <2>2, <3>2 DEF Accounted
      <3>4. Knows(s)'
        <4> SUFFICES ASSUME s \in Linked, ~memoizes, r.mutation = "UPDATED", r.data # None,
                            NEW k \in results
                     PROVE  k.mutation = "UPDATED" /\ k.data <= r.data
          BY <1>2, <1>3, <1>6 DEF Knows
        <4>1. r.data = doc
          BY <1>5, <1>r
        <4> QED BY <4>1 DEF NoticeInv, VersionsRight
      <3> QED BY <2>2, <3>1, <3>3, <3>4
    <2> QED BY <2>1, <2>2
  <1>11. ASSUME NEW t \in Subscribers
         PROVE  (Owed(t) /\ Frozen(t))'
    <2>0. Owed(t) /\ Frozen(t)
      BY DEF NoticeInv
    <2>1. CASE t # s
      <3>1. queues'[t] = queues[t] /\ got'[t] = got[t] /\ memo'[t] = memo[t]
        BY <1>1, <1>m, <2>1 DEF NoticeInv, TypesRight
      <3>2. Owed(t)'
        BY <1>2, <2>0, <3>1 DEF Owed, Waiting
      <3> QED BY <1>2, <2>0, <3>1, <3>2, FrozenStays
    <2>2. CASE t = s
      <3>1. Owed(s)'
        BY <1>2, <1>3, <1>4, <2>0, <2>2 DEF Owed, Waiting
      <3>2. CASE ~Refetches(s, n)
        <4>1. memo'[s] = memo[s]
          BY <1>1, <3>2 DEF n
        <4>2. (s \in Linked) => r.mutation # "UPDATED"
          BY <1>5, <3>2
        <4>3. got'[s] = Append(got[s], r)
          BY <1>3
        <4> QED BY <1>2, <1>6, <2>0, <2>2, <3>1, <4>1, <4>2, <4>3 DEF Frozen, Reaches
      <3>3. CASE Refetches(s, n)
        <4>1. memo'[s] = <<Read(s)>> /\ r.data = Read(s) /\ got'[s] = Append(got[s], r)
          BY <1>1, <1>3, <1>5, <1>m, <3>3 DEF n
        <4>2. ASSUME memoizes
              PROVE  Reaches(Read(s))
          <5>1. CASE memo[s] # <<>>
            BY <1>r, <1>5, <2>0, <2>2, <3>3, <4>2, <5>1 DEF Frozen
          <5>2. CASE memo[s] = <<>>
            <6>1. Read(s) = doc
              BY <1>r, <5>2
            <6>2. n \in results
              BY <1>4, <2>0, <2>2 DEF Owed, Waiting
            <6> QED BY <6>1, <6>2 DEF Reaches, NoticeInv, VersionsRight
          <5> QED BY <5>1, <5>2
        <4>3. ASSUME memoizes, NEW k \in Range(got[s]), k.mutation = "UPDATED"
              PROVE  memo'[s] = <<k.data>>
          <5>1. memo[s] = <<k.data>>
            BY <1>5, <2>0, <2>2, <3>3, <4>3 DEF Frozen
          <5> QED BY <1>r, <4>1, <4>3, <5>1
        <4>4. ASSUME memoizes, NEW k \in Range(got'[s]), k.mutation = "UPDATED"
              PROVE  memo'[s] = <<k.data>>
          BY <1>6, <4>1, <4>3, <4>4
        <4>5. memoizes => Reaches(memo[s][1])'
          BY <1>2, <4>1, <4>2 DEF Reaches
        <4>6. Frozen(s)'
          BY <1>2, <4>4, <4>5 DEF Frozen
        <4> QED BY <2>2, <3>1, <4>6
      <3> QED BY <3>2, <3>3
    <2> QED BY <2>1, <2>2
  <1> QED BY <1>7, <1>8, <1>9, <1>10, <1>11 DEF NoticeInv

-----------------------------------------------------------------------------
LEMMA NoticeInvHolds == NoticeSpec => []NoticeInv
  <1>1. NoticeInit => NoticeInv
    <2> SUFFICES ASSUME NoticeInit
                 PROVE  NoticeInv
      OBVIOUS
    <2>1. /\ doc = 0 /\ versions = 0 /\ running = {} /\ results = {}
          /\ queues = [s \in Subscribers |-> <<>>]
          /\ passed = [s \in Subscribers |-> FALSE]
          /\ got = [s \in Subscribers |-> <<>>]
          /\ memoizes \in BOOLEAN /\ memo = [s \in Subscribers |-> <<>>]
      BY DEF NoticeInit
    <2>2. IsFiniteSet({}) /\ Cardinality({}) = 0
      BY FS_EmptySet
    <2>3. Due = {} /\ \A s \in Subscribers : Len(queues[s]) = 0 /\ Len(got[s]) = 0
                                             /\ Range(queues[s]) = {} /\ Range(got[s]) = {}
      BY <2>1 DEF Due, Range
    <2>4. TypesRight
      BY <2>1, <2>2 DEF TypesRight, Versions
    <2>5. PassedRight /\ VersionsRight
      BY <2>1 DEF PassedRight, VersionsRight
    <2>6. \A s \in Subscribers : Counted(s) /\ Accounted(s) /\ Knows(s)
      BY <2>1, <2>2, <2>3 DEF Counted, Accounted, Knows, Waiting
    <2>7. \A s \in Subscribers : Owed(s) /\ Frozen(s)
      BY <2>1, <2>3 DEF Owed, Waiting, Frozen
    <2> QED BY <2>4, <2>5, <2>6, <2>7 DEF NoticeInv
  <1>2. NoticeInv /\ [NoticeNext]_noticeVars => NoticeInv'
    <2> SUFFICES ASSUME NoticeInv, [NoticeNext]_noticeVars
                 PROVE  NoticeInv'
      OBVIOUS
    <2>1. CASE UpdateOne \/ UpdateMany \/ DeleteOne \/ Refused
      BY <2>1, MutationsRight, VersionsAssumption
    <2>2. CASE Publish BY <2>2, PublishRight
    <2>3. CASE Filter BY <2>3, FilterRight
    <2>4. CASE Resolve BY <2>4, ResolveRight
    <2>5. CASE UNCHANGED noticeVars
      <3>1. Due' = Due
        BY <2>5 DEF noticeVars, Due, Publishes
      <3> QED BY <2>5, <3>1 DEF noticeVars, NoticeInv, TypesRight, PassedRight, VersionsRight,
                                Counted, Accounted, Knows, Waiting, Owed, Frozen, Reaches
    <2> QED BY <2>1, <2>2, <2>3, <2>4, <2>5 DEF NoticeNext
  <1> QED BY <1>1, <1>2, PTL DEF NoticeSpec

(* In whatever order mutations publish and subscribers resolve, when all is *)
(* quiet a subscriber without a filter got one answer for each mutation     *)
(* that succeeded: each with what it wrote or, with relations that are read *)
(* anew, the last one with the newest version that was told or the news of  *)
(* the deletion.  Relations read through memoizing loaders are never read   *)
(* anew (dataloader/index.js:60-64).                                        *)
THEOREM SubscribersCatchUp == NoticeSpec => []NoticesCatchUp
  <1>1. ASSUME NoticeInv, Quiet, NEW s \in Subscribers \ Filtered
        PROVE  /\ Len(got[s]) = Cardinality(results)
               /\ s \notin Linked => IsInjective(got[s]) /\ Range(got[s]) = results
               /\ (s \in Linked /\ ~memoizes /\ got[s] # <<>>) =>
                     LET end == got[s][Len(got[s])]
                     IN \/ end.mutation = "DELETED" \/ end.data = None
                        \/ \A n \in results : n.mutation = "UPDATED" /\ n.data <= end.data
    <2>1. Due = {} /\ queues[s] = <<>> /\ Counted(s) /\ Accounted(s) /\ Knows(s)
          /\ got[s] \in Seq(Notice) /\ IsFiniteSet(results)
      BY <1>1 DEF Quiet, Due, NoticeInv, TypesRight
    <2>2. Len(got[s]) \in Nat /\ Len(queues[s]) = 0 /\ Waiting(s) = {} /\ Cardinality(Due) = 0
      BY <2>1, FS_EmptySet DEF Waiting, Range
    <2>3. Len(got[s]) = Cardinality(results)
      BY <2>1, <2>2 DEF Counted
    <2>4. ASSUME s \notin Linked
          PROVE  IsInjective(got[s]) /\ Range(got[s]) = results
      <3> DEFINE g == got[s]
                 k == Len(got[s])
      <3>1. Range(g) = results
        BY <2>1, <2>2, <2>4 DEF Accounted
      <3>2. g \in Surjection(1 .. k, results)
        BY <2>1, <3>1 DEF Surjection, Range
      <3>3. IsFiniteSet(1 .. k) /\ Cardinality(1 .. k) = k
        BY <2>2, FS_Interval
      <3>4. g \in Injection(1 .. k, results)
        <4> HIDE DEF g, k
        <4> QED BY <2>3, <3>2, <3>3, FS_SurjSameCardinalityImpliesInj DEF k
      <3>5. IsInjective(g)
        BY <2>1, <3>4 DEF Injection, IsInjective
      <3> QED BY <3>1, <3>5
    <2>5. ASSUME s \in Linked, ~memoizes, got[s] # <<>>, got[s][Len(got[s])].mutation # "DELETED",
                 got[s][Len(got[s])].data # None
          PROVE  \A n \in results : n.mutation = "UPDATED" /\ n.data <= got[s][Len(got[s])].data
      <3>1. got[s][Len(got[s])] \in Notice
        BY <2>1, <2>5
      <3>2. got[s][Len(got[s])].mutation = "UPDATED"
        BY <2>5, <3>1 DEF Notice, Kinds
      <3> QED BY <2>1, <2>2, <2>5, <3>2 DEF Knows
    <2> QED BY <2>3, <2>4, <2>5
  <1>2. ASSUME NoticeInv, memoizes, NEW s \in Subscribers \cap Linked,
               NEW a \in Range(got[s]), NEW b \in Range(got[s]),
               a.mutation = "UPDATED", b.mutation = "UPDATED"
        PROVE  a.data = b.data /\ Reaches(a.data)
    <2>1. memo[s] = <<a.data>> /\ memo[s] = <<b.data>>
      BY <1>2 DEF NoticeInv, Frozen
    <2>2. memo[s] # <<>> /\ memo[s][1] = a.data
      BY <2>1
    <2>3. Reaches(memo[s][1])
      BY <1>2, <2>2 DEF NoticeInv, Frozen
    <2> QED BY <2>1, <2>2, <2>3
  <1>3. NoticeInv => NoticesCatchUp
    <2>1. ASSUME NoticeInv, Quiet
          PROVE  \A s \in Subscribers \ Filtered :
                    /\ Len(got[s]) = Cardinality(results)
                    /\ s \notin Linked => IsInjective(got[s]) /\ Range(got[s]) = results
                    /\ (s \in Linked /\ ~memoizes /\ got[s] # <<>>) =>
                          LET end == got[s][Len(got[s])]
                          IN \/ end.mutation = "DELETED" \/ end.data = None
                             \/ \A n \in results : n.mutation = "UPDATED" /\ n.data <= end.data
      BY <1>1, <2>1
    <2>2. ASSUME NoticeInv, memoizes
          PROVE  \A s \in Subscribers \cap Linked :
                    \A a, b \in Range(got[s]) :
                       (a.mutation = "UPDATED" /\ b.mutation = "UPDATED") =>
                          a.data = b.data /\ Reaches(a.data)
      BY <1>2, <2>2
    <2> QED BY <2>1, <2>2 DEF NoticesCatchUp, Reaches
  <1> QED BY <1>3, NoticeInvHolds, PTL
=============================================================================
