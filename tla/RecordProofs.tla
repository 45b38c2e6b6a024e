---------------------------- MODULE RecordProofs -----------------------------
(***************************************************************************)
(* Theorems about what changes stored records by their names.  Files, for  *)
(* any files and records, any number of uses, and any amount of work that  *)
(* mutations leave behind: a file in use stays.  StudioData, for any number*)
(* of rows and any size of a page: a name changes the row that it was shown*)
(* for, and no other.                                                      *)
(***************************************************************************)
EXTENDS Files, StudioData, FiniteSetTheorems, SequenceTheorems, TLAPS

(* Files.                                                                  *)

Job == [do : {"store", "decrease", "look", "remove"}, file : FileIds]

TypesRight ==
    /\ isList \in BOOLEAN /\ risked \in BOOLEAN
    /\ counts \in [FileIds -> Int \cup {None}]
    /\ made \in SUBSET FileIds /\ bucket \in SUBSET FileIds
    /\ uses \in [Records -> {None} \cup SUBSET FileIds]
    /\ late \in Seq(Job)

(* Only files that were made are counted, used, or left to somebody.        *)
OfMade ==
    /\ \A f \in FileIds : counts[f] # None => f \in made
    /\ \A r \in Records : uses[r] # None => uses[r] \subseteq made
    /\ \A work \in Range(late) : work.file \in made

(* What is left behind and will, or may, take a use away from the count.    *)
Owed(q, f) == {i \in DOMAIN q : q[i].file = f /\ q[i].do # "store"}

Stored(f) == f \in bucket \/ [do |-> "store", file |-> f] \in Range(late)

(* A file without a count has no user; a count covers the users and what is *)
(* owed; a file that is about to be removed has no user; what is counted is *)
(* stored, or about to be.                                                  *)
FileRight(f) ==
    /\ IsFiniteSet(Users(f))
    /\ counts[f] = None => Users(f) = {}
    /\ counts[f] # None => counts[f] >= Cardinality(Users(f)) + Cardinality(Owed(late, f))
    /\ Goes(f) => Users(f) = {}
    /\ counts[f] # None => Stored(f)

FileInv == TypesRight /\ OfMade /\ (~risked => \A f \in FileIds : FileRight(f))

-----------------------------------------------------------------------------
(* The work that is left behind. *)

LEMMA OwedFinite ==
  ASSUME NEW q \in Seq(Job), NEW f
  PROVE  IsFiniteSet(Owed(q, f)) /\ Cardinality(Owed(q, f)) \in Nat
  <1>1. Len(q) \in Nat /\ Owed(q, f) \subseteq 1 .. Len(q)
    BY DEF Owed
  <1>2. IsFiniteSet(1 .. Len(q))
    BY <1>1, FS_Interval
  <1>3. IsFiniteSet(Owed(q, f))
    BY <1>1, <1>2, FS_Subset
  <1> QED BY <1>3, FS_CardinalityType

LEMMA WorkAdded ==
  ASSUME NEW q \in Seq(Job), NEW work \in Job, NEW f
  PROVE  /\ Append(q, work) \in Seq(Job)
         /\ Range(Append(q, work)) = Range(q) \cup {work}
         /\ Cardinality(Owed(Append(q, work), f)) =
               Cardinality(Owed(q, f)) + IF work.file = f /\ work.do # "store" THEN 1 ELSE 0
  <1> DEFINE n == Len(q)
             after == Append(q, work)
  <1>1. /\ n \in Nat /\ DOMAIN q = 1 .. n /\ DOMAIN after = 1 .. n + 1
        /\ \A i \in 1 .. n : after[i] = q[i]
        /\ after[n + 1] = work
        /\ after \in Seq(Job)
    OBVIOUS
  <1> HIDE DEF n, after
  <1>2. Range(after) = Range(q) \cup {work}
    BY <1>1 DEF Range
  <1>3. /\ IsFiniteSet(Owed(q, f)) /\ Cardinality(Owed(q, f)) \in Nat
        /\ n + 1 \notin Owed(q, f)
    <2>1. n + 1 \notin Owed(q, f)
      BY <1>1 DEF Owed
    <2> QED BY <2>1, OwedFinite
  <1>4. CASE work.file = f /\ work.do # "store"
    <2>1. Owed(after, f) = Owed(q, f) \cup {n + 1}
      BY <1>1, <1>4 DEF Owed
    <2> QED BY <1>1, <1>2, <1>3, <1>4, <2>1, FS_AddElement DEF after
  <1>5. CASE ~(work.file = f /\ work.do # "store")
    <2>1. Owed(after, f) = Owed(q, f)
      BY <1>1, <1>5 DEF Owed
    <2> QED BY <1>1, <1>2, <1>3, <1>5, <2>1 DEF after
  <1> QED BY <1>4, <1>5

LEMMA WorkDone ==
  ASSUME NEW q \in Seq(Job), NEW i \in DOMAIN q, NEW f
  PROVE  /\ RemoveAt(q, i) \in Seq(Job)
         /\ Range(RemoveAt(q, i)) \subseteq Range(q)
         /\ Range(q) \subseteq Range(RemoveAt(q, i)) \cup {q[i]}
         /\ Cardinality(Owed(RemoveAt(q, i), f)) =
               Cardinality(Owed(q, f)) - IF q[i].file = f /\ q[i].do # "store" THEN 1 ELSE 0
  <1> DEFINE n == Len(q)
             after == RemoveAt(q, i)
             Place(j) == IF j < i THEN j ELSE j - 1
             left == Owed(q, f) \ {i}
             map == [j \in left |-> Place(j)]
  <1>1. n \in Nat /\ DOMAIN q = 1 .. n /\ i \in 1 .. n /\ \A j \in 1 .. n : q[j] \in Job
    OBVIOUS
  <1>2. /\ DOMAIN after = 1 .. n - 1
        /\ \A j \in 1 .. n - 1 : after[j] = IF j < i THEN q[j] ELSE q[j + 1]
        /\ after \in Seq(Job)
    <2> DEFINE a == SubSeq(q, 1, i - 1)
               b == SubSeq(q, i + 1, Len(q))
    <2>1. a \in Seq(Job) /\ Len(a) = i - 1 /\ \A j \in 1 .. i - 1 : a[j] = q[j]
      BY <1>1
    <2>2. b \in Seq(Job) /\ Len(b) = n - i /\ \A j \in 1 .. n - i : b[j] = q[j + i]
      BY <1>1
    <2>3. after = a \o b
      BY DEF RemoveAt
    <2> HIDE DEF a, b, n, after
    <2>4. after \in Seq(Job) /\ Len(after) = n - 1
      <3>1. after \in Seq(Job) /\ Len(after) = Len(a) + Len(b)
        BY <2>1, <2>2, <2>3, ConcatProperties
      <3> QED BY <1>1, <2>1, <2>2, <3>1
    <2>5. \A j \in 1 .. n - 1 : after[j] = IF j < i THEN a[j] ELSE b[j - i + 1]
      BY <1>1, <2>1, <2>2, <2>3
    <2>6. ASSUME NEW j \in 1 .. n - 1
          PROVE  after[j] = IF j < i THEN q[j] ELSE q[j + 1]
      <3>1. CASE j < i
        BY <1>1, <2>1, <2>5, <3>1
      <3>2. CASE ~(j < i)
        <4>1. j - i + 1 \in 1 .. n - i /\ (j - i + 1) + i = j + 1
          BY <1>1, <3>2
        <4>2. b[j - i + 1] = q[(j - i + 1) + i]
          BY <2>2, <4>1
        <4> QED BY <2>5, <3>2, <4>1, <4>2
      <3> QED BY <3>1, <3>2
    <2> QED BY <2>4, <2>6
  <1> HIDE DEF n, after
  <1>3. Range(after) \subseteq Range(q)
    BY <1>1, <1>2 DEF Range
  <1>4. Range(q) \subseteq Range(after) \cup {q[i]}
    <2> SUFFICES ASSUME NEW j \in 1 .. n, j # i
                 PROVE  q[j] \in Range(after)
      BY <1>1 DEF Range
    <2>1. Place(j) \in 1 .. n - 1 /\ after[Place(j)] = q[j]
      BY <1>1, <1>2
    <2> QED BY <1>2, <2>1 DEF Range
  <1>5. map \in Injection(left, Owed(after, f))
    <2>1. \A j \in left : j \in 1 .. n /\ j # i /\ q[j].file = f /\ q[j].do # "store"
      BY <1>1 DEF Owed
    <2>2. \A j \in left : Place(j) \in 1 .. n - 1 /\ after[Place(j)] = q[j]
      BY <1>1, <1>2, <2>1
    <2>3. \A j \in left : Place(j) \in Owed(after, f)
      BY <1>2, <2>1, <2>2 DEF Owed
    <2>4. \A j, k \in left : Place(j) = Place(k) => j = k
      BY <1>1, <2>1
    <2> HIDE DEF left, Place
    <2> QED BY <2>3, <2>4 DEF Injection, IsInjective
  <1>6. map \in Surjection(left, Owed(after, f))
    <2>1. ASSUME NEW k \in Owed(after, f)
          PROVE  \E j \in left : Place(j) = k
      <3>1. k \in 1 .. n - 1 /\ after[k].file = f /\ after[k].do # "store"
        BY <1>2, <2>1 DEF Owed
      <3> DEFINE j == IF k < i THEN k ELSE k + 1
      <3>2. j \in 1 .. n /\ j # i /\ q[j] = after[k] /\ Place(j) = k
        BY <1>1, <1>2, <3>1
      <3> QED BY <1>1, <3>1, <3>2 DEF Owed
    <2>2. map \in [left -> Owed(after, f)]
      BY <1>5 DEF Injection
    <2> HIDE DEF left, Place
    <2> QED BY <2>1, <2>2 DEF Surjection
  <1>7. IsFiniteSet(Owed(q, f)) /\ Cardinality(Owed(q, f)) \in Nat
    BY OwedFinite
  <1>8. /\ IsFiniteSet(left)
        /\ Cardinality(left) = Cardinality(Owed(q, f))
                                  - IF q[i].file = f /\ q[i].do # "store" THEN 1 ELSE 0
    <2>1. i \in Owed(q, f) <=> q[i].file = f /\ q[i].do # "store"
      BY DEF Owed
    <2> QED BY <1>7, <2>1, FS_RemoveElement
  <1>9. Cardinality(Owed(after, f)) = Cardinality(left)
    <2> HIDE DEF map, left
    <2>1. map \in Bijection(left, Owed(after, f))
      BY <1>5, <1>6 DEF Bijection
    <2> QED BY <1>8, <2>1, FS_Bijection DEF ExistsBijection
  <1> QED BY <1>2, <1>3, <1>4, <1>8, <1>9 DEF after

LEMMA WorkTurned ==
  ASSUME NEW q \in Seq(Job), NEW i \in DOMAIN q, q[i].do = "look",
         NEW after \in Seq(Job), DOMAIN after = DOMAIN q,
         after[i] = [do |-> "remove", file |-> q[i].file],
         \A j \in DOMAIN q \ {i} : after[j] = q[j]
  PROVE  /\ Range(after) \subseteq Range(q) \cup {[do |-> "remove", file |-> q[i].file]}
         /\ \A work \in Range(q) : work.do = "store" => work \in Range(after)
         /\ \A f : Owed(after, f) = Owed(q, f)
  <1> DEFINE work == [do |-> "remove", file |-> q[i].file]
  <1>1. Range(after) \subseteq Range(q) \cup {work}
    BY DEF Range
  <1>2. \A w \in Range(q) : w.do = "store" => w \in Range(after)
    BY DEF Range
  <1>3. ASSUME NEW f
        PROVE  Owed(after, f) = Owed(q, f)
    <2>1. work.file = q[i].file /\ work.do # "store"
      OBVIOUS
    <2> HIDE DEF work
    <2> QED BY <2>1 DEF Owed
  <1> QED BY <1>1, <1>2, <1>3

-----------------------------------------------------------------------------
LEMMA InitRight == FileInit => FileInv
  <1> SUFFICES ASSUME FileInit
               PROVE  FileInv
    OBVIOUS
  <1>1. late = <<>> /\ <<>> \in Seq(Job) /\ Range(<<>>) = {}
    BY DEF FileInit, Range
  <1>2. TypesRight
    BY <1>1 DEF FileInit, TypesRight
  <1>3. OfMade
    BY <1>1 DEF FileInit, OfMade
  <1>4. ASSUME NEW f \in FileIds
        PROVE  FileRight(f)
    <2>1. counts[f] = None /\ Users(f) = {}
      BY DEF FileInit, Users
    <2> QED BY <2>1, FS_EmptySet DEF FileRight
  <1> QED BY <1>2, <1>3, <1>4 DEF FileInv

(* What users a file has when a record's uses change.                       *)
LEMMA UsersChange ==
  ASSUME TypesRight, NEW r \in Records, NEW some \in {None} \cup SUBSET FileIds,
         uses' = [uses EXCEPT ![r] = some], NEW f \in FileIds
  PROVE  /\ some \in SUBSET FileIds /\ f \in some => Users(f)' = Users(f) \cup {r}
         /\ some = None \/ f \notin some => Users(f)' = Users(f) \ {r}
         /\ r \in Users(f) <=> uses[r] # None /\ f \in uses[r]
         /\ (some # None /\ f \in some <=> uses[r] # None /\ f \in uses[r])
               => Users(f)' = Users(f)
  BY NoneAssumption DEF TypesRight, Users, Exists

(* A set of users, one more and one less.                                   *)
LEMMA UsersCounted ==
  ASSUME NEW S, IsFiniteSet(S), NEW r
  PROVE  /\ Cardinality(S) \in Nat
         /\ IsFiniteSet(S \cup {r}) /\ IsFiniteSet(S \ {r})
         /\ Cardinality(S \cup {r}) = IF r \in S THEN Cardinality(S) ELSE Cardinality(S) + 1
         /\ Cardinality(S \ {r}) = IF r \in S THEN Cardinality(S) - 1 ELSE Cardinality(S)
         /\ Cardinality(S) = 0 <=> S = {}
  BY FS_CardinalityType, FS_AddElement, FS_RemoveElement, FS_EmptySet

(* A record that no longer uses a file.                                     *)
LEMMA UsersLeft ==
  ASSUME NEW f, NEW r, IsFiniteSet(Users(f)), Users(f)' = Users(f) \ {r}
  PROVE  /\ IsFiniteSet(Users(f)') /\ Cardinality(Users(f)') \in Nat
         /\ Cardinality(Users(f)') =
               IF r \in Users(f) THEN Cardinality(Users(f)) - 1 ELSE Cardinality(Users(f))
         /\ Cardinality(Users(f)') = 0 => Users(f)' = {}
         /\ Users(f) = {} => Users(f)' = {}
  <1>1. /\ IsFiniteSet(Users(f) \ {r})
        /\ Cardinality(Users(f) \ {r}) =
               IF r \in Users(f) THEN Cardinality(Users(f)) - 1 ELSE Cardinality(Users(f))
    BY UsersCounted
  <1>2. IsFiniteSet(Users(f)')
    BY <1>1
  <1>3. Cardinality(Users(f)') \in Nat /\ (Cardinality(Users(f)') = 0 => Users(f)' = {})
    BY <1>2, UsersCounted
  <1> QED BY <1>1, <1>2, <1>3

(* What the invariant says of a file, with the numbers it is about.         *)
LEMMA FileFacts ==
  ASSUME FileInv, ~risked, NEW f \in FileIds
  PROVE  /\ FileRight(f)
         /\ Cardinality(Users(f)) \in Nat /\ Cardinality(Owed(late, f)) \in Nat
         /\ counts[f] # None => counts[f] \in Int
  <1>1. FileRight(f)
    BY DEF FileInv
  <1>2. Cardinality(Users(f)) \in Nat
    BY <1>1, UsersCounted DEF FileRight
  <1>3. Cardinality(Owed(late, f)) \in Nat
    BY OwedFinite DEF FileInv, TypesRight
  <1> QED BY <1>1, <1>2, <1>3 DEF FileInv, TypesRight

(* A file that nothing touches but what joins the work, and is not to       *)
(* remove it.                                                               *)
LEMMA FileUntouched ==
  ASSUME FileInv, ~risked, NEW f \in FileIds,
         UNCHANGED <<counts[f], Users(f)>>,
         Cardinality(Owed(late', f)) = Cardinality(Owed(late, f)),
         Goes(f)' => Goes(f),
         Stored(f) => Stored(f)'
  PROVE  FileRight(f)'
  BY FileFacts DEF FileRight

(* The object of a counted file stays stored, or about to be.               *)
LEMMA WorkOnly ==
  ASSUME FileInv, NEW work \in Job, late' = Append(late, work), NEW f \in FileIds
  PROVE  /\ late' \in Seq(Job)
         /\ Range(late') = Range(late) \cup {work}
         /\ Goes(f)' <=> Goes(f) \/ work = [do |-> "remove", file |-> f]
         /\ Stored(f) /\ bucket' = bucket => Stored(f)'
         /\ Stored(f) /\ f \in FileIds /\ bucket \ {work.file} \subseteq bucket'
                /\ f # work.file => Stored(f)'
         /\ Cardinality(Owed(late', f)) = Cardinality(Owed(late, f))
                + IF work.file = f /\ work.do # "store" THEN 1 ELSE 0
  <1>1. late \in Seq(Job)
    BY DEF FileInv, TypesRight
  <1>2. /\ late' \in Seq(Job)
        /\ Range(late') = Range(late) \cup {work}
        /\ Cardinality(Owed(late', f)) = Cardinality(Owed(late, f))
                + IF work.file = f /\ work.do # "store" THEN 1 ELSE 0
    BY <1>1, WorkAdded
  <1> QED BY <1>2 DEF Goes, Stored

-----------------------------------------------------------------------------
(* The actions. *)

LEMMA UploadRight ==
  ASSUME FileInv, NEW r \in Records, NEW g \in FileIds, Upload(r, g)
  PROVE  FileInv'
  <1> DEFINE work == [do |-> "store", file |-> g]
  <1>1. work \in Job /\ late' = Append(late, work) /\ work.file = g /\ work.do = "store"
    BY DEF Upload, Left, Job
  <1>2. TypesRight
    BY DEF FileInv
  <1>3. late' \in Seq(Job) /\ Range(late') = Range(late) \cup {work}
    BY <1>1, <1>2, WorkAdded DEF TypesRight
  <1>4. TypesRight'
    BY <1>2, <1>3 DEF Upload, TypesRight
  <1>5. OfMade'
    BY <1>1, <1>2, <1>3 DEF Upload, FileInv, OfMade, TypesRight
  <1>6. ASSUME ~risked', NEW f \in FileIds
        PROVE  FileRight(f)'
    <2>1. ~risked
      BY <1>6 DEF Upload
    <2>2. CASE f = g
      <3>1. f \notin made /\ counts[f] = None
        BY <2>2 DEF Upload, FileInv, OfMade
      <3>2. Users(f) = {}
        BY <2>1, <3>1, FileFacts DEF FileRight
      <3>3. Users(f)' = {r}
        <4>1. {g} \in SUBSET FileIds /\ uses' = [uses EXCEPT ![r] = {g}]
          BY DEF Upload
        <4>2. Users(f)' = Users(f) \cup {r}
          BY <1>2, <2>2, <4>1, UsersChange
        <4> QED BY <3>2, <4>2
      <3>4. \A w \in Range(late) : w.file # f
        BY <3>1 DEF FileInv, OfMade
      <3>5. ~Goes(f)'
        BY <1>3, <3>4 DEF Goes
      <3>6. Owed(late', f) = {}
        BY <1>1, <1>3, <2>2, <3>4 DEF Owed, Range
      <3>7. counts'[f] = 1
        BY <1>2, <2>2 DEF Upload, TypesRight
      <3>8. Stored(f)'
        BY <1>3, <2>2 DEF Stored
      <3>9. IsFiniteSet({r}) /\ Cardinality({r}) = 1 /\ Cardinality({}) = 0
        BY FS_Singleton, FS_EmptySet
      <3>10. None # 1
        BY NoneAssumption
      <3> QED BY <3>3, <3>5, <3>6, <3>7, <3>8, <3>9, <3>10 DEF FileRight
    <2>3. CASE f # g
      <3>1. UNCHANGED counts[f]
        BY <1>2, <2>3 DEF Upload, TypesRight
      <3>2. UNCHANGED Users(f)
        <4>1. {g} \in SUBSET FileIds /\ uses' = [uses EXCEPT ![r] = {g}] /\ uses[r] = {}
          BY DEF Upload
        <4>2. f \notin {g} /\ f \notin uses[r]
          BY <2>3, <4>1
        <4> QED BY <1>2, <4>1, <4>2, UsersChange
      <3>3. Cardinality(Owed(late', f)) = Cardinality(Owed(late, f))
        BY <1>1, <2>1, <2>3, WorkOnly, FileFacts
      <3> QED BY <1>1, <2>1, <2>3, <3>1, <3>2, <3>3, WorkOnly, FileUntouched DEF Upload
    <2> QED BY <2>2, <2>3
  <1> QED BY <1>4, <1>5, <1>6 DEF FileInv

LEMMA UploadAloneRight ==
  ASSUME FileInv, NEW g \in FileIds, UploadAlone(g)
  PROVE  FileInv'
  <1> DEFINE work == [do |-> "store", file |-> g]
  <1>1. work \in Job /\ late' = Append(late, work) /\ work.file = g /\ work.do = "store"
    BY DEF UploadAlone, Left, Job
  <1>2. TypesRight
    BY DEF FileInv
  <1>3. late' \in Seq(Job) /\ Range(late') = Range(late) \cup {work}
    BY <1>1, <1>2, WorkAdded DEF TypesRight
  <1>4. TypesRight'
    BY <1>2, <1>3 DEF UploadAlone, TypesRight
  <1>5. OfMade'
    BY <1>1, <1>2, <1>3 DEF UploadAlone, FileInv, OfMade, TypesRight
  <1>6. ASSUME ~risked', NEW f \in FileIds
        PROVE  FileRight(f)'
    <2>1. ~risked /\ UNCHANGED Users(f)
      BY <1>6 DEF UploadAlone, Users, Exists
    <2>2. CASE f = g
      <3>1. f \notin made /\ counts[f] = None
        BY <2>2 DEF UploadAlone, FileInv, OfMade
      <3>2. Users(f) = {}
        BY <2>1, <3>1, FileFacts DEF FileRight
      <3>3. \A w \in Range(late) : w.file # f
        BY <3>1 DEF FileInv, OfMade
      <3>4. Owed(late', f) = {}
        BY <1>1, <1>3, <2>2, <3>3 DEF Owed, Range
      <3>5. counts'[f] = 0
        BY <1>2, <2>2 DEF UploadAlone, TypesRight
      <3>6. Stored(f)'
        BY <1>3, <2>2 DEF Stored
      <3>7. IsFiniteSet({}) /\ Cardinality({}) = 0
        BY FS_EmptySet
      <3> QED BY <2>1, <3>2, <3>4, <3>5, <3>6, <3>7, NoneAssumption DEF FileRight
    <2>3. CASE f # g
      <3>1. UNCHANGED counts[f]
        BY <1>2, <2>3 DEF UploadAlone, TypesRight
      <3>2. Cardinality(Owed(late', f)) = Cardinality(Owed(late, f))
        BY <1>1, <2>1, <2>3, WorkOnly, FileFacts
      <3> QED BY <1>1, <2>1, <2>3, <3>1, <3>2, WorkOnly, FileUntouched DEF UploadAlone
    <2> QED BY <2>2, <2>3
  <1> QED BY <1>4, <1>5, <1>6 DEF FileInv

LEMMA LinkRight ==
  ASSUME FileInv, NEW r \in Records, NEW g \in FileIds, Link(r, g)
  PROVE  FileInv'
  <1> DEFINE some == IF isList THEN uses[r] \cup {g} ELSE {g}
  <1>1. TypesRight
    BY DEF FileInv
  <1>2. /\ some \in SUBSET FileIds /\ some # None /\ g \in some
        /\ uses[r] \in SUBSET FileIds /\ uses' = [uses EXCEPT ![r] = some]
    BY <1>1, NoneAssumption DEF Link, TypesRight, Exists
  <1>3. counts[g] \in Int /\ counts' = [counts EXCEPT ![g] = @ + 1]
    BY <1>1 DEF Link, TypesRight
  <1>4. TypesRight'
    BY <1>1, <1>2, <1>3 DEF Link, TypesRight, Goes
  <1>5. OfMade'
    <2>1. some \subseteq made
      BY <1>2 DEF Link, FileInv, OfMade, Exists
    <2> HIDE DEF some
    <2> QED BY <1>1, <1>2, <1>3, <2>1 DEF Link, FileInv, OfMade, TypesRight
  <1>6. ASSUME ~risked', NEW f \in FileIds
        PROVE  FileRight(f)'
    <2>1. ~risked /\ ~Goes(g)
      BY <1>6 DEF Link
    <2>2. UNCHANGED <<bucket, late>> /\ (Stored(f) => Stored(f)') /\ Goes(f)' = Goes(f)
      BY DEF Link, Stored, Goes
    <2>3. /\ FileRight(f)
          /\ Cardinality(Users(f)) \in Nat /\ Cardinality(Owed(late, f)) \in Nat
      BY <2>1, FileFacts
    <2>4. CASE f = g
      <3>1. Users(f)' = Users(f) \cup {r} /\ r \notin Users(f)
        <4>1. g \notin uses[r]
          BY DEF Link
        <4> HIDE DEF some
        <4> QED BY <1>1, <1>2, <2>4, <4>1, UsersChange
      <3>2. counts'[f] = counts[f] + 1 /\ counts[f] \in Int /\ counts[f] # None
        BY <1>1, <1>3, <2>4, NoneAssumption DEF TypesRight
      <3>3. IsFiniteSet(Users(f)') /\ Cardinality(Users(f)') = Cardinality(Users(f)) + 1
        BY <2>3, <3>1, UsersCounted DEF FileRight
      <3>4. counts'[f] # None
        BY <3>2, NoneAssumption
      <3> QED BY <2>1, <2>2, <2>3, <2>4, <3>2, <3>3, <3>4 DEF FileRight
    <2>5. CASE f # g
      <3>1. counts'[f] = counts[f] /\ (counts[f] # None => counts[f] \in Int)
        BY <1>1, <1>3, <2>5 DEF TypesRight
      <3>2. f \in some => f \in uses[r]
        BY <2>5
      <3>3. Users(f)' = Users(f) \/ Users(f)' = Users(f) \ {r}
        <4>1. CASE f \in some
          <5>1. uses[r] # None
            BY DEF Link, Exists
          <5> HIDE DEF some
          <5>2. Users(f)' = Users(f) \cup {r} /\ r \in Users(f)
            BY <1>1, <1>2, <3>2, <4>1, <5>1, UsersChange
          <5> QED BY <5>2
        <4>2. CASE f \notin some
          <5> HIDE DEF some
          <5> QED BY <1>1, <1>2, <4>2, UsersChange
        <4> QED BY <4>1, <4>2
      <3>4. /\ IsFiniteSet(Users(f)') /\ Cardinality(Users(f)') \in Nat
            /\ Cardinality(Users(f)') <= Cardinality(Users(f))
            /\ Users(f) = {} => Users(f)' = {}
        <4>1. IsFiniteSet(Users(f))
          BY <2>3 DEF FileRight
        <4>2. CASE Users(f)' = Users(f)
          BY <2>3, <4>1, <4>2
        <4>3. CASE Users(f)' = Users(f) \ {r}
          <5>1. /\ IsFiniteSet(Users(f) \ {r})
                /\ Cardinality(Users(f) \ {r}) \in {Cardinality(Users(f)), Cardinality(Users(f)) - 1}
            BY <4>1, UsersCounted
          <5>2. Cardinality(Users(f) \ {r}) \in Nat
            BY <5>1, UsersCounted
          <5> QED BY <2>3, <4>3, <5>1, <5>2
        <4> QED BY <3>3, <4>2, <4>3
      <3> QED BY <2>2, <2>3, <3>1, <3>4 DEF FileRight
    <2> QED BY <2>4, <2>5
  <1> QED BY <1>4, <1>5, <1>6 DEF FileInv

LEMMA UnlinkRight ==
  ASSUME FileInv, NEW r \in Records, NEW g \in FileIds, Unlink(r, g)
  PROVE  FileInv'
  <1> DEFINE work == [do |-> "decrease", file |-> g]
             some == uses[r] \ {g}
  <1>1. TypesRight
    BY DEF FileInv
  <1>2. work \in Job /\ work.file = g /\ work.do = "decrease"
    BY DEF Job
  <1>3. /\ uses[r] # None /\ g \in uses[r] /\ uses[r] \in SUBSET FileIds
        /\ some \in SUBSET FileIds /\ uses' = [uses EXCEPT ![r] = some]
        /\ counts[g] \in Int /\ counts[g] # None
    BY <1>1 DEF Unlink, Exists, TypesRight
  <1>4. /\ late' = late \/ late' = Append(late, work)
        /\ counts[g] > 0 => late' = Append(late, work)
    BY DEF Unlink, Left
  <1>5. /\ late' \in Seq(Job) /\ Range(late) \subseteq Range(late')
        /\ Range(late') \subseteq Range(late) \cup {work}
    BY <1>1, <1>2, <1>4, WorkAdded DEF TypesRight
  <1>6. /\ counts[g] = 1 => counts' = [counts EXCEPT ![g] = None] /\ bucket' = bucket \ {g}
        /\ counts[g] # 1 => UNCHANGED <<counts, bucket>>
        /\ UNCHANGED <<isList, made, risked>>
    BY DEF Unlink
  <1> HIDE DEF work, some
  <1>7. TypesRight'
    BY <1>1, <1>3, <1>5, <1>6 DEF TypesRight
  <1>8. g \in made /\ some \subseteq made
    BY <1>3 DEF FileInv, OfMade, some
  <1>9. OfMade'
    <2>1. \A f \in FileIds : counts'[f] # None => f \in made
      BY <1>1, <1>6 DEF FileInv, OfMade, TypesRight
    <2>2. \A q \in Records : uses'[q] # None => uses'[q] \subseteq made
      BY <1>1, <1>3, <1>8 DEF FileInv, OfMade, TypesRight
    <2>3. \A w \in Range(late') : w.file \in made
      BY <1>2, <1>5, <1>8 DEF FileInv, OfMade
    <2> QED BY <1>6, <2>1, <2>2, <2>3 DEF OfMade
  <1>10. ASSUME ~risked', NEW f \in FileIds
         PROVE  FileRight(f)'
    <2>1. ~risked
      BY <1>6, <1>10
    <2>2. /\ FileRight(f)
          /\ Cardinality(Users(f)) \in Nat /\ Cardinality(Owed(late, f)) \in Nat
      BY <2>1, FileFacts
    <2>3. Goes(f)' => Goes(f)
      BY <1>2, <1>5 DEF Goes
    <2>4. CASE f = g
      <3>1. Users(f)' = Users(f) \ {r} /\ r \in Users(f)
        <4>1. f \notin some
          BY <2>4 DEF some
        <4> QED BY <1>1, <1>3, <2>4, <4>1, UsersChange
      <3>2. /\ IsFiniteSet(Users(f)') /\ Cardinality(Users(f)') = Cardinality(Users(f)) - 1
            /\ Cardinality(Users(f)') = 0 => Users(f)' = {}
            /\ Cardinality(Users(f)') \in Nat
        BY <2>2, <3>1, UsersLeft DEF FileRight
      <3>3. counts[f] >= Cardinality(Users(f)) + Cardinality(Owed(late, f)) /\ Users(f) # {}
        BY <1>3, <2>2, <2>4, <3>1 DEF FileRight
      <3>4. Goes(f)' => Users(f)' = {}
        BY <2>2, <2>3, <3>1 DEF FileRight
      <3>5. Cardinality(Users(f)) # 0
        BY <2>2, <3>3, UsersCounted DEF FileRight
      <3>6. CASE counts[g] = 1
        <4>1. Cardinality(Users(f)') = 0
          BY <2>2, <2>4, <3>2, <3>3, <3>5, <3>6
        <4>2. counts'[f] = None
          BY <1>1, <1>6, <2>4, <3>6 DEF TypesRight
        <4> QED BY <3>2, <3>4, <4>1, <4>2 DEF FileRight
      <3>7. CASE counts[g] # 1
        <4>1. counts[g] > 0 /\ counts'[f] = counts[f] /\ counts[f] # None
          BY <1>3, <1>6, <2>2, <2>4, <3>3, <3>5, <3>7
        <4>2. Cardinality(Owed(late', f)) = Cardinality(Owed(late, f)) + 1
          BY <1>1, <1>2, <1>4, <2>4, <4>1, WorkAdded DEF TypesRight
        <4>3. Stored(f)'
          BY <1>5, <1>6, <2>2, <3>7, <4>1 DEF FileRight, Stored
        <4>4. counts'[f] >= Cardinality(Users(f)') + Cardinality(Owed(late', f))
          BY <1>3, <2>2, <2>4, <3>2, <3>3, <4>1, <4>2
        <4> QED BY <3>2, <3>4, <4>1, <4>3, <4>4 DEF FileRight
      <3> QED BY <3>6, <3>7
    <2>5. CASE f # g
      <3>1. UNCHANGED Users(f)
        <4>1. (f \in some <=> f \in uses[r]) /\ some # None
          BY <1>3, <2>5, NoneAssumption DEF some
        <4> QED BY <1>1, <1>3, <4>1, UsersChange
      <3>2. UNCHANGED counts[f]
        BY <1>1, <1>6, <2>5 DEF TypesRight
      <3>3. Cardinality(Owed(late', f)) = Cardinality(Owed(late, f))
        <4>1. CASE late' = late
          BY <4>1
        <4>2. CASE late' = Append(late, work)
          <5>1. Cardinality(Owed(Append(late, work), f)) = Cardinality(Owed(late, f)) + 0
            BY <1>1, <1>2, <2>5, WorkAdded DEF TypesRight
          <5> QED BY <2>2, <4>2, <5>1
        <4> QED BY <1>4, <4>1, <4>2
      <3>4. Stored(f) => Stored(f)'
        BY <1>5, <1>6, <2>5 DEF Stored
      <3> QED BY <2>1, <2>3, <3>1, <3>2, <3>3, <3>4, FileUntouched
    <2> QED BY <2>4, <2>5
  <1> QED BY <1>7, <1>9, <1>10 DEF FileInv

LEMMA DeleteRecordRight ==
  ASSUME FileInv, NEW r \in Records, DeleteRecord(r)
  PROVE  FileInv'
  <1> DEFINE gone == {f \in uses[r] : ~isList /\ counts[f] = 1}
  <1>1. TypesRight
    BY DEF FileInv
  <1>2. /\ uses[r] # None /\ uses[r] \in SUBSET FileIds /\ uses' = [uses EXCEPT ![r] = None]
        /\ \A f \in FileIds :
              counts'[f] = IF f \in gone THEN None
                           ELSE IF f \in uses[r] /\ ~isList /\ counts[f] # None
                                THEN counts[f] - 1 ELSE counts[f]
        /\ bucket' = bucket \ gone /\ UNCHANGED <<isList, made, late, risked>>
    BY <1>1 DEF DeleteRecord, Exists, TypesRight
  <1>3. \A f \in FileIds : counts'[f] \in Int \cup {None} /\ (counts'[f] # None => counts[f] # None)
    BY <1>1, <1>2 DEF TypesRight
  <1>4. counts' = [f \in FileIds |-> counts'[f]]
    BY DEF DeleteRecord
  <1>5. counts' \in [FileIds -> Int \cup {None}]
    BY <1>3, <1>4
  <1> HIDE DEF gone
  <1>6. TypesRight'
    BY <1>1, <1>2, <1>5 DEF TypesRight
  <1>7. OfMade'
    BY <1>1, <1>2, <1>3 DEF FileInv, OfMade, TypesRight
  <1>8. ASSUME ~risked', NEW f \in FileIds
        PROVE  FileRight(f)'
    <2>1. ~risked
      BY <1>2, <1>8
    <2>2. /\ FileRight(f) /\ (counts[f] # None => counts[f] \in Int)
          /\ Cardinality(Users(f)) \in Nat /\ Cardinality(Owed(late, f)) \in Nat
      BY <2>1, FileFacts
    <2>3. Users(f)' = Users(f) \ {r} /\ (r \in Users(f) <=> f \in uses[r])
      BY <1>1, <1>2, UsersChange
    <2>4. /\ IsFiniteSet(Users(f)') /\ Cardinality(Users(f)') \in Nat
          /\ Cardinality(Users(f)') =
                IF r \in Users(f) THEN Cardinality(Users(f)) - 1 ELSE Cardinality(Users(f))
          /\ Cardinality(Users(f)') = 0 => Users(f)' = {}
          /\ Users(f) = {} => Users(f)' = {}
      BY <2>2, <2>3, UsersLeft DEF FileRight
    <2>5. Owed(late', f) = Owed(late, f) /\ Goes(f)' = Goes(f)
      BY <1>2 DEF Goes
    <2>6. CASE f \in gone
      <3>1. counts[f] = 1 /\ r \in Users(f) /\ counts'[f] = None /\ counts[f] # None
        BY <1>2, <2>3, <2>6, NoneAssumption DEF gone
      <3>2. 1 >= Cardinality(Users(f)) + Cardinality(Owed(late, f))
        BY <2>2, <3>1 DEF FileRight
      <3>3. Cardinality(Users(f)') = 0
        BY <2>2, <2>4, <3>1, <3>2
      <3> QED BY <2>4, <3>1, <3>3 DEF FileRight
    <2>7. CASE f \notin gone
      <3>1. counts'[f] # None => Stored(f)'
        BY <1>2, <1>3, <2>2, <2>7 DEF FileRight, Stored
      <3>2. Goes(f)' => Users(f)' = {}
        BY <2>2, <2>4, <2>5 DEF FileRight
      <3>3. counts'[f] = None => counts[f] = None
        BY <1>2, <2>2, <2>7, NoneAssumption
      <3>4. counts'[f] = None => Users(f)' = {}
        BY <2>2, <2>4, <3>3 DEF FileRight
      <3>5. ASSUME counts'[f] # None
            PROVE  counts'[f] >= Cardinality(Users(f)') + Cardinality(Owed(late', f))
        <4>1. /\ counts[f] # None /\ counts[f] \in Int
              /\ counts[f] >= Cardinality(Users(f)) + Cardinality(Owed(late, f))
          BY <1>3, <2>2, <3>5 DEF FileRight
        <4>2. CASE f \in uses[r]
          BY <1>2, <2>2, <2>3, <2>4, <2>5, <2>7, <4>1, <4>2
        <4>3. CASE f \notin uses[r]
          BY <1>2, <2>2, <2>3, <2>4, <2>5, <2>7, <4>1, <4>3
        <4> QED BY <4>2, <4>3
      <3> QED BY <2>4, <3>1, <3>2, <3>4, <3>5 DEF FileRight
    <2> QED BY <2>6, <2>7
  <1> QED BY <1>6, <1>7, <1>8 DEF FileInv

LEMMA DisconnectRight ==
  ASSUME FileInv, NEW r \in Records, Disconnect(r)
  PROVE  FileInv'
  <1> DEFINE g == CHOOSE f \in uses[r] : TRUE
             work == [do |-> "look", file |-> g]
  <1>1. TypesRight
    BY DEF FileInv
  <1>2. /\ uses[r] # None /\ g \in uses[r] /\ uses[r] \in SUBSET FileIds
        /\ uses' = [uses EXCEPT ![r] = {}]
        /\ late' = Append(late, work)
        /\ UNCHANGED <<isList, made, counts, bucket, risked>>
    BY <1>1 DEF Disconnect, Exists, TypesRight, Left
  <1>3. work \in Job /\ work.file = g /\ work.do = "look"
    BY <1>2 DEF Job
  <1> HIDE DEF g, work
  <1>4. late' \in Seq(Job) /\ Range(late') = Range(late) \cup {work}
    BY <1>1, <1>2, <1>3, WorkAdded DEF TypesRight
  <1>5. TypesRight'
    BY <1>1, <1>2, <1>4 DEF TypesRight
  <1>6. OfMade'
    BY <1>1, <1>2, <1>3, <1>4 DEF FileInv, OfMade, TypesRight
  <1>7. ASSUME ~risked', NEW f \in FileIds
        PROVE  FileRight(f)'
    <2>1. ~risked
      BY <1>2, <1>7
    <2>2. /\ FileRight(f) /\ (counts[f] # None => counts[f] \in Int)
          /\ Cardinality(Users(f)) \in Nat /\ Cardinality(Owed(late, f)) \in Nat
      BY <2>1, FileFacts
    <2>3. Users(f)' = Users(f) \ {r} /\ (r \in Users(f) <=> f \in uses[r])
      <3> DEFINE none == {}
      <3>1. f \notin none /\ none \in SUBSET FileIds /\ uses' = [uses EXCEPT ![r] = none]
        BY <1>2
      <3> HIDE DEF none
      <3> QED BY <1>1, <1>2, <3>1, UsersChange
    <2>4. /\ IsFiniteSet(Users(f)') /\ Cardinality(Users(f)') \in Nat
          /\ Cardinality(Users(f)') =
                IF r \in Users(f) THEN Cardinality(Users(f)) - 1 ELSE Cardinality(Users(f))
          /\ Users(f) = {} => Users(f)' = {}
      BY <2>2, <2>3, UsersLeft DEF FileRight
    <2>5. Goes(f)' => Goes(f)
      BY <1>3, <1>4 DEF Goes
    <2>6. Stored(f) => Stored(f)'
      BY <1>2, <1>4 DEF Stored
    <2>7. Cardinality(Owed(late', f)) = Cardinality(Owed(late, f)) + IF f = g THEN 1 ELSE 0
      BY <1>1, <1>2, <1>3, WorkAdded DEF TypesRight
    <2>8. f = g => r \in Users(f)
      BY <1>2, <2>3
    <2>9. counts[f] # None => counts[f] >= Cardinality(Users(f)') + Cardinality(Owed(late', f))
      BY <2>2, <2>4, <2>7, <2>8 DEF FileRight
    <2> QED BY <1>2, <2>2, <2>4, <2>5, <2>6, <2>9 DEF FileRight
  <1> QED BY <1>5, <1>6, <1>7 DEF FileInv

LEMMA DeleteFilesRight ==
  ASSUME FileInv, NEW some \in SUBSET FileIds, DeleteFiles(some)
  PROVE  FileInv'
  <1>1. TypesRight
    BY DEF FileInv
  <1>2. /\ counts' \in [FileIds -> Int \cup {None}]
        /\ \A f \in FileIds :
              counts'[f] = IF f \in some /\ counts[f] = 0 THEN None ELSE counts[f]
        /\ UNCHANGED <<isList, made, bucket, uses, late, risked>>
    BY <1>1 DEF DeleteFiles, TypesRight
  <1>3. TypesRight' /\ OfMade'
    BY <1>1, <1>2 DEF FileInv, OfMade, TypesRight
  <1>4. ASSUME ~risked', NEW f \in FileIds
        PROVE  FileRight(f)'
    <2>1. ~risked /\ UNCHANGED <<Users(f), Goes(f), Stored(f)>>
      BY <1>2, <1>4 DEF Users, Exists, Goes, Stored
    <2>2. /\ FileRight(f)
          /\ Cardinality(Users(f)) \in Nat /\ Cardinality(Owed(late, f)) \in Nat
      BY <2>1, FileFacts
    <2>3. CASE f \in some /\ counts[f] = 0
      <3>1. counts[f] # None
        BY <2>3, NoneAssumption
      <3>2. Cardinality(Users(f)) = 0
        BY <2>2, <2>3, <3>1 DEF FileRight
      <3>3. Users(f) = {}
        BY <2>2, <3>2, UsersCounted DEF FileRight
      <3> QED BY <1>2, <2>1, <2>2, <2>3, <3>3 DEF FileRight
    <2>4. CASE ~(f \in some /\ counts[f] = 0)
      BY <1>2, <2>1, <2>2, <2>4 DEF FileRight
    <2> QED BY <2>3, <2>4
  <1> QED BY <1>2, <1>3, <1>4 DEF FileInv

LEMMA DeleteFileRight ==
  ASSUME FileInv, NEW g \in FileIds, DeleteFile(g)
  PROVE  FileInv'
  BY DEF DeleteFile, FileInv, TypesRight, OfMade

(* Work that is done. *)
LEMMA StoreRight ==
  ASSUME FileInv, NEW i \in DOMAIN late, Store(i)
  PROVE  FileInv'
  <1>1. TypesRight
    BY DEF FileInv
  <1>2. late \in Seq(Job) /\ late[i] \in Job /\ late[i] \in Range(late)
    BY <1>1 DEF TypesRight, Range
  <1>3. /\ late[i].do = "store" /\ late[i].file \in FileIds
        /\ bucket' = bucket \cup {late[i].file} /\ late' = RemoveAt(late, i)
        /\ UNCHANGED <<isList, made, counts, uses, risked>>
    BY <1>2 DEF Store, Done, Job
  <1>4. /\ late' \in Seq(Job) /\ Range(late') \subseteq Range(late)
        /\ Range(late) \subseteq Range(late') \cup {late[i]}
    BY <1>2, <1>3, WorkDone
  <1>5. TypesRight' /\ OfMade'
    BY <1>1, <1>3, <1>4 DEF FileInv, TypesRight, OfMade
  <1>6. ASSUME ~risked', NEW f \in FileIds
        PROVE  FileRight(f)'
    <2>1. ~risked /\ UNCHANGED <<counts[f], Users(f)>>
      BY <1>3, <1>6 DEF Users, Exists
    <2>2. Goes(f)' => Goes(f)
      BY <1>4 DEF Goes
    <2>3. Stored(f) => Stored(f)'
      BY <1>3, <1>4 DEF Stored
    <2>4. Cardinality(Owed(late', f)) = Cardinality(Owed(late, f))
      <3>1. Cardinality(Owed(late', f)) = Cardinality(Owed(late, f)) - 0
        BY <1>2, <1>3, WorkDone
      <3> QED BY <2>1, <3>1, FileFacts
    <2> QED BY <2>1, <2>2, <2>3, <2>4, FileUntouched
  <1> QED BY <1>5, <1>6 DEF FileInv

LEMMA DecreaseRight ==
  ASSUME FileInv, NEW i \in DOMAIN late, Decrease(i)
  PROVE  FileInv'
  <1> DEFINE g == late[i].file
  <1>1. TypesRight
    BY DEF FileInv
  <1>2. late \in Seq(Job) /\ late[i] \in Job /\ late[i] \in Range(late)
    BY <1>1 DEF TypesRight, Range
  <1>3. /\ late[i].do = "decrease" /\ g \in FileIds
        /\ counts' = [counts EXCEPT ![g] = IF counts[g] = None THEN None ELSE counts[g] - 1]
        /\ late' = RemoveAt(late, i)
        /\ UNCHANGED <<isList, made, bucket, uses, risked>>
    BY <1>2 DEF Decrease, Done, Job
  <1>4. /\ late' \in Seq(Job) /\ Range(late') \subseteq Range(late)
        /\ Range(late) \subseteq Range(late') \cup {late[i]}
    BY <1>2, <1>3, WorkDone
  <1>5. /\ counts' \in [FileIds -> Int \cup {None}]
        /\ \A f \in FileIds : counts'[f] = None <=> counts[f] = None
        /\ \A f \in FileIds : counts[f] # None =>
              counts[f] \in Int /\ counts'[f] = IF f = g THEN counts[f] - 1 ELSE counts[f]
    <2> HIDE DEF g
    <2> QED BY <1>1, <1>3, NoneAssumption DEF TypesRight
  <1>6. TypesRight' /\ OfMade'
    BY <1>1, <1>3, <1>4, <1>5 DEF FileInv, TypesRight, OfMade
  <1>7. ASSUME ~risked', NEW f \in FileIds
        PROVE  FileRight(f)'
    <2>1. ~risked /\ UNCHANGED Users(f)
      BY <1>3, <1>7 DEF Users, Exists
    <2>2. /\ FileRight(f)
          /\ Cardinality(Users(f)) \in Nat /\ Cardinality(Owed(late, f)) \in Nat
      BY <2>1, FileFacts
    <2>3. Goes(f)' => Goes(f)
      BY <1>4 DEF Goes
    <2>4. Stored(f) => Stored(f)'
      BY <1>3, <1>4 DEF Stored
    <2>5. Cardinality(Owed(late', f)) = Cardinality(Owed(late, f)) - IF f = g THEN 1 ELSE 0
      BY <1>2, <1>3, WorkDone
    <2>6. ASSUME counts'[f] # None
          PROVE  counts'[f] >= Cardinality(Users(f)') + Cardinality(Owed(late', f))
      <3>1. /\ counts[f] # None /\ counts[f] \in Int
            /\ counts[f] >= Cardinality(Users(f)) + Cardinality(Owed(late, f))
            /\ counts'[f] = IF f = g THEN counts[f] - 1 ELSE counts[f]
        BY <1>5, <2>2, <2>6 DEF FileRight
      <3> QED BY <2>1, <2>2, <2>5, <3>1
    <2> QED BY <1>5, <2>1, <2>2, <2>3, <2>4, <2>6 DEF FileRight
  <1> QED BY <1>6, <1>7 DEF FileInv

LEMMA LookRight ==
  ASSUME FileInv, NEW i \in DOMAIN late, Look(i)
  PROVE  FileInv'
  <1> DEFINE g == late[i].file
             work == [do |-> "remove", file |-> g]
  <1>1. TypesRight
    BY DEF FileInv
  <1>2. late \in Seq(Job) /\ late[i] \in Job /\ late[i] \in Range(late) /\ g \in FileIds
    <2>1. late \in Seq(Job) /\ late[i] \in Job /\ late[i] \in Range(late)
      BY <1>1 DEF TypesRight, Range
    <2> QED BY <2>1 DEF Job
  <1>3. /\ late[i].do = "look" /\ UNCHANGED <<isList, made, counts, bucket, uses, risked>>
        /\ g \in made /\ work.file = g
    BY <1>2 DEF Look, FileInv, OfMade
  <1>4. CASE counts[g] = None \/ counts[g] > 1
    <2>1. late' = RemoveAt(late, i)
      BY <1>4 DEF Look, Done
    <2>2. /\ late' \in Seq(Job) /\ Range(late') \subseteq Range(late)
          /\ Range(late) \subseteq Range(late') \cup {late[i]}
      BY <1>2, <2>1, WorkDone
    <2>3. TypesRight' /\ OfMade'
      BY <1>1, <1>3, <2>2 DEF FileInv, TypesRight, OfMade
    <2>4. ASSUME ~risked', NEW f \in FileIds
          PROVE  FileRight(f)'
      <3>1. ~risked /\ UNCHANGED <<counts[f], Users(f)>>
        BY <1>3, <2>4 DEF Users, Exists
      <3>2. /\ FileRight(f) /\ (counts[f] # None => counts[f] \in Int)
            /\ Cardinality(Users(f)) \in Nat /\ Cardinality(Owed(late, f)) \in Nat
        BY <3>1, FileFacts
      <3>3. Goes(f)' => Goes(f)
        BY <2>2 DEF Goes
      <3>4. Stored(f) => Stored(f)'
        BY <1>3, <2>2 DEF Stored
      <3>5. Cardinality(Owed(late', f)) = Cardinality(Owed(late, f)) - IF f = g THEN 1 ELSE 0
        BY <1>2, <1>3, <2>1, WorkDone
      <3>6. counts[f] # None => counts[f] >= Cardinality(Users(f)') + Cardinality(Owed(late', f))
        BY <3>1, <3>2, <3>5 DEF FileRight
      <3> QED BY <3>1, <3>2, <3>3, <3>4, <3>6 DEF FileRight
    <2> QED BY <2>3, <2>4 DEF FileInv
  <1>5. CASE ~(counts[g] = None \/ counts[g] > 1)
    <2>1. late' = [late EXCEPT ![i].do = "remove"]
      BY <1>5 DEF Look
    <2>2. /\ late' \in Seq(Job) /\ Range(late') \subseteq Range(late) \cup {work}
          /\ \A w \in Range(late) : w.do = "store" => w \in Range(late')
          /\ \A f : Owed(late', f) = Owed(late, f)
      <3>1. work \in Job /\ [late[i] EXCEPT !.do = "remove"] = work
        BY <1>2 DEF Job
      <3>2. late' = [late EXCEPT ![i] = work]
        BY <2>1, <3>1
      <3>3. late' \in Seq(Job) /\ DOMAIN late' = DOMAIN late /\ late'[i] = work
            /\ \A j \in DOMAIN late \ {i} : late'[j] = late[j]
        <4> HIDE DEF work
        <4> QED BY <1>2, <3>1, <3>2
      <3> QED BY <1>2, <1>3, <3>3, WorkTurned
    <2>3. TypesRight' /\ OfMade'
      <3> HIDE DEF work, g
      <3> QED BY <1>1, <1>3, <2>2 DEF FileInv, TypesRight, OfMade
    <2>4. ASSUME ~risked', NEW f \in FileIds
          PROVE  FileRight(f)'
      <3>1. ~risked /\ UNCHANGED <<counts[f], Users(f)>> /\ Owed(late', f) = Owed(late, f)
        BY <1>3, <2>2, <2>4 DEF Users, Exists
      <3>2. /\ FileRight(f) /\ (counts[f] # None => counts[f] \in Int)
            /\ Cardinality(Users(f)) \in Nat /\ Cardinality(Owed(late, f)) \in Nat
        BY <3>1, FileFacts
      <3>3. Goes(f)' => Goes(f) \/ f = g
        BY <2>2 DEF Goes
      <3>4. Stored(f) => Stored(f)'
        BY <1>3, <2>2 DEF Stored
      <3>5. ASSUME f = g
            PROVE  Users(f) = {}
        <4>1. i \in Owed(late, f) /\ IsFiniteSet(Owed(late, f))
          BY <1>2, <1>3, <3>5, OwedFinite DEF Owed
        <4>2. Cardinality(Owed(late, f)) # 0
          BY <4>1, FS_EmptySet
        <4>3. counts[f] \in Int /\ ~(counts[f] > 1)
              /\ counts[f] >= Cardinality(Users(f)) + Cardinality(Owed(late, f))
          BY <1>5, <3>2, <3>5 DEF FileRight
        <4>4. Cardinality(Users(f)) = 0
          BY <3>2, <4>2, <4>3
        <4> QED BY <3>2, <4>4, UsersCounted DEF FileRight
      <3>6. Goes(f)' => Users(f)' = {}
        BY <3>1, <3>2, <3>3, <3>5 DEF FileRight
      <3> QED BY <3>1, <3>2, <3>4, <3>6 DEF FileRight
    <2> QED BY <2>3, <2>4 DEF FileInv
  <1> QED BY <1>4, <1>5

LEMMA EraseRight ==
  ASSUME FileInv, NEW i \in DOMAIN late, Erase(i)
  PROVE  FileInv'
  <1> DEFINE g == late[i].file
  <1>1. TypesRight
    BY DEF FileInv
  <1>2. late \in Seq(Job) /\ late[i] \in Job /\ late[i] \in Range(late)
    BY <1>1 DEF TypesRight, Range
  <1>3. /\ late[i].do = "remove" /\ g \in FileIds
        /\ counts' = [counts EXCEPT ![g] = None] /\ bucket' = bucket \ {g}
        /\ late' = RemoveAt(late, i)
        /\ UNCHANGED <<isList, made, uses, risked>>
    BY <1>2 DEF Erase, Done, Job
  <1>4. /\ late' \in Seq(Job) /\ Range(late') \subseteq Range(late)
        /\ Range(late) \subseteq Range(late') \cup {late[i]}
    BY <1>2, <1>3, WorkDone
  <1>5. TypesRight' /\ OfMade'
    <2> HIDE DEF g
    <2> QED BY <1>1, <1>3, <1>4 DEF FileInv, TypesRight, OfMade
  <1>6. ASSUME ~risked', NEW f \in FileIds
        PROVE  FileRight(f)'
    <2>1. ~risked /\ UNCHANGED Users(f)
      BY <1>3, <1>6 DEF Users, Exists
    <2>2. Goes(f)' => Goes(f)
      BY <1>4 DEF Goes
    <2>3. CASE f = g
      <3>1. Goes(f)
        <4>1. late[i] = [do |-> "remove", file |-> f]
          BY <1>2, <1>3, <2>3 DEF Job
        <4> QED BY <1>2, <4>1 DEF Goes
      <3>2. Users(f) = {} /\ IsFiniteSet(Users(f))
        BY <2>1, <3>1, FileFacts DEF FileRight
      <3>3. counts'[f] = None
        BY <1>1, <1>3, <2>3 DEF TypesRight
      <3> QED BY <2>1, <3>2, <3>3 DEF FileRight
    <2>4. CASE f # g
      <3>1. UNCHANGED counts[f]
        BY <1>1, <1>3, <2>4 DEF TypesRight
      <3>2. Stored(f) => Stored(f)'
        BY <1>3, <1>4, <2>4 DEF Stored
      <3>3. Cardinality(Owed(late', f)) = Cardinality(Owed(late, f))
        <4>1. Cardinality(Owed(late', f)) = Cardinality(Owed(late, f)) - 0
          BY <1>2, <1>3, <2>4, WorkDone
        <4> QED BY <2>1, <4>1, FileFacts
      <3> QED BY <2>1, <2>2, <3>1, <3>2, <3>3, FileUntouched
    <2> QED BY <2>3, <2>4
  <1> QED BY <1>5, <1>6 DEF FileInv

-----------------------------------------------------------------------------
LEMMA FileInvHolds == FileSpec => []FileInv
  <1>1. FileInv /\ [FileNext]_fileVars => FileInv'
    <2> SUFFICES ASSUME FileInv, [FileNext]_fileVars
                 PROVE  FileInv'
      OBVIOUS
    <2>1. ASSUME NEW r \in Records, NEW f \in FileIds, Upload(r, f) \/ Link(r, f) \/ Unlink(r, f)
          PROVE  FileInv'
      BY <2>1, UploadRight, LinkRight, UnlinkRight
    <2>2. ASSUME NEW r \in Records, DeleteRecord(r) \/ Disconnect(r)
          PROVE  FileInv'
      BY <2>2, DeleteRecordRight, DisconnectRight
    <2>3. ASSUME NEW f \in FileIds, UploadAlone(f) \/ DeleteFile(f)
          PROVE  FileInv'
      BY <2>3, UploadAloneRight, DeleteFileRight
    <2>4. ASSUME NEW some \in SUBSET FileIds, DeleteFiles(some)
          PROVE  FileInv'
      BY <2>4, DeleteFilesRight
    <2>5. ASSUME NEW i \in DOMAIN late, Store(i) \/ Decrease(i) \/ Look(i) \/ Erase(i)
          PROVE  FileInv'
      BY <2>5, StoreRight, DecreaseRight, LookRight, EraseRight
    <2>6. CASE UNCHANGED fileVars
      <3>1. TypesRight' /\ OfMade'
        BY <2>6 DEF fileVars, FileInv, TypesRight, OfMade
      <3>2. \A f \in FileIds : FileRight(f)' <=> FileRight(f)
        BY <2>6 DEF fileVars, FileRight, Users, Exists, Goes, Stored
      <3> QED BY <2>6, <3>1, <3>2 DEF fileVars, FileInv
    <2> QED BY <2>1, <2>2, <2>3, <2>4, <2>5, <2>6 DEF FileNext
  <1> QED BY <1>1, InitRight, PTL DEF FileSpec

(* Whatever is uploaded, connected, disconnected and deleted, and whenever  *)
(* the work that mutations do not wait for is done: a file that some record *)
(* refers to exists, is counted at least as often as it is referred to, and *)
(* is in the bucket once that work is done - as long as no file is deleted  *)
(* by its id or used while it is being removed.                             *)
THEOREM UsedFilesStay == FileSpec => []FilesInUseStay
  <1>1. FileInv => FilesInUseStay
    <2> SUFFICES ASSUME FileInv, ~risked, NEW f \in FileIds, Users(f) # {}
                 PROVE  /\ counts[f] # None
                        /\ counts[f] >= Cardinality(Users(f))
                        /\ late = <<>> => f \in bucket
      BY DEF FilesInUseStay
    <2>1. /\ FileRight(f) /\ (counts[f] # None => counts[f] \in Int)
          /\ Cardinality(Users(f)) \in Nat /\ Cardinality(Owed(late, f)) \in Nat
      BY FileFacts
    <2>2. counts[f] # None
      BY <2>1 DEF FileRight
    <2>3. counts[f] >= Cardinality(Users(f))
      BY <2>1, <2>2 DEF FileRight
    <2>4. late = <<>> => f \in bucket
      BY <2>1, <2>2 DEF FileRight, Stored, Range
    <2> QED BY <2>2, <2>3, <2>4
  <1> QED BY <1>1, FileInvHolds, PTL

-----------------------------------------------------------------------------
(* StudioData.                                                             *)

Name == {"key", "cuid"} \X Nat
Row == [key : Nat, id : Name]

(* Keys are given once and ids are unique.                                  *)
RowsRight ==
    /\ given \in Nat /\ rows \in SUBSET Row /\ IsFiniteSet(rows)
    /\ \A r \in rows : r.key <= given
    /\ \A r, s \in rows : r.key = s.key \/ r.id = s.id => r = s

Names(r) == {Key(r.key), r.id}

(* What was shown is still there, under one of its two names.               *)
ShownRight == \A s \in shown : \E r \in rows : r.key = s.key /\ s.name \in Names(r)

JobRight == exported \in SUBSET Name /\ IsFiniteSet(exported) /\ job \in Seq(Name)

(* Who has the name of the last update or deletion is the row it was about. *)
HitRight == hit.aliased \/ \A r \in rows : hit.name \in Names(r) => r.key = hit.key

StudioInv == RowsRight /\ ShownRight /\ JobRight /\ HitRight

-----------------------------------------------------------------------------
(* The operators. *)

LEMMA KeyNames == \A n \in Nat : Key(n) \in Name /\ Cuid(n) \in Name
  BY DEF Key, Cuid, Name

LEMMA KeyIsOne == \A m, n : Key(m) = Key(n) => m = n
  BY DEF Key

LEMMA NoName == None \notin Name
  BY RowsAssumption DEF Name

(* The order in which a job works through a finite set.                     *)
LEMMA ListOf ==
  ASSUME NEW S, IsFiniteSet(S)
  PROVE  SetToSeq(S) \in Seq(S)
  <1> DEFINE n == Cardinality(S)
  <1>1. n \in Nat /\ ExistsBijection(1 .. n, S)
    BY FS_CardinalityType
  <1>2. PICK f : f \in Bijection(1 .. n, S)
    BY <1>1 DEF ExistsBijection
  <1>3. f \in [1 .. n -> S] /\ IsInjective(f)
    BY <1>2 DEF Bijection, Injection, IsInjective
  <1>4. SetToSeq(S) \in [1 .. n -> S]
    BY <1>3 DEF SetToSeq
  <1> HIDE DEF n
  <1> QED BY <1>1, <1>4

(* Only rows that are there are shown.                                      *)
LEMMA ShowRight ==
  ASSUME StudioInv, NEW pairs, Show(pairs), rows' = rows,
         \A s \in pairs : \E r \in rows : r.key = s.key /\ s.name \in Names(r)
  PROVE  ShownRight'
  BY DEF StudioInv, ShownRight, Show, Names

(* With the rows goes what was shown of them.                               *)
LEMMA ForgetRight ==
  ASSUME StudioInv, NEW gone \in SUBSET rows, rows' = rows \ gone, Forget(gone)
  PROVE  ShownRight'
  <1> SUFFICES ASSUME NEW s \in shown'
               PROVE  \E r \in rows' : r.key = s.key /\ s.name \in Names(r)
    BY DEF ShownRight, Names
  <1>1. s \in shown /\ \A r \in gone : s.key # r.key
    BY DEF Forget
  <1>2. PICK r \in rows : r.key = s.key /\ s.name \in Names(r)
    BY <1>1 DEF StudioInv, ShownRight
  <1> QED BY <1>1, <1>2

(* Rows that go leave the rest as it was.                                   *)
LEMMA FewerRows ==
  ASSUME StudioInv, rows' \in SUBSET rows, given' = given
  PROVE  RowsRight' /\ (hit' = hit => HitRight')
  <1>1. RowsRight'
    <2>1. IsFiniteSet(rows')
      BY FS_Subset DEF StudioInv, RowsRight
    <2> QED BY <2>1 DEF StudioInv, RowsRight
  <1> QED BY <1>1 DEF StudioInv, HitRight, Names

(* A row that is found by a name is the only one with it, unless some id is *)
(* a key.                                                                   *)
LEMMA FoundByName ==
  ASSUME StudioInv, NEW name, NEW r \in Targets(name)
  PROVE  Aliased \/ \A s \in rows : name \in Names(s) => s.key = r.key
  <1> SUFFICES ASSUME ~Aliased, NEW s \in rows, name \in Names(s)
               PROVE  s.key = r.key
    OBVIOUS
  <1>1. r \in rows /\ name \in Names(r)
    BY DEF Targets, Names
  <1>2. r.id # Key(s.key) /\ s.id # Key(r.key)
    BY <1>1 DEF Aliased
  <1>3. Key(r.key) = Key(s.key) \/ r.id = s.id
    BY <1>1, <1>2 DEF Names
  <1> QED BY <1>1, <1>3, KeyIsOne DEF StudioInv, RowsRight

-----------------------------------------------------------------------------
(* The actions. *)

LEMMA CreatedRight ==
  ASSUME StudioInv, NEW id \in Name, Created(id)
  PROVE  RowsRight' /\ ShownRight' /\ HitRight'
  <1>1. /\ \A r \in rows : r.id # id
        /\ given' = given + 1 /\ given \in Nat
        /\ rows' = rows \cup {[key |-> given', id |-> id]}
        /\ shown' = shown \cup {[name |-> id, key |-> given']}
        /\ hit' = Untouched
    BY DEF Created, Show, StudioInv, RowsRight
  <1> DEFINE row == [key |-> given', id |-> id]
  <1>2. row \in Row /\ row.key = given' /\ row.id = id
    BY <1>1 DEF Row
  <1>3. rows' = rows \cup {row}
    BY <1>1
  <1> HIDE DEF row
  <1>4. RowsRight'
    <2>1. IsFiniteSet(rows')
      BY <1>3, FS_AddElement DEF StudioInv, RowsRight
    <2>2. \A r \in rows : r.key <= given /\ r.key \in Nat
      BY DEF StudioInv, RowsRight, Row
    <2>3. \A r \in rows' : r.key <= given'
      BY <1>1, <1>2, <1>3, <2>2
    <2>4. \A r \in rows : r.key # row.key /\ r.id # row.id
      BY <1>1, <1>2, <2>2
    <2>5. \A r, s \in rows' : r.key = s.key \/ r.id = s.id => r = s
      BY <1>3, <2>4 DEF StudioInv, RowsRight
    <2> QED BY <1>1, <1>2, <1>3, <2>1, <2>3, <2>5 DEF StudioInv, RowsRight
  <1>5. ShownRight'
    <2>1. id \in Names(row)
      BY <1>2 DEF Names
    <2> QED BY <1>1, <1>2, <1>3, <2>1 DEF StudioInv, ShownRight, Names
  <1>6. HitRight'
    <2>1. hit'.name = None
      BY <1>1 DEF Untouched
    <2>2. \A r \in rows' : None \notin Names(r)
      BY <1>4, NoName, KeyNames DEF RowsRight, Row, Names
    <2> QED BY <2>1, <2>2 DEF HitRight, Names
  <1> QED BY <1>4, <1>5, <1>6

LEMMA ListRight == StudioInv /\ List => StudioInv'
  <1> SUFFICES ASSUME StudioInv, List
               PROVE  StudioInv'
    OBVIOUS
  <1>1. PICK page \in Pages : Show({[name |-> Key(r.key), key |-> r.key] : r \in page})
    BY DEF List
  <1>2. page \subseteq rows /\ UNCHANGED <<rows, given, exported, job, hit>>
    BY DEF Pages, List
  <1>3. \A s \in {[name |-> Key(r.key), key |-> r.key] : r \in page} :
           \E r \in rows : r.key = s.key /\ s.name \in Names(r)
    BY <1>2 DEF Names
  <1>4. ShownRight'
    BY <1>1, <1>2, <1>3, ShowRight
  <1> QED BY <1>2, <1>4 DEF StudioInv, RowsRight, JobRight, HitRight, Names

LEMMA GetRight ==
  ASSUME StudioInv, NEW name, Get(name)
  PROVE  StudioInv'
  <1>1. PICK r \in Targets(name) : Show({[name |-> r.id, key |-> r.key]})
    BY DEF Get
  <1>2. r \in rows /\ UNCHANGED <<rows, given, exported, job, hit>>
    BY DEF Targets, Get
  <1>3. \A s \in {[name |-> r.id, key |-> r.key]} :
           \E t \in rows : t.key = s.key /\ s.name \in Names(t)
    BY <1>2 DEF Names
  <1>4. ShownRight'
    BY <1>1, <1>2, <1>3, ShowRight
  <1> QED BY <1>2, <1>4 DEF StudioInv, RowsRight, JobRight, HitRight, Names

LEMMA UpdateRight ==
  ASSUME StudioInv, NEW name, Update(name)
  PROVE  StudioInv'
  <1>1. PICK r \in Targets(name) : Noted(name, r)
    BY DEF Update
  <1>2. UNCHANGED <<rows, given, shown, exported, job>>
    BY DEF Update
  <1>3. hit'.name = name /\ hit'.key = r.key /\ hit'.aliased = Aliased
    BY <1>1 DEF Noted
  <1>4. HitRight'
    BY <1>2, <1>3, FoundByName DEF HitRight, Names
  <1> QED BY <1>2, <1>4 DEF StudioInv, RowsRight, ShownRight, JobRight, Names

LEMMA DeleteRight ==
  ASSUME StudioInv, NEW name, Delete(name)
  PROVE  StudioInv'
  <1>1. PICK r \in Targets(name) : Noted(name, r) /\ rows' = rows \ {r} /\ Forget({r})
    BY DEF Delete
  <1>2. r \in rows /\ UNCHANGED <<given, exported, job>>
    BY DEF Delete, Targets
  <1>3. hit'.name = name /\ hit'.key = r.key /\ hit'.aliased = Aliased
    BY <1>1 DEF Noted
  <1>4. HitRight'
    BY <1>1, <1>3, FoundByName DEF HitRight, Names
  <1>5. ShownRight'
    BY <1>1, <1>2, ForgetRight
  <1>6. RowsRight'
    BY <1>1, <1>2, FewerRows
  <1> QED BY <1>2, <1>4, <1>5, <1>6 DEF StudioInv, JobRight

LEMMA GoneRight ==
  ASSUME StudioInv, NEW gone \in SUBSET rows, rows' = rows \ gone, Forget(gone),
         UNCHANGED <<given, exported, job, hit>>
  PROVE  StudioInv'
  <1>1. ShownRight'
    BY ForgetRight
  <1>2. RowsRight' /\ HitRight'
    BY FewerRows
  <1> QED BY <1>1, <1>2 DEF StudioInv, JobRight

LEMMA ExportRight == StudioInv /\ Export => StudioInv'
  <1> SUFFICES ASSUME StudioInv, Export
               PROVE  StudioInv'
    OBVIOUS
  <1>1. PICK page \in Pages : exported' = {Key(r.key) : r \in page}
    BY DEF Export
  <1>2. page \subseteq rows /\ UNCHANGED <<rows, given, shown, job, hit>>
    BY DEF Pages, Export
  <1>3. IsFiniteSet(page)
    BY <1>2, FS_Subset DEF StudioInv, RowsRight
  <1>4. IsFiniteSet(exported')
    <2> DEFINE f == [r \in page |-> Key(r.key)]
    <2>1. f \in Surjection(page, exported')
      BY <1>1 DEF Surjection
    <2> HIDE DEF f
    <2> QED BY <1>3, <2>1, FS_Surjection
  <1>5. exported' \in SUBSET Name
    BY <1>1, <1>2, KeyNames DEF StudioInv, RowsRight, Row
  <1> QED BY <1>2, <1>4, <1>5 DEF StudioInv, RowsRight, ShownRight, JobRight, HitRight, Names

(* A job is a list of names.                                                *)
LEMMA JobStarts ==
  ASSUME StudioInv, NEW ids \in SUBSET Name, IsFiniteSet(ids), job' = SetToSeq(ids),
         UNCHANGED <<rows, given, shown, exported, hit>>
  PROVE  StudioInv'
  <1>1. job' \in Seq(Name)
    <2>1. job' \in Seq(ids)
      BY ListOf
    <2> QED BY <2>1
  <1> QED BY <1>1 DEF StudioInv, RowsRight, ShownRight, JobRight, HitRight, Names

LEMMA SeedRight == StudioInv /\ Seed => StudioInv'
  <1> SUFFICES ASSUME StudioInv, Seed
               PROVE  StudioInv'
    OBVIOUS
  <1>1. PICK ids \in SUBSET Cuids : job' = SetToSeq(ids)
    BY DEF Seed
  <1>2. Cuids \in SUBSET Name
    BY KeyNames, RowsAssumption DEF Cuids
  <1>3. IsFiniteSet(Cuids)
    <2> DEFINE f == [n \in 1 .. MaxRows |-> Cuid(n)]
    <2>1. f \in Surjection(1 .. MaxRows, Cuids)
      BY DEF Surjection, Cuids
    <2>2. IsFiniteSet(1 .. MaxRows)
      BY RowsAssumption, FS_Interval
    <2> HIDE DEF f
    <2> QED BY <2>1, <2>2, FS_Surjection
  <1>4. IsFiniteSet(ids)
    BY <1>3, FS_Subset
  <1>5. UNCHANGED <<rows, given, shown, exported, hit>>
    BY DEF Seed
  <1> QED BY <1>1, <1>2, <1>4, <1>5, JobStarts

LEMMA StepRight == StudioInv /\ Step => StudioInv'
  <1> SUFFICES ASSUME StudioInv, Step
               PROVE  StudioInv'
    OBVIOUS
  <1>1. job \in Seq(Name) /\ job # <<>> /\ job' = Tail(job) /\ UNCHANGED exported
    BY DEF Step, StudioInv, JobRight
  <1>2. Head(job) \in Name /\ job' \in Seq(Name)
    BY <1>1
  <1>3. JobRight'
    BY <1>1, <1>2 DEF StudioInv, JobRight
  <1>4. CASE Created(Head(job))
    BY <1>2, <1>3, <1>4, CreatedRight DEF StudioInv
  <1>5. CASE UNCHANGED <<rows, given, shown, hit>>
    BY <1>3, <1>5 DEF StudioInv, RowsRight, ShownRight, HitRight, Names
  <1> QED BY <1>4, <1>5 DEF Step

-----------------------------------------------------------------------------
LEMMA StudioInvHolds == StudioSpec => []StudioInv
  <1>1. StudioInit => StudioInv
    <2> SUFFICES ASSUME StudioInit
                 PROVE  StudioInv
      OBVIOUS
    <2>1. rows = {} /\ given = 0 /\ shown = {} /\ exported = {} /\ job = <<>>
      BY DEF StudioInit
    <2>2. IsFiniteSet({}) /\ <<>> \in Seq(Name)
      BY FS_EmptySet
    <2> QED BY <2>1, <2>2 DEF StudioInv, RowsRight, ShownRight, JobRight, HitRight
  <1>2. StudioInv /\ [StudioNext]_studioVars => StudioInv'
    <2> SUFFICES ASSUME StudioInv, [StudioNext]_studioVars
                 PROVE  StudioInv'
      OBVIOUS
    <2>1. CASE List BY <2>1, ListRight
    <2>2. CASE Purge
      BY <2>2, GoneRight DEF Purge
    <2>3. CASE Export BY <2>3, ExportRight
    <2>4. CASE Import
      BY <2>4, JobStarts DEF Import, StudioInv, JobRight
    <2>5. CASE Seed BY <2>5, SeedRight
    <2>6. CASE Step BY <2>6, StepRight
    <2>7. ASSUME NEW id \in Cuids, Create(id) PROVE StudioInv'
      <3>1. id \in Name
        BY KeyNames, RowsAssumption DEF Cuids
      <3> QED BY <2>7, <3>1, CreatedRight DEF Create, StudioInv, JobRight
    <2>8. ASSUME NEW name, Get(name) PROVE StudioInv'
      BY <2>8, GetRight
    <2>9. ASSUME NEW name, Update(name) PROVE StudioInv'
      BY <2>9, UpdateRight
    <2>10. ASSUME NEW name, Delete(name) PROVE StudioInv'
      BY <2>10, DeleteRight
    <2>11. ASSUME NEW names, BatchDelete(names) PROVE StudioInv'
      <3> DEFINE gone == {r \in rows : Key(r.key) \in names}
      <3>1. gone \in SUBSET rows /\ rows' = rows \ gone /\ Forget(gone)
            /\ UNCHANGED <<given, exported, job, hit>>
        BY <2>11 DEF BatchDelete
      <3> HIDE DEF gone
      <3> QED BY <3>1, GoneRight
    <2>12. CASE UNCHANGED studioVars
      BY <2>12 DEF studioVars, StudioInv, RowsRight, ShownRight, JobRight, HitRight, Names
    <2> QED BY <2>1, <2>2, <2>3, <2>4, <2>5, <2>6, <2>7, <2>8, <2>9, <2>10, <2>11, <2>12
            DEF StudioNext
  <1> QED BY <1>1, <1>2, PTL DEF StudioSpec

(* Whatever name a client was shown for a row, an update or deletion by that*)
(* name changes that row and no other, whatever other clients did meanwhile *)
(* - unless some row's id is the key of another (modelAdapter.js:266-285).  *)
THEOREM NamesReachTheirRow == StudioSpec => []TouchesWhatWasShown
  <1>1. StudioInv => TouchesWhatWasShown
    <2> SUFFICES ASSUME StudioInv, ~hit.aliased, NEW s \in shown, s.name = hit.name
                 PROVE  s.key = hit.key
      BY DEF TouchesWhatWasShown
    <2>1. PICK r \in rows : r.key = s.key /\ s.name \in Names(r)
      BY DEF StudioInv, ShownRight
    <2> QED BY <2>1 DEF StudioInv, HitRight
  <1> QED BY <1>1, StudioInvHolds, PTL
=============================================================================
