---------------------------- MODULE SamplesProofs ----------------------------
(***************************************************************************)
(* Theorems about PlainSamples, for every input of the kinds that each     *)
(* section names (Any...), and not only those of a run; and that what a    *)
(* run picks are some of these, so that its states have the properties.    *)
(***************************************************************************)
EXTENDS PlainSamples, FiniteSetTheorems, SequenceTheorems, WellFoundedInduction, TLAPS

(***************************************************************************)
(* Induction over numbers, with a set for the property, and the functions  *)
(* it defines.                                                             *)
(***************************************************************************)
LEMMA LeastOf ==
  ASSUME NEW T \in SUBSET Nat, T # {}
  PROVE  \E m \in T : \A n \in T : m <= n
  <1>1. \E m \in T : \A n \in T : ~(<<n, m>> \in OpToRel(<, Nat))
    BY NatLessThanWellFounded, WFMin
  <1>2. PICK m \in T : \A n \in T : ~(<<n, m>> \in OpToRel(<, Nat))
    BY <1>1
  <1>3. \A n \in T : ~(n < m)
    BY <1>2 DEF OpToRel
  <1> QED BY <1>3

LEMMA Induct ==
  ASSUME NEW S, 0 \in S, \A n \in Nat : n \in S => n + 1 \in S
  PROVE  Nat \subseteq S
  <1> DEFINE T == Nat \ S
  <1> SUFFICES ASSUME T # {} PROVE FALSE
    OBVIOUS
  <1>1. PICK m \in T : \A n \in T : m <= n
    BY LeastOf
  <1>2. m # 0 /\ m - 1 \in Nat /\ m - 1 \notin T
    BY <1>1
  <1> QED BY <1>1, <1>2

(* The same up to a number. *)
LEMMA InductUpto ==
  ASSUME NEW S, NEW N \in Nat, 0 \in S, \A n \in 1 .. N : n - 1 \in S => n \in S
  PROVE  0 .. N \subseteq S
  <1> DEFINE T == S \cup {n \in Nat : n > N}
  <1>1. \A n \in Nat : n \in T => n + 1 \in T
    <2> SUFFICES ASSUME NEW n \in Nat, n \in T, n + 1 <= N
                 PROVE  n + 1 \in S
      OBVIOUS
    <2>1. n + 1 \in 1 .. N /\ (n + 1) - 1 = n /\ n \in S
      OBVIOUS
    <2> QED BY <2>1
  <1>2. Nat \subseteq T
    <2>1. 0 \in T
      OBVIOUS
    <2> HIDE DEF T
    <2> QED BY <1>1, <2>1, Induct
  <1> QED BY <1>2

(* A function on 0 .. N is defined by its value at 0 and the step that      *)
(* leads from each value to the next.                                       *)
Follows(f, first, Step, N, V) ==
  /\ f \in [0 .. N -> V]
  /\ f[0] = first
  /\ \A n \in 1 .. N : f[n] = Step[<<n, f[n - 1]>>]

LEMMA Stepwise ==
  ASSUME NEW V, NEW first \in V, NEW N \in Nat, NEW Step \in [(1 .. N) \X V -> V]
  PROVE  \E f : Follows(f, first, Step, N, V)
  <1> DEFINE Good(n, f) == f[0] = first /\ \A i \in 1 .. n : f[i] = Step[<<i, f[i - 1]>>]
             S == {n \in 0 .. N : \E f \in [0 .. N -> V] : Good(n, f)}
  <1>1. 0 \in S
    <2> DEFINE f == [i \in 0 .. N |-> first]
    <2>1. f \in [0 .. N -> V] /\ f[0] = first /\ 1 .. 0 = {}
      OBVIOUS
    <2> HIDE DEF f
    <2> QED BY <2>1
  <1>2. ASSUME NEW n \in 1 .. N, n - 1 \in S
        PROVE  n \in S
    <2>1. PICK f \in [0 .. N -> V] : Good(n - 1, f)
      BY <1>2
    <2>2. n - 1 \in 0 .. N /\ n \in 0 .. N
      OBVIOUS
    <2> DEFINE v == Step[<<n, f[n - 1]>>]
               g == [f EXCEPT ![n] = v]
    <2>3. v \in V
      BY <2>2
    <2>4. g \in [0 .. N -> V] /\ g[n] = v /\ \A i \in 0 .. N : i # n => g[i] = f[i]
      BY <2>2, <2>3
    <2>5. n # 0 /\ n - 1 # n /\ \A i \in 1 .. n - 1 : /\ i \in 0 .. N /\ i # n
                                                      /\ i - 1 \in 0 .. N /\ i - 1 # n
      OBVIOUS
    <2> HIDE DEF g
    <2>6. g[0] = first
      BY <2>1, <2>4, <2>5
    <2>7. ASSUME NEW i \in 1 .. n
          PROVE  g[i] = Step[<<i, g[i - 1]>>]
      <3>1. CASE i = n
        BY <2>2, <2>4, <2>5, <3>1
      <3>2. CASE i # n
        <4>1. i \in 1 .. n - 1
          BY <3>2
        <4> QED BY <2>1, <2>4, <2>5, <4>1
      <3> QED BY <3>1, <3>2
    <2> QED BY <2>2, <2>4, <2>6, <2>7
  <1>3. N \in S
    <2> HIDE DEF S
    <2> QED BY <1>1, <1>2, InductUpto
  <1> QED BY <1>3 DEF Follows

-----------------------------------------------------------------------------
(***************************************************************************)
(* Uploads: any number of files of any size, type and extension, for a     *)
(* record of any type that is not named like a MIME type, and any puts that *)
(* fail; the record's own files are not the one that stands for a foreign   *)
(* one.                                                                    *)
(***************************************************************************)
AnyFile(Word, Ext) ==
    [words : SUBSET Word, ext : Ext, megs : Nat, readable : BOOLEAN]

AreFiles(files) == \E Word, Ext : files \in Seq(AnyFile(Word, Ext))

Errors == UploadErrors \cup {None}

AnyField == {None} \cup [one : Nat \ {Foreign}] \cup [many : SUBSET (Nat \ {Foreign})]

UploadSample(files, type) ==
    \E found, user, bucket \in BOOLEAN, kind \in {"backend", "front", "other"},
       field \in AnyField, fileId \in {None} \cup Nat, failed \in SUBSET (DOMAIN files) :
        sample = [of |-> "upload", files |-> files, type |-> type, found |-> found,
                  field |-> field, fileId |-> fileId, user |-> user, kind |-> kind,
                  bucket |-> bucket, failed |-> failed]

AnyUpload ==
    \E files, type : AreFiles(files) /\ type \notin MimeTypes /\ UploadSample(files, type)

(* What the check of a file answers.                                        *)
LEMMA FileErrors ==
  ASSUME NEW Word, NEW Ext, NEW file \in AnyFile(Word, Ext), NEW type
  PROVE  /\ Up!FileError(file, type) \in Errors
         /\ Up!FileError(file, type) = None =>
               /\ file.megs <= 200
               /\ Up!KindOf(file.words) = "others" => type \in MimeTypes
  <1> DEFINE kind == Up!KindOf(file.words)
             size == Up!SizeFits(kind, file.megs, type)
             ext == Up!ExtensionFits(kind, file.ext, type)
  <1>1. file.megs \in Nat
    BY DEF AnyFile
  <1>2. size => file.megs <= 200
    BY <1>1, SMT DEF Up!SizeFits, Up!Limit, Up!Access
  <1>3. size /\ kind = "others" => type \in MimeTypes
    BY SMT DEF Up!SizeFits, Up!Access
  <1>4. \/ size /\ Up!FileError(file, type) = None
        \/ Up!FileError(file, type) \in UploadErrors
    BY SMT DEF Up!FileError, UploadErrors
  <1> HIDE DEF size, ext, kind
  <1>5. Up!FileError(file, type) \in Errors /\ (Up!FileError(file, type) = None => size)
    BY <1>4, NamesAssumption DEF Errors
  <1> QED BY <1>2, <1>3, <1>5 DEF kind

LEMMA AuthErrors ==
  ASSUME NEW kind \in {"backend", "front", "other"}, NEW user
  PROVE  LET app == [kind |-> kind, static |-> FALSE, valid |-> FALSE]
         IN /\ Up!AuthError(app, user) \in Errors
            /\ Up!AuthError(app, user) = None => user # None \/ kind = "backend"
  BY NamesAssumption DEF Up!AuthError, Errors, UploadErrors

LEMMA ForeignFiles ==
  ASSUME NEW found \in BOOLEAN, NEW field \in AnyField, NEW fileId \in {None} \cup Nat
  PROVE  LET action == Up!Action(found, field, fileId)
         IN /\ action \in {"add", "edit"} \cup UploadErrors
            /\ ~found \/ fileId = Foreign => action = "DatabaseRecordNotFoundError"
  <1> DEFINE isList == field # None /\ "many" \in DOMAIN field
             ids == IF field = None THEN {} ELSE IF isList THEN field.many ELSE {field.one}
             action == Up!Action(found, field, fileId)
  <1>1. Foreign \notin ids
    BY DEF AnyField
  <1>2. Foreign # None
    BY NamesAssumption DEF Foreign
  <1> HIDE DEF ids, isList
  <1>3. action = CASE ~found \/ (fileId # None /\ fileId \notin ids) -> "DatabaseRecordNotFoundError"
         [] found /\ fileId = None /\ isList /\ ids # {} -> "FileIdIsMandatoryError"
         [] found /\ fileId = None /\ ids = {} -> "add"
         [] OTHER -> "edit"
    BY Zenon DEF Up!Action, ids, isList
  <1>4. action \in {"add", "edit"} \cup UploadErrors
    BY <1>3 DEF UploadErrors
  <1>5. ~found \/ fileId = Foreign => action = "DatabaseRecordNotFoundError"
    BY <1>1, <1>2, <1>3
  <1> QED BY <1>4, <1>5

Outcomes(n) == [sent : SUBSET (1 .. n), error : Errors]

(* The files one by one: the outcome of each is that of the one before it,  *)
(* or what the check makes of the file.                                     *)
FileByFile(done, files, type, bucket, early, auth) ==
  /\ done \in [0 .. Len(files) -> Outcomes(Len(files))]
  /\ done[0] = [sent |-> {}, error |-> early]
  /\ \A i \in 1 .. Len(files) :
        done[i] = IF ~bucket \/ early # None THEN done[i - 1]
                  ELSE Up!CheckedAndSent(done[i - 1], i, files, type, auth)

LEMMA ProcessedByFile ==
  ASSUME NEW files, AreFiles(files), NEW type, NEW bucket \in BOOLEAN, NEW action,
         NEW auth \in Errors, NEW early \in Errors,
         early = IF Up!IsError(action) THEN action ELSE None
  PROVE  \E done : /\ FileByFile(done, files, type, bucket, early, auth)
                   /\ Up!Processed(files, type, bucket, action, auth) = done[Len(files)]
  <1> DEFINE N == Len(files)
             first == [sent |-> {}, error |-> early]
             After(d, i) == IF ~bucket \/ early # None THEN d
                            ELSE Up!CheckedAndSent(d, i, files, type, auth)
             Step == [p \in (1 .. N) \X Outcomes(N) |-> After(p[2], p[1])]
             Is(f) == f = [i \in 0 .. N |-> IF i = 0 THEN first ELSE After(f[i - 1], i)]
  <1>1. N \in Nat /\ first \in Outcomes(N)
    BY DEF Outcomes, Errors
  <1>2. ASSUME NEW i \in 1 .. N, NEW d \in Outcomes(N)
        PROVE  After(d, i) \in Outcomes(N)
    <2>1. PICK Word, Ext : files \in Seq(AnyFile(Word, Ext))
      BY DEF AreFiles
    <2> files[i] \in AnyFile(Word, Ext)
      BY <2>1
    <2>2. Up!FileError(files[i], type) \in Errors
      BY <2>1, FileErrors
    <2>3. Up!CheckedAndSent(d, i, files, type, auth) \in Outcomes(N)
      BY <1>1, <2>2 DEF Up!CheckedAndSent, Outcomes
    <2> QED BY <2>3
  <1>3. Step \in [(1 .. N) \X Outcomes(N) -> Outcomes(N)]
    BY <1>2
  <1> HIDE DEF After, N, first
  <1>4. \E f : Follows(f, first, Step, N, Outcomes(N))
    <2> HIDE DEF Step
    <2> QED BY <1>1, <1>3, Stepwise
  <1>12. PICK f : Follows(f, first, Step, N, Outcomes(N))
    BY <1>4
  <1>5. \A i \in 1 .. N : f[i] = After(f[i - 1], i)
    <2> TAKE i \in 1 .. N
    <2>1. i - 1 \in 0 .. N /\ <<i, f[i - 1]>> \in (1 .. N) \X Outcomes(N)
      BY <1>1, <1>12 DEF Follows
    <2> QED BY <1>12, <2>1 DEF Follows
  <1> HIDE DEF Step
  <1>6. f = [i \in 0 .. N |-> IF i = 0 THEN first ELSE After(f[i - 1], i)]
    <2>1. \A i \in 0 .. N : f[i] = IF i = 0 THEN first ELSE After(f[i - 1], i)
      BY <1>1, <1>12, <1>5 DEF Follows
    <2>2. f \in [0 .. N -> Outcomes(N)]
      BY <1>12 DEF Follows
    <2> QED BY <2>1, <2>2
  <1> DEFINE done == CHOOSE g : Is(g)
  <1>7. Is(done)
    BY <1>6
  <1>8. Up!Processed(files, type, bucket, action, auth) = done[N]
    BY Zenon DEF Up!Processed, After, N, first
  <1> HIDE DEF done
  <1>9. done[0] = first /\ \A i \in 1 .. N : done[i] = After(done[i - 1], i)
    BY <1>1, <1>7
  <1>10. done \in [0 .. N -> Outcomes(N)]
    <2> DEFINE S == {i \in 0 .. N : done[i] \in Outcomes(N)}
    <2>1. 0 \in S
      BY <1>1, <1>9
    <2>2. \A i \in 1 .. N : i - 1 \in S => i \in S
      BY <1>1, <1>2, <1>9 DEF After
    <2>3. 0 .. N \subseteq S
      BY <1>1, <2>1, <2>2, InductUpto
    <2> QED BY <1>7, <2>3
  <1> QED BY <1>8, <1>9, <1>10 DEF FileByFile, After, N, first

(* Of every request with files: it is answered without an error only when   *)
(* all of them were sent to the bucket, and none is sent but one that may   *)
(* be; what is missing there are the puts that failed.                      *)
THEOREM UploadsAreChecked ==
  AnyUpload => StoredAsAllowed
  <1> SUFFICES ASSUME AnyUpload PROVE StoredAsAllowed
    OBVIOUS
  <1>18. PICK files, type : AreFiles(files) /\ type \notin MimeTypes /\ UploadSample(files, type)
    BY DEF AnyUpload
  <1>19. PICK Word, Ext : files \in Seq(AnyFile(Word, Ext))
    BY <1>18 DEF AreFiles
  <1>0. PICK found \in BOOLEAN, user \in BOOLEAN, bucket \in BOOLEAN,
             kind \in {"backend", "front", "other"},
             field \in AnyField, fileId \in {None} \cup Nat, failed \in SUBSET (DOMAIN files) :
          sample = [of |-> "upload", files |-> files, type |-> type, found |-> found,
                    field |-> field, fileId |-> fileId, user |-> user, kind |-> kind,
                    bucket |-> bucket, failed |-> failed]
    BY <1>18 DEF UploadSample
  <1> DEFINE app == [kind |-> kind, static |-> FALSE, valid |-> FALSE]
             auth == Up!AuthError(app, IF user THEN "user" ELSE None)
             action == Up!Action(found, field, fileId)
             early == IF Up!IsError(action) THEN action ELSE None
             N == Len(files)
  <1>1. auth \in Errors /\ (auth = None => user \/ kind = "backend")
    BY AuthErrors
  <1>2. /\ action \in {"add", "edit"} \cup UploadErrors
        /\ ~found \/ fileId = Foreign => action = "DatabaseRecordNotFoundError"
    BY ForeignFiles, Zenon
  <1>3. /\ Up!IsError(action) => action \in UploadErrors
        /\ ~found \/ fileId = Foreign => early = "DatabaseRecordNotFoundError"
        /\ early \in Errors
    BY <1>2 DEF Up!IsError, Errors
  <1> HIDE DEF auth, action
  <1> HIDE DEF early
  <1>15. \E done : /\ FileByFile(done, files, type, bucket, early, auth)
                   /\ Up!Processed(files, type, bucket, action, auth) = done[Len(files)]
    <2>1. early = IF Up!IsError(action) THEN action ELSE None
      BY DEF early
    <2> QED BY <1>1, <1>3, <1>18, <2>1, ProcessedByFile
  <1>16. PICK done : /\ FileByFile(done, files, type, bucket, early, auth)
                     /\ Up!Processed(files, type, bucket, action, auth) = done[Len(files)]
    BY <1>15
  <1>4. /\ done \in [0 .. N -> Outcomes(N)]
        /\ done[0] = [sent |-> {}, error |-> early]
        /\ \A i \in 1 .. N :
              done[i] = IF ~bucket \/ early # None THEN done[i - 1]
                        ELSE Up!CheckedAndSent(done[i - 1], i, files, type, auth)
        /\ Up!Processed(files, type, bucket, action, auth) = done[N]
    BY <1>16 DEF FileByFile
  <1> DEFINE Allowed(i) == auth = None /\ Up!FileError(files[i], type) = None
             Right(d, n) == /\ early # None => d = [sent |-> {}, error |-> early]
                            /\ early = None /\ bucket /\ d.error = None => d.sent = 1 .. n
                            /\ \A i \in d.sent : Allowed(i)
             S == {n \in 0 .. N : Right(done[n], n)}
  <1>5. N \in Nat /\ DOMAIN files = 1 .. N
    OBVIOUS
  <1> HIDE DEF early, Allowed, N
  <1>6. 0 \in S
    BY <1>4, <1>5
  <1>7. ASSUME NEW n \in 1 .. N, n - 1 \in S
        PROVE  n \in S
    <2> DEFINE d == done[n - 1]
               e == Up!CheckedAndSent(d, n, files, type, auth)
               error == Up!FileError(files[n], type)
    <2>1. n - 1 \in 0 .. N /\ n \in 0 .. N /\ d \in Outcomes(N) /\ Right(d, n - 1)
      BY <1>4, <1>5, <1>7
    <2>2. done[n] = IF ~bucket \/ early # None THEN d ELSE e
      BY <1>4
    <2> HIDE DEF d
    <2>3. CASE ~bucket \/ early # None
      BY <2>1, <2>2, <2>3
    <2>4. CASE bucket /\ early = None /\ Allowed(n)
      <3>1. e = [sent |-> d.sent \cup {n}, error |-> d.error]
        BY <2>1, <2>4 DEF Up!CheckedAndSent, Allowed, Outcomes
      <3>2. d.error = None => d.sent \cup {n} = 1 .. n
        BY <1>5, <2>1, <2>4
      <3>3. \A i \in e.sent : Allowed(i)
        BY <2>1, <2>4, <3>1
      <3>4. done[n] = e /\ e.error = d.error /\ e.sent = d.sent \cup {n}
        BY <2>2, <2>4, <3>1
      <3> HIDE DEF e
      <3> QED BY <2>1, <2>4, <3>2, <3>3, <3>4
    <2>5. CASE bucket /\ early = None /\ ~Allowed(n)
      <3>1. e.sent = d.sent /\ e.error # None
        BY <2>1, <2>5 DEF Up!CheckedAndSent, Allowed, Outcomes
      <3> QED BY <2>1, <2>2, <2>5, <3>1
    <2> QED BY <2>3, <2>4, <2>5
  <1>8. Right(done[N], N)
    <2>1. 0 .. N \subseteq S
      <3> HIDE DEF S
      <3> QED BY <1>5, <1>6, <1>7, InductUpto
    <2>2. N \in S
      <3> HIDE DEF S
      <3> QED BY <1>5, <2>1
    <2> QED BY <2>2
  <1> DEFINE final == done[N]
  <1>9. final \in Outcomes(N) /\ final.sent \subseteq 1 .. N
    BY <1>4, <1>5 DEF Outcomes
  <1>10. ASSUME NEW i \in final.sent
         PROVE  /\ Up!FileError(files[i], type) = None
                /\ files[i].megs <= 200
                /\ Up!KindOf(files[i].words) # "others"
    <2>1. i \in DOMAIN files /\ files[i] \in AnyFile(Word, Ext)
      BY <1>5, <1>9, <1>19
    <2>2. Up!FileError(files[i], type) = None
      BY <1>8 DEF Allowed
    <2> QED BY <1>18, <2>1, <2>2, FileErrors
  <1>11. final.sent # {} => (user \/ kind = "backend") /\ found
    BY <1>1, <1>3, <1>8, NamesAssumption DEF Allowed, UploadErrors
  <1>12. ~found \/ fileId = Foreign =>
            final.sent = {} /\ final.error = "DatabaseRecordNotFoundError"
    BY <1>3, <1>8, NamesAssumption DEF UploadErrors
  <1>13. final.error = None /\ bucket =>
            final.sent = DOMAIN files /\ DOMAIN files \ Up!Stored(final, failed) = failed
    BY <1>5, <1>8 DEF Up!Stored
  <1>14. /\ sample.files = files /\ sample.type = type /\ sample.found = found
         /\ sample.field = field /\ sample.fileId = fileId /\ sample.user = user
         /\ sample.kind = kind /\ sample.bucket = bucket /\ sample.failed = failed
    BY <1>0
  <1>17. Up!Processed(sample.files, sample.type, sample.bucket,
                      Up!Action(sample.found, sample.field, sample.fileId),
                      Up!AuthError([kind |-> sample.kind, static |-> FALSE, valid |-> FALSE],
                                   IF sample.user THEN "user" ELSE None)) = final
    BY <1>4, <1>14, Zenon DEF auth, action
  <1> HIDE DEF final
  <1> QED
    BY <1>10, <1>11, <1>12, <1>13, <1>14, <1>17, Zenon DEF StoredAsAllowed

-----------------------------------------------------------------------------
(***************************************************************************)
(* Secondary applications: any schema in which no list has non-null        *)
(* elements and every field is of a type or a scalar.                      *)
(***************************************************************************)
Sequence(s) == Len(s) \in Nat /\ s = [i \in 1 .. Len(s) |-> s[i]]

WellFormed(schema) ==
  /\ Sequence(schema)
  /\ Sc!Names(schema) \cap (Sc!Scalars \cup {None}) = {}
  /\ \A t \in Sc!Types(schema) : \A f \in Sc!Fields(t) :
        f.of \in Sc!Names(schema) \cup Sc!Scalars

NoNonNullElements(schema) ==
  \A t \in Sc!Types(schema) : \A f \in Sc!Fields(t) :
     Len(f.wraps) <= 1 \/ (Len(f.wraps) = 2 /\ f.wraps[2] = "list")

AnySchema ==
  \E schema : /\ WellFormed(schema) /\ NoNonNullElements(schema)
              /\ sample = [of |-> "schema", schema |-> schema]

LEMMA NamesAreFinite ==
  ASSUME NEW schema, WellFormed(schema)
  PROVE  /\ IsFiniteSet(Sc!Names(schema))
         /\ Cardinality(Sc!Names(schema)) <= Len(schema)
  <1> DEFINE N == Len(schema)
             f == [i \in 1 .. N |-> schema[i].name]
  <1>1. N \in Nat /\ schema = [i \in 1 .. N |-> schema[i]]
    BY DEF WellFormed, Sequence
  <1>2. Sc!Names(schema) = {schema[i].name : i \in 1 .. N}
    BY <1>1 DEF Sc!Names, Sc!Types, Sc!Range
  <1>3. IsFiniteSet(1 .. N) /\ Cardinality(1 .. N) = N
    <2> HIDE DEF N
    <2>1. 1 \in Int /\ N \in Int /\ N \in Nat
      BY <1>1
    <2>2. IsFiniteSet(1 .. N) /\ Cardinality(1 .. N) = IF 1 > N THEN 0 ELSE N - 1 + 1
      BY <2>1, FS_Interval
    <2> QED BY <2>1, <2>2
  <1>4. f \in Surjection(1 .. N, Sc!Names(schema))
    BY <1>2 DEF Surjection
  <1> QED BY <1>3, <1>4, FS_Surjection

(* A type that is named refers to what its fields are of, and what scalars  *)
(* are named makes no difference.                                           *)
LEMMA ReferredTypes ==
  ASSUME NEW schema, WellFormed(schema), NoNonNullElements(schema), NEW names
  PROVE  /\ Sc!Referred(schema, names) \subseteq Sc!Names(schema) \cup Sc!Scalars
         /\ \A t \in Sc!Types(schema) : t.name \in names =>
               \A f \in Sc!Fields(t) : f.of \in Sc!Referred(schema, names)
         /\ Sc!Referred(schema, names) = Sc!Referred(schema, names \cap Sc!Names(schema))
  <1>1. \A t \in Sc!Types(schema) : \A f \in Sc!Fields(t) :
           Sc!SeenType(f) = f.of /\ f.of \in Sc!Names(schema) \cup Sc!Scalars
    BY DEF WellFormed, Sequence, NoNonNullElements, Sc!SeenType
  <1>2. \A t \in Sc!Types(schema) : t.name \in Sc!Names(schema)
    BY DEF Sc!Names
  <1>3. Sc!Referred(schema, names) \subseteq Sc!Names(schema) \cup Sc!Scalars
    BY <1>1 DEF Sc!Referred
  <1>4. \A t \in Sc!Types(schema) : t.name \in names =>
           \A f \in Sc!Fields(t) : f.of \in Sc!Referred(schema, names)
    BY <1>1 DEF Sc!Referred
  <1>5. Sc!Referred(schema, names) = Sc!Referred(schema, names \cap Sc!Names(schema))
    BY <1>2, Zenon DEF Sc!Referred
  <1> QED BY <1>3, <1>4, <1>5

(* The types reached in one step, two steps, ...                            *)
StepByStep(step, schema, from) ==
  /\ step \in [0 .. Len(schema) -> SUBSET (Sc!Names(schema) \cup Sc!Scalars)]
  /\ step[0] = from
  /\ \A n \in 1 .. Len(schema) : step[n] = step[n - 1] \cup Sc!Referred(schema, step[n - 1])

LEMMA ReachedByStep ==
  ASSUME NEW schema, WellFormed(schema), NoNonNullElements(schema),
         NEW from \in SUBSET Sc!Names(schema)
  PROVE  \E step : /\ StepByStep(step, schema, from)
                   /\ Sc!Reached(schema, from) = step[Len(schema)] \ (Sc!Scalars \cup {None})
  <1> DEFINE N == Len(schema)
             V == SUBSET (Sc!Names(schema) \cup Sc!Scalars)
             After(d) == d \cup Sc!Referred(schema, d)
             Step == [p \in (1 .. N) \X V |-> After(p[2])]
             Is(f) == f = [n \in 0 .. N |-> IF n = 0 THEN from ELSE After(f[n - 1])]
  <1>1. N \in Nat /\ from \in V
    BY DEF WellFormed, Sequence
  <1>2. ASSUME NEW d \in V
        PROVE  After(d) \in V
    BY ReferredTypes
  <1>3. Step \in [(1 .. N) \X V -> V]
    BY <1>2
  <1> HIDE DEF After, N, V
  <1>4. \E f : Follows(f, from, Step, N, V)
    <2> HIDE DEF Step
    <2> QED BY <1>1, <1>3, Stepwise
  <1>5. PICK f : Follows(f, from, Step, N, V)
    BY <1>4
  <1>6. \A n \in 1 .. N : f[n] = After(f[n - 1])
    <2> TAKE n \in 1 .. N
    <2>1. n - 1 \in 0 .. N /\ <<n, f[n - 1]>> \in (1 .. N) \X V
      BY <1>1, <1>5 DEF Follows
    <2> QED BY <1>5, <2>1 DEF Follows
  <1> HIDE DEF Step
  <1>7. f = [n \in 0 .. N |-> IF n = 0 THEN from ELSE After(f[n - 1])]
    <2>1. \A n \in 0 .. N : f[n] = IF n = 0 THEN from ELSE After(f[n - 1])
      BY <1>1, <1>5, <1>6 DEF Follows
    <2>2. f \in [0 .. N -> V]
      BY <1>5 DEF Follows
    <2> QED BY <2>1, <2>2
  <1> DEFINE step == CHOOSE g : Is(g)
  <1>8. Is(step)
    BY <1>7
  <1>9. Sc!Reached(schema, from) = step[N] \ (Sc!Scalars \cup {None})
    BY Zenon DEF Sc!Reached, After, N
  <1> HIDE DEF step
  <1>10. step[0] = from /\ \A n \in 1 .. N : step[n] = After(step[n - 1])
    BY <1>1, <1>8
  <1>11. step \in [0 .. N -> V]
    <2> DEFINE S == {n \in 0 .. N : step[n] \in V}
    <2>1. 0 \in S
      BY <1>1, <1>10
    <2>2. \A n \in 1 .. N : n - 1 \in S => n \in S
      BY <1>1, <1>2, <1>10
    <2>3. 0 .. N \subseteq S
      BY <1>1, <2>1, <2>2, InductUpto
    <2> QED BY <1>8, <2>3
  <1> QED BY <1>9, <1>10, <1>11 DEF StepByStep, After, N, V

(* As many steps as there are types are enough: each step finds a further   *)
(* type, or there is none to find.                                          *)
LEMMA EnoughSteps ==
  ASSUME NEW schema, WellFormed(schema), NoNonNullElements(schema),
         NEW from \in SUBSET Sc!Names(schema),
         NEW step, StepByStep(step, schema, from)
  PROVE  /\ from \subseteq step[Len(schema)]
         /\ Sc!Referred(schema, step[Len(schema)]) \subseteq step[Len(schema)]
  <1> DEFINE N == Len(schema)
             Ns == Sc!Names(schema)
             Closed(n) == Sc!Referred(schema, step[n]) \subseteq step[n]
             S == {n \in 0 .. N : /\ from \subseteq step[n]
                                  /\ Closed(n) \/ Cardinality(step[n] \cap Ns) >= n + 1}
  <1>1. N \in Nat /\ IsFiniteSet(Ns) /\ Cardinality(Ns) <= N /\ Cardinality(Ns) \in Nat
    BY NamesAreFinite, FS_CardinalityType DEF WellFormed, Sequence
  <1>2. \A n \in 0 .. N : /\ IsFiniteSet(step[n] \cap Ns)
                          /\ Cardinality(step[n] \cap Ns) \in Nat
                          /\ Cardinality(step[n] \cap Ns) <= Cardinality(Ns)
    <2> TAKE n \in 0 .. N
    <2>1. step[n] \cap Ns \in SUBSET Ns
      OBVIOUS
    <2> QED BY <1>1, <2>1, FS_Subset, FS_CardinalityType
  <1>3. 0 \in S
    <2>1. step[0] = from /\ from \cap Ns = from /\ 0 \in 0 .. N
      BY <1>1 DEF StepByStep
    <2>2. CASE from = {}
      <3>1. Closed(0)
        BY <2>1, <2>2 DEF Sc!Referred
      <3> QED BY <2>1, <3>1
    <2>3. CASE from # {}
      <3>1. Cardinality(step[0] \cap Ns) # 0
        BY <1>2, <2>1, <2>3, FS_EmptySet
      <3>2. Cardinality(step[0] \cap Ns) \in Nat
        BY <1>2, <2>1
      <3>3. Cardinality(step[0] \cap Ns) >= 0 + 1
        BY <3>1, <3>2
      <3> QED BY <2>1, <3>3
    <2> QED BY <2>2, <2>3
  <1>4. ASSUME NEW n \in 1 .. N, n - 1 \in S
        PROVE  n \in S
    <2>1. n - 1 \in 0 .. N /\ n \in 0 .. N
      BY <1>1
    <2>2. step[n] = step[n - 1] \cup Sc!Referred(schema, step[n - 1])
      BY DEF StepByStep
    <2>3. from \subseteq step[n]
      BY <1>4, <2>2
    <2>4. CASE step[n] \cap Ns = step[n - 1] \cap Ns
      <3>1. Sc!Referred(schema, step[n]) = Sc!Referred(schema, step[n - 1])
        BY <2>4, ReferredTypes, Zenon
      <3> QED BY <2>1, <2>2, <2>3, <3>1
    <2>5. CASE step[n] \cap Ns # step[n - 1] \cap Ns
      <3>1. ~Closed(n - 1)
        BY <2>2, <2>5
      <3>2. Cardinality(step[n - 1] \cap Ns) >= n
        BY <1>1, <1>4, <3>1
      <3>3. step[n - 1] \cap Ns \in SUBSET (step[n] \cap Ns)
        BY <2>2
      <3>4. /\ Cardinality(step[n - 1] \cap Ns) <= Cardinality(step[n] \cap Ns)
            /\ Cardinality(step[n - 1] \cap Ns) # Cardinality(step[n] \cap Ns)
        BY <1>2, <2>1, <2>5, <3>3, FS_Subset
      <3>5. Cardinality(step[n] \cap Ns) >= n + 1
        <4>1. Cardinality(step[n - 1] \cap Ns) \in Nat
          BY <1>2, <2>1
        <4>2. Cardinality(step[n] \cap Ns) \in Nat
          BY <1>2, <2>1
        <4>3. n \in Nat
          BY <1>1
        <4> QED BY <3>2, <3>4, <4>1, <4>2, <4>3
      <3> QED BY <2>1, <2>3, <3>5
    <2> QED BY <2>4, <2>5
  <1>5. N \in S
    <2> HIDE DEF S
    <2>1. 0 .. N \subseteq S
      BY <1>1, <1>3, <1>4, InductUpto
    <2> QED BY <1>1, <2>1
  <1>6. N \in 0 .. N
    BY <1>1
  <1>7. Cardinality(step[N] \cap Ns) \in Nat /\ Cardinality(step[N] \cap Ns) <= N
    <2>1. /\ Cardinality(step[N] \cap Ns) \in Nat
          /\ Cardinality(step[N] \cap Ns) <= Cardinality(Ns)
      BY <1>2, <1>6
    <2> QED BY <1>1, <2>1
  <1>8. ~(Cardinality(step[N] \cap Ns) >= N + 1)
    BY <1>1, <1>7
  <1> QED BY <1>5, <1>8

(* Of every schema: what a secondary application serves is closed.          *)
THEOREM SecondaryIsClosed ==
  AnySchema => SecondaryCloses
  <1> SUFFICES ASSUME AnySchema PROVE SecondaryCloses
    OBVIOUS
  <1>1. PICK schema : /\ WellFormed(schema) /\ NoNonNullElements(schema)
                      /\ sample = [of |-> "schema", schema |-> schema]
    BY DEF AnySchema
  <1> DEFINE from == {t.name : t \in {u \in Sc!Types(schema) : "shop" \in u.apps}}
             served == Sc!Served(schema, "shop")
  <1>2. from \in SUBSET Sc!Names(schema)
    BY DEF Sc!Names
  <1>3. served = Sc!Reached(schema, from)
    BY Zenon DEF Sc!Served
  <1> HIDE DEF from
  <1>4. \E step : /\ StepByStep(step, schema, from)
                  /\ Sc!Reached(schema, from) = step[Len(schema)] \ (Sc!Scalars \cup {None})
    BY <1>1, <1>2, ReachedByStep
  <1>5. PICK step : /\ StepByStep(step, schema, from)
                    /\ Sc!Reached(schema, from) = step[Len(schema)] \ (Sc!Scalars \cup {None})
    BY <1>4
  <1> DEFINE all == step[Len(schema)]
  <1>6. from \subseteq all /\ Sc!Referred(schema, all) \subseteq all
    BY <1>1, <1>2, <1>5, EnoughSteps
  <1>7. all \subseteq Sc!Names(schema) \cup Sc!Scalars
    <2>1. Len(schema) \in 0 .. Len(schema)
      BY <1>1 DEF WellFormed, Sequence
    <2> QED BY <1>5, <2>1 DEF StepByStep
  <1> HIDE DEF all
  <1>8. served = all \ (Sc!Scalars \cup {None})
    BY <1>3, <1>5 DEF all
  <1> HIDE DEF served
  <1>9. Sc!Names(schema) \cap (Sc!Scalars \cup {None}) = {} /\ None \notin Sc!Scalars
    BY <1>1, NamesAssumption DEF WellFormed, Sequence
  <1>10. served \subseteq Sc!Names(schema)
    BY <1>7, <1>8
  <1>11. ASSUME NEW t \in Sc!Types(schema)
         PROVE  /\ "shop" \in t.apps => t.name \in served
                /\ t.name \in served => \A f \in Sc!Fields(t) : f.of \in served \cup Sc!Scalars
    <2>1. "shop" \in t.apps => t.name \in served
      <3>1. "shop" \in t.apps => t.name \in from
        BY DEF from
      <3> QED BY <1>2, <1>6, <1>8, <1>9, <3>1
    <2>2. ASSUME t.name \in served, NEW f \in Sc!Fields(t)
          PROVE  f.of \in served \cup Sc!Scalars
      <3>1. f.of \in Sc!Referred(schema, all)
        BY <1>1, <1>8, <2>2, ReferredTypes
      <3> QED BY <1>6, <1>7, <1>8, <1>9, <3>1
    <2> QED BY <2>1, <2>2
  <1>12. sample.schema = schema
    BY <1>1
  <1> QED BY <1>10, <1>11, <1>12, Zenon DEF SecondaryCloses, served

-----------------------------------------------------------------------------
(***************************************************************************)
(* Relation filters: any links, dangling ones too, any collection and any  *)
(* number of tests of the related documents and of additional fields; but  *)
(* for the tests of texts and for bounds of 0, which do not mean in        *)
(* MongoDB what they say.                                                  *)
(***************************************************************************)
PlainOps == {"", "not", "in", "not_in", "exists", "array"}

PlainTest(t) == t.op \in PlainOps \/ (t.op \in Te!Bounds /\ t.arg # {} /\ 0 \notin t.arg)

LinkedSample(isNone, op, tests, links, coll) ==
  /\ tests # {}
  /\ op = "one" => \E t : tests = {t}
  /\ \A t \in tests : \/ t.on = "own" /\ PlainTest(t)
                      \/ t.on = "extra" /\ t.op = ""
  /\ sample = [of |-> "linked", isNone |-> isNone, op |-> op, tests |-> tests, links |-> links,
               coll |-> coll]

AnyLinked ==
  \E isNone \in BOOLEAN, op \in {"one", "and", "or"} : \E tests, links, coll :
     LinkedSample(isNone, op, tests, links, coll)

(* What MongoDB makes of these operators is what they mean.                 *)
LEMMA ConditionsMean ==
  ASSUME NEW t, PlainTest(t), NEW S
  PROVE  Te!Meets(Te!Condition(t.op, t.arg), S) <=> Te!Means("exact", t.op, t.arg, S)
  <1>1. CASE t.op \in Te!Bounds
    <2>1. t.arg # {} /\ t.arg \ {0} = t.arg
      BY <1>1 DEF PlainTest, PlainOps, Te!Bounds
    <2>2. Te!Condition(t.op, t.arg) = [test |-> t.op, to |-> t.arg]
      BY <1>1, <2>1 DEF Te!Condition, Te!Bounds
    <2> DEFINE some == \E x \in S, y \in t.arg : Te!Compare("exact", t.op, x, y)
    <2>3. Te!Meets([test |-> t.op, to |-> t.arg], S) <=> some
      BY <1>1, <2>1 DEF Te!Meets, Te!Bounds
    <2>4. Te!Means("exact", t.op, t.arg, S) <=> some
      BY <1>1 DEF Te!Means, Te!Bounds
    <2> QED BY <2>2, <2>3, <2>4
  <1>2. CASE t.op = "in"
    BY <1>2 DEF Te!Condition, Te!Meets, Te!Means, Te!Bounds
  <1>3. CASE t.op \in {"not", "not_in"}
    BY <1>3 DEF Te!Condition, Te!Meets, Te!Means, Te!Bounds
  <1>4. CASE t.op = "array"
    BY <1>4 DEF Te!Condition, Te!Meets, Te!Means, Te!Bounds
  <1>5. CASE t.op \in {"", "exists"}
    BY <1>5 DEF Te!Condition, Te!Meets, Te!Means, Te!Bounds
  <1> QED BY <1>1, <1>2, <1>3, <1>4, <1>5 DEF PlainTest, PlainOps

(* Of every relation filter of these tests: it answers the documents that   *)
(* have, or have no, link to a document that exists and passes, or link     *)
(* that itself passes (filters.js:39-134, 202-230).                         *)
THEOREM RelationFiltersMean ==
  AnyLinked => RelationFilterMeans
  <1> SUFFICES ASSUME AnyLinked PROVE RelationFilterMeans
    OBVIOUS
  <1>1. PICK isNone \in BOOLEAN, op \in {"one", "and", "or"} :
           \E tests, links, coll : LinkedSample(isNone, op, tests, links, coll)
    BY DEF AnyLinked
  <1>2. PICK tests, links, coll : LinkedSample(isNone, op, tests, links, coll)
    BY <1>1
  <1> DEFINE Passes(l, t) == IF t.on = "extra" THEN Te!Means("exact", t.op, t.arg, {l[2]})
                             ELSE /\ l[1] \in DOMAIN coll
                                  /\ Te!Means("exact", t.op, t.arg, coll[l[1]])
             Fits(l) == IF op = "or" THEN \E t \in tests : Passes(l, t)
                        ELSE \A t \in tests : Passes(l, t)
             Holds == Te!RelationHolds(isNone, op, tests, links, coll)
  <1> DEFINE own == {u \in tests : u.on = "own"}
             beside == op # "one" /\ \E t \in tests : t.on = "extra"
             by == IF op = "one" THEN "and" ELSE op
             ids == Te!RelatedIds(by, own, coll)
  <1> HIDE DEF own, beside, by, ids
  <1>3. ASSUME NEW t \in tests, t.on = "extra"
        PROVE  /\ t \notin own
               /\ \A l \in links : Passes(l, t) <=> {l[2]} \cap t.arg # {}
    <2>1. t.op = "" /\ t \notin own
      BY <1>2, <1>3 DEF LinkedSample, own
    <2>2. \A l \in links : Te!Means("exact", t.op, t.arg, {l[2]}) <=> t.arg \cap {l[2]} # {}
      BY <2>1 DEF Te!Means
    <2> QED BY <1>3, <2>1, <2>2
  <1>4. ASSUME NEW t \in own, NEW l \in links
        PROVE  Passes(l, t) <=> /\ l[1] \in DOMAIN coll
                                /\ Te!Meets(Te!Condition(t.op, t.arg), coll[l[1]])
    <2>1. t.on = "own" /\ PlainTest(t)
      BY <1>2 DEF LinkedSample, own
    <2>2. Te!Meets(Te!Condition(t.op, t.arg), coll[l[1]])
            <=> Te!Means("exact", t.op, t.arg, coll[l[1]])
      BY <2>1, ConditionsMean
    <2> QED BY <2>1, <2>2
  <1>5. /\ \A t \in tests : t.on = "extra" \/ t \in own
        /\ tests # {} /\ (op = "one" => \E t : tests = {t})
    BY <1>2 DEF LinkedSample, own
  <1>6. by \in {"and", "or"} /\ (by = "or" <=> op = "or")
    BY DEF by
  <1>7. \A l \in links : l[1] \in ids <=>
           /\ l[1] \in DOMAIN coll
           /\ \/ own = {}
              \/ by = "and" /\ \A t \in own : Passes(l, t)
              \/ by = "or" /\ \E t \in own : Passes(l, t)
    <2> HIDE DEF Passes
    <2> QED BY <1>4, <1>6 DEF Te!RelatedIds, ids
  <1>8. ~beside => (Holds <=> (isNone <=> {l \in links : Fits(l)} = {}))
    <2> SUFFICES ASSUME ~beside PROVE Holds <=> (isNone <=> {l \in links : Fits(l)} = {})
      OBVIOUS
    <2>1. CASE \E t \in tests : t.on = "extra"
      <3>1. PICK t : tests = {t} /\ t.on = "extra" /\ op = "one"
        BY <1>5, <2>1 DEF beside
      <3>2. Holds <=> Te!OnLinks(isNone, links, t)
        BY <3>1 DEF Te!RelationHolds, Te!Connectives
      <3>3. \A l \in links : Fits(l) <=> {l[2]} \cap t.arg # {}
        <4>1. \A l \in links : Passes(l, t) <=> {l[2]} \cap t.arg # {}
          BY <1>3, <3>1
        <4> HIDE DEF Passes
        <4> QED BY <3>1, <4>1
      <3> HIDE DEF Fits, Holds
      <3> QED BY <3>2, <3>3 DEF Te!OnLinks
    <2>2. CASE ~\E t \in tests : t.on = "extra"
      <3>1. own = tests /\ own # {}
        BY <1>5, <2>2 DEF own
      <3>2. Holds <=> Te!SubsetHolds(isNone, by, own, links, coll)
        <4>1. CASE op = "one"
          <5>1. PICK t : tests = {t}
            BY <1>5, <4>1
          <5>2. t.on # "extra" /\ own = {t}
            BY <2>2, <3>1, <5>1
          <5> QED BY <4>1, <5>1, <5>2 DEF Te!RelationHolds, Te!Connectives, by
        <4>2. CASE op # "one"
          <5>1. op \in Te!Connectives /\ by = op /\ tests \ own = {}
            BY <3>1, <4>2 DEF Te!Connectives, by
          <5>2. Holds <=> Te!CombinedHolds(isNone, op, tests, links, coll)
            BY <5>1 DEF Te!RelationHolds
          <5>3. Te!CombinedHolds(isNone, op, tests, links, coll)
                  <=> Te!SubsetHolds(isNone, op, own, links, coll)
            <6>1. {u \in tests : u.on = "own"} = own
              BY DEF own
            <6> QED BY <5>1, <6>1 DEF Te!CombinedHolds
          <5> HIDE DEF Holds
          <5> QED BY <5>1, <5>2, <5>3
        <4> QED BY <4>1, <4>2
      <3>3. \A l \in links : l[1] \in ids <=> Fits(l)
        <4>1. \A t \in own : \A l \in links : Passes(l, t) => l[1] \in DOMAIN coll
          BY <1>4
        <4>2. \A l \in links : by = "and" => (Fits(l) <=> \A t \in own : Passes(l, t))
          BY <1>6, <3>1
        <4>3. \A l \in links : by = "or" => (Fits(l) <=> \E t \in own : Passes(l, t))
          BY <1>6, <3>1
        <4> HIDE DEF Passes, Fits
        <4>4. CASE by = "and"
          BY <1>7, <3>1, <4>1, <4>2, <4>4
        <4>5. CASE by = "or"
          BY <1>7, <3>1, <4>1, <4>3, <4>5
        <4> QED BY <1>6, <4>4, <4>5
      <3> HIDE DEF Fits, Holds
      <3> QED BY <3>2, <3>3 DEF Te!SubsetHolds, ids
    <2> QED BY <2>1, <2>2
  <1>9. beside =>
          /\ ~isNone => ((\E l \in {k \in links : Fits(k)} : l[1] \in DOMAIN coll) => Holds)
          /\ isNone => IF op = "and" THEN Holds => {l \in links : Fits(l)} = {}
                       ELSE {l \in links : Fits(l)} = {} => Holds
    <2> SUFFICES ASSUME beside
                 PROVE  /\ ~isNone =>
                             ((\E l \in {k \in links : Fits(k)} : l[1] \in DOMAIN coll) => Holds)
                        /\ isNone => IF op = "and" THEN Holds => {l \in links : Fits(l)} = {}
                                     ELSE {l \in links : Fits(l)} = {} => Holds
      OBVIOUS
    <2>1. /\ op \in Te!Connectives /\ op \in {"and", "or"} /\ by = op
          /\ \E t \in tests \ own : t.on = "extra"
      BY <1>3 DEF Te!Connectives, beside, by
    <2> DEFINE related == IF isNone THEN \A l \in links : l[1] \notin ids
                          ELSE \E l \in links : l[1] \in ids
               other(t) == isNone # (\E l \in links : {l[2]} \cap t.arg # {})
    <2>2. Holds <=> IF op = "and" THEN related /\ \A t \in tests \ own : other(t)
                    ELSE related \/ \E t \in tests \ own : other(t)
      <3>1. Holds <=> Te!CombinedHolds(isNone, op, tests, links, coll)
        BY <2>1 DEF Te!RelationHolds
      <3>2. Te!SubsetHolds(isNone, op, own, links, coll) <=> related
        BY <2>1 DEF Te!SubsetHolds, ids
      <3>3. {u \in tests : u.on = "own"} = own
        BY DEF own
      <3>4. Te!CombinedHolds(isNone, op, tests, links, coll)
              <=> IF op = "and"
                  THEN /\ Te!SubsetHolds(isNone, op, own, links, coll)
                       /\ \A t \in tests \ own : Te!OnLinks(isNone, links, t)
                  ELSE \/ Te!SubsetHolds(isNone, op, own, links, coll)
                       \/ \E t \in tests \ own : Te!OnLinks(isNone, links, t)
        BY <3>3 DEF Te!CombinedHolds
      <3>5. \A t : Te!OnLinks(isNone, links, t) <=> other(t)
        BY DEF Te!OnLinks
      <3> HIDE DEF related, Holds, other
      <3> QED BY <3>1, <3>2, <3>4, <3>5
    <2>3. \A t \in tests \ own : other(t) <=> (isNone <=> \A l \in links : ~Passes(l, t))
      <3>1. \A t \in tests \ own : \A l \in links : Passes(l, t) <=> {l[2]} \cap t.arg # {}
        BY <1>3, <1>5
      <3> HIDE DEF Passes
      <3> QED BY <3>1
    <2>4. /\ \A l \in links : op = "and" => (Fits(l) <=> \A t \in tests : Passes(l, t))
          /\ \A l \in links : op = "or" => (Fits(l) <=> \E t \in tests : Passes(l, t))
      OBVIOUS
    <2>5. own \subseteq tests
      BY DEF own
    <2> HIDE DEF Passes, Fits, Holds, other
    <2>6. CASE op = "and"
      BY <1>7, <2>1, <2>2, <2>3, <2>4, <2>5, <2>6
    <2>7. CASE op = "or"
      BY <1>7, <2>1, <2>2, <2>3, <2>4, <2>5, <2>7
    <2> QED BY <2>1, <2>6, <2>7
  <1>10. /\ sample.isNone = isNone /\ sample.op = op /\ sample.tests = tests
         /\ sample.links = links /\ sample.coll = coll
    BY <1>2 DEF LinkedSample
  <1> QED BY <1>8, <1>9, <1>10 DEF RelationFilterMeans, beside

-----------------------------------------------------------------------------
(***************************************************************************)
(* Relations: any schema of differently named types, in which a relation   *)
(* has one end, or two that point to each other's type and have different  *)
(* names.                                                                  *)
(***************************************************************************)
FieldAt(schema, p) == schema[p[1]].fields[p[2]]

OwnNames(schema) ==
  /\ Sequence(schema)
  /\ \A i, j \in DOMAIN schema : schema[i].name = schema[j].name => i = j
  /\ \A i \in DOMAIN schema : /\ Sequence(schema[i].fields)
                              /\ \A j \in DOMAIN schema[i].fields :
                                    schema[i].fields[j].name # None

TwoEnds(schema) ==
  \A p, q \in Sc!Places(schema) : p # q /\ Sc!RelationAt(schema, p) = Sc!RelationAt(schema, q) =>
     /\ FieldAt(schema, p).of = schema[q[1]].name
     /\ FieldAt(schema, p).name # FieldAt(schema, q).name
     /\ \A o \in Sc!Places(schema) :
           Sc!RelationAt(schema, o) = Sc!RelationAt(schema, p) => o \in {p, q}

AnyRelations ==
  \E schema : /\ OwnNames(schema) /\ TwoEnds(schema)
              /\ sample = [of |-> "relations", schema |-> schema]

LEMMA GreatestOf ==
  ASSUME NEW N \in Nat, NEW T \in SUBSET (0 .. N), T # {}
  PROVE  \E m \in T : \A n \in T : n <= m
  <1> DEFINE U == {N - n : n \in T}
  <1>1. U \in SUBSET Nat /\ U # {}
    <2>1. \A n \in T : N - n \in Nat
      OBVIOUS
    <2> QED BY <2>1
  <1> HIDE DEF U
  <1>2. PICK k \in U : \A n \in U : k <= n
    BY <1>1, LeastOf
  <1>3. PICK m \in T : k = N - m
    BY DEF U
  <1>4. \A n \in T : N - n \in U
    BY DEF U
  <1>5. \A n \in T : n <= m
    BY <1>2, <1>3, <1>4
  <1> QED BY <1>5

LEMMA PlacesAre ==
  ASSUME NEW schema, OwnNames(schema)
  PROVE  /\ DOMAIN schema = 1 .. Len(schema) /\ Len(schema) \in Nat
         /\ \A i \in DOMAIN schema : /\ Len(schema[i].fields) \in Nat
                                     /\ DOMAIN schema[i].fields = 1 .. Len(schema[i].fields)
         /\ \A p \in Sc!Places(schema) :
               /\ p = <<p[1], p[2]>>
               /\ p[1] \in DOMAIN schema /\ p[2] \in DOMAIN schema[p[1]].fields
               /\ p[1] \in Nat /\ p[2] \in Nat
               /\ schema[p[1]].model
               /\ FieldAt(schema, p) \in Sc!RelationFields(schema[p[1]])
         /\ \A i \in DOMAIN schema : \A j \in DOMAIN schema[i].fields :
               (schema[i].model /\ schema[i].fields[j] \in Sc!RelationFields(schema[i]))
                  => <<i, j>> \in Sc!Places(schema)
  <1>1. DOMAIN schema = 1 .. Len(schema) /\ Len(schema) \in Nat
    BY DEF OwnNames, Sequence
  <1>2. \A i \in DOMAIN schema : /\ Len(schema[i].fields) \in Nat
                                 /\ DOMAIN schema[i].fields = 1 .. Len(schema[i].fields)
    BY DEF OwnNames, Sequence
  <1>3. ASSUME NEW p \in Sc!Places(schema)
        PROVE  /\ p = <<p[1], p[2]>>
               /\ p[1] \in DOMAIN schema /\ p[2] \in DOMAIN schema[p[1]].fields
               /\ schema[p[1]].model
               /\ FieldAt(schema, p) \in Sc!RelationFields(schema[p[1]])
    <2>1. PICK i \in DOMAIN schema :
             p \in {i} \X {j \in DOMAIN schema[i].fields :
                             schema[i].model /\ schema[i].fields[j] \in Sc!RelationFields(schema[i])}
      BY <1>3 DEF Sc!Places
    <2> QED BY <2>1 DEF FieldAt
  <1>4. \A p \in Sc!Places(schema) : p[1] \in Nat /\ p[2] \in Nat
    BY <1>1, <1>2, <1>3
  <1>5. ASSUME NEW i \in DOMAIN schema, NEW j \in DOMAIN schema[i].fields, schema[i].model,
               schema[i].fields[j] \in Sc!RelationFields(schema[i])
        PROVE  <<i, j>> \in Sc!Places(schema)
    BY <1>5 DEF Sc!Places
  <1> QED BY <1>1, <1>2, <1>3, <1>4, <1>5

SameRelation(schema, p) ==
  {q \in Sc!Places(schema) : Sc!RelationAt(schema, q) = Sc!RelationAt(schema, p)}

(* Every relation is found first somewhere and last somewhere.              *)
LEMMA FirstAndLast ==
  ASSUME NEW schema, OwnNames(schema), NEW p \in Sc!Places(schema)
  PROVE  /\ \E q \in Sc!FirstPlaces(schema) : q \in SameRelation(schema, p)
         /\ \E q \in Sc!LastPlaces(schema) : q \in SameRelation(schema, p)
  <1> DEFINE R == SameRelation(schema, p)
             I == {q[1] : q \in R}
             J(i) == {q[2] : q \in {r \in R : r[1] = i}}
  <1>1. p \in R /\ R \subseteq Sc!Places(schema)
    BY DEF SameRelation
  <1>2. \A q \in R : /\ q[1] \in DOMAIN schema /\ q[2] \in DOMAIN schema[q[1]].fields
                     /\ q[1] \in Nat /\ q[2] \in Nat
    BY <1>1, PlacesAre
  <1>3. I # {} /\ I \in SUBSET Nat /\ I \in SUBSET (0 .. Len(schema)) /\ Len(schema) \in Nat
    <2>1. \A i \in DOMAIN schema : i \in 0 .. Len(schema)
      BY PlacesAre
    <2>2. Len(schema) \in Nat
      BY PlacesAre
    <2> QED BY <1>1, <1>2, <2>1, <2>2
  <1>4. ASSUME NEW i \in I
        PROVE  /\ J(i) # {} /\ J(i) \in SUBSET Nat
               /\ J(i) \in SUBSET (0 .. Len(schema[i].fields))
               /\ Len(schema[i].fields) \in Nat
    <2>1. i \in DOMAIN schema
      BY <1>2
    <2>2. Len(schema[i].fields) \in Nat /\ DOMAIN schema[i].fields = 1 .. Len(schema[i].fields)
      BY <2>1, PlacesAre
    <2> QED BY <1>2, <2>2
  <1> HIDE DEF R
  <1>5. \E q \in R : \A r \in R : ~Sc!Before(r, q)
    <2>1. \E i \in I : \A k \in I : i <= k
      <3> HIDE DEF I
      <3> QED BY <1>3, LeastOf
    <2>2. PICK i \in I : \A k \in I : i <= k
      BY <2>1
    <2>3. \E j \in J(i) : \A k \in J(i) : j <= k
      <3> DEFINE T == J(i)
      <3>1. T # {} /\ T \in SUBSET Nat
        BY <1>4
      <3> HIDE DEF T
      <3>2. \E j \in T : \A k \in T : j <= k
        BY <3>1, LeastOf
      <3> QED BY <3>2 DEF T
    <2>4. PICK j \in J(i) : \A k \in J(i) : j <= k
      BY <2>3
    <2>5. PICK q \in R : q[1] = i /\ q[2] = j
      OBVIOUS
    <2>6. \A r \in R : ~Sc!Before(r, q)
      <3> TAKE r \in R
      <3>1. i <= r[1] /\ (r[1] = i => j <= r[2])
        BY <2>2, <2>4
      <3>2. r[1] \in Nat /\ r[2] \in Nat /\ q[1] \in Nat /\ q[2] \in Nat
        BY <1>2
      <3> QED BY <2>5, <3>1, <3>2 DEF Sc!Before
    <2> QED BY <2>6
  <1>6. \E q \in R : \A r \in R : ~Sc!Before(q, r)
    <2>1. \E i \in I : \A k \in I : k <= i
      <3> HIDE DEF I
      <3> QED BY <1>3, GreatestOf
    <2>2. PICK i \in I : \A k \in I : k <= i
      BY <2>1
    <2>3. \E j \in J(i) : \A k \in J(i) : k <= j
      <3> DEFINE T == J(i)
                 N == Len(schema[i].fields)
      <3>1. T # {} /\ T \in SUBSET (0 .. N) /\ N \in Nat
        BY <1>4
      <3> HIDE DEF T, N
      <3>2. \E j \in T : \A k \in T : k <= j
        BY <3>1, GreatestOf
      <3> QED BY <3>2 DEF T
    <2>4. PICK j \in J(i) : \A k \in J(i) : k <= j
      BY <2>3
    <2>5. PICK q \in R : q[1] = i /\ q[2] = j
      OBVIOUS
    <2>6. \A r \in R : ~Sc!Before(q, r)
      <3> TAKE r \in R
      <3>1. r[1] <= i /\ (r[1] = i => r[2] <= j)
        BY <2>2, <2>4
      <3>2. r[1] \in Nat /\ r[2] \in Nat /\ q[1] \in Nat /\ q[2] \in Nat
        BY <1>2
      <3> QED BY <2>5, <3>1, <3>2 DEF Sc!Before
    <2> QED BY <2>6
  <1>7. ASSUME NEW q \in R
        PROVE  /\ q \in Sc!Places(schema)
               /\ \A r \in Sc!Places(schema) :
                     Sc!RelationAt(schema, r) = Sc!RelationAt(schema, q) => r \in R
    BY DEF R, SameRelation
  <1>8. ASSUME NEW q \in R, \A r \in R : ~Sc!Before(r, q)
        PROVE  q \in Sc!FirstPlaces(schema)
    BY <1>7, <1>8 DEF Sc!FirstPlaces
  <1>9. ASSUME NEW q \in R, \A r \in R : ~Sc!Before(q, r)
        PROVE  q \in Sc!LastPlaces(schema)
    BY <1>7, <1>9 DEF Sc!LastPlaces
  <1> QED BY <1>5, <1>6, <1>8, <1>9 DEF R

(* Each of two ends sees the other one.                                     *)
LEMMA EndsSeeEachOther ==
  ASSUME NEW schema, OwnNames(schema), TwoEnds(schema),
         NEW p \in Sc!Places(schema), NEW q \in Sc!Places(schema), p # q,
         Sc!RelationAt(schema, p) = Sc!RelationAt(schema, q)
  PROVE  Sc!EndAt(schema, p) =
            [relation |-> Sc!RelationAt(schema, p),
             near |-> <<schema[p[1]].name, FieldAt(schema, p).name>>,
             far |-> <<schema[q[1]].name, FieldAt(schema, q).name>>]
  <1> DEFINE f == FieldAt(schema, p)
             g == FieldAt(schema, q)
             u == schema[q[1]]
             far == u.fields
             fits == {i \in DOMAIN far : /\ far[i] \in Sc!RelationFields(u)
                                         /\ far[i].relation = f.relation
                                         /\ far[i].name # f.name}
  <1>1. f.of = u.name /\ f.name # g.name /\ f.relation = g.relation
    BY DEF TwoEnds, Sc!RelationAt, FieldAt
  <1>2. /\ q[1] \in DOMAIN schema /\ q[2] \in DOMAIN far /\ q[2] \in Nat /\ u.model
        /\ g \in Sc!RelationFields(u) /\ q = <<q[1], q[2]>> /\ p = <<p[1], p[2]>>
        /\ DOMAIN schema = 1 .. Len(schema)
    BY PlacesAre
  <1>3. Sc!TypeOf(schema, f.of) = u
    <2>1. Sc!Types(schema) = {schema[i] : i \in DOMAIN schema}
      BY DEF Sc!Types, Sc!Range
    <2>2. u \in Sc!Types(schema) /\ u.name = f.of
      BY <1>1, <1>2, <2>1
    <2>3. \A t \in Sc!Types(schema) : t.name = f.of => t = u
      BY <1>1, <1>2, <2>1 DEF OwnNames
    <2> HIDE DEF u, f
    <2> QED BY <2>2, <2>3 DEF Sc!TypeOf
  <1>4. q[2] \in fits
    BY <1>1, <1>2 DEF FieldAt
  <1>5. ASSUME NEW i \in fits
        PROVE  i = q[2]
    <2>1. <<q[1], i>> \in Sc!Places(schema)
      BY <1>2, PlacesAre
    <2>2. Sc!RelationAt(schema, <<q[1], i>>) = Sc!RelationAt(schema, p)
      BY DEF Sc!RelationAt, FieldAt
    <2>3. <<q[1], i>> \in {p, q}
      BY <2>1, <2>2 DEF TwoEnds
    <2>4. <<q[1], i>> # p
      BY DEF FieldAt
    <2> QED BY <1>2, <2>3, <2>4
  <1>6. fits = {q[2]}
    BY <1>4, <1>5
  <1>7. (CHOOSE i \in fits : \A j \in fits : j <= i) = q[2]
    <2> HIDE DEF fits
    <2>1. q[2] <= q[2]
      BY <1>2
    <2> QED BY <1>6, <2>1
  <1>8. Sc!FarField(schema, schema[p[1]].name, f) = far[q[2]].name
    <2> DEFINE Fits(w) == {i \in DOMAIN w.fields : /\ w.fields[i] \in Sc!RelationFields(w)
                                                   /\ w.fields[i].relation = f.relation
                                                   /\ w.fields[i].name # f.name}
               Found(w) == IF Fits(w) = {} THEN None
                           ELSE w.fields[CHOOSE i \in Fits(w) : \A j \in Fits(w) : j <= i].name
    <2>1. Sc!FarField(schema, schema[p[1]].name, f) = Found(Sc!TypeOf(schema, f.of))
      BY Zenon DEF Sc!FarField
    <2>2. Found(u) = IF fits = {} THEN None
                     ELSE far[CHOOSE i \in fits : \A j \in fits : j <= i].name
      OBVIOUS
    <2> HIDE DEF fits, far, f, Found
    <2>3. Found(u) = far[q[2]].name
      BY <2>2, <1>6, <1>7
    <2> QED BY <1>3, <2>1, <2>3
  <1> QED BY <1>1, <1>8 DEF Sc!EndAt, Sc!Ends, Sc!RelationAt, FieldAt

(* The relation of an end, both its ends, and whether there are two.        *)
Shape(e) == [relation |-> e.relation, pair |-> {e.near, e.far}]

LEMMA ShapesAgree ==
  ASSUME NEW schema, OwnNames(schema), TwoEnds(schema),
         NEW p \in Sc!Places(schema), NEW q \in SameRelation(schema, p)
  PROVE  /\ Sc!EndAt(schema, p).relation = Sc!EndAt(schema, q).relation
         /\ Sc!EndAt(schema, p).far[2] = None <=> Sc!EndAt(schema, q).far[2] = None
         /\ Shape(Sc!EndAt(schema, p)) = Shape(Sc!EndAt(schema, q))
  <1>1. CASE p = q
    BY <1>1
  <1>2. CASE p # q
    <2>1. q \in Sc!Places(schema) /\ Sc!RelationAt(schema, p) = Sc!RelationAt(schema, q)
      BY DEF SameRelation
    <2> DEFINE a == <<schema[p[1]].name, FieldAt(schema, p).name>>
               b == <<schema[q[1]].name, FieldAt(schema, q).name>>
               r == Sc!RelationAt(schema, p)
    <2>2. Sc!EndAt(schema, p) = [relation |-> r, near |-> a, far |-> b]
      BY <1>2, <2>1, EndsSeeEachOther
    <2>3. Sc!EndAt(schema, q) = [relation |-> r, near |-> b, far |-> a]
      BY <1>2, <2>1, EndsSeeEachOther
    <2>4. a[2] # None /\ b[2] # None
      BY <2>1, PlacesAre DEF OwnNames, FieldAt
    <2> HIDE DEF a, b, r
    <2>5. {a, b} = {b, a}
      OBVIOUS
    <2> QED BY <2>2, <2>3, <2>4, <2>5 DEF Shape
  <1> QED BY <1>1, <1>2

(* Of every schema: what it declares is what is served.                     *)
THEOREM ConnectionsAreServed ==
  AnyRelations => ConnectMutationsServed
  <1> SUFFICES ASSUME AnyRelations PROVE ConnectMutationsServed
    OBVIOUS
  <1>1. PICK schema : /\ OwnNames(schema) /\ TwoEnds(schema)
                      /\ sample = [of |-> "relations", schema |-> schema]
    BY DEF AnyRelations
  <1> DEFINE ends(S) == {[relation |-> e.relation, pair |-> {e.near, e.far}] : e \in S}
             two(S) == {e \in S : e.far[2] # None}
             first == Sc!Declared(schema)
             last == Sc!ServedEnds(schema)
  <1>2. ASSUME NEW d \in first
        PROVE  \E e \in last : /\ d.relation = e.relation
                               /\ d.far[2] = None <=> e.far[2] = None
                               /\ Shape(d) = Shape(e)
    <2>1. PICK p \in Sc!FirstPlaces(schema) : d = Sc!EndAt(schema, p)
      BY DEF Sc!Declared
    <2>2. p \in Sc!Places(schema)
      BY DEF Sc!FirstPlaces
    <2>3. PICK q \in Sc!LastPlaces(schema) : q \in SameRelation(schema, p)
      BY <1>1, <2>2, FirstAndLast
    <2>4. Sc!EndAt(schema, q) \in last
      BY DEF Sc!ServedEnds
    <2> QED BY <1>1, <2>1, <2>2, <2>3, <2>4, ShapesAgree
  <1>3. ASSUME NEW e \in last
        PROVE  \E d \in first : /\ e.relation = d.relation
                                /\ e.far[2] = None <=> d.far[2] = None
                                /\ Shape(e) = Shape(d)
    <2>1. PICK p \in Sc!LastPlaces(schema) : e = Sc!EndAt(schema, p)
      BY DEF Sc!ServedEnds
    <2>2. p \in Sc!Places(schema)
      BY DEF Sc!LastPlaces
    <2>3. PICK q \in Sc!FirstPlaces(schema) : q \in SameRelation(schema, p)
      BY <1>1, <2>2, FirstAndLast
    <2>4. Sc!EndAt(schema, q) \in first
      BY DEF Sc!Declared
    <2> QED BY <1>1, <2>1, <2>2, <2>3, <2>4, ShapesAgree
  <1> HIDE DEF first, last
  <1>4. ends(two(first)) = ends(two(last))
    <2>1. \A S : ends(two(S)) = {Shape(e) : e \in two(S)}
      BY DEF Shape
    <2>2. {Shape(e) : e \in two(first)} = {Shape(e) : e \in two(last)}
      BY <1>2, <1>3
    <2> HIDE DEF ends, two
    <2> QED BY <2>1, <2>2
  <1>5. {e.relation : e \in first} = {e.relation : e \in last}
    BY <1>2, <1>3
  <1>6. Sc!Queries(schema) \cup Sc!Mutations(schema) = Sc!Resolvers(schema)
    BY DEF Sc!Queries, Sc!Mutations, Sc!Resolvers, Sc!ResolversFor, Sc!DeleteResolvers,
           Sc!QueryOps, Sc!MutationOps
  <1>7. sample.schema = schema
    BY <1>1
  <1> QED BY <1>4, <1>5, <1>6, <1>7, Zenon DEF ConnectMutationsServed, first, last

-----------------------------------------------------------------------------
(***************************************************************************)
(* Arrays of embedded objects or plain values: any array, any operation    *)
(* but the update of elements, and any input.                              *)
(***************************************************************************)
AnyArray ==
  \E Element, where, plain : \E array, arg \in Seq(Element), op \in Ar!Operations \ {"updateAll"} :
     sample = [of |-> "array", array |-> array, plain |-> plain,
               do |-> [op |-> op, arg |-> arg, where |-> where]]

(* What is freed, for what is left.                                         *)
Frees(array, freed, left) ==
  /\ Ar!Refs(array) \ Ar!Refs(left) \subseteq freed /\ freed \subseteq Ar!Refs(array)
  /\ Lone(array) => freed = Ar!Refs(array) \ Ar!Refs(left)

LEMMA RefsAre ==
  ASSUME NEW Element, NEW array \in Seq(Element)
  PROVE  Ar!Refs(array) = UNION {array[i].refs : i \in 1 .. Len(array)}
  <1>1. DOMAIN array = 1 .. Len(array)
    OBVIOUS
  <1>2. Ar!Range(array) = {array[i] : i \in 1 .. Len(array)}
    BY <1>1 DEF Ar!Range
  <1> QED BY <1>2 DEF Ar!Refs

LEMMA NothingRefers ==
  Ar!Refs(<<>>) = {}
  <1>1. DOMAIN <<>> = {}
    OBVIOUS
  <1>2. Ar!Range(<<>>) = {}
    BY <1>1 DEF Ar!Range
  <1> QED BY <1>2 DEF Ar!Refs

(* What is taken out at one end.                                            *)
LEMMA ShiftedFrees ==
  ASSUME NEW Element, NEW array \in Seq(Element), array # <<>>
  PROVE  Frees(array, array[1].refs, Tail(array))
  <1> DEFINE N == Len(array)
             rest == Tail(array)
  <1>1. N \in Nat /\ 1 \in 1 .. N /\ DOMAIN array = 1 .. N
    OBVIOUS
  <1>2. rest \in Seq(Element) /\ Len(rest) = N - 1 /\ \A i \in 1 .. N - 1 : rest[i] = array[i + 1]
    OBVIOUS
  <1> HIDE DEF N, rest
  <1>3. Ar!Refs(array) = UNION {array[i].refs : i \in 1 .. N}
    BY RefsAre DEF N
  <1>4. Ar!Refs(rest) = UNION {rest[i].refs : i \in 1 .. N - 1}
    BY <1>2, RefsAre
  <1>5. \A i \in 1 .. N - 1 : i + 1 \in 1 .. N /\ i + 1 # 1
    BY <1>1
  <1>6. \A i \in 1 .. N : i # 1 => i - 1 \in 1 .. N - 1 /\ (i - 1) + 1 = i
    BY <1>1
  <1>7. \A r : r \in Ar!Refs(rest) <=> \E i \in 1 .. N : i # 1 /\ r \in array[i].refs
    <2> TAKE r
    <2>1. ASSUME r \in Ar!Refs(rest)
          PROVE  \E i \in 1 .. N : i # 1 /\ r \in array[i].refs
      <3>1. PICK i \in 1 .. N - 1 : r \in rest[i].refs
        BY <1>4, <2>1
      <3> QED BY <1>2, <1>5, <3>1
    <2>2. ASSUME NEW i \in 1 .. N, i # 1, r \in array[i].refs
          PROVE  r \in Ar!Refs(rest)
      <3>1. i - 1 \in 1 .. N - 1 /\ rest[i - 1] = array[i]
        BY <1>2, <1>6, <2>2
      <3> QED BY <1>4, <2>2, <3>1
    <2> QED BY <2>1, <2>2
  <1>8. Lone(array) => \A i \in 1 .. N : i # 1 => array[i].refs \cap array[1].refs = {}
    BY <1>1 DEF Lone
  <1> QED BY <1>1, <1>3, <1>7, <1>8 DEF rest, Frees

LEMMA PoppedFrees ==
  ASSUME NEW Element, NEW array \in Seq(Element), array # <<>>
  PROVE  Frees(array, array[Len(array)].refs, Ar!Front(array))
  <1> DEFINE N == Len(array)
             rest == Ar!Front(array)
  <1>1. N \in Nat /\ N \in 1 .. N /\ DOMAIN array = 1 .. N
    OBVIOUS
  <1>2. rest \in Seq(Element) /\ Len(rest) = N - 1 /\ \A i \in 1 .. N - 1 : rest[i] = array[i]
    <2>1. \A i \in 1 .. N - 1 : array[i] \in Element
      BY <1>1
    <2>2. N - 1 \in Nat /\ N \in Int
      BY <1>1
    <2>3. rest = SubSeq(array, 1, N - 1)
      BY DEF Ar!Front
    <2> HIDE DEF rest, N
    <2>4. /\ SubSeq(array, 1, N - 1) \in Seq(Element)
          /\ Len(SubSeq(array, 1, N - 1)) = IF 1 <= N - 1 THEN N - 1 - 1 + 1 ELSE 0
          /\ \A i \in 1 .. N - 1 - 1 + 1 : SubSeq(array, 1, N - 1)[i] = array[1 + i - 1]
      BY <2>1, <2>2, SubSeqProperties
    <2> QED BY <2>2, <2>3, <2>4
  <1> HIDE DEF N, rest
  <1>3. Ar!Refs(array) = UNION {array[i].refs : i \in 1 .. N}
    BY RefsAre DEF N
  <1>4. Ar!Refs(rest) = UNION {rest[i].refs : i \in 1 .. N - 1}
    BY <1>2, RefsAre
  <1>5. \A i : i \in 1 .. N - 1 <=> i \in 1 .. N /\ i # N
    BY <1>1
  <1>6. Lone(array) => \A i \in 1 .. N : i # N => array[i].refs \cap array[N].refs = {}
    BY <1>1 DEF Lone
  <1>7. \A r : r \in Ar!Refs(rest) <=> \E i \in 1 .. N : i # N /\ r \in array[i].refs
    BY <1>2, <1>4, <1>5
  <1>8. Frees(array, array[N].refs, rest)
    BY <1>1, <1>3, <1>6, <1>7 DEF Frees
  <1> QED BY <1>8 DEF rest, N

LEMMA RefsOfAppended ==
  ASSUME NEW Element, NEW d \in Seq(Element), NEW e \in Element
  PROVE  Append(d, e) \in Seq(Element) /\ Ar!Refs(Append(d, e)) = Ar!Refs(d) \cup e.refs
  <1> DEFINE N == Len(d)
             a == Append(d, e)
  <1>1. N \in Nat /\ N + 1 \in 1 .. N + 1 /\ \A i \in 1 .. N : i \in 1 .. N + 1
    OBVIOUS
  <1>2. /\ a \in Seq(Element) /\ Len(a) = N + 1
        /\ a[N + 1] = e /\ \A i \in 1 .. N : a[i] = d[i]
    OBVIOUS
  <1> HIDE DEF N, a
  <1>3. Ar!Refs(a) = UNION {a[i].refs : i \in 1 .. N + 1}
    BY <1>2, RefsAre
  <1>4. Ar!Refs(d) = UNION {d[i].refs : i \in 1 .. N}
    BY RefsAre DEF N
  <1>5. \A i \in 1 .. N + 1 : i \in 1 .. N \/ i = N + 1
    BY <1>1
  <1>6. \A r : r \in Ar!Refs(a) <=> r \in Ar!Refs(d) \cup e.refs
    <2> TAKE r
    <2>1. ASSUME r \in Ar!Refs(a) PROVE r \in Ar!Refs(d) \cup e.refs
      <3>1. PICK i \in 1 .. N + 1 : r \in a[i].refs
        BY <1>3, <2>1
      <3> QED BY <1>2, <1>4, <1>5, <3>1
    <2>2. ASSUME r \in e.refs PROVE r \in Ar!Refs(a)
      BY <1>1, <1>2, <1>3, <2>2
    <2>3. ASSUME r \in Ar!Refs(d) PROVE r \in Ar!Refs(a)
      <3>1. PICK i \in 1 .. N : r \in d[i].refs
        BY <1>4, <2>3
      <3> QED BY <1>1, <1>2, <1>3, <3>1
    <2> QED BY <2>1, <2>2, <2>3
  <1> QED BY <1>2, <1>6 DEF a

(* What is left, element by element.                                        *)
LeftOver(rest, Element, array, where) ==
  /\ rest \in [0 .. Len(array) -> Seq(Element)]
  /\ rest[0] = <<>>
  /\ \A n \in 1 .. Len(array) :
        rest[n] = IF Ar!Fits(array[n], where) THEN rest[n - 1] ELSE Append(rest[n - 1], array[n])

LEMMA PulledByElement ==
  ASSUME NEW Element, NEW array \in Seq(Element), NEW where
  PROVE  \E rest : /\ LeftOver(rest, Element, array, where)
                   /\ Ar!Pulled(array, where).to = rest[Len(array)]
  <1> DEFINE N == Len(array)
             V == Seq(Element)
             After(d, n) == IF Ar!Fits(array[n], where) THEN d ELSE Append(d, array[n])
             Step == [p \in (1 .. N) \X V |-> After(p[2], p[1])]
             Is(f) == f = [i \in 0 .. N |-> IF i = 0 THEN <<>> ELSE After(f[i - 1], i)]
  <1>1. N \in Nat /\ <<>> \in V
    OBVIOUS
  <1>2. ASSUME NEW n \in 1 .. N, NEW d \in V
        PROVE  After(d, n) \in V
    <2>1. array[n] \in Element
      OBVIOUS
    <2> QED BY <2>1
  <1>3. Step \in [(1 .. N) \X V -> V]
    BY <1>2
  <1> HIDE DEF After, N, V
  <1>4. \E f : Follows(f, <<>>, Step, N, V)
    <2> HIDE DEF Step
    <2> QED BY <1>1, <1>3, Stepwise
  <1>5. PICK f : Follows(f, <<>>, Step, N, V)
    BY <1>4
  <1>6. \A i \in 1 .. N : f[i] = After(f[i - 1], i)
    <2> TAKE i \in 1 .. N
    <2>1. i - 1 \in 0 .. N /\ <<i, f[i - 1]>> \in (1 .. N) \X V
      BY <1>1, <1>5 DEF Follows
    <2> QED BY <1>5, <2>1 DEF Follows
  <1> HIDE DEF Step
  <1>7. f = [i \in 0 .. N |-> IF i = 0 THEN <<>> ELSE After(f[i - 1], i)]
    <2>1. \A i \in 0 .. N : f[i] = IF i = 0 THEN <<>> ELSE After(f[i - 1], i)
      BY <1>1, <1>5, <1>6 DEF Follows
    <2>2. f \in [0 .. N -> V]
      BY <1>5 DEF Follows
    <2> QED BY <2>1, <2>2
  <1> DEFINE rest == CHOOSE g : Is(g)
  <1>8. Is(rest)
    BY <1>7
  <1>9. Ar!Pulled(array, where).to = rest[N]
    <2>1. Ar!Pulled(array, where) =
             [to |-> rest[N], freed |-> UNION {e.refs : e \in {x \in Ar!Range(array) :
                                                                  Ar!Fits(x, where)}}]
      BY Zenon DEF Ar!Pulled, After, N
    <2> QED BY <2>1
  <1> HIDE DEF rest
  <1>10. rest[0] = <<>> /\ \A i \in 1 .. N : rest[i] = After(rest[i - 1], i)
    BY <1>1, <1>8
  <1>11. rest \in [0 .. N -> V]
    <2> DEFINE S == {i \in 0 .. N : rest[i] \in V}
    <2>1. 0 \in S
      BY <1>1, <1>10
    <2>2. \A i \in 1 .. N : i - 1 \in S => i \in S
      BY <1>1, <1>2, <1>10
    <2>3. 0 .. N \subseteq S
      BY <1>1, <2>1, <2>2, InductUpto
    <2> QED BY <1>8, <2>3
  <1> QED BY <1>9, <1>10, <1>11 DEF LeftOver, After, N, V

LEMMA PulledFrees ==
  ASSUME NEW Element, NEW array \in Seq(Element), NEW where
  PROVE  Frees(array, Ar!Pulled(array, where).freed, Ar!Pulled(array, where).to)
  <1>1. PICK rest : /\ LeftOver(rest, Element, array, where)
                    /\ Ar!Pulled(array, where).to = rest[Len(array)]
    BY PulledByElement
  <1> DEFINE N == Len(array)
             Goes(i) == Ar!Fits(array[i], where)
             Left(n) == UNION {array[i].refs : i \in {k \in 1 .. n : ~Goes(k)}}
             S == {n \in 0 .. N : Ar!Refs(rest[n]) = Left(n)}
  <1>2. /\ N \in Nat /\ DOMAIN array = 1 .. N
        /\ Ar!Refs(array) = UNION {array[i].refs : i \in 1 .. N}
    BY RefsAre
  <1>3. 0 \in S
    <2>1. Ar!Refs(<<>>) = {}
      BY NothingRefers
    <2>2. 1 .. 0 = {}
      OBVIOUS
    <2>3. Left(0) = {}
      BY <2>2
    <2> QED BY <1>1, <1>2, <2>1, <2>3 DEF LeftOver
  <1>4. ASSUME NEW n \in 1 .. N, n - 1 \in S
        PROVE  n \in S
    <2>1. n - 1 \in 0 .. N /\ n \in 0 .. N /\ n \in Nat
      BY <1>2
    <2>2. rest[n - 1] \in Seq(Element) /\ array[n] \in Element
      BY <1>1, <2>1 DEF LeftOver
    <2>3. rest[n] = IF Goes(n) THEN rest[n - 1] ELSE Append(rest[n - 1], array[n])
      BY <1>1 DEF LeftOver
    <2>4. \A i : i \in 1 .. n <=> i \in 1 .. n - 1 \/ i = n
      BY <2>1
    <2> HIDE DEF Goes
    <2>5. CASE Goes(n)
      <3>1. {k \in 1 .. n : ~Goes(k)} = {k \in 1 .. n - 1 : ~Goes(k)}
        BY <2>4, <2>5
      <3>2. Left(n) = Left(n - 1)
        BY <3>1, Zenon
      <3> HIDE DEF Left
      <3> QED BY <1>4, <2>1, <2>3, <2>5, <3>2
    <2>6. CASE ~Goes(n)
      <3>1. {k \in 1 .. n : ~Goes(k)} = {k \in 1 .. n - 1 : ~Goes(k)} \cup {n}
        BY <2>4, <2>6
      <3>2. Left(n) = Left(n - 1) \cup array[n].refs
        BY <3>1
      <3>3. Ar!Refs(rest[n]) = Ar!Refs(rest[n - 1]) \cup array[n].refs
        BY <2>2, <2>3, <2>6, RefsOfAppended
      <3> HIDE DEF Left
      <3> QED BY <1>4, <2>1, <3>2, <3>3
    <2> QED BY <2>5, <2>6
  <1>5. Ar!Refs(rest[N]) = Left(N)
    <2>1. N \in S
      <3> HIDE DEF S
      <3>1. 0 .. N \subseteq S
        BY <1>2, <1>3, <1>4, InductUpto
      <3> QED BY <1>2, <3>1
    <2> QED BY <2>1
  <1>6. Ar!Pulled(array, where).freed = UNION {array[i].refs : i \in {k \in 1 .. N : Goes(k)}}
    <2>1. Ar!Range(array) = {array[i] : i \in 1 .. N}
      BY <1>2 DEF Ar!Range
    <2>2. Ar!Pulled(array, where).freed =
             UNION {e.refs : e \in {x \in Ar!Range(array) : Ar!Fits(x, where)}}
      BY DEF Ar!Pulled
    <2>3. \A r : r \in UNION {e.refs : e \in {x \in Ar!Range(array) : Ar!Fits(x, where)}}
                    <=> \E i \in 1 .. N : Goes(i) /\ r \in array[i].refs
      BY <2>1
    <2> HIDE DEF Goes
    <2> QED BY <2>2, <2>3
  <1>7. Lone(array) => \A i, j \in 1 .. N :
                          Goes(i) /\ ~Goes(j) => array[i].refs \cap array[j].refs = {}
    BY <1>2 DEF Lone
  <1> DEFINE Whole == UNION {array[i].refs : i \in 1 .. N}
             Freed == UNION {array[i].refs : i \in {k \in 1 .. N : Goes(k)}}
  <1> HIDE DEF Goes, N
  <1>8. Whole \ Left(N) \subseteq Freed /\ Freed \subseteq Whole
    OBVIOUS
  <1>9. Lone(array) => Freed = Whole \ Left(N)
    BY <1>7, <1>8
  <1> HIDE DEF Left, Freed, Whole
  <1>10. /\ Ar!Refs(array) = Whole
         /\ Ar!Refs(Ar!Pulled(array, where).to) = Left(N)
         /\ Ar!Pulled(array, where).freed = Freed
    BY <1>1, <1>2, <1>5, <1>6 DEF N, Whole, Freed
  <1> QED BY <1>8, <1>9, <1>10 DEF Frees

LEMMA RefsOfBoth ==
  ASSUME NEW Element, NEW array \in Seq(Element), NEW more \in Seq(Element)
  PROVE  Ar!Refs(array) \subseteq Ar!Refs(array \o more)
  <1> DEFINE N == Len(array)
             M == Len(more)
             both == array \o more
  <1>1. /\ both \in Seq(Element) /\ Len(both) = N + M /\ N \in Nat /\ M \in Nat
        /\ \A i \in 1 .. N : both[i] = array[i]
    OBVIOUS
  <1> HIDE DEF both, N, M
  <1>2. Ar!Refs(both) = UNION {both[i].refs : i \in 1 .. N + M}
    BY <1>1, RefsAre
  <1>3. Ar!Refs(array) = UNION {array[i].refs : i \in 1 .. N}
    BY RefsAre DEF N
  <1>4. \A i \in 1 .. N : i \in 1 .. N + M
    BY <1>1
  <1> QED BY <1>1, <1>2, <1>3, <1>4 DEF both

(* One key among the operations is one operation.                           *)
LEMMA OneOperation ==
  ASSUME NEW op \in Ar!Operations
  PROVE  Ar!KeysVerdict({op}) = "operation"
  <1>1. Ar!Cardinality({op}) = 1
    <2>1. Cardinality({op}) = 1
      BY FS_Singleton
    <2>2. Ar!Cardinality({op}) = Cardinality({op})
      BY Zenon DEF Cardinality, Ar!Cardinality
    <2> QED BY <2>1, <2>2
  <1>2. {op} \cap Ar!Pair = {} /\ {op} # Ar!Pair /\ {op} \subseteq Ar!Operations
    BY DEF Ar!Pair, Ar!Operations
  <1> QED BY <1>1, <1>2 DEF Ar!KeysVerdict

(* Of every array and operation: the records to which the new array no      *)
(* longer refers are disconnected; where no two elements refer to one       *)
(* record and the array is not replaced as a whole, no others               *)
(* (arrayOperationUtil.js).                                                 *)
THEOREM RemovalsDisconnect ==
  AnyArray => RemovedAreDisconnected
  <1>1. SUFFICES ASSUME NEW Element, NEW where, NEW plain,
                        NEW array \in Seq(Element), NEW arg \in Seq(Element),
                        NEW op \in Ar!Operations \ {"updateAll"},
                        sample = [of |-> "array", array |-> array, plain |-> plain,
                                  do |-> [op |-> op, arg |-> arg, where |-> where]],
                        ~Ar!Fails(sample.array, sample.plain, sample.do)
                 PROVE  RemovedAreDisconnected
    BY Zenon DEF AnyArray, RemovedAreDisconnected
  <1> DEFINE do == [op |-> op, arg |-> arg, where |-> where]
             done == Ar!Done(array, do)
             Right(d) == Frees(array, d.freed, d.to)
  <1>3. do.op = op /\ do.arg = arg /\ do.where = where
    OBVIOUS
  <1>4. sample.array = array /\ sample.do = do
    BY <1>1
  <1>5. op \in {"push", "pushMany", "replace", "popFront", "popBack", "popAll", "pop"}
    <2>1. op # "pushToSet"
      BY <1>1, <1>3, <1>4 DEF Ar!Fails
    <2> QED BY <2>1 DEF Ar!Operations
  <1> HIDE DEF do
  <1>6. Right(Ar!Kept(array))
    BY DEF Ar!Kept, Frees
  <1>7. ASSUME NEW more \in Seq(Element)
        PROVE  Right(Ar!Kept(array \o more))
    BY RefsOfBoth DEF Ar!Kept, Frees
  <1>8. (op # "replace" => Right(done)) /\ (op = "replace" => done.freed = Ar!Refs(array))
    <2>1. CASE op \in {"popFront", "popBack", "popAll"} /\ arg = <<>>
      <3>1. done = Ar!Kept(array)
        BY <1>3, <2>1 DEF Ar!Done
      <3> QED BY <1>6, <2>1, <3>1
    <2>2. CASE op \in {"push", "pushMany"}
      <3>1. done = Ar!Kept(array \o arg)
        BY <1>3, <2>2 DEF Ar!Done
      <3> QED BY <1>7, <2>2, <3>1
    <2>4. CASE op = "replace"
      <3>1. done = [to |-> arg, freed |-> Ar!Refs(array)]
        BY <1>3, <2>4 DEF Ar!Done
      <3> QED BY <2>4, <3>1
    <2>5. CASE op = "popFront" /\ arg # <<>>
      <3>1. done = Ar!Shifted(array)
        BY <1>3, <2>5 DEF Ar!Done
      <3>2. array # <<>>
        BY <1>1, <1>3, <1>4, <2>5 DEF Ar!Fails
      <3> QED BY <2>5, <3>1, <3>2, ShiftedFrees DEF Ar!Shifted
    <2>6. CASE op = "popBack" /\ arg # <<>>
      <3>1. done = Ar!Popped(array)
        BY <1>3, <2>6 DEF Ar!Done
      <3>2. array # <<>>
        BY <1>1, <1>3, <1>4, <2>6 DEF Ar!Fails
      <3> QED BY <2>6, <3>1, <3>2, PoppedFrees DEF Ar!Popped
    <2>7. CASE op = "popAll" /\ arg # <<>>
      <3>1. done = [to |-> <<>>, freed |-> Ar!Refs(array)]
        BY <1>3, <2>7 DEF Ar!Done
      <3> QED BY <2>7, <3>1, NothingRefers DEF Frees
    <2>8. CASE op = "pop"
      <3>1. done = Ar!Pulled(array, where)
        BY <1>3, <2>8 DEF Ar!Done
      <3> QED BY <2>8, <3>1, PulledFrees
    <2> QED BY <1>5, <2>1, <2>2, <2>4, <2>5, <2>6, <2>7, <2>8
  <1>9. Ar!KeysVerdict({op}) = "operation"
    BY OneOperation
  <1>10. Ar!Refs(array) \ Ar!Refs(done.to) \subseteq done.freed /\ done.freed \subseteq Ar!Refs(array)
    BY <1>8 DEF Frees
  <1> HIDE DEF done
  <1> QED BY <1>3, <1>4, <1>8, <1>9, <1>10, Zenon DEF RemovedAreDisconnected, Frees, done

-----------------------------------------------------------------------------
(***************************************************************************)
(* Fields: any type, of any number of fields, of which no name ends that   *)
(* of an earlier one, and any wrappers but lists of lists.  The id is no    *)
(* column; of the marks, auto and relationalMeta are left out, and a        *)
(* default of an embedded type, which the generator refuses.                *)
(***************************************************************************)
Wrappers == {<<>>, <<"some">>, <<"list">>, <<"some", "list">>, <<"list", "some">>,
             <<"some", "list", "some">>}

FieldsOf(Letter, Of, Relation, Mark) ==
  [name : Seq(Letter), wraps : Wrappers, of : Of, relation : Relation, remote : Relation,
   marks : SUBSET Mark]

NamesApart(fields) ==
  \A i, j \in DOMAIN fields : i < j => ~Sc!IsSuffix(fields[j].name, fields[i].name)

Storable(f) ==
  /\ f.name # "id" /\ f.marks \cap {"auto", "relationalMeta"} = {}
  /\ f.of \in Embedded => "defaultValue" \notin f.marks

AnyFields ==
  \E Letter, Of, Relation, Mark : \E fields \in Seq(FieldsOf(Letter, Of, Relation, Mark)) :
    \E name, model, apps, ops, events :
     /\ NamesApart(fields)
     /\ \A i \in DOMAIN fields : Storable(fields[i])
     /\ sample = [of |-> "fields",
                  type |-> [name |-> name, model |-> model, apps |-> apps, ops |-> ops,
                            events |-> events, fields |-> fields]]

LEMMA LeastIs ==
  ASSUME NEW T \in SUBSET Nat, NEW n \in T, \A i \in T : n <= i
  PROVE  (CHOOSE i \in T : \A j \in T : i <= j) = n
  <1>1. \A m \in T : (\A j \in T : m <= j) => m = n
    OBVIOUS
  <1> QED BY <1>1

LEMMA EndsItself ==
  ASSUME NEW Letter, NEW name \in Seq(Letter)
  PROVE  Sc!IsSuffix(name, name)
  <1> DEFINE r == Sc!Reverse(name)
  <1>1. r \in Seq(Letter)
    <2>1. Len(name) \in Nat /\ \A i \in 1 .. Len(name) :
             (Len(name) - i) + 1 \in 1 .. Len(name)
      OBVIOUS
    <2>2. \A i \in 1 .. Len(name) : name[(Len(name) - i) + 1] \in Letter
      BY <2>1
    <2> QED BY <2>1, <2>2 DEF Sc!Reverse
  <1> HIDE DEF r
  <1>2. Len(r) <= Len(r)
    BY <1>1
  <1> QED BY <1>2 DEF Sc!IsSuffix, Sc!IsPrefix, r

(* A relation field is found where it is, and its text ends with it.        *)
LEMMA ReplacedInPlace ==
  ASSUME NEW Letter, NEW Of, NEW Relation, NEW Mark,
         NEW fields \in Seq(FieldsOf(Letter, Of, Relation, Mark)), NamesApart(fields),
         NEW n \in 1 .. Len(fields), fields[n].relation # None
  PROVE  Sc!Replaced(fields, fields[n]) = fields
  <1> DEFINE F == FieldsOf(Letter, Of, Relation, Mark)
             f == fields[n]
             N == Len(fields)
  <1>1. N \in Nat /\ DOMAIN fields = 1 .. N /\ f \in F /\ fields \in Seq(F) /\ n \in Nat
    OBVIOUS
  <1>2. f.name \in Seq(Letter)
    BY <1>1 DEF FieldsOf
  <1>3. Sc!Hit(fields, f.name) = n
    <2> DEFINE hits == {i \in DOMAIN fields : Sc!IsSuffix(f.name, fields[i].name)}
    <2>1. n \in hits
      BY <1>1, <1>2, EndsItself
    <2>2. \A i \in hits : n <= i
      BY <1>1 DEF NamesApart
    <2>3. hits \in SUBSET Nat
      BY <1>1
    <2>4. Sc!Hit(fields, f.name) = CHOOSE i \in hits : \A j \in hits : i <= j
      BY Zenon DEF Sc!Hit
    <2> HIDE DEF hits
    <2> QED BY <2>1, <2>2, <2>3, <2>4, LeastIs
  <1>4. Sc!NextDirected(fields, n) = n
    <2> DEFINE ends == {i \in n .. Len(fields) : Sc!Directed(fields[i])}
    <2>1. n \in ends
      BY <1>1 DEF Sc!Directed
    <2>2. ends \in SUBSET Nat /\ \A i \in ends : n <= i
      BY <1>1
    <2>3. Sc!NextDirected(fields, n) = CHOOSE i \in ends : \A j \in ends : i <= j
      BY Zenon DEF Sc!NextDirected
    <2> HIDE DEF ends
    <2> QED BY <2>1, <2>2, <2>3, LeastIs
  <1>5. [f EXCEPT !.name = f.name, !.wraps = f.wraps, !.of = f.of] = f
    BY <1>1 DEF FieldsOf
  <1>6. Sc!Spliced(fields, f, n, n) = SubSeq(fields, 1, n - 1) \o <<f>> \o SubSeq(fields, n + 1, N)
    BY <1>5 DEF Sc!Spliced
  <1> HIDE DEF F
  <1>7. SubSeq(fields, 1, n) = SubSeq(fields, 1, n - 1) \o <<f>>
    <2>1. 1 \in 1 .. Len(fields) /\ n \in 1 .. Len(fields)
      BY <1>1
    <2> QED BY <1>1, <2>1, SubSeqRecursiveSecond
  <1>8. SubSeq(fields, 1, n) \o SubSeq(fields, n + 1, N) = SubSeq(fields, 1, N)
    <2>1. 1 \in 1 .. Len(fields) + 1 /\ n \in 1 - 1 .. Len(fields) /\ N \in n .. Len(fields)
      BY <1>1
    <2> QED BY <1>1, <2>1, ConcatAdjacentSubSeq
  <1>9. SubSeq(fields, 1, N) = fields
    BY <1>1, SubSeqFull
  <1> HIDE DEF f, N
  <1> QED BY <1>3, <1>4, <1>6, <1>7, <1>8, <1>9 DEF Sc!Replaced, f

LEMMA TextIsKept ==
  ASSUME NEW Letter, NEW Of, NEW Relation, NEW Mark, NEW t,
         t.fields \in Seq(FieldsOf(Letter, Of, Relation, Mark)), NamesApart(t.fields)
  PROVE  Sc!WithArguments(t) = t.fields
  <1> DEFINE fields == t.fields
             N == Len(fields)
             After(x, i) == IF fields[i] \in Sc!RelationFields(t) THEN Sc!Replaced(x, fields[i])
                            ELSE x
             Is(g) == g = [i \in 0 .. N |-> IF i = 0 THEN fields ELSE After(g[i - 1], i)]
  <1>1. N \in Nat
    OBVIOUS
  <1>2. \A i \in 1 .. N : After(fields, i) = fields
    <2> TAKE i \in 1 .. N
    <2>1. fields[i] \in Sc!RelationFields(t) => fields[i].relation # None
      BY DEF Sc!RelationFields
    <2>2. fields[i].relation # None => Sc!Replaced(fields, fields[i]) = fields
      BY ReplacedInPlace
    <2> QED BY <2>1, <2>2
  <1> DEFINE kept == [i \in 0 .. N |-> fields]
  <1>3. Is(kept)
    <2> HIDE DEF After, fields, N
    <2>1. \A i \in 0 .. N : i # 0 => i - 1 \in 0 .. N /\ i \in 1 .. N
      BY <1>1
    <2>2. \A i \in 0 .. N : kept[i] = IF i = 0 THEN fields ELSE After(kept[i - 1], i)
      BY <1>2, <2>1
    <2> QED BY <2>2
  <1> HIDE DEF kept
  <1> DEFINE text == CHOOSE g : Is(g)
  <1>4. Is(text)
    <2>1. \E g : Is(g)
      BY <1>3
    <2> HIDE DEF Is
    <2> QED BY <2>1
  <1>5. Sc!WithArguments(t) = text[N]
    BY Zenon DEF Sc!WithArguments
  <1> HIDE DEF text, After, N, fields
  <1>6. text[0] = fields /\ \A i \in 1 .. N : text[i] = After(text[i - 1], i)
    BY <1>1, <1>4
  <1>7. text[N] = fields
    <2> DEFINE S == {i \in 0 .. N : text[i] = fields}
    <2>1. 0 \in S
      BY <1>1, <1>6
    <2>2. \A i \in 1 .. N : i - 1 \in S => i \in S
      BY <1>1, <1>2, <1>6
    <2>3. N \in S
      <3> HIDE DEF S
      <3>1. 0 .. N \subseteq S
        BY <1>1, <2>1, <2>2, InductUpto
      <3> QED BY <1>1, <3>1
    <2> QED BY <2>3
  <1> QED BY <1>5, <1>7 DEF fields

(* How the wrappers of a field are read.                                    *)
LEMMA WrappersRead ==
  ASSUME NEW f, f.wraps \in Wrappers
  PROVE  /\ Sc!IsList(f) <=> f.wraps \notin {<<>>, <<"some">>}
         /\ Sc!IsNonNull(f) <=>
               f.wraps \in {<<"some">>, <<"some", "list">>, <<"some", "list", "some">>}
  <1>1. CASE f.wraps = <<>>
    <2>1. DOMAIN f.wraps = {}
      BY <1>1
    <2> QED BY <1>1, <2>1 DEF Sc!IsList, Sc!IsNonNull, Sc!Range
  <1>2. CASE f.wraps = <<"some">>
    <2>1. DOMAIN f.wraps = {1} /\ f.wraps[1] = "some"
      BY <1>2
    <2> QED BY <1>2, <2>1 DEF Sc!IsList, Sc!IsNonNull, Sc!Range, Sc!BeforeList
  <1>3. CASE f.wraps = <<"list">>
    <2>1. DOMAIN f.wraps = {1} /\ f.wraps[1] = "list"
      BY <1>3
    <2> QED BY <1>3, <2>1 DEF Sc!IsList, Sc!IsNonNull, Sc!Range
  <1>4. CASE f.wraps = <<"some", "list">>
    <2>1. DOMAIN f.wraps = {1, 2} /\ f.wraps[1] = "some" /\ f.wraps[2] = "list"
      BY <1>4
    <2> QED BY <1>4, <2>1 DEF Sc!IsList, Sc!IsNonNull, Sc!Range, Sc!BeforeList
  <1>5. CASE f.wraps = <<"list", "some">>
    <2>1. DOMAIN f.wraps = {1, 2} /\ f.wraps[1] = "list" /\ f.wraps[2] = "some"
      BY <1>5
    <2>2. \A i \in DOMAIN f.wraps : f.wraps[i] = "some" => i = 2
      BY <2>1
    <2>3. ~Sc!BeforeList(f, 2)
      BY <2>1 DEF Sc!BeforeList
    <2> QED BY <1>5, <2>1, <2>2, <2>3 DEF Sc!IsList, Sc!IsNonNull, Sc!Range
  <1>6. CASE f.wraps = <<"some", "list", "some">>
    <2>1. DOMAIN f.wraps = {1, 2, 3} /\ f.wraps[1] = "some" /\ f.wraps[2] = "list"
      BY <1>6
    <2> QED BY <1>6, <2>1 DEF Sc!IsList, Sc!IsNonNull, Sc!Range, Sc!BeforeList
  <1> QED BY <1>1, <1>2, <1>3, <1>4, <1>5, <1>6 DEF Wrappers

(* How a field that is no relation is stored.                               *)
LEMMA PlainFieldsStored ==
  ASSUME NEW f, f.relation = None, f.wraps \in Wrappers, Storable(f)
  PROVE  LET stored == Sc!MongoField(Enums, Embedded, f)
             column == Sc!SqlColumn(f)
             named == f.of \in Enums \cup Embedded
         IN /\ column.list = stored.list /\ stored.list = Sc!IsList(f)
            /\ stored.is.required <=> ~named /\ column.required
            /\ stored.is.unique <=> ~named /\ column.unique
            /\ ~Sc!IsList(f) => /\ column.default <=> stored.default
                                /\ column.required <=> Sc!IsNonNull(f)
                                /\ column.unique <=> Sc!Unique(f)
                                /\ column.default <=> "defaultValue" \in f.marks
  <1> DEFINE stored == Sc!MongoField(Enums, Embedded, f)
             column == Sc!SqlColumn(f)
             def == Sc!Definition(f)
             named == f.of \in Enums \cup Embedded
             list == Sc!IsList(f)
             filled == "defaultValue" \in f.marks
             some == IF list THEN Sc!ListIsNonNull(f) ELSE Sc!IsNonNull(f)
             own == ~list /\ Sc!Unique(f)
  <1>1. /\ def.list = list /\ def.type = Sc!Stores(f)
        /\ def.is.required <=> some
        /\ def.is.unique <=> own
        /\ def.default <=> filled
    BY DEF Sc!Definition, Sc!Constraints
  <1>2. /\ column.list = def.list /\ (column.required <=> def.is.required)
        /\ column.unique <=> def.is.unique
        /\ column.default <=> def.default /\ ~def.list
    BY DEF Sc!SqlColumn
  <1>3. /\ def.type \in Enums <=> f.of \in Enums
        /\ def.type \in Embedded <=> f.of \in Embedded
    BY <1>1 DEF Sc!Stores, Enums, Embedded
  <1>4. /\ stored.list = def.list
        /\ stored.is.required <=> ~named /\ def.is.required
        /\ stored.is.unique <=> ~named /\ def.is.unique
        /\ ~list => (stored.default <=> filled)
    <2>1. CASE f.of \in Enums
      <3>1. def.type \in Enums /\ def.type \notin Embedded
        BY <1>3, <2>1 DEF Enums, Embedded
      <3>2. /\ stored.list = def.list /\ ~stored.is.required /\ ~stored.is.unique
            /\ stored.default = (def.default /\ ~def.list)
        <4> DEFINE bare == [def EXCEPT !.is = [required |-> FALSE, unique |-> FALSE],
                                       !.index = FALSE]
        <4>1. stored = [bare EXCEPT !.type = "String", !.default = def.default /\ ~def.list]
          <5> HIDE DEF def
          <5> QED BY <3>1 DEF Sc!MongoField, def
        <4>2. /\ DOMAIN bare = {"list", "type", "is", "default", "index"}
              /\ bare.list = def.list /\ bare.is = [required |-> FALSE, unique |-> FALSE]
          BY DEF Sc!Definition
        <4> HIDE DEF bare, stored, def
        <4> QED BY <4>1, <4>2
      <3> HIDE DEF stored, column, def, list, filled, some, own
      <3> QED BY <1>1, <2>1, <3>2
    <2>2. CASE f.of \in Embedded
      <3>1. def.type \in Embedded /\ def.type \notin Enums
        BY <1>3, <2>2 DEF Enums, Embedded
      <3>2. stored.list = def.list /\ ~stored.is.required /\ ~stored.is.unique /\ ~stored.default
        BY <3>1 DEF Sc!MongoField, Sc!Definition
      <3>3. ~filled
        BY <2>2 DEF Storable
      <3> HIDE DEF stored, column, def, list, filled, some, own
      <3> QED BY <1>1, <2>2, <3>2, <3>3
    <2>3. CASE ~named
      <3>1. stored = def
        BY <1>3, <2>3 DEF Sc!MongoField
      <3> HIDE DEF stored, column, def, list, filled, some, own, named
      <3>2. /\ stored.list = def.list /\ stored.is = def.is /\ stored.default = def.default
        BY <3>1
      <3>3. /\ stored.is.required <=> def.is.required
            /\ stored.is.unique <=> def.is.unique
            /\ stored.default <=> filled
        BY <1>1, <3>2
      <3> QED BY <2>3, <3>2, <3>3
    <2> QED BY <2>1, <2>2, <2>3
  <1>5. column.list = stored.list /\ stored.list = list
    BY <1>1, <1>2, <1>4
  <1>6. /\ stored.is.required <=> ~named /\ column.required
        /\ stored.is.unique <=> ~named /\ column.unique
    <2> HIDE DEF stored, column, def, list, filled, some, own, named
    <2> QED BY <1>2, <1>4
  <1>7. ~list => /\ column.default <=> stored.default
                 /\ column.required <=> Sc!IsNonNull(f)
                 /\ column.unique <=> Sc!Unique(f)
                 /\ column.default <=> filled
    <2>1. ~list => (some <=> Sc!IsNonNull(f)) /\ (own <=> Sc!Unique(f))
      BY DEF Sc!IsNonNull, Sc!Unique
    <2> HIDE DEF stored, column, def, list, filled, some, own, named
    <2> QED BY <1>1, <1>2, <1>4, <2>1
  <1> HIDE DEF stored, column
  <1> QED BY <1>5, <1>6, <1>7 DEF stored, column

(* How it is shown.                                                         *)
LEMMA PlainFieldsShown ==
  ASSUME NEW f, f.wraps \in Wrappers, NEW n
  PROVE  LET shown == Sc!Shown({n}, n, f)
         IN /\ shown.list = Sc!IsList(f)
            /\ shown.required <=> Sc!IsNonNull(f)
            /\ shown.unique <=> Sc!Unique(f)
  <1> DEFINE inner == IF f.wraps # <<>> /\ f.wraps[1] = "some" THEN Tail(f.wraps) ELSE f.wraps
             shown == Sc!Shown({n}, n, f)
  <1>1. /\ shown.list = (inner # <<>> /\ inner[1] = "list")
        /\ shown.required = (f.wraps # inner)
        /\ shown.unique = Sc!Unique(f)
    BY DEF Sc!Shown
  <1> SUFFICES /\ (inner # <<>> /\ inner[1] = "list") <=> Sc!IsList(f)
               /\ f.wraps # inner <=> Sc!IsNonNull(f)
    <2> DEFINE isList == inner # <<>> /\ inner[1] = "list"
               isNonNull == f.wraps # inner
    <2>1. /\ shown.list = isList /\ shown.required = isNonNull /\ shown.unique = Sc!Unique(f)
          /\ isList \in BOOLEAN /\ isNonNull \in BOOLEAN /\ Sc!IsList(f) \in BOOLEAN
      BY <1>1 DEF Sc!IsList
    <2>2. (isList <=> Sc!IsList(f)) /\ (isNonNull <=> Sc!IsNonNull(f))
      OBVIOUS
    <2> HIDE DEF shown, isList, isNonNull
    <2>3. /\ shown.list = Sc!IsList(f)
          /\ shown.required <=> Sc!IsNonNull(f)
          /\ shown.unique <=> Sc!Unique(f)
      BY <2>1, <2>2
    <2> QED BY <2>3 DEF shown
  <1>2. CASE f.wraps = <<>>
    <2>1. inner = <<>>
      BY <1>2
    <2>3. ~(inner # <<>> /\ inner[1] = "list") /\ f.wraps = inner
      BY <1>2, <2>1
    <2> QED BY <1>2, <2>3, WrappersRead
  <1>3. CASE f.wraps = <<"some">>
    <2>1. f.wraps # <<>> /\ f.wraps[1] = "some" /\ Tail(f.wraps) = <<>>
      BY <1>3
    <2>2. inner = <<>>
      BY <1>3, <2>1
    <2>3. ~(inner # <<>> /\ inner[1] = "list") /\ f.wraps # inner
      BY <1>3, <2>2
    <2> QED BY <1>3, <2>3, WrappersRead
  <1>4. CASE f.wraps = <<"list">>
    <2>1. f.wraps # <<>> /\ f.wraps[1] = "list"
      BY <1>4
    <2>2. inner = <<"list">>
      BY <1>4, <2>1
    <2>3. (inner # <<>> /\ inner[1] = "list") /\ f.wraps = inner
      BY <1>4, <2>2
    <2> QED BY <1>4, <2>3, WrappersRead
  <1>5. CASE f.wraps = <<"some", "list">>
    <2>1. f.wraps # <<>> /\ f.wraps[1] = "some" /\ Tail(f.wraps) = <<"list">>
      BY <1>5
    <2>2. inner = <<"list">>
      BY <1>5, <2>1
    <2>3. (inner # <<>> /\ inner[1] = "list") /\ f.wraps # inner
      BY <1>5, <2>2
    <2> QED BY <1>5, <2>3, WrappersRead
  <1>6. CASE f.wraps = <<"list", "some">>
    <2>1. f.wraps # <<>> /\ f.wraps[1] = "list"
      BY <1>6
    <2>2. inner = <<"list", "some">>
      BY <1>6, <2>1
    <2>3. (inner # <<>> /\ inner[1] = "list") /\ f.wraps = inner
      BY <1>6, <2>2
    <2> QED BY <1>6, <2>3, WrappersRead
  <1>7. CASE f.wraps = <<"some", "list", "some">>
    <2>1. f.wraps # <<>> /\ f.wraps[1] = "some" /\ Tail(f.wraps) = <<"list", "some">>
      BY <1>7
    <2>2. inner = <<"list", "some">>
      BY <1>7, <2>1
    <2>3. (inner # <<>> /\ inner[1] = "list") /\ f.wraps # inner
      BY <1>7, <2>2
    <2> QED BY <1>7, <2>3, WrappersRead
  <1> QED BY <1>2, <1>3, <1>4, <1>5, <1>6, <1>7 DEF Wrappers

(* Of every type: arguments leave its fields as they were, and of those     *)
(* that are no relation PostgreSQL, the Studio and the inputs agree, as     *)
(* does MongoDB on scalars; of enumerations and embedded types it insists   *)
(* on nothing (query.js:414-449, visitField.js, models/index.js:20-110,     *)
(* 233-243, sqlModelGenerator.js:27-136).                                   *)
THEOREM TypesSurvive ==
  AnyFields => FieldsSurvive
  <1> SUFFICES ASSUME AnyFields PROVE FieldsSurvive
    OBVIOUS
  <1>1. PICK Letter, Of, Relation, Mark :
           \E fields \in Seq(FieldsOf(Letter, Of, Relation, Mark)) :
             \E name, model, apps, ops, events :
              /\ NamesApart(fields)
              /\ \A i \in DOMAIN fields : Storable(fields[i])
              /\ sample = [of |-> "fields",
                           type |-> [name |-> name, model |-> model, apps |-> apps, ops |-> ops,
                                     events |-> events, fields |-> fields]]
    BY Zenon DEF AnyFields
  <1>2. PICK fields \in Seq(FieldsOf(Letter, Of, Relation, Mark)) :
           \E name, model, apps, ops, events :
              /\ NamesApart(fields)
              /\ \A i \in DOMAIN fields : Storable(fields[i])
              /\ sample = [of |-> "fields",
                           type |-> [name |-> name, model |-> model, apps |-> apps, ops |-> ops,
                                     events |-> events, fields |-> fields]]
    BY <1>1, Zenon
  <1> DEFINE t == sample.type
  <1>3. /\ NamesApart(fields) /\ t.fields = fields
        /\ \A i \in DOMAIN fields : Storable(fields[i])
    BY <1>2
  <1> HIDE DEF t
  <1>4. Sc!WithArguments(t) = t.fields
    BY <1>3, TextIsKept
  <1>5. ASSUME NEW f \in Sc!Kept(t), f.relation = None
        PROVE  LET table == Sc!SqlTable(t)
                   shown == Sc!Shown({t.name}, t.name, f)
                   stored == Sc!MongoField(Enums, Embedded, f)
                   named == f.of \in Enums \cup Embedded
               IN \E column \in table.columns :
                     /\ column.name = f.name
                     /\ column.is.list = stored.list /\ shown.list = stored.list
                     /\ stored.is.required <=> ~named /\ column.is.required
                     /\ stored.is.unique <=> ~named /\ column.is.unique
                     /\ (column.is.unique \/ "createIndex" \in f.marks) =>
                           f.name \in table.indexes
                     /\ ~stored.list =>
                           /\ column.is.default <=> stored.default
                           /\ shown.unique <=> column.is.unique
                           /\ shown.required <=> column.is.required
                           /\ Sc!RequiredOnAdd(f) <=>
                                 column.is.required /\ ~column.is.default
    <2> DEFINE table == Sc!SqlTable(t)
               shown == Sc!Shown({t.name}, t.name, f)
               stored == Sc!MongoField(Enums, Embedded, f)
               named == f.of \in Enums \cup Embedded
               column == [name |-> f.name, is |-> Sc!SqlColumn(f)]
    <2>1. Storable(f) /\ "isRelationField" \notin f.marks /\ f.wraps \in Wrappers
      <3>1. PICK i \in DOMAIN fields : f = fields[i]
        BY <1>3, <1>5 DEF Sc!Kept, Sc!Fields, Sc!Range
      <3>2. "isRelationField" \notin f.marks
        BY <1>5 DEF Sc!Kept
      <3>3. f \in FieldsOf(Letter, Of, Relation, Mark)
        BY <3>1
      <3> QED BY <1>3, <3>1, <3>2, <3>3 DEF FieldsOf
    <2>2. column \in table.columns
      BY <1>5, <2>1 DEF Sc!SqlTable, Storable
    <2>3. /\ column.is.list = stored.list /\ stored.list = Sc!IsList(f)
          /\ stored.is.required <=> ~named /\ column.is.required
          /\ stored.is.unique <=> ~named /\ column.is.unique
          /\ ~Sc!IsList(f) => /\ column.is.default <=> stored.default
                              /\ column.is.required <=> Sc!IsNonNull(f)
                              /\ column.is.unique <=> Sc!Unique(f)
                              /\ column.is.default <=> "defaultValue" \in f.marks
      BY <1>5, <2>1, PlainFieldsStored, Zenon
    <2>4. (column.is.unique \/ "createIndex" \in f.marks) => f.name \in table.indexes
      <3>1. "createIndex" \in f.marks => Sc!Definition(f).index
        BY DEF Sc!Definition
      <3>2. (column.is.unique \/ "createIndex" \in f.marks) => Sc!SqlIndexed(f)
        BY <3>1 DEF Sc!SqlIndexed
      <3>3. Sc!SqlIndexed(f) => f.name \in table.indexes
        BY <1>5, <2>1 DEF Sc!SqlTable, Storable
      <3> QED BY <3>2, <3>3
    <2>5. /\ shown.list = Sc!IsList(f)
          /\ shown.required <=> Sc!IsNonNull(f)
          /\ shown.unique <=> Sc!Unique(f)
      BY <2>1, PlainFieldsShown
    <2>6. ~Sc!IsList(f) =>
             (Sc!RequiredOnAdd(f) <=> Sc!IsNonNull(f) /\ "defaultValue" \notin f.marks)
      BY <1>5, <2>1 DEF Sc!RequiredOnAdd, Sc!InInputs, Storable
    <2>7. column.name = f.name
      OBVIOUS
    <2> HIDE DEF table, shown, stored, column, named
    <2>8. /\ column.is.list = stored.list /\ shown.list = stored.list
          /\ ~stored.list =>
                /\ column.is.default <=> stored.default
                /\ shown.unique <=> column.is.unique
                /\ shown.required <=> column.is.required
                /\ Sc!RequiredOnAdd(f) <=> column.is.required /\ ~column.is.default
      BY <2>3, <2>5, <2>6
    <2> QED BY <2>2, <2>3, <2>4, <2>7, <2>8, Zenon DEF table, shown, stored, named
  <1> QED BY <1>4, <1>5, Zenon DEF FieldsSurvive, t
-----------------------------------------------------------------------------
(***************************************************************************)
(* Row-level security: any filter of the operators that the clause knows,  *)
(* any row with at most one tenant, any claims.                            *)
(***************************************************************************)
IsFilter(F) ==
  \E Part : /\ F \in Seq(Part)
            /\ \A i \in DOMAIN F : F[i].op \in Se!Translated \cup Se!Connectives

AnySecured ==
  \E by, filter, row, held, ctx, user, app, role : \E bypass \in BOOLEAN :
     /\ IsFilter(filter)
     /\ \E t : row.tenant \subseteq {t}
     /\ by \in {"filter", "id"}
     /\ sample = [of |-> "secured", by |-> by, filter |-> filter, row |-> row, held |-> held,
                  request |-> [ctx |-> ctx, user |-> user, app |-> app, role |-> role,
                               bypass |-> bypass]]

(* The claim is the first of three.                                         *)
LEMMA ClaimIs ==
  ASSUME NEW q
  PROVE  Se!Claim(q, "tenant") = IF q.ctx.tenant # None THEN q.ctx.tenant
                                 ELSE IF q.user.tenant # None THEN q.user.tenant
                                 ELSE q.app.tenant
  <1> DEFINE places == <<q.ctx, q.user, q.app>>
             has == {i \in DOMAIN places : places[i]["tenant"] # None}
             least == CHOOSE i \in has : \A j \in has : i <= j
  <1>1. DOMAIN places = {1, 2, 3}
    OBVIOUS
  <1>2. places[1] = q.ctx /\ places[2] = q.user /\ places[3] = q.app
    OBVIOUS
  <1>3. Se!Claim(q, "tenant") = IF has = {} THEN None ELSE places[least]["tenant"]
    BY DEF Se!Claim
  <1> HIDE DEF places
  <1>4. \A k \in has : (\A j \in has : k <= j) => least = k
    <2>1. \A i, k \in has : (\A j \in has : i <= j) /\ (\A j \in has : k <= j) => i = k
      BY <1>1
    <2> QED BY <2>1
  <1>5. CASE 1 \in has
    <2>1. least = 1
      BY <1>1, <1>4, <1>5
    <2> QED BY <1>2, <1>3, <1>5, <2>1
  <1>6. CASE 1 \notin has /\ 2 \in has
    <2>1. least = 2
      BY <1>1, <1>4, <1>6
    <2> QED BY <1>1, <1>2, <1>3, <1>6, <2>1
  <1>7. CASE 1 \notin has /\ 2 \notin has /\ 3 \in has
    <2>1. least = 3
      BY <1>1, <1>4, <1>7
    <2> QED BY <1>1, <1>2, <1>3, <1>7, <2>1
  <1>8. CASE has = {}
    BY <1>1, <1>2, <1>3, <1>8
  <1> QED BY <1>1, <1>5, <1>6, <1>7, <1>8

(* What the policy makes of a filter: its entries elsewhere, and the claim. *)
Replaces(G, F, entry) ==
  /\ \E m \in DOMAIN G : G[m] = entry
  /\ DOMAIN F \subseteq DOMAIN G
  /\ \A i \in DOMAIN F : G[i] = IF F[i].op = "" /\ F[i].on = "tenant" THEN entry ELSE F[i]
  /\ \A i \in DOMAIN G \ DOMAIN F : G[i] = entry

LEMMA SecuredIs ==
  ASSUME NEW F, IsFilter(F), NEW claim
  PROVE  Replaces(Se!Secured(F, "tenant", claim), F, Se!Leaf("tenant", "", {claim}))
  <1> DEFINE own == {i \in DOMAIN F : F[i].op = "" /\ F[i].on = "tenant"}
             entry == Se!Leaf("tenant", "", {claim})
             G == Se!Secured(F, "tenant", claim)
  <1>1. PICK Part : F \in Seq(Part)
    BY DEF IsFilter
  <1>2. CASE own # {}
    <2>1. G = [i \in DOMAIN F |-> IF i \in own THEN entry ELSE F[i]]
      BY <1>2 DEF Se!Secured
    <2> HIDE DEF entry, G
    <2>2. Replaces(G, F, entry)
      BY <1>2, <2>1 DEF Replaces
    <2> QED BY <2>2 DEF G, entry
  <1>3. CASE own = {}
    <2>1. G = Append(F, entry)
      BY <1>3, Zenon DEF Se!Secured
    <2> HIDE DEF G, entry
    <2>2. Len(F) \in Nat /\ DOMAIN F = 1 .. Len(F)
      BY <1>1
    <2>3. /\ DOMAIN G = 1 .. Len(F) + 1
          /\ \A i \in 1 .. Len(F) : G[i] = F[i]
          /\ G[Len(F) + 1] = entry
      <3>1. F \in Seq(Part \cup {entry}) /\ entry \in Part \cup {entry}
        BY <1>1
      <3> QED BY <2>1, <3>1
    <2>4. \A i \in DOMAIN F : ~(F[i].op = "" /\ F[i].on = "tenant")
      BY <1>3
    <2>5. /\ Len(F) + 1 \in DOMAIN G /\ DOMAIN F \subseteq DOMAIN G
          /\ DOMAIN G \ DOMAIN F = {Len(F) + 1}
      BY <2>2, <2>3
    <2>6. \A i \in DOMAIN F : G[i] = F[i]
      BY <2>2, <2>3
    <2>7. Replaces(G, F, entry)
      BY <2>3, <2>4, <2>5, <2>6, Zenon DEF Replaces
    <2> QED BY <2>7 DEF G, entry
  <1> QED BY <1>2, <1>3

(* A test by itself, which nothing overwrites.                              *)
LEMMA HoldsAlone ==
  ASSUME NEW e, NEW row, NEW held, e.op \in Se!Translated \cup Se!Connectives
  PROVE  Se!SqlHolds(<<e>>, row, held) <=>
            CASE e.op = "and" -> e.parts \subseteq held
              [] e.op = "or" -> e.parts \cap held # {}
              [] OTHER -> Se!SqlMeets(e.op, e.arg, row[e.on])
  <1> DEFINE one == <<e>>
  <1>1. DOMAIN one = {1} /\ one[1] = e /\ Len(one) = 1
    OBVIOUS
  <1>2. Se!Later(one, 1) = {}
    <2>1. 1 + 1 .. Len(one) = {}
      BY <1>1
    <2> HIDE DEF one
    <2> QED BY <2>1 DEF Se!Later
  <1> HIDE DEF one
  <1>3. ~Se!Overwritten(one, 1)
    BY <1>2 DEF Se!Overwritten
  <1>4. Se!SqlHolds(one, row, held) <=>
            CASE one[1].op = "and" -> one[1].parts \subseteq held
              [] one[1].op = "or" -> one[1].parts \cap held # {}
              [] OTHER -> \/ Se!Overwritten(one, 1)
                          \/ Se!SqlMeets(one[1].op, one[1].arg, row[one[1].on])
    BY <1>1, Zenon DEF Se!SqlHolds
  <1> QED BY <1>1, <1>3, <1>4, Zenon DEF one

(* What an entry of a filter says, if no other replaces it.                 *)
Says(e, row, held) ==
  CASE e.op = "and" -> e.parts \subseteq held
    [] e.op = "or" -> e.parts \cap held # {}
    [] OTHER -> Se!SqlMeets(e.op, e.arg, row[e.on])

(* Whatever filter a client sends to a list or a count: the rows answered   *)
(* are of the tenant that the request claims, and where no key replaces     *)
(* another all of those that the rest of the filter asks for; without a     *)
(* claim it is refused, and that alone holds of fetchById too               *)
(* (rls.js:53-134, QueryController/index.js:89-131, 205-236,                *)
(* sqlModelGenerator.js:293-378).                                           *)
THEOREM RowsAreSecured ==
  AnySecured => SecuredRows
  <1> SUFFICES ASSUME AnySecured PROVE SecuredRows
    OBVIOUS
  <1>1. PICK by, F, row, held, ctx, user, app, role : \E bypass \in BOOLEAN :
           /\ IsFilter(F)
           /\ \E t : row.tenant \subseteq {t}
           /\ by \in {"filter", "id"}
           /\ sample = [of |-> "secured", by |-> by, filter |-> F, row |-> row, held |-> held,
                        request |-> [ctx |-> ctx, user |-> user, app |-> app, role |-> role,
                                     bypass |-> bypass]]
    BY DEF AnySecured
  <1> DEFINE q == sample.request
             exempt == q.bypass \/ q.role \in {"ADMIN", "SYSTEM"}
             tenant == IF q.ctx.tenant # None THEN q.ctx.tenant
                       ELSE IF q.user.tenant # None THEN q.user.tenant ELSE q.app.tenant
             G == Se!SecuredFor(q, F, "tenant", "tenant")
             asked == Se!AskedFor(by, q, F, "tenant", "tenant")
             own(e) == e.op = "" /\ e.on = "tenant"
             mine == exempt \/ row.tenant = {tenant}
             holds(H) == Se!SqlHolds(H, row, held)
             test(i) == G[i].op \notin Se!Connectives
             kept == \A i \in DOMAIN G : G[i].op \in Se!Connectives \/ ~Se!Overwritten(G, i)
  <1>2. /\ sample.by = by /\ sample.filter = F /\ sample.row = row /\ sample.held = held
        /\ sample.of = "secured"
        /\ IsFilter(F) /\ exempt \in BOOLEAN
    BY <1>1
  <1>3. PICK t : row.tenant \subseteq {t}
    BY <1>1
  <1>4. Se!Claim(q, "tenant") = tenant
    BY ClaimIs
  <1>5. Se!Exempt(q) = exempt
    BY <1>2 DEF Se!Exempt
  <1>6. Se!Refuses(q, "tenant") <=> ~exempt /\ tenant = None
    BY <1>2, <1>4, <1>5, Zenon DEF Se!Refuses
  <1>7. G = IF exempt THEN F ELSE Se!Secured(F, "tenant", tenant)
    BY <1>4, <1>5, Zenon DEF Se!SecuredFor
  <1>16. (by = "id" => asked = F) /\ (by = "filter" => asked = G)
    BY DEF Se!AskedFor
  <1> HIDE DEF exempt, tenant, q, asked
  <1> DEFINE entry == Se!Leaf("tenant", "", {tenant})
  <1> HIDE DEF G
  <1>8. ~exempt => Replaces(G, F, entry)
    BY <1>2, <1>7, SecuredIs
  <1>9. entry.op = "" /\ entry.on = "tenant" /\ entry.arg = {tenant}
    BY DEF Se!Leaf
  <1>10. Says(entry, row, held) <=> row.tenant = {tenant}
    <2>1. Says(entry, row, held) <=> Se!SqlMeets("", {tenant}, row["tenant"])
      BY <1>9 DEF Says
    <2>2. Se!SqlMeets("", {tenant}, row["tenant"]) <=>
            row.tenant # {} /\ {tenant} \cap row.tenant # {}
      BY DEF Se!SqlMeets, Se!Means
    <2> QED BY <1>3, <2>1, <2>2
  <1> HIDE DEF entry
  <1>11. holds(G) <=> \A i \in DOMAIN G : \/ test(i) /\ Se!Overwritten(G, i)
                                          \/ Says(G[i], row, held)
    BY DEF Se!SqlHolds, Says, Se!Connectives
  <1>12. ASSUME ~Se!SqlThrows(G), holds(G)
         PROVE  mine
    <2>1. CASE exempt
      BY <2>1
    <2>2. CASE ~exempt
      <3>1. PICK m \in DOMAIN G : G[m] = entry
        BY <1>8, <2>2 DEF Replaces
      <3>2. Se!Later(G, m) = {}
        BY <1>9, <1>12, <3>1 DEF Se!SqlThrows
      <3>3. ~Se!Overwritten(G, m)
        BY <3>2 DEF Se!Overwritten
      <3>4. Says(entry, row, held)
        BY <1>11, <1>12, <3>1, <3>3
      <3> QED BY <1>10, <3>4
    <2> QED BY <2>1, <2>2
  <1>13. \A i \in DOMAIN F : holds(<<F[i]>>) <=> Says(F[i], row, held)
    BY <1>2, HoldsAlone DEF IsFilter, Says
  <1> DEFINE rest == \A i \in DOMAIN F :
                        \/ ~exempt /\ F[i].op \notin Se!Connectives /\ own(F[i])
                        \/ holds(<<F[i]>>)
  <1>14. ASSUME kept
         PROVE  holds(G) <=> mine /\ rest
    <2>1. holds(G) <=> \A i \in DOMAIN G : Says(G[i], row, held)
      BY <1>11, <1>14
    <2>2. CASE exempt
      <3>1. G = F
        BY <1>7, <2>2
      <3>2. rest <=> \A i \in DOMAIN F : Says(F[i], row, held)
        BY <1>13, <2>2
      <3> HIDE DEF holds, rest
      <3> QED BY <2>1, <2>2, <3>1, <3>2
    <2>3. CASE ~exempt
      <3>1. \A i \in DOMAIN F : own(F[i]) => F[i].op \notin Se!Connectives
        BY DEF Se!Connectives
      <3>2. rest <=> \A i \in DOMAIN F : own(F[i]) \/ Says(F[i], row, held)
        BY <1>13, <2>3, <3>1
      <3>3. (\A i \in DOMAIN G : Says(G[i], row, held)) <=>
              Says(entry, row, held) /\ \A i \in DOMAIN F : own(F[i]) \/ Says(F[i], row, held)
        BY <1>8, <2>3, Zenon DEF Replaces
      <3> HIDE DEF holds, rest
      <3> QED BY <1>10, <2>1, <2>3, <3>2, <3>3
    <2> QED BY <2>2, <2>3
  <1>15. /\ Se!Refuses(q, "tenant") <=> ~exempt /\ tenant = None
         /\ (~Se!Refuses(q, "tenant") /\ ~Se!SqlThrows(G)) =>
              (holds(G) => mine) /\ (kept => (holds(G) <=> mine /\ rest))
    BY <1>6, <1>12, <1>14
  <1>17. CASE by = "id"
    <2>1. sample.by = "id" /\ sample.by # "filter" /\ asked = F
      BY <1>2, <1>16, <1>17
    <2> QED BY <1>2, <1>15, <2>1, Zenon DEF SecuredRows, exempt, tenant, q, asked
  <1>18. CASE by = "filter"
    <2>1. sample.by = "filter" /\ sample.by # "id" /\ asked = G
      BY <1>2, <1>16, <1>18
    <2> DEFINE keeps == /\ holds(asked) => mine
                        /\ (\A i \in DOMAIN asked : \/ asked[i].op \in Se!Connectives
                                                    \/ ~Se!Overwritten(asked, i)) =>
                              (holds(asked) <=> mine /\ rest)
    <2>2. (~Se!Refuses(q, "tenant") /\ ~Se!SqlThrows(asked)) => keeps
      BY <1>15, <2>1, Zenon
    <2> QED BY <1>2, <1>15, <2>1, <2>2, Zenon DEF SecuredRows, exempt, tenant, q, asked
  <1> QED BY <1>1, <1>17, <1>18

-----------------------------------------------------------------------------
(***************************************************************************)
(* Access: any number of entries on any of the four places, each naming    *)
(* one app of its own if the rule is about apps, for any app, any role and *)
(* any operation; and any request at the gate.                             *)
(***************************************************************************)
AreEntries(kind, entries) ==
  /\ DOMAIN entries \in SUBSET Nat /\ DOMAIN entries # {}
  /\ \A rule \in {"allow", "deny"} : Listed(kind, rule, entries)

AnyRule ==
  \E kind \in {"app", "user"}, place \in Places : \E entries, app, role, op :
     /\ AreEntries(kind, entries)
     /\ role # None
     /\ sample = [of |-> "rules", kind |-> kind, place |-> place, entries |-> entries,
                  app |-> app, role |-> role, op |-> op]

AnyGate ==
  \E Role, granted : \E app \in Apps,
     user \in {None, All} \cup [status : {"active", "inactive", "blocked"}, roles : SUBSET Role],
     needsUser, bypass \in BOOLEAN :
        sample = [of |-> "gate", granted |-> granted,
                  auth |-> [app |-> app, user |-> user, needsUser |-> needsUser,
                            bypass |-> bypass]]

(* What a rule as read says, by its entries as written.                     *)
OfApps(apps, app) ==
  \/ apps = All
  \/ \E name \in apps.names : app = name \/ (~apps.list /\ Ac!Within(app, name))

Names(kind, e, app, role) ==
  IF kind = "app" THEN e.apps = Single(app)
  ELSE OfApps(e.apps, app) /\ \E text \in e.roles : Ac!Within(role, text)

Counts(kind, entries, app, role, i) ==
  kind = "app" => \A j \in DOMAIN entries : j < i => ~Names(kind, entries[j], app, role)

LEMMA CoveredBy ==
  ASSUME NEW kind, NEW entries, NEW app, NEW role, NEW op
  PROVE  Covered(kind, entries, app, role, op)
            <=> \E i \in DOMAIN entries : /\ Names(kind, entries[i], app, role)
                                          /\ Counts(kind, entries, app, role, i)
                                          /\ entries[i].ops = All \/ op \in entries[i].ops
  BY DEF Covered, Counts, Names, OfApps, Ac!Within

Admits(kind, r, app, role, op) ==
  IF kind = "app" THEN Ac!AppAdmits(r, app, op) ELSE Ac!UserAdmits(r, app, role, op)

LEMMA ReadEntries ==
  ASSUME NEW kind \in {"app", "user"}, NEW rule \in {"allow", "deny"}, NEW entries,
         AreEntries(kind, entries)
  PROVE  LET r == Ac!ReadRule(kind, Written(kind, rule, entries))
         IN /\ r.rule = rule /\ r # None /\ r.entries # All
            /\ DOMAIN r.entries = DOMAIN entries
            /\ \A i \in DOMAIN entries :
                  /\ r.entries[i].apps = entries[i].apps
                  /\ r.entries[i].ops = entries[i].ops
                  /\ kind = "user" => r.entries[i].roles = entries[i].roles
  <1> DEFINE d == Written(kind, rule, entries)
             r == Ac!ReadRule(kind, d)
  <1>1. d # None /\ d.permissions # All /\ r # None /\ r.entries # All
    BY DEF AreEntries, Listed
  <1>2. /\ d.rule = rule /\ DOMAIN d.permissions = DOMAIN entries
        /\ \A i \in DOMAIN entries :
              /\ d.permissions[i].appName = entries[i].apps
              /\ d.permissions[i].operations = entries[i].ops
              /\ kind = "user" => d.permissions[i].userRole = entries[i].roles
    BY DEF Written
  <1> HIDE DEF d
  <1>3. r = [rule |-> d.rule,
             entries |-> [i \in DOMAIN d.permissions |->
                            [apps |-> d.permissions[i]["appName"],
                             ops |-> d.permissions[i]["operations"],
                             roles |-> IF kind = "user" THEN d.permissions[i]["userRole"] ELSE {}]]]
    BY <1>1 DEF Ac!ReadRule
  <1>4. /\ r.rule = rule /\ DOMAIN r.entries = DOMAIN entries
        /\ \A i \in DOMAIN entries :
              /\ r.entries[i].apps = entries[i].apps
              /\ r.entries[i].ops = entries[i].ops
              /\ kind = "user" => r.entries[i].roles = entries[i].roles
    BY <1>2, <1>3
  <1> QED BY <1>1, <1>4 DEF d

LEMMA RuleMeans ==
  ASSUME NEW kind \in {"app", "user"}, NEW rule \in {"allow", "deny"}, NEW entries,
         AreEntries(kind, entries), NEW app, NEW role, role # None, NEW op
  PROVE  Admits(kind, Ac!ReadRule(kind, Written(kind, rule, entries)), app, role, op)
            <=> (rule = "allow" <=> Covered(kind, entries, app, role, op))
  <1> DEFINE r == Ac!ReadRule(kind, Written(kind, rule, entries))
             yes == Covered(kind, entries, app, role, op)
  <1>1. /\ r.rule = rule /\ r.entries # All
        /\ DOMAIN r.entries = DOMAIN entries
        /\ \A i \in DOMAIN entries :
              /\ r.entries[i].apps = entries[i].apps
              /\ r.entries[i].ops = entries[i].ops
              /\ kind = "user" => r.entries[i].roles = entries[i].roles
    BY ReadEntries
  <1>2. DOMAIN entries \in SUBSET Nat /\ DOMAIN entries # {}
    BY DEF AreEntries
  <1> HIDE DEF r
  <1>3. CASE kind = "app"
    <2> DEFINE named == {i \in DOMAIN r.entries : r.entries[i].apps = Ac!Single(app)}
               first == CHOOSE i \in named : \A j \in named : i <= j
               covered == named # {} /\ Ac!Covers(r.entries[first].ops, op)
    <2>1. r.entries # <<>>
      BY <1>1, <1>2
    <2>2. Ac!AppAdmits(r, app, op) <=> (rule = "allow" <=> covered)
      BY <1>1, <2>1 DEF Ac!AppAdmits
    <2>3. named \in SUBSET Nat
      BY <1>1, <1>2
    <2>4. \A i \in DOMAIN entries : i \in named <=> Names(kind, entries[i], app, role)
      BY <1>1, <1>3 DEF Names, Ac!Single, Single
    <2>5. yes <=> \E i \in named : /\ \A j \in named : ~(j < i)
                                   /\ Ac!Covers(r.entries[i].ops, op)
      <3>1. named \subseteq DOMAIN entries
        BY <1>1
      <3>2. \A i \in DOMAIN entries :
               Counts(kind, entries, app, role, i) <=> \A j \in named : ~(j < i)
        BY <1>3, <2>4, <3>1 DEF Counts
      <3>3. \A i \in DOMAIN entries : Ac!Covers(r.entries[i].ops, op)
                                        <=> entries[i].ops = All \/ op \in entries[i].ops
        BY <1>1 DEF Ac!Covers
      <3> HIDE DEF named
      <3> QED BY <2>4, <3>1, <3>2, <3>3, CoveredBy
    <2> HIDE DEF named, first, yes
    <2>6. \A i \in named : (\A j \in named : ~(j < i)) => first = i
      <3> TAKE i \in named
      <3> HAVE \A j \in named : ~(j < i)
      <3>1. \A j \in named : i <= j
        BY <2>3
      <3> QED BY <2>3, <3>1, LeastIs DEF first
    <2>7. named # {} => first \in named /\ \A j \in named : ~(j < first)
      <3> HAVE named # {}
      <3>1. PICK i \in named : \A j \in named : i <= j
        BY <2>3, LeastOf
      <3>2. \A j \in named : ~(j < i)
        BY <2>3, <3>1
      <3> QED BY <2>6, <3>2
    <2>8. covered <=> yes
      BY <2>5, <2>6, <2>7
    <2> QED BY <1>3, <2>2, <2>8 DEF Admits, yes, r
  <1>4. CASE kind = "user"
    <2>1. yes <=> \E i \in DOMAIN r.entries :
                     /\ \E text \in r.entries[i].roles : Ac!Within(role, text)
                     /\ Ac!CoversApp(r.entries[i].apps, app)
                     /\ Ac!Covers(r.entries[i].ops, op)
      <3>1. \A apps : OfApps(apps, app) <=> Ac!CoversApp(apps, app)
        BY Zenon DEF OfApps, Ac!CoversApp, Ac!Within
      <3>2. \A i \in DOMAIN entries :
               (/\ Names(kind, entries[i], app, role)
                /\ Counts(kind, entries, app, role, i)
                /\ entries[i].ops = All \/ op \in entries[i].ops)
                  <=> /\ \E text \in r.entries[i].roles : Ac!Within(role, text)
                      /\ Ac!CoversApp(r.entries[i].apps, app)
                      /\ Ac!Covers(r.entries[i].ops, op)
        BY <1>1, <1>4, <3>1 DEF Names, Counts, Ac!Covers
      <3> QED BY <1>1, <3>2, CoveredBy
    <2> HIDE DEF yes
    <2>2. Ac!UserAdmits(r, app, role, op) <=> (rule = "allow" <=> yes)
      BY <1>1, <2>1 DEF Ac!UserAdmits
    <2> QED BY <1>4, <2>2 DEF Admits, yes, r
  <1> QED BY <1>3, <1>4

(* A type without a directive admits all.                                   *)
LEMMA OpenToAll ==
  ASSUME NEW kind, NEW app, NEW role, NEW op
  PROVE  /\ Ac!AppAdmits(Ac!ReadRule(kind, None), app, op)
         /\ Ac!UserAdmits(Ac!ReadRule(kind, None), app, role, op)
  <1> DEFINE r == Ac!ReadRule(kind, None)
  <1>1. r.rule = "allow" /\ r.entries = All
    BY DEF Ac!ReadRule
  <1> HIDE DEF r
  <1>2. Ac!AppAdmits(r, app, op)
    BY <1>1 DEF Ac!AppAdmits
  <1>3. Ac!UserAdmits(r, app, role, op)
    BY <1>1 DEF Ac!UserAdmits
  <1> QED BY <1>2, <1>3 DEF r

(* Where the rule is, it decides; elsewhere all are admitted.               *)
LEMMA OnItsPlace ==
  ASSUME NEW kind \in {"app", "user"}, NEW place \in Places, NEW rule \in {"allow", "deny"},
         NEW entries, AreEntries(kind, entries), NEW app, NEW role, NEW op
  PROVE  LET types == Ruled(place, kind, rule, entries)
             ok == Admits(kind, Ac!ReadRule(kind, Written(kind, rule, entries)), app, role, op)
         IN /\ Ac!Admitted(types["A"], app, role, op) <=> (place = "type" => ok)
            /\ Ac!Admitted(types["A"].fields["b"], app, role, op) <=> (place = "field" => ok)
            /\ Ac!Admitted(types["A"].fields["g"], app, role, op)
            /\ Ac!Admitted(types["B"], app, role, op) <=> (place = "far type" => ok)
            /\ Ac!Admitted(types["B"].fields["h"], app, role, op) <=> (place = "far field" => ok)
  <1> DEFINE types == Ruled(place, kind, rule, entries)
             r == Ac!ReadRule(kind, Written(kind, rule, entries))
             at(k, p) == IF p = place /\ kind = k THEN Written(kind, rule, entries) ELSE None
             OnType(x, p) == x.app = Ac!ReadRule("app", at("app", p)) /\
                             x.user = Ac!ReadRule("user", at("user", p))
             OnField(x, p) ==
                /\ x.app = IF at("app", p) = None THEN None ELSE Ac!ReadRule("app", at("app", p))
                /\ x.user = IF at("user", p) = None THEN None ELSE Ac!ReadRule("user", at("user", p))
             ok == Admits(kind, r, app, role, op)
  <1>1. /\ OnType(types["A"], "type") /\ OnType(types["B"], "far type")
        /\ OnField(types["A"].fields["b"], "field")
        /\ OnField(types["A"].fields["g"], "none")
        /\ OnField(types["B"].fields["h"], "far field")
    BY DEF Ruled
  <1>2. r # None /\ Written(kind, rule, entries) # None
    BY DEF AreEntries, Listed
  <1>3. ASSUME NEW x, NEW p, OnType(x, p)
        PROVE  Ac!Admitted(x, app, role, op) <=> (place = p => ok)
    <2>1. CASE kind = "app"
      BY <1>2, <1>3, <2>1, OpenToAll DEF Ac!Admitted, Admits
    <2>2. CASE kind = "user"
      BY <1>2, <1>3, <2>2, OpenToAll DEF Ac!Admitted, Admits
    <2> QED BY <2>1, <2>2
  <1>4. ASSUME NEW x, NEW p, OnField(x, p)
        PROVE  Ac!Admitted(x, app, role, op) <=> (place = p => ok)
    <2>1. CASE kind = "app"
      BY <1>2, <1>4, <2>1 DEF Ac!Admitted, Admits
    <2>2. CASE kind = "user"
      BY <1>2, <1>4, <2>2 DEF Ac!Admitted, Admits
    <2> QED BY <2>1, <2>2
  <1>5. place # "none"
    BY DEF Places
  <1> HIDE DEF types, ok, OnType, OnField
  <1>6. /\ Ac!Admitted(types["A"], app, role, op) <=> (place = "type" => ok)
        /\ Ac!Admitted(types["A"].fields["b"], app, role, op) <=> (place = "field" => ok)
        /\ Ac!Admitted(types["A"].fields["g"], app, role, op)
        /\ Ac!Admitted(types["B"], app, role, op) <=> (place = "far type" => ok)
        /\ Ac!Admitted(types["B"].fields["h"], app, role, op) <=> (place = "far field" => ok)
    BY <1>1, <1>3, <1>4, <1>5
  <1> QED BY <1>6 DEF types, ok, r

(* The types on the way to the selected fields.                             *)
LEMMA TypesOnTheWay ==
  ASSUME NEW types, types["A"].fields["b"].of = "B", "b" \in DOMAIN types["A"].fields
  PROVE  /\ Ac!TypeAt(types, "A", Ac!Front(<<"b">>)) = "A"
         /\ Ac!TypeAt(types, "A", Ac!Front(<<"g">>)) = "A"
         /\ Ac!TypeAt(types, "A", Ac!Front(<<"b", "h">>)) = "B"
         /\ Ac!Last(<<"b">>) = "b" /\ Ac!Last(<<"g">>) = "g" /\ Ac!Last(<<"b", "h">>) = "h"
  <1>1. "A" # None
    BY NamesAssumption DEF SampleNames
  <1>2. Ac!Front(<<"b">>) = <<>> /\ Ac!Front(<<"g">>) = <<>> /\ Ac!Front(<<"b", "h">>) = <<"b">>
    <2>1. \A s : SubSeq(s, 1, 0) = <<>>
      BY SubSeqEmpty
    <2>2. Ac!Front(<<"b">>) = SubSeq(<<"b">>, 1, 0) /\ Ac!Front(<<"g">>) = SubSeq(<<"g">>, 1, 0)
      BY DEF Ac!Front
    <2> DEFINE s == <<"b", "h">>
    <2>3. s \in Seq({"b", "h"}) /\ Len(s) = 2 /\ s[1] = "b"
      OBVIOUS
    <2>4. Ac!Front(s) = SubSeq(s, 1, 1)
      BY <2>3 DEF Ac!Front
    <2> HIDE DEF s
    <2>5. SubSeq(s, 1, 1) = SubSeq(s, 1, 0) \o <<"b">>
      <3>1. 1 \in 1 .. Len(s) /\ 1 - 1 = 0
        BY <2>3
      <3>2. SubSeq(s, 1, 1) = SubSeq(s, 1, 1 - 1) \o <<s[1]>>
        BY <2>3, <3>1, SubSeqRecursiveSecond
      <3> QED BY <2>3, <3>1, <3>2
    <2>6. <<>> \o <<"b">> = <<"b">>
      OBVIOUS
    <2>7. Ac!Front(s) = <<"b">>
      BY <2>1, <2>4, <2>5, <2>6
    <2> QED BY <2>1, <2>2, <2>7 DEF s
  <1>3. Ac!Last(<<"b">>) = "b" /\ Ac!Last(<<"g">>) = "g" /\ Ac!Last(<<"b", "h">>) = "h"
    BY DEF Ac!Last
  <1> DEFINE Next(at, path, i) ==
                IF i = 0 THEN "A"
                ELSE IF at[i - 1] = None \/ path[i] \notin DOMAIN types[at[i - 1]].fields THEN None
                ELSE types[at[i - 1]].fields[path[i]].of
             Way(path) == CHOOSE at : at = [i \in 0 .. Len(path) |-> Next(at, path, i)]
  <1>4. \A path : Ac!TypeAt(types, "A", path) = Way(path)[Len(path)]
    BY DEF Ac!TypeAt
  <1>5. Way(<<>>)[0] = "A"
    <2> DEFINE at == [i \in 0 .. 0 |-> "A"]
    <2>1. at = [i \in 0 .. Len(<<>>) |-> Next(at, <<>>, i)]
      OBVIOUS
    <2> HIDE DEF at, Next
    <2>2. Way(<<>>) = [i \in 0 .. Len(<<>>) |-> Next(Way(<<>>), <<>>, i)]
      BY <2>1
    <2>3. Len(<<>>) = 0
      OBVIOUS
    <2> HIDE DEF Way
    <2>4. Way(<<>>)[0] = Next(Way(<<>>), <<>>, 0)
      BY <2>2, <2>3
    <2> QED BY <2>4 DEF Next
  <1>6. Way(<<"b">>)[1] = "B"
    <2> DEFINE path == <<"b">>
               at == [i \in 0 .. 1 |-> IF i = 0 THEN "A" ELSE "B"]
    <2>1. Len(path) = 1 /\ path[1] = "b"
      OBVIOUS
    <2> HIDE DEF path
    <2>2. at = [i \in 0 .. Len(path) |-> Next(at, path, i)]
      BY <1>1, <2>1
    <2> HIDE DEF at, Next
    <2>3. Way(path) = [i \in 0 .. Len(path) |-> Next(Way(path), path, i)]
      BY <2>2
    <2> HIDE DEF Way
    <2>4. Way(path)[0] = Next(Way(path), path, 0) /\ Way(path)[1] = Next(Way(path), path, 1)
      BY <2>1, <2>3
    <2>5. Way(path)[0] = "A"
      BY <2>4 DEF Next
    <2>6. Way(path)[1] = "B"
      BY <1>1, <2>1, <2>4, <2>5 DEF Next
    <2> QED BY <2>6 DEF path
  <1> HIDE DEF Way
  <1>7. Ac!TypeAt(types, "A", <<>>) = "A" /\ Ac!TypeAt(types, "A", <<"b">>) = "B"
    <2>1. Len(<<>>) = 0 /\ Len(<<"b">>) = 1
      OBVIOUS
    <2> QED BY <1>4, <1>5, <1>6, <2>1
  <1> QED BY <1>2, <1>3, <1>7

(* The verdict on the selection, the operation below being the reading of   *)
(* one record.                                                              *)
LEMMA VerdictMeans ==
  ASSUME NEW kind \in {"app", "user"}, NEW place \in Places, NEW rule \in {"allow", "deny"},
         NEW entries, AreEntries(kind, entries), NEW app, NEW role, role # None, NEW op0
  PROVE  LET op == IF place \in {"type", "field"} THEN op0 ELSE "SINGULAR"
         IN (Ac!Verdict(Ruled(place, kind, rule, entries), "A", Selection, {}, FrontEnd,
                        app, role, op0) = "accepted")
               <=> (rule = "allow" <=> Covered(kind, entries, app, role, op))
  <1> DEFINE types == Ruled(place, kind, rule, entries)
             one == "SINGULAR"
             Lets(x, op) == Ac!Admitted(x, app, role, op)
             ok(op) == rule = "allow" <=> Covered(kind, entries, app, role, op)
             passes == Ac!Permitted(types, "A", Selection, app, role, op0)
  <1>1. /\ types["A"].fields["b"].of = "B" /\ types["A"].fields["g"].of = None
        /\ types["B"].fields["h"].of = None
        /\ DOMAIN types["A"].fields = {"b", "g"} /\ DOMAIN types["B"].fields = {"h"}
        /\ types["A"].fields["b"].marks = {} /\ types["A"].fields["g"].marks = {}
        /\ types["B"].fields["h"].marks = {}
    BY DEF Ruled
  <1>2. \A op : /\ Lets(types["A"], op) <=> (place = "type" => ok(op))
                /\ Lets(types["A"].fields["b"], op) <=> (place = "field" => ok(op))
                /\ Lets(types["A"].fields["g"], op)
                /\ Lets(types["B"], op) <=> (place = "far type" => ok(op))
                /\ Lets(types["B"].fields["h"], op) <=> (place = "far field" => ok(op))
    <2> TAKE op
    <2>1. Admits(kind, Ac!ReadRule(kind, Written(kind, rule, entries)), app, role, op) <=> ok(op)
      BY RuleMeans
    <2> HIDE DEF ok
    <2> QED BY <2>1, OnItsPlace
  <1>3. "A" # None /\ "B" # None
    BY NamesAssumption DEF SampleNames
  <1>4. /\ Ac!TypeAt(types, "A", Ac!Front(<<"b">>)) = "A"
        /\ Ac!TypeAt(types, "A", Ac!Front(<<"g">>)) = "A"
        /\ Ac!TypeAt(types, "A", Ac!Front(<<"b", "h">>)) = "B"
        /\ Ac!Last(<<"b">>) = "b" /\ Ac!Last(<<"g">>) = "g" /\ Ac!Last(<<"b", "h">>) = "h"
    BY <1>1, TypesOnTheWay
  <1>5. Len(<<"b">>) = 1 /\ Len(<<"g">>) = 1 /\ Len(<<"b", "h">>) = 2
    OBVIOUS
  <1> DEFINE Check(p) ==
                LET t == Ac!TypeAt(types, "A", Ac!Front(p))
                    f == types[t].fields[Ac!Last(p)]
                    done == IF Len(p) = 1 THEN op0 ELSE "SINGULAR"
                IN (t # None /\ Ac!Last(p) \in DOMAIN types[t].fields) =>
                      /\ "unchecked" \in f.marks \/ Ac!Admitted(f, app, role, done)
                      /\ f.of # None => Ac!Admitted(types[f.of], app, role, "SINGULAR")
  <1>6. passes <=> Lets(types["A"], op0) /\ \A p \in Selection : Check(p)
    BY DEF Ac!Permitted
  <1> HIDE DEF types, ok, passes
  <1>7. /\ Check(<<"b">>) <=> Lets(types["A"].fields["b"], op0) /\ Lets(types["B"], one)
        /\ Check(<<"g">>) <=> Lets(types["A"].fields["g"], op0)
        /\ Check(<<"b", "h">>) <=> Lets(types["B"].fields["h"], one)
    BY <1>1, <1>3, <1>4, <1>5
  <1> HIDE DEF Check, Lets
  <1>8. passes <=> /\ Lets(types["A"], op0)
                   /\ Check(<<"b">>) /\ Check(<<"g">>) /\ Check(<<"b", "h">>)
    BY <1>6 DEF Selection
  <1>9. passes <=> ok(IF place \in {"type", "field"} THEN op0 ELSE one)
    <2>1. passes <=> /\ place = "type" => ok(op0)
                     /\ place = "field" => ok(op0)
                     /\ place = "far type" => ok(one)
                     /\ place = "far field" => ok(one)
      BY <1>2, <1>7, <1>8
    <2> QED BY <2>1 DEF Places
  <1>10. (Ac!Verdict(types, "A", Selection, {}, FrontEnd, app, role, op0) = "accepted") <=> passes
    <2>1. ~Ac!IsApp(FrontEnd, "backend")
      BY DEF Ac!IsApp, FrontEnd
    <2>2. Ac!Marked(types["A"], "writeOnly") = {}
      BY <1>1 DEF Ac!Marked
    <2>3. {} \cap Ac!Marked(types["A"], "readOnly") = {}
      OBVIOUS
    <2>4. {Head(p) : p \in Selection} \cap Ac!Marked(types["A"], "writeOnly") = {}
      BY <2>2
    <2>5. Ac!Verdict(types, "A", Selection, {}, FrontEnd, app, role, op0)
             = CASE ~passes -> "permission" [] OTHER -> "accepted"
      BY <2>1, <2>3, <2>4 DEF Ac!Verdict, passes
    <2> QED BY <2>5
  <1> QED BY <1>9, <1>10 DEF types, ok

(* A rule passes those whom an entry of it covers, the opposite rule all    *)
(* others.                                                                  *)
LEMMA RulesPass == AnyRule => OnlyThePermittedPass
  <1> SUFFICES ASSUME NEW kind \in {"app", "user"}, NEW place \in Places, NEW entries,
                      NEW app, NEW role, NEW op,
                      AreEntries(kind, entries), role # None,
                      sample = [of |-> "rules", kind |-> kind, place |-> place,
                                entries |-> entries, app |-> app, role |-> role, op |-> op]
               PROVE  OnlyThePermittedPass
    BY DEF AnyRule
  <1>1. sample.of = "rules" /\ sample.of # "gate" /\ sample.kind = kind /\ sample.place = place
        /\ sample.entries = entries /\ sample.app = app /\ sample.role = role /\ sample.op = op
    OBVIOUS
  <1>2. \A rule \in {"allow", "deny"} :
           RulePasses(place, kind, rule, entries, app, role, op)
              <=> (rule = "allow" <=> Covered(kind, entries, app, role, OpAt(place, op)))
    BY VerdictMeans DEF RulePasses, OpAt
  <1> QED BY <1>1, <1>2 DEF OnlyThePermittedPass

(* Whom the gate lets pass from a front end is active and has the           *)
(* permission.                                                              *)
LEMMA GateHolds == AnyGate => OnlyThePermittedPass
  <1> SUFFICES ASSUME NEW granted, NEW app \in Apps, NEW Role,
                      NEW user \in {None, All} \cup
                                   [status : {"active", "inactive", "blocked"}, roles : SUBSET Role],
                      NEW needsUser \in BOOLEAN, NEW bypass \in BOOLEAN,
                      sample = [of |-> "gate", granted |-> granted,
                                auth |-> [app |-> app, user |-> user, needsUser |-> needsUser,
                                          bypass |-> bypass]]
               PROVE  OnlyThePermittedPass
    BY DEF AnyGate
  <1> DEFINE auth == sample.auth
  <1>1. /\ sample.of = "gate" /\ sample.of # "rules" /\ sample.granted = granted
        /\ auth.app = app /\ auth.user = user /\ auth.bypass = bypass
    OBVIOUS
  <1> HIDE DEF auth
  <1>2. SUFFICES ASSUME Ac!Gate(auth, "fetch", granted) = "ok", ~bypass, app.kind = "front",
                        user \notin {None, All}
                 PROVE  user.status = "active" /\ (app.integrated => "fetch" \in granted)
    BY <1>1 DEF OnlyThePermittedPass, auth
  <1>3. app # None
    BY <1>1, <1>2 DEF Ac!Gate, Ac!AppGate
  <1>4. user.status \in {"active", "inactive", "blocked"}
    BY <1>2
  <1>5. app.integrated => Ac!NeedsPermission(auth)
    BY <1>1, <1>2, <1>3 DEF Ac!NeedsPermission, Ac!Integrated, Ac!IsApp
  <1>6. user.status \notin {"inactive", "blocked"}
    BY <1>1, <1>2 DEF Ac!Gate, Ac!StatusGate
  <1>7. app.integrated => "fetch" \in granted
    BY <1>1, <1>2, <1>5 DEF Ac!Gate
  <1> QED BY <1>4, <1>6, <1>7

(* A rule lets pass just those whom it covers - an app rule by its first    *)
(* entry for the app, a user rule by any - and its opposite just the        *)
(* others, whatever entries it has on whichever place of the selection and  *)
(* whatever names contain others; no blocked front-end user passes the      *)
(* gate, nor one without the permission where the app has them integrated   *)
(* (validateAppAndUserPermissionOnFields.js, MasterController.js).          *)
THEOREM AccessIsAsRuled == AnyRule \/ AnyGate => OnlyThePermittedPass
  BY RulesPass, GateHolds

-----------------------------------------------------------------------------
(***************************************************************************)
(* What a run picks are some of these inputs.                              *)
(***************************************************************************)
LEMMA UploadsPicked ==
  PickUpload => AnyUpload'
  <1> SUFFICES ASSUME PickUpload PROVE AnyUpload'
    OBVIOUS
  <1>1. PICK files \in SeqOf(SomeFiles, 2),
             found \in BOOLEAN, user \in BOOLEAN, bucket \in BOOLEAN,
             kind \in {"backend", "front"},
             field \in {None, [one |-> 1], [many |-> {}], [many |-> {1}]},
             fileId \in {None, 1, Foreign}, failed \in SUBSET {1, 2} :
          /\ failed \subseteq DOMAIN files
          /\ sample' = [of |-> "upload", files |-> files, type |-> "User", found |-> found,
                        field |-> field, fileId |-> fileId, user |-> user, kind |-> kind,
                        bucket |-> bucket, failed |-> failed]
    BY DEF PickUpload, Pick
  <1> DEFINE Word == {"image", "accdb", "zip", "video"}
             Ext == {"png", "svg", "accdb", "zip", "mp4"}
  <1>2. ASSUME NEW file \in SomeFiles
        PROVE  file \in AnyFile(Word, Ext)
    <2>1. PICK words \in {{"image"}, {"accdb"}, {"zip"}, {"video"}}, ext \in Ext, megs \in Nat,
               readable \in BOOLEAN :
            file = AFile(words, ext, megs, readable)
      <3> DEFINE images == {AFile({"image"}, ext, megs, readable) :
                              ext \in {"png", "svg"}, megs \in {50, 51}, readable \in BOOLEAN}
                 tables == {AFile({"accdb"}, "accdb", megs, TRUE) : megs \in {49, 50}}
                 zips   == {AFile({"zip"}, "zip", megs, TRUE) : megs \in {55, 56}}
                 videos == {AFile({"video"}, "mp4", megs, TRUE) : megs \in {200, 201}}
      <3>1. CASE file \in images
        <4>1. PICK ext \in {"png", "svg"}, megs \in {50, 51}, readable \in BOOLEAN :
                 file = AFile({"image"}, ext, megs, readable)
          BY <3>1
        <4> QED BY <4>1, Zenon
      <3>2. CASE file \in tables
        BY <3>2
      <3>3. CASE file \in zips
        BY <3>3
      <3>4. CASE file \in videos
        BY <3>4
      <3>5. SomeFiles = images \cup tables \cup zips \cup videos
        BY DEF SomeFiles
      <3> HIDE DEF images, tables, zips, videos
      <3> QED BY <3>1, <3>2, <3>3, <3>4, <3>5
    <2>2. words \in SUBSET Word
      OBVIOUS
    <2> HIDE DEF Word, Ext
    <2> QED BY <2>1, <2>2 DEF AFile, AnyFile
  <1>3. PICK n \in 0 .. 2 : files \in [1 .. n -> SomeFiles]
    BY DEF SeqOf
  <1>4. files \in Seq(AnyFile(Word, Ext)) 
    <2> HIDE DEF Word, Ext
    <2>1. files \in [1 .. n -> AnyFile(Word, Ext)] /\ n \in Nat
      BY <1>2, <1>3
    <2> QED BY <1>3, <2>1
  <1>6. field \in AnyField /\ fileId \in {None} \cup Nat
    BY DEF AnyField, Foreign
  <1>7. AreFiles(files)
    BY <1>4 DEF AreFiles
  <1>8. kind \in {"backend", "front", "other"}
    OBVIOUS
  <1>9. UploadSample(files, "User")' /\ "User" \notin MimeTypes
    BY <1>1, <1>6, <1>8 DEF UploadSample, MimeTypes
  <1> QED BY <1>7, <1>9 DEF AnyUpload

LEMMA ArraysPicked ==
  PickArray => AnyArray'
  <1> SUFFICES ASSUME PickArray PROVE AnyArray'
    OBVIOUS
  <1>1. PICK array \in SeqOf(Elements, 3), where \in SUBSET {1, 2}, plain \in BOOLEAN,
             arg \in Additions \cup {<<>>}, op \in Ar!Operations \ {"updateAll"} :
          sample' = [of |-> "array", array |-> array, plain |-> plain,
                     do |-> [op |-> op, arg |-> arg, where |-> where]]
    BY DEF PickArray, Pick
  <1>2. PICK n \in 0 .. 3 : array \in [1 .. n -> Elements]
    BY DEF SeqOf
  <1> DEFINE e1 == [val |-> 1, refs |-> {"s"}]
             e2 == [val |-> 1, refs |-> {"p"}]
             e3 == [val |-> 2, refs |-> {}]
             Element == Elements \cup {e1, e2, e3}
  <1>3. n \in Nat /\ array \in Seq(Elements) /\ array \in Seq(Element)
    BY <1>2
  <1>4. arg \in Seq(Element)
    <2>1. e1 \in Element /\ e2 \in Element /\ e3 \in Element
      OBVIOUS
    <2>2. arg \in {<<e1>>, <<e2>>, <<e3>>, <<>>}
      BY DEF Additions
    <2> HIDE DEF e1, e2, e3, Element
    <2>3. /\ <<e1>> \in Seq(Element) /\ <<e2>> \in Seq(Element) /\ <<e3>> \in Seq(Element)
          /\ <<>> \in Seq(Element)
      BY <2>1
    <2> QED BY <2>2, <2>3
  <1> HIDE DEF e1, e2, e3, Element
  <1> QED BY <1>1, <1>3, <1>4 DEF AnyArray

Reads(t, on, test, arg) == t.on = on /\ t.op = test /\ t.arg = arg

LEMMA LeafIs ==
  ASSUME NEW on, NEW test, NEW arg
  PROVE  Reads(Te!Leaf(on, test, arg), on, test, arg)
  BY DEF Reads, Te!Leaf

LEMMA LinksPicked ==
  PickLinked => AnyLinked'
  <1> SUFFICES ASSUME PickLinked PROVE AnyLinked'
    OBVIOUS
  <1>1. PICK isNone \in BOOLEAN, op \in {"one", "and", "or"}, tests \in SUBSET LinkTests,
             links \in SUBSET ({1, 2} \X {1, 2}), coll \in Collections :
          /\ tests # {} /\ (op = "one" => Cardinality(tests) = 1)
          /\ sample' = [of |-> "linked", isNone |-> isNone, op |-> op, tests |-> tests,
                        links |-> links, coll |-> coll]
    BY DEF PickLinked, Pick
  <1>2. IsFiniteSet(LinkTests)
    <2> DEFINE a == Te!Leaf("own", "gt", {1})
               b == Te!Leaf("own", "", {1})
               c == Te!Leaf("own", "not", {1})
               d == Te!Leaf("extra", "", {1})
    <2>1. LinkTests = {a, b, c, d}
      BY Zenon DEF LinkTests
    <2> HIDE DEF a, b, c, d
    <2>2. {a, b, c, d} = {} \cup {a} \cup {b} \cup {c} \cup {d}
      OBVIOUS
    <2>3. IsFiniteSet({} \cup {a}) /\ IsFiniteSet({} \cup {a} \cup {b})
      BY FS_EmptySet, FS_AddElement, Zenon
    <2>4. IsFiniteSet({} \cup {a} \cup {b} \cup {c})
      BY <2>3, FS_AddElement, Zenon
    <2>5. IsFiniteSet({} \cup {a} \cup {b} \cup {c} \cup {d})
      BY <2>4, FS_AddElement, Zenon
    <2> QED BY <2>1, <2>2, <2>5
  <1>3. op = "one" => \E t : tests = {t}
    <2>1. IsFiniteSet(tests)
      BY <1>2, FS_Subset
    <2> QED BY <1>1, <2>1, FS_Singleton
  <1>4. \A t \in tests : \/ t.on = "own" /\ PlainTest(t)
                         \/ t.on = "extra" /\ t.op = ""
    <2>2. {1} # {} /\ 0 \notin {1}
      OBVIOUS
    <2> DEFINE a == Te!Leaf("own", "gt", {1})
               b == Te!Leaf("own", "", {1})
               c == Te!Leaf("own", "not", {1})
               d == Te!Leaf("extra", "", {1})
    <2>8. Reads(a, "own", "gt", {1})
      BY LeafIs, Zenon
    <2>9. Reads(b, "own", "", {1})
      BY LeafIs, Zenon
    <2>10. Reads(c, "own", "not", {1})
      BY LeafIs, Zenon
    <2>11. Reads(d, "extra", "", {1})
      BY LeafIs, Zenon
    <2>5. LinkTests = {a, b, c, d}
      BY Zenon DEF LinkTests
    <2> HIDE DEF a, b, c, d
    <2>6. PlainTest(a)
      BY <2>2, <2>8, Zenon DEF Reads, PlainTest, Te!Bounds
    <2>7. PlainTest(b) /\ PlainTest(c)
      BY <2>9, <2>10, Zenon DEF Reads, PlainTest, PlainOps
    <2> QED BY <2>5, <2>6, <2>7, <2>8, <2>9, <2>10, <2>11, Zenon DEF Reads
  <1>5. LinkedSample(isNone, op, tests, links, coll)'
    BY <1>1, <1>3, <1>4 DEF LinkedSample
  <1> QED BY <1>5 DEF AnyLinked

(* The schemas that are picked are sequences.                               *)
LEMMA SequencesAre ==
  /\ \A n \in Nat : \A s : s = [i \in 1 .. n |-> s[i]] => Sequence(s) /\ DOMAIN s = 1 .. n
  /\ \A a, b : Sequence(<<a, b>>) /\ DOMAIN <<a, b>> = {1, 2}
  <1>1. ASSUME NEW n \in Nat, NEW s, s = [i \in 1 .. n |-> s[i]]
        PROVE  Sequence(s) /\ DOMAIN s = 1 .. n
    <2>1. DOMAIN s = 1 .. n
      BY <1>1
    <2>2. s \in [1 .. n -> {s[i] : i \in 1 .. n}]
      BY <1>1
    <2>3. s \in Seq({s[i] : i \in 1 .. n})
      BY <2>2
    <2>4. Len(s) \in Nat /\ DOMAIN s = 1 .. Len(s)
      BY <2>3
    <2> QED BY <1>1, <2>1, <2>4 DEF Sequence
  <1>2. ASSUME NEW a, NEW b
        PROVE  Sequence(<<a, b>>) /\ DOMAIN <<a, b>> = {1, 2}
    <2>1. DOMAIN <<a, b>> = 1 .. 2 /\ <<a, b>> = [i \in 1 .. 2 |-> <<a, b>>[i]]
      OBVIOUS
    <2>2. 2 \in Nat /\ 1 .. 2 = {1, 2}
      OBVIOUS
    <2> HIDE <1>1
    <2> QED BY <1>1, <2>1, <2>2
  <1> QED BY <1>1, <1>2

LEMMA FunctionsAre ==
  ASSUME NEW n \in Nat, NEW S, NEW s \in [1 .. n -> S]
  PROVE  s \in Seq(S) /\ DOMAIN s = 1 .. n
  OBVIOUS

LEMMA FieldsOfOne ==
  ASSUME NEW t, NEW f, t.fields = <<f>>
  PROVE  Sc!Fields(t) = {f}
  BY DEF Sc!Fields, Sc!Range

LEMMA SchemasPicked ==
  PickSchema => AnySchema'
  <1> SUFFICES ASSUME PickSchema PROVE AnySchema'
    OBVIOUS
  <1> DEFINE Wraps == {<<>>, <<"some">>, <<"list">>, <<"some", "list">>}
             Named(of, wraps) ==
                [i \in 1 .. 3 |-> Type(<<"A", "B", "C">>[i], IF i = 1 THEN {"shop"} ELSE {},
                                       <<Field("f", wraps[i], of[i], None, {})>>)]
  <1>1. PICK of \in [1 .. 3 -> {"A", "B", "C", "Int"}], wraps \in [1 .. 3 -> Wraps] :
           sample' = [of |-> "schema", schema |-> Named(of, wraps)]
    BY DEF PickSchema, Pick
  <1> DEFINE schema == Named(of, wraps)
  <1>2. Sequence(schema) /\ DOMAIN schema = 1 .. 3
    <2>1. 3 \in Nat /\ schema = [i \in 1 .. 3 |-> schema[i]]
      OBVIOUS
    <2> HIDE DEF schema
    <2> QED BY <2>1, SequencesAre
  <1>3. ASSUME NEW i \in 1 .. 3
        PROVE  /\ schema[i].name = <<"A", "B", "C">>[i]
               /\ \A f \in Sc!Fields(schema[i]) : f.of = of[i] /\ f.wraps = wraps[i]
    <2>1. schema[i].name = <<"A", "B", "C">>[i]
      BY DEF Type
    <2>2. schema[i].fields = <<Field("f", wraps[i], of[i], None, {})>>
      BY DEF Type
    <2>3. Sc!Fields(schema[i]) = {Field("f", wraps[i], of[i], None, {})}
      BY <2>2, FieldsOfOne, Zenon
    <2>4. /\ Field("f", wraps[i], of[i], None, {}).of = of[i]
          /\ Field("f", wraps[i], of[i], None, {}).wraps = wraps[i]
      BY DEF Field
    <2> HIDE DEF schema
    <2> QED BY <2>1, <2>3, <2>4
  <1>4. Sc!Types(schema) = {schema[i] : i \in 1 .. 3}
    BY <1>2 DEF Sc!Types, Sc!Range
  <1> HIDE DEF schema
  <1>5. Sc!Names(schema) = {"A", "B", "C"}
    <2>1. Sc!Names(schema) = {schema[i].name : i \in 1 .. 3}
      BY <1>4 DEF Sc!Names
    <2>2. schema[1].name = "A" /\ schema[2].name = "B" /\ schema[3].name = "C"
      BY <1>3
    <2>3. \A i \in 1 .. 3 : i = 1 \/ i = 2 \/ i = 3
      OBVIOUS
    <2> QED BY <2>1, <2>2, <2>3
  <1>6. WellFormed(schema)
    <2>1. {"A", "B", "C"} \cap (Sc!Scalars \cup {None}) = {}
      BY NamesAssumption DEF SampleNames, Sc!Scalars
    <2>2. \A i \in 1 .. 3 : of[i] \in {"A", "B", "C"} \cup Sc!Scalars
      BY DEF Sc!Scalars
    <2> QED BY <1>2, <1>3, <1>4, <1>5, <2>1, <2>2 DEF WellFormed
  <1>7. NoNonNullElements(schema)
    <2>1. ASSUME NEW w \in Wraps
          PROVE  Len(w) <= 1 \/ (Len(w) = 2 /\ w[2] = "list")
      <3>1. CASE w = <<>> BY <3>1
      <3>2. CASE w = <<"some">> BY <3>2
      <3>3. CASE w = <<"list">> BY <3>3
      <3>4. CASE w = <<"some", "list">> BY <3>4
      <3> QED BY <3>1, <3>2, <3>3, <3>4
    <2> HIDE DEF Wraps
    <2> QED BY <1>3, <1>4, <2>1 DEF NoNonNullElements
  <1>8. sample' = [of |-> "schema", schema |-> schema]
    BY <1>1 DEF schema
  <1> QED BY <1>6, <1>7, <1>8 DEF AnySchema

LEMMA FieldsPicked ==
  PickFields => AnyFields'
  <1> SUFFICES ASSUME PickFields PROVE AnyFields'
    OBVIOUS
  <1> DEFINE Wraps == {<<>>, <<"some">>, <<"list", "some">>}
             Marks == {{}, {"unique"}, {"defaultValue", "createIndex"}}
             Of == {"Int", "Level", "Phone", "A"}
  <1>1. PICK order \in [1 .. 3 -> 1 .. 3], of \in [1 .. 3 -> Of],
             marks \in [1 .. 3 -> Marks], wraps \in [1 .. 3 -> Wraps] :
          /\ \A i, j \in 1 .. 3 : i < j => ~IsSuffix(FieldNames[order[j]], FieldNames[order[i]])
          /\ \A i \in 1 .. 3 : of[i] \in Embedded => "defaultValue" \notin marks[i]
          /\ sample' = [of |-> "fields", type |-> Type("A", {}, Laid(order, of, marks, wraps))]
    BY DEF PickFields, Pick
  <1> DEFINE fields == Laid(order, of, marks, wraps)
             Letter == {"a", "b", "c"}
             Mark == {"unique", "defaultValue", "createIndex"}
             Relation == {None, "r"}
  <1>2. ASSUME NEW i \in 1 .. 3
        PROVE  /\ fields[i] \in FieldsOf(Letter, Of, Relation, Mark)
               /\ fields[i].name = FieldNames[order[i]]
               /\ Storable(fields[i])
    <2>1. FieldNames[order[i]] \in Seq(Letter)
      <3>1. <<"a">> \in Seq(Letter) /\ <<"b">> \in Seq(Letter) /\ <<"c", "a">> \in Seq(Letter)
        OBVIOUS
      <3>2. FieldNames[order[i]] \in {<<"a">>, <<"b">>, <<"c", "a">>}
        BY DEF FieldNames
      <3> HIDE DEF Letter
      <3> QED BY <3>1, <3>2
    <2>2. wraps[i] \in Wrappers
      BY DEF Wrappers
    <2>3. marks[i] \in SUBSET Mark /\ marks[i] \cap {"auto", "relationalMeta"} = {}
      OBVIOUS
    <2>4. fields[i] = Field(FieldNames[order[i]], wraps[i], of[i],
                            IF of[i] = "A" THEN "r" ELSE None, marks[i])
      BY DEF Laid
    <2>5. of[i] \in Of /\ (IF of[i] = "A" THEN "r" ELSE None) \in Relation /\ None \in Relation
      OBVIOUS
    <2>6. FieldNames[order[i]] # "id"
      BY FieldNamesAssumption
    <2> HIDE DEF fields, Letter, Mark, Of, Relation
    <2> QED BY <1>1, <2>1, <2>2, <2>3, <2>4, <2>5, <2>6 DEF Field, FieldsOf, Storable
  <1>3. fields \in Seq(FieldsOf(Letter, Of, Relation, Mark)) /\ DOMAIN fields = 1 .. 3
    <2>1. fields = [i \in 1 .. 3 |-> fields[i]]
      BY DEF Laid
    <2> HIDE DEF fields, Letter, Mark, Of, Relation
    <2>2. fields \in [1 .. 3 -> FieldsOf(Letter, Of, Relation, Mark)]
      BY <1>2, <2>1
    <2>3. 3 \in Nat
      OBVIOUS
    <2> QED BY <2>2, <2>3, FunctionsAre
  <1> HIDE DEF fields, Letter, Mark, Of, Relation
  <1>4. NamesApart(fields)
    <2>1. \A a, b : Sc!IsSuffix(a, b) <=> IsSuffix(a, b)
      BY Zenon DEF Sc!IsSuffix, IsSuffix, Sc!IsPrefix, IsPrefix, Sc!Reverse, Reverse
    <2> QED BY <1>1, <1>2, <1>3, <2>1 DEF NamesApart
  <1>5. \A i \in DOMAIN fields : Storable(fields[i])
    BY <1>2, <1>3
  <1>6. sample' = [of |-> "fields",
                   type |-> [name |-> "A", model |-> TRUE, apps |-> {}, ops |-> {},
                             events |-> {}, fields |-> fields]]
    BY <1>1 DEF fields, Type
  <1> QED BY <1>3, <1>4, <1>5, <1>6 DEF AnyFields

LEMMA RelationsPicked ==
  PickRelations => AnyRelations'
  <1> SUFFICES ASSUME PickRelations PROVE AnyRelations'
    OBVIOUS
  <1> DEFINE owner == <<"A", "A", "B", "B">>
             Own(of, relation) ==
                [i \in 1 .. 4 |-> Field(<<"p", "q", "v", "w">>[i], <<>>, of[i], relation[i], {})]
  <1>1. PICK relation \in [1 .. 4 -> {None, "r", "s"}], of \in [1 .. 4 -> {"A", "B"}],
             ops \in {{}, {"SINGULAR", "ADD"}} :
          /\ \A i, j \in 1 .. 4 : i # j /\ relation[i] = relation[j] /\ relation[i] # None =>
                /\ of[i] = owner[j]
                /\ \A k \in 1 .. 4 \ {i, j} : relation[k] # relation[i]
          /\ sample' = [of |-> "relations", schema |->
                        <<[Type("A", {}, <<Own(of, relation)[1], Own(of, relation)[2]>>)
                              EXCEPT !.ops = ops],
                          Type("B", {}, <<Own(of, relation)[3], Own(of, relation)[4]>>)>>]
    BY Zenon DEF PickRelations, Pick
  <1> DEFINE f == Own(of, relation)
             a == [Type("A", {}, <<f[1], f[2]>>) EXCEPT !.ops = ops]
             b == Type("B", {}, <<f[3], f[4]>>)
             schema == <<a, b>>
             At(p) == 2 * (p[1] - 1) + p[2]
  <1>2. ASSUME NEW i \in 1 .. 4
        PROVE  /\ f[i].name = <<"p", "q", "v", "w">>[i]
               /\ f[i].of = of[i] /\ f[i].relation = relation[i]
    BY DEF Field
  <1>3. f[1].name = "p" /\ f[2].name = "q" /\ f[3].name = "v" /\ f[4].name = "w"
    BY <1>2
  <1> HIDE DEF f
  <1>4. a.name = "A" /\ a.fields = <<f[1], f[2]>> /\ b.name = "B" /\ b.fields = <<f[3], f[4]>>
    BY DEF Type
  <1> HIDE DEF a, b
  <1>5. /\ Sequence(schema) /\ DOMAIN schema = {1, 2} /\ schema[1] = a /\ schema[2] = b
        /\ Sequence(a.fields) /\ DOMAIN a.fields = {1, 2}
        /\ Sequence(b.fields) /\ DOMAIN b.fields = {1, 2}
    BY <1>4, SequencesAre
  <1>6. sample' = [of |-> "relations", schema |-> schema]
    BY <1>1 DEF a, b, f
  <1> HIDE DEF schema
  <1>7. OwnNames(schema)
    BY <1>3, <1>4, <1>5, NamesAssumption DEF OwnNames, SampleNames
  <1>8. ASSUME NEW p \in Sc!Places(schema)
        PROVE  /\ p \in {<<1, 1>>, <<1, 2>>, <<2, 1>>, <<2, 2>>} /\ At(p) \in 1 .. 4
               /\ FieldAt(schema, p) = f[At(p)] /\ schema[p[1]].name = owner[At(p)]
               /\ Sc!RelationAt(schema, p) = relation[At(p)] /\ relation[At(p)] # None
    <2>1. PICK i \in {1, 2}, j \in {1, 2} :
             p = <<i, j>> /\ schema[i].fields[j] \in Sc!RelationFields(schema[i])
      BY <1>5 DEF Sc!Places
    <2>2. schema[i].fields[j].relation # None
      BY <2>1 DEF Sc!RelationFields
    <2>3. CASE i = 1 /\ j = 1
      BY <1>2, <1>4, <1>5, <2>1, <2>2, <2>3 DEF FieldAt, Sc!RelationAt
    <2>4. CASE i = 1 /\ j = 2
      BY <1>2, <1>4, <1>5, <2>1, <2>2, <2>4 DEF FieldAt, Sc!RelationAt
    <2>5. CASE i = 2 /\ j = 1
      BY <1>2, <1>4, <1>5, <2>1, <2>2, <2>5 DEF FieldAt, Sc!RelationAt
    <2>6. CASE i = 2 /\ j = 2
      BY <1>2, <1>4, <1>5, <2>1, <2>2, <2>6 DEF FieldAt, Sc!RelationAt
    <2> QED BY <2>2, <2>3, <2>4, <2>5, <2>6
  <1>9. TwoEnds(schema)
    <2> SUFFICES ASSUME NEW p \in Sc!Places(schema), NEW q \in Sc!Places(schema), p # q,
                        Sc!RelationAt(schema, p) = Sc!RelationAt(schema, q)
                 PROVE  /\ FieldAt(schema, p).of = schema[q[1]].name
                        /\ FieldAt(schema, p).name # FieldAt(schema, q).name
                        /\ \A o \in Sc!Places(schema) :
                              Sc!RelationAt(schema, o) = Sc!RelationAt(schema, p) => o \in {p, q}
      BY DEF TwoEnds
    <2>1. ASSUME NEW x \in Sc!Places(schema), NEW y \in Sc!Places(schema), At(x) = At(y)
          PROVE  x = y
      <3>1. /\ x = <<x[1], x[2]>> /\ x[1] \in {1, 2} /\ x[2] \in {1, 2}
            /\ y = <<y[1], y[2]>> /\ y[1] \in {1, 2} /\ y[2] \in {1, 2}
        BY <1>8
      <3>2. x[1] = y[1] /\ x[2] = y[2]
        BY <2>1, <3>1
      <3> QED BY <3>1, <3>2
    <2>2. \A i, j \in 1 .. 4 : f[i].name = f[j].name => i = j
      BY <1>3
    <2> HIDE DEF At
    <2>3. /\ At(p) \in 1 .. 4 /\ At(q) \in 1 .. 4 /\ At(p) # At(q)
          /\ relation[At(p)] = relation[At(q)] /\ relation[At(p)] # None
      BY <1>8, <2>1
    <2>4. FieldAt(schema, p).of = of[At(p)] /\ of[At(p)] = owner[At(q)]
      BY <1>1, <1>2, <1>8, <2>3
    <2>5. FieldAt(schema, p).name # FieldAt(schema, q).name
      BY <1>8, <2>2, <2>3
    <2>6. ASSUME NEW o \in Sc!Places(schema),
                 Sc!RelationAt(schema, o) = Sc!RelationAt(schema, p)
          PROVE  o \in {p, q}
      <3>1. At(o) \in 1 .. 4 /\ relation[At(o)] = relation[At(p)]
        BY <1>8, <2>6
      <3>2. At(o) \in {At(p), At(q)}
        BY <1>1, <2>3, <3>1
      <3> QED BY <2>1, <3>2
    <2> QED BY <1>8, <2>4, <2>5, <2>6
  <1> QED BY <1>6, <1>7, <1>9 DEF AnyRelations

LEMMA SecuredPicked ==
  PickSecured => AnySecured' /\ sample'.of = "secured"
  <1> SUFFICES ASSUME PickSecured PROVE AnySecured' /\ sample'.of = "secured"
    OBVIOUS
  <1>1. PICK by \in {"filter", "id"}, F \in SeqOf(Asked, 3), t \in 1 .. 2, n \in 0 .. 2,
             held \in SUBSET {"p", "q"}, ctx \in Claims, user \in Claims, app \in Claims,
             role \in {"USER", "ADMIN", "SYSTEM"}, bypass \in BOOLEAN :
          /\ by = "id" => F = <<Se!Leaf("id", "", {1})>>
          /\ IsInjective(F)
          /\ Len(F) > 1 => /\ ~bypass /\ role = "USER" /\ app.tenant = None
                           /\ ctx.tenant = None /\ user.tenant = Mine
          /\ Pick([of |-> "secured", by |-> by, filter |-> F,
                   row |-> [id |-> {1}, tenant |-> {t}, n |-> {n}], held |-> held,
                   request |-> [ctx |-> ctx, user |-> user, app |-> app, role |-> role,
                                bypass |-> bypass]])
    BY Zenon DEF PickSecured
  <1>2. ASSUME NEW e \in Asked
        PROVE  e.op \in Se!Translated \cup Se!Connectives
    <2>1. \A on, op, arg : Se!Leaf(on, op, arg).op = op
      BY DEF Se!Leaf
    <2>2. \A op, parts : Se!Connective(op, parts).op = op
      BY DEF Se!Connective
    <2> DEFINE Op == {"", "not", "in", "gt", "lte"}
               Lf(on, op, arg) == Se!Leaf(on, op, arg)
    <2>3. CASE e \in {Lf("id", "", {1}), Lf("tenant", "", {1}), Lf("tenant", "", {2}), Lf("tenant", "not", {1}),
                      Lf("tenant", "in", {1, 2}), Lf("n", "gt", {1}), Lf("n", "lte", {1}),
                      Lf("n", "not", {1})}
      <3>1. PICK on, arg : \E op \in Op : e = Lf(on, op, arg)
        <4> HIDE DEF Lf
        <4> QED BY <2>3
      <3>2. PICK op \in Op : e = Lf(on, op, arg)
        BY <3>1
      <3>3. e.op = op
        BY <2>1, <3>2, Zenon
      <3> HIDE DEF Lf
      <3> QED BY <3>3 DEF Se!Translated, Se!Bounds
    <2>4. CASE e \in {Se!Connective("or", {"p", "q"}), Se!Connective("and", {"p", "q"})}
      <3>1. e.op = "or" \/ e.op = "and"
        BY <2>2, <2>4
      <3> QED BY <3>1 DEF Se!Connectives
    <2> QED BY <2>3, <2>4, Zenon DEF Asked
  <1>3. F \in Seq(Asked) /\ \A i \in DOMAIN F : F[i] \in Asked
    <2>1. PICK k \in 0 .. 3 : F \in [1 .. k -> Asked]
      BY DEF SeqOf
    <2>2. k \in Nat
      OBVIOUS
    <2> QED BY <2>1, <2>2
  <1>4. IsFilter(F)
    BY <1>2, <1>3 DEF IsFilter
  <1> DEFINE row == [id |-> {1}, tenant |-> {t}, n |-> {n}]
  <1>5. row.tenant \subseteq {t}
    OBVIOUS
  <1> HIDE DEF row
  <1>6. sample' = [of |-> "secured", by |-> by, filter |-> F, row |-> row, held |-> held,
                   request |-> [ctx |-> ctx, user |-> user, app |-> app, role |-> role,
                                bypass |-> bypass]]
    BY <1>1 DEF Pick, row
  <1> QED BY <1>4, <1>5, <1>6 DEF AnySecured

LEMMA RulesPicked ==
  PickRule => AnyRule'
  <1> SUFFICES ASSUME PickRule PROVE AnyRule'
    OBVIOUS
  <1>1. PICK kind \in {"app", "user"}, place \in Places, entries \in SeqOf(Entry, 2) \ {<<>>},
             app \in {"web", "admin"}, role \in {"user", "guest"},
             op \in {"SINGULAR", "PLURAL"} :
          /\ \A rule \in {"allow", "deny"} : ~Ac!Malformed(kind, Written(kind, rule, entries))
          /\ Pick([of |-> "rules", kind |-> kind, place |-> place, entries |-> entries,
                   app |-> app, role |-> role, op |-> op])
    BY Zenon DEF PickRule
  <1>2. DOMAIN entries \in SUBSET Nat /\ DOMAIN entries # {}
    <2>1. PICK n \in 0 .. 2 : entries \in [1 .. n -> Entry]
      BY DEF SeqOf
    <2>2. DOMAIN entries = 1 .. n /\ n \in Nat
      BY <2>1
    <2>3. CASE n = 0
      <3>1. entries \in Seq(Entry) /\ Len(entries) = 0
        BY <2>1, <2>3
      <3> QED BY <3>1, EmptySeq
    <2>4. CASE n # 0
      <3>1. 1 \in 1 .. n /\ 1 .. n \subseteq Nat
        BY <2>2, <2>4
      <3> QED BY <2>2, <3>1
    <2> QED BY <2>3, <2>4
  <1>3. \A rule \in {"allow", "deny"} : Listed(kind, rule, entries)
    BY RulesAssumption
  <1>4. role # None
    BY NamesAssumption DEF SampleNames
  <1>5. AreEntries(kind, entries)
    BY <1>1, <1>2, <1>3 DEF AreEntries
  <1>6. sample' = [of |-> "rules", kind |-> kind, place |-> place, entries |-> entries,
                   app |-> app, role |-> role, op |-> op]
    BY <1>1 DEF Pick
  <1> QED BY <1>4, <1>5, <1>6 DEF AnyRule

LEMMA GatePicked ==
  PickGate => AnyGate'
  <1> SUFFICES ASSUME PickGate PROVE AnyGate'
    OBVIOUS
  <1>1. PICK app \in Apps, user \in SampleUsers, needsUser \in BOOLEAN, bypass \in BOOLEAN,
             granted \in SUBSET {"fetch"} :
          sample' = [of |-> "gate", granted |-> granted,
                     auth |-> [app |-> app, user |-> user, needsUser |-> needsUser,
                               bypass |-> bypass]]
    BY DEF PickGate, Pick
  <1>2. user \in {None, All} \cup
                 [status : {"active", "inactive", "blocked"}, roles : SUBSET {"user"}]
    BY DEF SampleUsers
  <1> QED BY <1>1, <1>2 DEF AnyGate

SamplesHold ==
  /\ StoredAsAllowed /\ SecondaryCloses /\ RelationFilterMeans
  /\ ConnectMutationsServed /\ RemovedAreDisconnected /\ FieldsSurvive
  /\ SecuredRows /\ OnlyThePermittedPass

(* Each property is about samples of one kind.                              *)
ItsOwn ==
  /\ sample.of = "upload" => StoredAsAllowed
  /\ sample.of = "schema" => SecondaryCloses
  /\ sample.of = "linked" => RelationFilterMeans
  /\ sample.of = "relations" => ConnectMutationsServed
  /\ sample.of = "array" => RemovedAreDisconnected
  /\ sample.of = "fields" => FieldsSurvive
  /\ sample.of = "secured" => SecuredRows
  /\ sample.of \in {"rules", "gate"} => OnlyThePermittedPass

LEMMA OnlyItsOwn ==
  ItsOwn => SamplesHold
  <1> SUFFICES ASSUME ItsOwn PROVE SamplesHold
    OBVIOUS
  <1>1. StoredAsAllowed
    BY Zenon DEF ItsOwn, StoredAsAllowed
  <1>2. SecondaryCloses
    BY Zenon DEF ItsOwn, SecondaryCloses
  <1>3. RelationFilterMeans
    BY Zenon DEF ItsOwn, RelationFilterMeans
  <1>4. ConnectMutationsServed
    BY Zenon DEF ItsOwn, ConnectMutationsServed
  <1>5. RemovedAreDisconnected
    BY Zenon DEF ItsOwn, RemovedAreDisconnected
  <1>6. FieldsSurvive
    BY Zenon DEF ItsOwn, FieldsSurvive
  <1>7. SecuredRows
    BY Zenon DEF ItsOwn, SecuredRows
  <1>8. OnlyThePermittedPass
    <2>1. sample.of \in {"rules", "gate"} => OnlyThePermittedPass
      BY DEF ItsOwn
    <2>2. sample.of \notin {"rules", "gate"} => OnlyThePermittedPass
      BY Zenon DEF OnlyThePermittedPass
    <2> QED BY <2>1, <2>2
  <1> QED BY <1>1, <1>2, <1>3, <1>4, <1>5, <1>6, <1>7, <1>8 DEF SamplesHold

(* Whatever a run picks as its sample, and so in each of its states: all    *)
(* eight properties hold.                                                   *)
THEOREM EverySampleHolds ==
  PlainSpec => []SamplesHold
  <1>1. SampleInit => SamplesHold
    <2> SUFFICES ASSUME SampleInit PROVE ItsOwn
      BY OnlyItsOwn
    <2>1. sample.of = None /\ None \notin Samplings
      BY NamesAssumption DEF SampleInit
    <2> QED BY <2>1, Zenon DEF ItsOwn, Samplings
  <1>2. SamplesHold /\ [PlainNext]_sample => SamplesHold'
    <2> SUFFICES ASSUME SamplesHold, [PlainNext]_sample PROVE SamplesHold'
      OBVIOUS
    <2>1. ItsOwn' => SamplesHold'
      BY OnlyItsOwn, PTL
    <2>2. CASE PickUpload
      <3>1. sample'.of = "upload"
        BY <2>2 DEF PickUpload, Pick
      <3>2. StoredAsAllowed'
        BY <2>2, UploadsPicked, UploadsAreChecked, PTL
      <3> QED BY <2>1, <3>1, <3>2 DEF ItsOwn
    <2>3. CASE PickSchema
      <3>1. sample'.of = "schema"
        BY <2>3 DEF PickSchema, Pick
      <3>2. SecondaryCloses'
        BY <2>3, SchemasPicked, SecondaryIsClosed, PTL
      <3> QED BY <2>1, <3>1, <3>2 DEF ItsOwn
    <2>4. CASE PickLinked
      <3>1. sample'.of = "linked"
        BY <2>4 DEF PickLinked, Pick
      <3>2. RelationFilterMeans'
        BY <2>4, LinksPicked, RelationFiltersMean, PTL
      <3> QED BY <2>1, <3>1, <3>2 DEF ItsOwn
    <2>5. CASE PickRelations
      <3>1. sample'.of = "relations"
        BY <2>5 DEF PickRelations, Pick
      <3>2. ConnectMutationsServed'
        BY <2>5, RelationsPicked, ConnectionsAreServed, PTL
      <3> QED BY <2>1, <3>1, <3>2 DEF ItsOwn
    <2>6. CASE PickArray
      <3>1. sample'.of = "array"
        BY <2>6 DEF PickArray, Pick
      <3>2. RemovedAreDisconnected'
        BY <2>6, ArraysPicked, RemovalsDisconnect, PTL
      <3> QED BY <2>1, <3>1, <3>2 DEF ItsOwn
    <2>7. CASE PickFields
      <3>1. sample'.of = "fields"
        BY <2>7 DEF PickFields, Pick
      <3>2. FieldsSurvive'
        BY <2>7, FieldsPicked, TypesSurvive, PTL
      <3> QED BY <2>1, <3>1, <3>2 DEF ItsOwn
    <2>9. CASE PickSecured
      <3>1. sample'.of = "secured"
        BY <2>9, SecuredPicked
      <3>2. SecuredRows'
        BY <2>9, SecuredPicked, RowsAreSecured, PTL
      <3> QED BY <2>1, <3>1, <3>2 DEF ItsOwn
    <2>10. CASE PickRule
      <3>1. sample'.of = "rules"
        BY <2>10 DEF PickRule, Pick
      <3>2. OnlyThePermittedPass'
        BY <2>10, RulesPicked, AccessIsAsRuled, PTL
      <3> QED BY <2>1, <3>1, <3>2 DEF ItsOwn
    <2>11. CASE PickGate
      <3>1. sample'.of = "gate"
        BY <2>11 DEF PickGate, Pick
      <3>2. OnlyThePermittedPass'
        BY <2>11, GatePicked, AccessIsAsRuled, PTL
      <3> QED BY <2>1, <3>1, <3>2 DEF ItsOwn
    <2>8. CASE UNCHANGED sample
      <3>1. StoredAsAllowed'
        BY <2>8 DEF SamplesHold, StoredAsAllowed
      <3>2. SecondaryCloses'
        BY <2>8 DEF SamplesHold, SecondaryCloses
      <3>3. RelationFilterMeans'
        BY <2>8 DEF SamplesHold, RelationFilterMeans
      <3>4. ConnectMutationsServed'
        BY <2>8 DEF SamplesHold, ConnectMutationsServed
      <3>5. RemovedAreDisconnected'
        BY <2>8 DEF SamplesHold, RemovedAreDisconnected
      <3>6. FieldsSurvive'
        BY <2>8 DEF SamplesHold, FieldsSurvive
      <3>7. SecuredRows'
        BY <2>8 DEF SamplesHold, SecuredRows
      <3>8. OnlyThePermittedPass'
        BY <2>8 DEF SamplesHold, OnlyThePermittedPass
      <3> QED BY <3>1, <3>2, <3>3, <3>4, <3>5, <3>6, <3>7, <3>8 DEF SamplesHold
    <2> QED BY <2>2, <2>3, <2>4, <2>5, <2>6, <2>7, <2>8, <2>9, <2>10, <2>11 DEF PlainNext
  <1> QED BY <1>1, <1>2, PTL DEF PlainSpec
=============================================================================
