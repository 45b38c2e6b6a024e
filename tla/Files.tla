-------------------------------- MODULE Files --------------------------------
(***************************************************************************)
(* Files, their use counts and their objects in the bucket:                *)
(* graphqlUpload.js and uploadFile.js make them; addRelation.js,           *)
(* removeRelation.js, deleteUtils.js, deleteMany.js and                    *)
(* removeConnectionWhenDisconnected.js count and remove them.  Records     *)
(* refer to files one way, as profilePic and featuredImage do.             *)
(*                                                                         *)
(* Mutations run one after the other; what they do not wait for (late)     *)
(* happens at any time afterwards.  Model.update is taken to exist.        *)
(***************************************************************************)
EXTENDS Common, Integers, FiniteSets, SequencesExt

CONSTANTS FileIds, Records,
          MaxLate, MaxCount  \* bounds of what is left behind and of a count

ASSUME NoneAssumption == None \notin Int /\ \A some \in SUBSET FileIds : None # some

VARIABLES isList,  \* the records' field is a list
          counts,  \* a file's usageCount, None if there is no such file
          made,    \* the ids given so far
          bucket,  \* the files whose object is in the bucket
          uses,    \* record -> the files it refers to; None: no such record
          late,    \* what mutations left behind: [do, file]
          risked   \* a file was deleted by its id, or used while it was being removed

fileVars == <<isList, counts, made, bucket, uses, late, risked>>

Left(what, f) == Append(late, [do |-> what, file |-> f])
Room == Len(late) < MaxLate
Exists(r) == uses[r] # None
Users(f) == {r \in Records : Exists(r) /\ f \in uses[r]}
Goes(f) == [do |-> "remove", file |-> f] \in Range(late)

FileInit ==
    /\ isList \in BOOLEAN
    /\ counts = [f \in FileIds |-> None] /\ made = {} /\ bucket = {}
    /\ uses = [r \in Records |-> {}] /\ late = <<>> /\ risked = FALSE

-----------------------------------------------------------------------------
(* processRequestAndUploadFile and uploadFileResolver, for a record without *)
(* a file: the object is stored without waiting.  With a file the same      *)
(* object and document are overwritten, and nothing changes here.           *)
Upload(r, f) ==
    /\ Room /\ f \notin made /\ made' = made \cup {f} /\ Exists(r) /\ uses[r] = {}
    /\ counts' = [counts EXCEPT ![f] = 1]
    /\ uses' = [uses EXCEPT ![r] = {f}]
    /\ late' = Left("store", f)
    /\ UNCHANGED <<isList, bucket, risked>>

(* Without connectInput the file is not used yet.                           *)
UploadAlone(f) ==
    /\ Room /\ f \notin made /\ made' = made \cup {f}
    /\ counts' = [counts EXCEPT ![f] = 0]
    /\ late' = Left("store", f)
    /\ UNCHANGED <<isList, bucket, uses, risked>>

(* addRelation: what a single field referred to before keeps its count.     *)
Link(r, f) ==
    /\ counts[f] # None /\ counts[f] < MaxCount /\ Exists(r) /\ f \notin uses[r]
    /\ uses' = [uses EXCEPT ![r] = IF isList THEN @ \cup {f} ELSE {f}]
    /\ counts' = [counts EXCEPT ![f] = @ + 1]
    /\ risked' = (risked \/ Goes(f))
    /\ UNCHANGED <<isList, made, bucket, late>>

(* Variant: a file used twice is removed as well. *)
UnlinkTwo(r, f) ==
    /\ Room /\ counts[f] # None /\ Exists(r) /\ f \in uses[r]
    /\ uses' = [uses EXCEPT ![r] = @ \ {f}]
    /\ IF counts[f] \in {1, 2} THEN counts' = [counts EXCEPT ![f] = None] /\ bucket' = bucket \ {f}
       ELSE UNCHANGED <<counts, bucket>>
    /\ late' = IF counts[f] > 0 THEN Left("decrease", f) ELSE late
    /\ UNCHANGED <<isList, made, risked>>

(* removeRelation: the count that was read decides, its decrease is not     *)
(* waited for.                                                              *)
Unlink(r, f) ==
    /\ Room /\ counts[f] # None /\ Exists(r) /\ f \in uses[r]
    /\ uses' = [uses EXCEPT ![r] = @ \ {f}]
    /\ IF counts[f] = 1 THEN counts' = [counts EXCEPT ![f] = None] /\ bucket' = bucket \ {f}
       ELSE UNCHANGED <<counts, bucket>>
    /\ late' = IF counts[f] > 0 THEN Left("decrease", f) ELSE late
    /\ UNCHANGED <<isList, made, risked>>

(* deleteRecordReferences of a deleted record: a single file is decreased,  *)
(* read again, and removed at 0; the files of a list keep their counts.     *)
DeleteRecord(r) ==
    /\ Exists(r)
    /\ uses' = [uses EXCEPT ![r] = None]
    /\ LET gone == {f \in uses[r] : ~isList /\ counts[f] = 1}
       IN /\ counts' = [f \in FileIds |->
                            IF f \in gone THEN None
                            ELSE IF f \in uses[r] /\ ~isList /\ counts[f] # None
                                 THEN counts[f] - 1 ELSE counts[f]]
          /\ bucket' = bucket \ gone
    /\ UNCHANGED <<isList, made, late, risked>>

(* An update that sends nothing for a single field.                         *)
Disconnect(r) ==
    /\ Room /\ ~isList /\ Exists(r) /\ uses[r] # {}
    /\ uses' = [uses EXCEPT ![r] = {}]
    /\ late' = Left("look", CHOOSE f \in uses[r] : TRUE)
    /\ UNCHANGED <<isList, made, counts, bucket, risked>>

(* delete.js asks for no count; deleteMany.js leaves files in use alone,    *)
(* and neither touches the bucket.                                          *)
DeleteFile(f) ==
    /\ counts[f] # None
    /\ counts' = [counts EXCEPT ![f] = None]
    /\ risked' = TRUE
    /\ UNCHANGED <<isList, made, bucket, uses, late>>

DeleteFiles(some) ==
    /\ \E f \in some : counts[f] = 0
    /\ counts' = [f \in FileIds |-> IF f \in some /\ counts[f] = 0 THEN None ELSE counts[f]]
    /\ UNCHANGED <<isList, made, bucket, uses, late, risked>>

-----------------------------------------------------------------------------
Done(i) == RemoveAt(late, i)

(* The object is in the bucket.                                             *)
Store(i) ==
    /\ late[i].do = "store"
    /\ bucket' = bucket \cup {late[i].file} /\ late' = Done(i)
    /\ UNCHANGED <<isList, made, counts, uses, risked>>

Decrease(i) ==
    /\ late[i].do = "decrease"
    /\ counts' = [counts EXCEPT ![late[i].file] = IF @ = None THEN @ ELSE @ - 1]
    /\ late' = Done(i)
    /\ UNCHANGED <<isList, made, bucket, uses, risked>>

(* removeConnectionWhenDisconnected reads the count after the mutation has  *)
(* answered; the decrease it makes of a count above 1 is never written.     *)
Look(i) ==
    /\ late[i].do = "look"
    /\ LET f == late[i].file
       IN late' = IF counts[f] = None \/ counts[f] > 1 THEN Done(i)
                  ELSE [late EXCEPT ![i].do = "remove"]
    /\ UNCHANGED <<isList, made, counts, bucket, uses, risked>>

Erase(i) ==
    /\ late[i].do = "remove"
    /\ counts' = [counts EXCEPT ![late[i].file] = None]
    /\ bucket' = bucket \ {late[i].file} /\ late' = Done(i)
    /\ UNCHANGED <<isList, made, uses, risked>>

FileNext ==
    \/ \E r \in Records, f \in FileIds : Upload(r, f) \/ Link(r, f) \/ Unlink(r, f)
    \/ \E r \in Records : DeleteRecord(r) \/ Disconnect(r)
    \/ \E f \in FileIds : UploadAlone(f) \/ DeleteFile(f)
    \/ \E some \in SUBSET FileIds : DeleteFiles(some)
    \/ \E i \in DOMAIN late : Store(i) \/ Decrease(i) \/ Look(i) \/ Erase(i)

FileSpec == FileInit /\ [][FileNext]_fileVars

-----------------------------------------------------------------------------
(* A file that some record refers to exists, is counted at least as often   *)
(* as it is referred to, and is in the bucket once what mutations left      *)
(* behind has happened - as long as no file is deleted by its id, and none  *)
(* is used between the two steps of a removal that an update left behind.   *)
FilesInUseStay ==
    ~risked =>
        \A f \in FileIds : Users(f) # {} =>
            /\ counts[f] # None
            /\ counts[f] >= Cardinality(Users(f))
            /\ late = <<>> => f \in bucket
=============================================================================
