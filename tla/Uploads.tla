------------------------------- MODULE Uploads -------------------------------
(***************************************************************************)
(* The multipart middleware in front of the server (graphqlUpload.js and   *)
(* middlewares/utils): what a request with files does to the bucket and    *)
(* the error that it hands to the resolver of uploadFile.                  *)
(*                                                                         *)
(* A file is [words, ext, megs, readable]: the words that its MIME type    *)
(* holds, what follows the slash, its size in MB and whether the temporary *)
(* copy can be read.  An error is None where there is none.                *)
(***************************************************************************)
EXTENDS Naturals, FiniteSetsExt, SequencesExt

CONSTANTS None, OtherTypes  \* OtherTypes: ALLOWED_FILE_UPLOAD_TYPES

(* getFileTypeName: the first kind of which the MIME type has a word.       *)
Kinds == <<"image", "audio", "video", "excel", "subtitle", "lottie", "pdf",
           "html", "css", "javascript", "accdb", "mdb", "accdt">>

WordsOf(kind) ==
    CASE kind = "excel" -> {"sheet", "excel"}
      [] kind = "subtitle" -> {"octet-stream"}
      [] kind = "lottie" -> {"json"}
      [] OTHER -> {kind}

KindOf(words) ==
    LET fits == {i \in DOMAIN Kinds : WordsOf(Kinds[i]) \cap words # {}}
    IN IF fits = {} THEN "others" ELSE Kinds[Min(fits)]

(* checkFileSizeAndExtensions: the limit itself is allowed but for the      *)
(* files of Access; other kinds are for the operations of a few types.      *)
Access == {"accdb", "mdb", "accdt"}

Limit(kind) == CASE kind = "video" -> 200 [] kind = "others" -> 55 [] OTHER -> 50

SizeFits(kind, megs, type) ==
    CASE kind \in Access -> megs < Limit(kind)
      [] kind = "others" -> type \in OtherTypes /\ megs <= Limit(kind)
      [] OTHER -> megs <= Limit(kind)

Extensions(kind) ==
    CASE kind = "image" -> {"jpg", "jpeg", "png", "gif", "webp"}
      [] kind = "audio" -> {"mp3", "mpeg"}
      [] kind = "video" -> {"mp4"}
      [] kind = "excel" -> {"xlsx"}
      [] kind = "subtitle" -> {"octet-stream"}
      [] kind = "lottie" -> {"json"}
      [] kind = "pdf" -> {"pdf"}
      [] kind \in {"html", "css", "javascript"} -> {"html", "css", "javascript"}
      [] kind \in Access -> Access

ExtensionFits(kind, ext, type) ==
    IF kind = "others" THEN type \in OtherTypes ELSE ext \in Extensions(kind)

(* getFileSizeExtErrorName *)
FileError(file, type) ==
    LET kind == KindOf(file.words)
        size == SizeFits(kind, file.megs, type)
        ext == ExtensionFits(kind, file.ext, type)
    IN CASE size /\ ext -> IF file.readable THEN None ELSE "FileUploadError"
         [] ~size /\ ext -> "InvalidFileUploadSizeError"
         [] size /\ ~ext -> "InvalidFileUploadExtensionError"
         [] OTHER -> "InvalidFileUploadSizeAndExtensionError"

(* getAuthenticationErrorMessage; the app is None or [kind, static, valid]. *)
AuthError(app, user) ==
    IF app = None THEN "UnauthenticatedAppError"
    ELSE IF app.static /\ ~app.valid THEN "InvalidStaticToken"
    ELSE CASE app.kind = "backend" -> None
           [] app.kind = "other" -> "UnauthenticatedAppError"
           [] app.kind = "front" -> IF user = None THEN "UnauthenticatedUserError" ELSE None

(* checkActionTypeBeforeFileUpload: found says whether the record is there, *)
(* field what its file field holds - None, [one |-> id], or [many |-> ids]. *)
Action(found, field, fileId) ==
    LET isList == field # None /\ "many" \in DOMAIN field
        ids == IF field = None THEN {} ELSE IF isList THEN field.many ELSE {field.one}
    IN CASE ~found \/ (fileId # None /\ fileId \notin ids) -> "DatabaseRecordNotFoundError"
         [] found /\ fileId = None /\ isList /\ ids # {} -> "FileIdIsMandatoryError"
         [] found /\ fileId = None /\ ids = {} -> "add"
         [] OTHER -> "edit"

IsError(action) == action \notin {"add", "edit"}

(* What becomes of file i, if nothing was wrong before the files: done is   *)
(* [sent, error], the files handed to uploadToS3 and the error so far.      *)
(* Variant: a file is sent before it is checked. *)
SentFirst(done, i, files, type, auth) ==
    CASE auth # None -> [done EXCEPT !.error = auth]
      [] auth = None /\ FileError(files[i], type) # None ->
            [sent |-> done.sent \cup {i}, error |-> FileError(files[i], type)]
      [] OTHER -> [done EXCEPT !.sent = @ \cup {i}]

CheckedAndSent(done, i, files, type, auth) ==
    CASE auth # None -> [done EXCEPT !.error = auth]
      [] auth = None /\ FileError(files[i], type) # None ->
            [done EXCEPT !.error = FileError(files[i], type)]
      [] OTHER -> [done EXCEPT !.sent = @ \cup {i}]

(* processRequestAndUploadFile: each file in turn; all share one payload,   *)
(* whose error is that of the last file that had one, while an error from   *)
(* before the files keeps all of them from the bucket.                      *)
Processed(files, type, bucket, action, auth) ==
    LET early == IF IsError(action) THEN action ELSE None
        done[i \in 0 .. Len(files)] ==
            IF i = 0 THEN [sent |-> {}, error |-> early]
            ELSE IF ~bucket \/ early # None THEN done[i - 1]
            ELSE CheckedAndSent(done[i - 1], i, files, type, auth)
    IN done[Len(files)]

(* resizeAndUpload awaits no put and returns none: what is in the bucket in *)
(* the end is what was sent but for the puts that failed, of which neither  *)
(* the answer nor the error knows.                                          *)
Stored(done, failed) == done.sent \ failed
=============================================================================
