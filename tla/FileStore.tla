----------------------------- MODULE FileStore -----------------------------
(***************************************************************************)
(* Objects in S3 and the rows of files that name them.  An upload is put   *)
(* under {integration}/uploads/{filename}, a job's output under            *)
(* {integration}/{job}/output/{filename}; in both cases the object comes   *)
(* first and the row second.                                               *)
(***************************************************************************)
EXTENDS Naturals, FiniteSets

CONSTANTS
    Uploads,    \* upload requests: each brings content of its own
    Name,       \* [Uploads -> names]: original_filename
    Senders     \* functions [Uploads -> integrations]: who may send what

VARIABLES
    object,     \* the bucket: what is under each key that is used
    file,       \* rows of files
    upload,     \* where an upload request is
    sender      \* who sends each upload

storeVars == <<object, file, upload, sender>>

MutUploadKey(u) == <<"uploads", Name[u]>>

\* The object of an upload, and of a job's output.
UploadKey(u) == <<sender[u], "uploads", Name[u]>>
OutputKey(i, j) == <<i, j, "output">>

Stored(key) == key \in DOMAIN object
PutObject(key, content) == object' = [k \in DOMAIN object \cup {key} |->
                                       IF k = key THEN content ELSE object[k]]
RowOf(i, key, content) == [integration |-> i, key |-> key, content |-> content]

StoreInit ==
    /\ object = <<>>
    /\ file = {}
    /\ upload = [u \in Uploads |-> "idle"]
    /\ sender \in Senders

-----------------------------------------------------------------------------

\* upload_file up to put_object; an empty or too large file changes nothing.
PutUpload(u) ==
    /\ upload[u] = "idle"
    /\ PutObject(UploadKey(u), u)
    /\ upload' = [upload EXCEPT ![u] = "put"]
    /\ UNCHANGED <<file, sender>>

\* FileRepo.create.
RowUpload(u) ==
    /\ upload[u] = "put"
    /\ file' = file \cup {RowOf(sender[u], UploadKey(u), u)}
    /\ upload' = [upload EXCEPT ![u] = "done"]
    /\ UNCHANGED <<object, sender>>

\* The API process dies.
LoseUpload(u) ==
    /\ upload[u] = "put"
    /\ upload' = [upload EXCEPT ![u] = "lost"]
    /\ UNCHANGED <<object, file, sender>>

Uploading == \E u \in Uploads : PutUpload(u) \/ RowUpload(u)

\* get_file and get_job_result: what the caller is given for a row.
Readable(i, row) == row.integration = i

-----------------------------------------------------------------------------

(***************************************************************************)
(* Every row has its object, so that a download link and a worker's read   *)
(* find something, and what they find was sent by the row's integration.   *)
(* It is the row's own content unless another upload of the same name has  *)
(* replaced it (upload_file, get_file).                                    *)
(***************************************************************************)
RowsHaveObjects ==
    \A row \in file :
        /\ Stored(row.key)
        /\ object[row.key] # row.content =>
             LET other == object[row.key] IN
               /\ other \in Uploads /\ row.content \in Uploads
               /\ other # row.content
               /\ UploadKey(other) = row.key
               /\ sender[other] = row.integration
=============================================================================
