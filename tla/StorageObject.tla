----------------------------- MODULE StorageObject -----------------------------
(***************************************************************************)
(* One stored object: its row, the multipart upload and the content in S3, *)
(* and everything that works on them: the request that creates it, its     *)
(* owner's requests to complete, abort or delete it, the processing that a *)
(* completed upload sets off in the same process, and the nightly clean-up *)
(* of stale uploads.  The row and S3 share no transaction: every action is *)
(* one round trip to either, and each may fail.                            *)
(***************************************************************************)
EXTENDS Naturals

CONSTANTS
    Requests,   \* requests of the owner
    UPLOAD,     \* the request that creates the object
    SWEEP       \* the nightly clean-up

ASSUME StorageAssumption ==
    /\ UPLOAD \notin Requests /\ SWEEP \notin Requests
    /\ UPLOAD # SWEEP

VARIABLES
    row,        \* the status of the row, "absent" before it and "gone" after it
    multipart,  \* the row has an s3UploadId
    old,        \* the row is older than a day
    upload,     \* the multipart upload in S3
    content,    \* S3 holds the object
    at,         \* how far each request is, and the clean-up
    process,    \* the processing that each completion set off
    deleting,   \* the owner's deletion has reached S3 (history)
    stuck       \* processing ended without its last write (history)

bucket == <<upload, content>>
record == <<row, multipart, old>>
history == <<deleting, stuck>>
vars == <<record, bucket, at, process, history>>

Actors == Requests \cup {UPLOAD, SWEEP}
Handlers == Requests \cup {UPLOAD}

Init ==
    /\ row = "absent" /\ multipart = FALSE /\ old = FALSE
    /\ upload = "none" /\ content = FALSE
    /\ at = [a \in Actors |-> "idle"]
    /\ process = [h \in Handlers |-> "none"]
    /\ deleting = FALSE /\ stuck = FALSE

Exists == row \notin {"absent", "gone"}

\* The clean-up comes back every night, a request does not.
Resting(a) == IF a = SWEEP THEN "idle" ELSE "done"

Goto(a, where) == at' = [at EXCEPT ![a] = where]

-----------------------------------------------------------------------------
(* Creation *)

\* initUpload: S3 first, then the row.
InitMultipart ==
    /\ at[UPLOAD] = "idle"
    /\ upload' = "open"
    /\ Goto(UPLOAD, "creatingPending")
    /\ UNCHANGED <<record, content, process, history>>

\* Fault: the row does not keep the upload's id.
CreateUnlinked ==
    /\ at[UPLOAD] = "creatingPending"
    /\ row' = "pending"
    /\ Goto(UPLOAD, "done")
    /\ UNCHANGED <<multipart, old, bucket, process, history>>

CreatePending ==
    /\ at[UPLOAD] = "creatingPending"
    /\ row' = "pending" /\ multipart' = TRUE
    /\ Goto(UPLOAD, "done")
    /\ UNCHANGED <<old, bucket, process, history>>

\* simpleUpload: the whole content, then the row and the event.
StoreContent ==
    /\ at[UPLOAD] = "idle"
    /\ content' = TRUE
    /\ Goto(UPLOAD, "creatingProcessing")
    /\ UNCHANGED <<record, upload, process, history>>

CreateProcessing ==
    /\ at[UPLOAD] = "creatingProcessing"
    /\ row' = "processing"
    /\ process' = [process EXCEPT ![UPLOAD] = "running"]
    /\ Goto(UPLOAD, "done")
    /\ UNCHANGED <<multipart, old, bucket, history>>

-----------------------------------------------------------------------------
(* The owner's requests *)

\* The row is read and its owner checked; its status is not looked at.
Begin(r) ==
    /\ at[r] = "idle"
    /\ Exists
    /\ \/ multipart /\ Goto(r, "completing")
       \/ multipart /\ Goto(r, "aborting")
       \/ Goto(r, "deleting")
    /\ UNCHANGED <<record, bucket, process, history>>

\* Fault: the status is changed before S3 has put the parts together.
CompleteLater(r) ==
    /\ at[r] = "completing"
    /\ Exists
    /\ row' = "processing"
    /\ process' = [process EXCEPT ![r] = "running"]
    /\ Goto(r, "done")
    /\ UNCHANGED <<multipart, old, bucket, history>>

\* S3 may answer a repeated completion like the first one.
Complete(r) ==
    /\ at[r] = "completing"
    /\ upload \in {"open", "completed"}
    /\ upload' = "completed"
    /\ content' = (content \/ upload = "open")
    /\ Goto(r, "completed")
    /\ UNCHANGED <<record, process, history>>

\* Fault: the event is forgotten.
SetSilently(r) ==
    /\ at[r] = "completed"
    /\ Exists
    /\ row' = "processing"
    /\ Goto(r, "done")
    /\ UNCHANGED <<multipart, old, bucket, process, history>>

SetProcessing(r) ==
    /\ at[r] = "completed"
    /\ Exists
    /\ row' = "processing"
    /\ process' = [process EXCEPT ![r] = "running"]
    /\ Goto(r, "done")
    /\ UNCHANGED <<multipart, old, bucket, history>>

\* Fault: an upload that S3 does not know is taken for aborted.
AbortAnyway(a) ==
    /\ at[a] = "aborting"
    /\ upload' = IF upload = "open" THEN "aborted" ELSE upload
    /\ Goto(a, "removing")
    /\ UNCHANGED <<record, content, process, history>>

\* abortUpload and the clean-up: S3 refuses unless the upload is open.
Abort(a) ==
    /\ at[a] = "aborting"
    /\ upload = "open"
    /\ upload' = "aborted"
    /\ Goto(a, "removing")
    /\ UNCHANGED <<record, content, process, history>>

\* delete: the content, if there is any; an open upload is left alone.
DeleteContent(r) ==
    /\ at[r] = "deleting"
    /\ content' = FALSE
    /\ deleting' = TRUE
    /\ Goto(r, "removing")
    /\ UNCHANGED <<record, upload, process, stuck>>

RemoveRow(a) ==
    /\ at[a] = "removing"
    /\ Exists
    /\ row' = "gone" /\ multipart' = FALSE
    /\ Goto(a, Resting(a))
    /\ UNCHANGED <<old, bucket, process, history>>

\* A round trip fails, or finds the row gone: what was done so far remains.
Throws(a) ==
    /\ at[a] \notin {"idle", "done"}
    /\ Goto(a, Resting(a))
    /\ UNCHANGED <<record, bucket, process, history>>

-----------------------------------------------------------------------------
(* The clean-up and the processing *)

Age ==
    /\ Exists /\ ~old
    /\ old' = TRUE
    /\ UNCHANGED <<row, multipart, bucket, at, process, history>>

\* handleCleanup lists the stale uploads once; 'uploading' is never written.
FindStale ==
    /\ at[SWEEP] = "idle"
    /\ row = "pending" /\ old
    /\ Goto(SWEEP, IF multipart THEN "aborting" ELSE "removing")
    /\ UNCHANGED <<record, bucket, process, history>>

\* handleObjectUploaded: a processor that needs the content fails without it.
Process(h) ==
    /\ process[h] = "running"
    /\ \E outcome \in {"ready", "failed"} :
         process' = [process EXCEPT ![h] = outcome]
    /\ UNCHANGED <<record, bucket, at, history>>

\* markReady, markFailed
Mark(h) ==
    /\ process[h] \in {"ready", "failed"}
    /\ Exists
    /\ row' = process[h]
    /\ process' = [process EXCEPT ![h] = "done"]
    /\ UNCHANGED <<multipart, old, bucket, at, history>>

\* Nobody catches what the update throws.
MarkThrows(h) ==
    /\ process[h] \in {"ready", "failed"}
    /\ process' = [process EXCEPT ![h] = "done"]
    /\ stuck' = TRUE
    /\ UNCHANGED <<record, bucket, at, deleting>>

\* The process ends and the events in it are lost.
Crash ==
    /\ \/ \E a \in Actors : at[a] \notin {"idle", "done"}
       \/ \E h \in Handlers : process[h] \notin {"none", "done"}
    /\ at' = [a \in Actors |-> IF at[a] = "idle" THEN "idle" ELSE Resting(a)]
    /\ process' = [h \in Handlers |-> IF process[h] = "none" THEN "none" ELSE "done"]
    /\ stuck' = TRUE
    /\ UNCHANGED <<record, bucket, deleting>>

\* No call is made any more.
Rest ==
    /\ \A a \in Actors : at[a] \in {"idle", "done"}
    /\ \A h \in Handlers : process[h] \in {"none", "done"}
    /\ UNCHANGED vars

Handler(h) == Process(h) \/ Mark(h) \/ MarkThrows(h)

Next ==
    \/ InitMultipart \/ CreatePending \/ StoreContent \/ CreateProcessing
    \/ \E r \in Requests : Begin(r) \/ Complete(r) \/ SetProcessing(r) \/ DeleteContent(r)
    \/ \E a \in Actors : Abort(a) \/ RemoveRow(a) \/ Throws(a)
    \/ Age \/ FindStale
    \/ \E h \in Handlers : Handler(h)
    \/ Crash
    \/ Rest

\* A handler that was started goes on: every await ends.
Spec == Init /\ [][Next]_vars /\ \A h \in Handlers : WF_vars(Handler(h))

-----------------------------------------------------------------------------
(* Properties *)

\* The row is in a status the code writes, and the request, the row and S3 fit.
TypeOK ==
    /\ row \in {"absent", "pending", "processing", "ready", "failed", "gone"}
    /\ multipart \in BOOLEAN /\ (multipart => Exists)
    /\ row = "pending" => multipart
    /\ old \in BOOLEAN
    /\ upload \in {"none", "open", "completed", "aborted"}
    /\ content \in BOOLEAN
    /\ at \in [Actors -> {"idle", "creatingPending", "creatingProcessing",
                          "completing", "completed", "aborting", "deleting",
                          "removing", "done"}]
    /\ \A r \in Requests : at[r] \notin {"creatingPending", "creatingProcessing"}
    /\ at[UPLOAD] \in {"idle", "creatingPending", "creatingProcessing", "done"}
    /\ at[SWEEP] \in {"idle", "aborting", "removing"}
    /\ process \in [Handlers -> {"none", "running", "ready", "failed", "done"}]
    /\ deleting \in BOOLEAN /\ stuck \in BOOLEAN

\* An object that is offered for download has its content in S3, whatever was
\* completed twice, aborted or swept meanwhile, unless its owner's deletion
\* got as far as S3.
ReadyHasContent == row = "ready" => content \/ deleting

\* Where a row goes, S3 keeps neither an open upload nor content that nobody
\* can reach: a completion that wins the race makes the abortion throw before
\* the row is removed.  The owner's deletion does not give this promise: it
\* leaves an upload that is not completed open, and may overtake a completion.
NothingLeftBehind ==
    [][(Exists /\ row' = "gone") => deleting \/ (~content /\ upload # "open")]_vars

\* An object does not stay processing, unless the process ended or the last
\* write failed: nothing picks such a row up again.
ProcessingEnds == (row = "processing") ~> (row # "processing" \/ stuck)

\* What ProcessingEnds rests on: a row that is processing has a handler that has
\* still to write its outcome.
ProcessingIsAttended ==
    row = "processing" =>
        stuck \/ \E h \in Handlers : process[h] \in {"running", "ready", "failed"}
=============================================================================
