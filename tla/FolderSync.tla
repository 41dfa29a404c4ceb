------------------------------ MODULE FolderSync ------------------------------
(***************************************************************************)
(* The command line tool's folder sync: the files on disk, the rows of     *)
(* sync.db, and "sync run", which scans the folder, compares it with the   *)
(* rows by modification time and size, and uploads what changed, one file  *)
(* after the other.  Files are edited at any time, also while they are     *)
(* being uploaded, files cannot be read, uploads and writes of rows fail,  *)
(* and the tool may be stopped anywhere.                                   *)
(***************************************************************************)
EXTENDS Integers

CONSTANTS
    NULL,       \* no file, no row, no object
    Paths,
    Sizes,
    MaxTime,    \* modification times are 0..MaxTime seconds, a bound
    MaxEdits    \* writes to files, a bound

VARIABLES
    disk,       \* the file at each path: modification time, size and content
    edits,      \* writes so far; each makes a content of its own
    row,        \* the row of each path in files
    at,         \* where the run stands
    toUpload,   \* the scanned mtime and size of the new and modified files left
    toDelete,   \* the deleted files left
    current,    \* the path that is being uploaded
    sending,    \* the content that was read for it
    past,       \* every file a path ever had (history)
    touched,    \* paths written or removed since the scan (history)
    missed      \* files that the run's scan skipped, or whose row it could not
                \* write (history)

run == <<at, toUpload, toDelete, current, sending>>
folder == <<disk, edits>>
history == <<past, touched, missed>>
vars == <<folder, row, run, history>>

Stats == [mtime : 0..MaxTime, size : Sizes]
Files == [mtime : 0..MaxTime, size : Sizes, content : 1..MaxEdits]
Rows == [mtime : 0..MaxTime, size : Sizes, object : 1..MaxEdits \cup {NULL},
         status : {"pending", "synced", "error", "deleted"}]

ASSUME SyncAssumption ==
    /\ MaxTime \in Nat /\ MaxEdits \in Nat
    /\ NULL \notin Paths \cup Nat \cup Stats \cup Files \cup Rows

StatOf(file) == [mtime |-> file.mtime, size |-> file.size]

Nothing == [p \in Paths |-> NULL]

Init ==
    /\ disk = Nothing
    /\ edits = 0
    /\ row = Nothing
    /\ at = "idle"
    /\ toUpload = Nothing
    /\ toDelete = {}
    /\ current = NULL /\ sending = NULL
    /\ past = [p \in Paths |-> {}]
    /\ touched = {} /\ missed = {}

-----------------------------------------------------------------------------
(* What a scan sees *)

\* getActiveFiles
Active(p) == row[p] # NULL /\ row[p].status # "deleted"

\* More than a second apart, either way, or another size.
IsModified(local, tracked) ==
    \/ local.mtime - tracked.mtime > 1
    \/ tracked.mtime - local.mtime > 1
    \/ local.size # tracked.size

IsNew(p) == disk[p] # NULL /\ ~Active(p)
IsChanged(p) == disk[p] # NULL /\ Active(p) /\ IsModified(disk[p], row[p])
IsDeleted(p) == disk[p] = NULL /\ Active(p)

Detected(p) == IsNew(p) \/ IsChanged(p) \/ IsDeleted(p)

-----------------------------------------------------------------------------
(* Other programs *)

\* Any time stamp may appear: a copy or a checkout brings its own.
Write(p) ==
    /\ edits < MaxEdits
    /\ edits' = edits + 1
    /\ \E stat \in Stats :
         LET file == [mtime |-> stat.mtime, size |-> stat.size,
                      content |-> edits + 1] IN
         /\ disk' = [disk EXCEPT ![p] = file]
         /\ past' = [past EXCEPT ![p] = @ \cup {file}]
    /\ touched' = touched \cup {p}
    /\ UNCHANGED <<row, run, missed>>

Remove(p) ==
    /\ disk[p] # NULL
    /\ disk' = [disk EXCEPT ![p] = NULL]
    /\ touched' = touched \cup {p}
    /\ UNCHANGED <<edits, row, run, past, missed>>

-----------------------------------------------------------------------------
(* sync run *)

\* Scan and comparison are synchronous.  The scan skips files it cannot stat, so
\* that a new one is not seen and a tracked one is taken for deleted.
Start ==
    /\ at = "idle"
    /\ at' = "changes"
    /\ \E unread \in SUBSET {p \in Paths : disk[p] # NULL} :
         /\ toUpload' = [p \in Paths |->
                           IF p \notin unread /\ (IsNew(p) \/ IsChanged(p))
                           THEN StatOf(disk[p]) ELSE NULL]
         /\ toDelete' = {p \in Paths : Active(p) /\ (disk[p] = NULL \/ p \in unread)}
         /\ missed' = unread
    /\ touched' = {}
    /\ UNCHANGED <<folder, row, current, sending, past>>

\* The deleted files come last.
MarkDeleted(p) ==
    /\ at = "changes"
    /\ toUpload = Nothing
    /\ p \in toDelete
    /\ row' = [row EXCEPT ![p].status = "deleted"]
    /\ toDelete' = toDelete \ {p}
    /\ UNCHANGED <<folder, at, toUpload, current, sending, history>>

\* Fault: the row keeps the status it had.
UpsertUnmarked(p) ==
    /\ at = "changes"
    /\ toUpload[p] # NULL
    /\ row' = [row EXCEPT ![p] =
                 [mtime |-> toUpload[p].mtime, size |-> toUpload[p].size,
                  object |-> IF row[p] = NULL THEN NULL ELSE row[p].object,
                  status |-> IF row[p] = NULL THEN "pending" ELSE row[p].status]]
    /\ toUpload' = [toUpload EXCEPT ![p] = NULL]
    /\ current' = p
    /\ at' = "reading"
    /\ UNCHANGED <<folder, toDelete, sending, history>>

\* upsertFile: the row gets the time and size that the scan saw, and keeps the
\* object of an earlier upload.
Upsert(p) ==
    /\ at = "changes"
    /\ toUpload[p] # NULL
    /\ row' = [row EXCEPT ![p] =
                 [mtime |-> toUpload[p].mtime, size |-> toUpload[p].size,
                  object |-> IF row[p] = NULL THEN NULL ELSE row[p].object,
                  status |-> "pending"]]
    /\ toUpload' = [toUpload EXCEPT ![p] = NULL]
    /\ current' = p
    /\ at' = "reading"
    /\ UNCHANGED <<folder, toDelete, sending, history>>

\* upsertFile throws, and the catch marks the row there is, with the time and
\* size it had; the run goes on.
UpsertFails(p) ==
    /\ at = "changes"
    /\ toUpload[p] # NULL
    /\ row' = [row EXCEPT ![p] = IF @ = NULL THEN @ ELSE [@ EXCEPT !.status = "error"]]
    /\ toUpload' = [toUpload EXCEPT ![p] = NULL]
    /\ missed' = missed \cup {p}
    /\ UNCHANGED <<folder, at, toDelete, current, sending, past, touched>>

\* apiUploadFile reads the file as it is by now.
Read ==
    /\ at = "reading"
    /\ disk[current] # NULL
    /\ sending' = disk[current].content
    /\ at' = "sending"
    /\ UNCHANGED <<folder, row, toUpload, toDelete, current, history>>

NextChange ==
    /\ at' = "changes"
    /\ current' = NULL /\ sending' = NULL
    /\ UNCHANGED <<toUpload, toDelete>>

\* Fault: the row gets the time and size of the file after its upload.
MarkSyncedAsIs ==
    /\ at = "sending"
    /\ row' = [row EXCEPT ![current] =
                 [mtime |-> IF disk[current] = NULL THEN @.mtime ELSE disk[current].mtime,
                  size |-> IF disk[current] = NULL THEN @.size ELSE disk[current].size,
                  object |-> sending, status |-> "synced"]]
    /\ NextChange
    /\ UNCHANGED <<folder, history>>

\* The server has stored the object and answered.
MarkSynced ==
    /\ at = "sending"
    /\ row' = [row EXCEPT ![current].object = sending,
                          ![current].status = "synced"]
    /\ NextChange
    /\ UNCHANGED <<folder, history>>

\* Fault: a failed upload ends the run.
StopAtError ==
    /\ at \in {"reading", "sending"}
    /\ row' = [row EXCEPT ![current].status = "error"]
    /\ toUpload' = Nothing /\ toDelete' = {}
    /\ at' = "changes"
    /\ current' = NULL /\ sending' = NULL
    /\ UNCHANGED <<folder, history>>

\* The file cannot be read, or the server or the network fails, perhaps after
\* the object was stored, or markSynced throws.
MarkError ==
    /\ at \in {"reading", "sending"}
    /\ row' = [row EXCEPT ![current].status = "error"]
    /\ NextChange
    /\ UNCHANGED <<folder, history>>

Finish ==
    /\ at = "changes"
    /\ toUpload = Nothing /\ toDelete = {}
    /\ at' = "idle"
    /\ missed' = {}
    /\ UNCHANGED <<folder, row, toUpload, toDelete, current, sending, past, touched>>

\* The tool is stopped, or a statement outside the try or in the catch throws;
\* the rows stay as they are.
Interrupt ==
    /\ at # "idle"
    /\ at' = "idle"
    /\ toUpload' = Nothing /\ toDelete' = {}
    /\ current' = NULL /\ sending' = NULL
    /\ missed' = {}
    /\ UNCHANGED <<folder, row, past, touched>>

\* "sync reset" or a new "sync init" drops sync.db.
Reset ==
    /\ at = "idle"
    /\ row' = Nothing
    /\ UNCHANGED <<folder, run, history>>

Next ==
    \/ \E p \in Paths : Write(p) \/ Remove(p) \/ MarkDeleted(p)
                        \/ Upsert(p) \/ UpsertFails(p)
    \/ Start \/ Read \/ MarkSynced \/ MarkError \/ Finish \/ Interrupt \/ Reset

Spec == Init /\ [][Next]_vars

-----------------------------------------------------------------------------
(* Properties *)

\* A file is uploaded under a row that says so, and only what was read is sent.
TypeOK ==
    /\ disk \in [Paths -> Files \cup {NULL}]
    /\ edits \in 0..MaxEdits
    /\ row \in [Paths -> Rows \cup {NULL}]
    /\ at \in {"idle", "changes", "reading", "sending"}
    /\ toUpload \in [Paths -> Stats \cup {NULL}]
    /\ toDelete \subseteq {p \in Paths : Active(p)}
    /\ at = "idle" => toUpload = Nothing /\ toDelete = {}
    /\ current \in Paths \cup {NULL}
    /\ sending \in 1..MaxEdits \cup {NULL}
    /\ at \in {"reading", "sending"} <=> current # NULL
    /\ at = "sending" <=> sending # NULL
    /\ current # NULL => row[current] # NULL /\ row[current].status = "pending"
    /\ past \in [Paths -> SUBSET Files]
    /\ touched \subseteq Paths
    /\ missed \subseteq Paths

\* Two files that were at the same path one after the other look alike.
Ambiguous(p) ==
    \E f, g \in past[p] : f # g /\ ~IsModified(f, g)

\* A row that calls a file synced is never wrong unnoticed: the object holds
\* what is on disk, or the next scan that can read the file lists the path,
\* however edits, failures and stops interleave with the upload.  The exception
\* is the comparison itself, which cannot tell two files of one size and second
\* apart.
SyncedIsCurrentOrDetected ==
    \A p \in Paths :
        (row[p] # NULL /\ ~Ambiguous(p))
        => (row[p].status = "synced" =>
              \/ disk[p] # NULL /\ disk[p].content = row[p].object
              \/ Detected(p))

\* A run that is not stopped deals with everything it found: when it ends, a
\* scan that can read all files would list nothing but what was touched since
\* its own, what its own could not read, and what it could not write a row for.
\* The files whose upload failed are not listed either: they have to change
\* before they are tried again.
RunCatchesUp ==
    [][Finish => \A p \in Paths : Detected(p) => p \in touched \cup missed]_vars
=============================================================================
