----------------------------- MODULE DataImportRun -----------------------------
(***************************************************************************)
(* One data import: its row, its runs, the parquet files and connections   *)
(* they leave behind, and everything that works on them: the SSE requests  *)
(* that claim a run and execute the pipeline, POST runs (which first       *)
(* cleans up after the runs before it), the deletion of the import, the    *)
(* user's small requests and the end of the process.  PostgreSQL and S3    *)
(* share no transaction; an action is one round trip to either.            *)
(***************************************************************************)
EXTENDS Naturals, FiniteSets

CONSTANTS
    NULL,       \* no connection
    DELETE,     \* the request that deletes the import
    Tables,     \* tables the parser finds in the source file
    MaxRequests,\* how many POST runs and DELETE there are, a bound
    AtOnce      \* how many operations are under way at once, a bound

ASSUME ImportAssumption ==
    /\ MaxRequests \in Nat /\ AtOnce \in Nat
    /\ NULL \notin Nat /\ DELETE \notin Nat
    /\ Tables # {}      \* a CSV file is a table, a workbook has a sheet

VARIABLES
    import,     \* the import's status, or "gone"
    linked,     \* its connectionId
    output,     \* its outputTables
    run,        \* each run's status, "none" before it is created, or "gone"
    files,      \* tables/*.parquet in S3
    conns,      \* connections, named after the run that created them
    models,     \* connections that a semantic model is built on
    pipe,       \* where the pipeline of each run stands
    aborted,    \* executing runs whose client has closed its stream
    converted,  \* tables each pipeline has on local disk
    uploaded,   \* tables each pipeline has put into S3
    request,    \* where each POST runs and the DELETE stand
    seen,       \* the connectionId each of them read
    checked,    \* a request of the user on a run, between check and write
    trouble,    \* the worst that has happened so far (history)
    late,       \* clean-ups whose connection got a model since they counted
                \* its models (history)
    spared      \* connections that a clean-up left because of a model (history)

rows == <<import, linked, output, run>>
stores == <<files, conns, models>>
local == <<aborted, converted, uploaded>>
requests == <<request, seen>>
history == <<trouble, late, spared>>
vars == <<rows, stores, pipe, local, requests, checked, history>>

\* Run r is the one that the r-th POST runs creates.
Runs == 1..MaxRequests
Requests == Runs \cup {DELETE}

RunStatuses == {"pending", "parsing", "converting", "uploading", "connecting",
                "completed", "failed", "cancelled"}
Terminal == {"completed", "failed", "cancelled"}
Absent == {"none", "gone"}

\* Between a won claim and the end of the request.
Active == {"claimed", "parsing", "converting", "uploading", "connecting",
           "linking", "completing", "failing", "failingImport"}

Executing == {r \in Runs : pipe[r] \in Active}
Cleaning == {q \in Requests : request[q] \notin {"idle", "done"}}
Busy == Executing # {} \/ Cleaning # {}
UnderWay == Cardinality(Executing) + Cardinality(Cleaning)
            + IF checked = NULL THEN 0 ELSE 1

\* Each is worse than the one before: a round trip failed or the process
\* ended; a clean-up stopped between its stores; two operations overlapped.
Smooth == 0
Faulted == 1
HalfCleaned == 2
Overlapped == 3
AtLeast(level) == trouble' = IF level > trouble THEN level ELSE trouble

\* One more operation begins.
Begins ==
    /\ UnderWay < AtOnce
    /\ AtLeast(IF Busy THEN Overlapped ELSE Smooth)

\* upload has stored the source file and created a draft.
Init ==
    /\ import = "draft"
    /\ linked = NULL
    /\ output = {}
    /\ run = [r \in Runs |-> "none"]
    /\ files = {} /\ conns = {} /\ models = {}
    /\ pipe = [r \in Runs |-> "none"]
    /\ aborted = {}
    /\ converted = [r \in Runs |-> {}]
    /\ uploaded = [r \in Runs |-> {}]
    /\ request = [q \in Requests |-> "idle"]
    /\ seen = [q \in Requests |-> NULL]
    /\ checked = NULL
    /\ trouble = Smooth
    /\ late = {}
    /\ spared = {}

\* Deleting a connection takes its models with it and unlinks it everywhere.
DropConnection(c) ==
    /\ c \in conns
    /\ conns' = conns \ {c}
    /\ models' = models \ {c}
    /\ linked' = IF linked = c THEN NULL ELSE linked

-----------------------------------------------------------------------------
(* The pipeline of a run *)

Goto(r, where) ==
    /\ pipe' = [pipe EXCEPT ![r] = where]
    /\ UNCHANGED local

\* The request is over and what it had in memory is forgotten.
Leave(r, how) ==
    /\ pipe' = [pipe EXCEPT ![r] = how]
    /\ aborted' = aborted \ {r}
    /\ converted' = [converted EXCEPT ![r] = {}]
    /\ uploaded' = [uploaded EXCEPT ![r] = {}]

\* An update of a run's row throws when the row is gone.
SetRun(r, status) ==
    /\ run[r] # "gone"
    /\ run' = [run EXCEPT ![r] = status]

\* Fault: the claim does not look at the status.
ClaimAnyway(r) ==
    /\ run[r] \notin Absent
    /\ pipe[r] = "none"
    /\ Begins
    /\ SetRun(r, "parsing")
    /\ Goto(r, "claimed")
    /\ UNCHANGED <<import, linked, output, stores, requests, checked, late, spared>>

\* streamRun and claimRun: one UPDATE ... WHERE status = 'pending'; a refused
\* request changes nothing.
Claim(r) ==
    /\ run[r] = "pending"
    /\ pipe[r] = "none"
    /\ Begins
    /\ SetRun(r, "parsing")
    /\ Goto(r, "claimed")
    /\ UNCHANGED <<import, linked, output, stores, requests, checked, late, spared>>

\* executeImport reads run and import before its try: what throws there
\* reaches the client and nothing else.
ReadRowsThrows(r) ==
    /\ pipe[r] = "claimed"
    /\ Leave(r, "abandoned")
    /\ AtLeast(Faulted)
    /\ UNCHANGED <<rows, stores, requests, checked, late, spared>>

\* What a phase works on itself it does unseen by the others; then
\* "if (signal.aborted) throw" and the next phase's status, which overwrites
\* a cancellation.
EnterPhase(r, from, status) ==
    /\ pipe[r] = from
    /\ r \notin aborted
    /\ SetRun(r, status)
    /\ UNCHANGED <<import, linked, output, stores, requests, checked, history>>

StartParsing(r) == EnterPhase(r, "claimed", "parsing") /\ Goto(r, "parsing")

\* The source has been read and parsed.
StartConverting(r) == EnterPhase(r, "parsing", "converting") /\ Goto(r, "converting")

\* A table that cannot be converted is reported and left out.
StartUploading(r) ==
    /\ EnterPhase(r, "converting", "uploading")
    /\ \E done \in SUBSET Tables : converted' = [converted EXCEPT ![r] = done]
    /\ pipe' = [pipe EXCEPT ![r] = "uploading"]
    /\ UNCHANGED <<aborted, uploaded>>

Upload(r, t) ==
    /\ pipe[r] = "uploading"
    /\ r \notin aborted
    /\ t \in converted[r] \ uploaded[r]
    /\ files' = files \cup {t}
    /\ uploaded' = [uploaded EXCEPT ![r] = @ \cup {t}]
    /\ UNCHANGED <<rows, conns, models, pipe, aborted, converted, requests,
                   checked, history>>

\* Fault: the files are taken for uploaded before they are.
UploadsFirst(r) ==
    /\ EnterPhase(r, "uploading", "connecting")
    /\ uploaded' = [uploaded EXCEPT ![r] = converted[r]]
    /\ pipe' = [pipe EXCEPT ![r] = "connecting"]
    /\ UNCHANGED <<aborted, converted>>

StartConnecting(r) ==
    /\ EnterPhase(r, "uploading", "connecting")
    /\ uploaded[r] = converted[r]
    /\ Goto(r, "connecting")

CreateConnection(r) ==
    /\ pipe[r] = "connecting"
    /\ conns' = conns \cup {r}
    /\ Goto(r, "linking")
    /\ UNCHANGED <<rows, files, models, requests, checked, history>>

FinalStatus(done) ==
    IF done = Tables THEN "ready" ELSE IF done # {} THEN "partial" ELSE "failed"

\* The import's row gets its tables, its connection and its final status.
LinkImport(r) ==
    /\ pipe[r] = "linking"
    /\ import # "gone"
    /\ r \in conns
    /\ import' = FinalStatus(uploaded[r])
    /\ output' = uploaded[r]
    /\ linked' = r
    /\ Goto(r, "completing")
    /\ UNCHANGED <<run, stores, requests, checked, history>>

CompleteRun(r) ==
    /\ pipe[r] = "completing"
    /\ SetRun(r, "completed")
    /\ Leave(r, "completed")
    /\ UNCHANGED <<import, linked, output, stores, requests, checked, history>>

\* The stream is closed and the pipeline passes one of its checks.
Stops(r) ==
    /\ pipe[r] \in {"claimed", "parsing", "converting", "uploading"}
    /\ r \in aborted
    /\ Goto(r, "failing")
    /\ UNCHANGED <<rows, stores, requests, checked, history>>

\* A row is gone, or PostgreSQL, S3, the parser or the disk fails.
Throws(r) ==
    /\ pipe[r] \in Active \ {"failing", "failingImport"}
    /\ Goto(r, "failing")
    /\ AtLeast(Faulted)
    /\ UNCHANGED <<rows, stores, requests, checked, late, spared>>

\* Fault: the error of the catch is swallowed.
FailQuietly(r) ==
    /\ pipe[r] = "failing"
    /\ Leave(r, "failed")
    /\ UNCHANGED <<rows, stores, requests, checked, history>>

\* The catch: the run first ...
FailRun(r) ==
    /\ pipe[r] = "failing"
    /\ SetRun(r, IF r \in aborted THEN "cancelled" ELSE "failed")
    /\ Goto(r, "failingImport")
    /\ UNCHANGED <<import, linked, output, stores, requests, checked, history>>

\* ... then the import.
FailImport(r) ==
    /\ pipe[r] = "failingImport"
    /\ import # "gone"
    /\ import' = "failed"
    /\ Leave(r, "failed")
    /\ UNCHANGED <<linked, output, run, stores, requests, checked, history>>

\* The catch throws itself: the controller reports it to the client.
FailThrows(r) ==
    /\ pipe[r] \in {"failing", "failingImport"}
    /\ Leave(r, "abandoned")
    /\ AtLeast(Faulted)
    /\ UNCHANGED <<rows, stores, requests, checked, late, spared>>

Pipeline(r) ==
    \/ ReadRowsThrows(r) \/ StartParsing(r) \/ StartConverting(r)
    \/ StartUploading(r) \/ (\E t \in Tables : Upload(r, t))
    \/ StartConnecting(r) \/ CreateConnection(r) \/ LinkImport(r)
    \/ CompleteRun(r) \/ Stops(r) \/ Throws(r)
    \/ FailRun(r) \/ FailImport(r) \/ FailThrows(r)

-----------------------------------------------------------------------------
(* POST runs: the clean-up after earlier runs, then the new run.              *)
(* DELETE data-imports/:id: the same stores in another order.                 *)

Step(q, where) ==
    /\ request' = [request EXCEPT ![q] = where]
    /\ UNCHANGED seen

\* The request is over.
Finish(q) ==
    /\ request' = [request EXCEPT ![q] = "done"]
    /\ seen' = [seen EXCEPT ![q] = NULL]

\* What comes after the connection has been dealt with.
AfterConnection(q) == IF q = DELETE THEN "removing" ELSE "files"

\* What comes next, up to the connection if the import had one.
TowardsConnection(q) == IF seen[q] = NULL THEN AfterConnection(q) ELSE "counting"

\* Some of the import's stores are cleared, others are not.
HalfWay(q) ==
    request[q] \in {"counting", "dropping",
                    IF q = DELETE THEN "removing" ELSE "files", "resetting"}

\* createRun accepts every status that is ever written: 'importing', which
\* would say that a run is under way, is not.
Begin(q) ==
    /\ request[q] = "idle"
    /\ q # DELETE /\ q > 1 => request[q - 1] # "idle"
    /\ Cardinality({p \in Requests : request[p] # "idle"}) < MaxRequests
    /\ import # "gone"
    /\ Begins
    /\ seen' = [seen EXCEPT ![q] = linked]
    /\ request' = [request EXCEPT ![q] = IF q = DELETE THEN "files" ELSE "runs"]
    /\ UNCHANGED <<rows, stores, pipe, local, checked, late, spared>>

AllGone == [r \in Runs |-> IF run[r] = "none" THEN "none" ELSE "gone"]

\* The rows of all runs, an executing one included.
DeleteRuns(q) ==
    /\ request[q] = "runs"
    /\ run' = AllGone
    /\ Step(q, TowardsConnection(q))
    /\ UNCHANGED <<import, linked, output, stores, pipe, local, checked, history>>

\* Fault: the connection goes whatever is built on it.
CountNothing(q) ==
    /\ request[q] = "counting"
    /\ Step(q, "dropping")
    /\ UNCHANGED <<rows, stores, pipe, local, checked, history>>

CountModels(q) ==
    /\ request[q] = "counting"
    /\ \/ /\ seen[q] \notin models
          /\ Step(q, "dropping")
          /\ UNCHANGED spared
       \/ /\ seen[q] \in models
          /\ Step(q, AfterConnection(q))
          /\ spared' = spared \cup {seen[q]}
    /\ UNCHANGED <<rows, stores, pipe, local, checked, trouble, late>>

\* Fault: the connection is only unlinked.
ForgetSeen(q) ==
    /\ request[q] = "dropping"
    /\ Step(q, AfterConnection(q))
    /\ late' = late \ {q}
    /\ UNCHANGED <<rows, stores, pipe, local, checked, trouble, spared>>

\* A deletion that fails is logged; the clean-up goes on.
DropSeen(q) ==
    /\ request[q] = "dropping"
    /\ Step(q, AfterConnection(q))
    /\ \/ DropConnection(seen[q]) /\ UNCHANGED trouble
       \/ /\ UNCHANGED <<linked, conns, models>>
          /\ AtLeast(IF seen[q] \in conns THEN Faulted ELSE Smooth)
    /\ late' = late \ {q}
    /\ UNCHANGED <<import, output, run, files, pipe, local, checked, spared>>

\* So is one of the files, which may have removed some of them.
DeleteFiles(q) ==
    /\ request[q] = "files"
    /\ files' \in SUBSET files
    /\ AtLeast(IF files' = {} THEN Smooth ELSE Faulted)
    /\ Step(q, IF q = DELETE THEN TowardsConnection(q) ELSE "resetting")
    /\ UNCHANGED <<rows, conns, models, pipe, local, checked, late, spared>>

ResetImport(q) ==
    /\ request[q] = "resetting"
    /\ import # "gone"
    /\ import' = "pending"
    /\ linked' = NULL
    /\ output' = {}
    /\ Step(q, "creating")
    /\ UNCHANGED <<run, stores, pipe, local, checked, history>>

\* Fault: the new run starts out as running.
InsertRunning(q) ==
    /\ request[q] = "creating"
    /\ import # "gone"
    /\ run' = [run EXCEPT ![q] = "importing"]
    /\ Finish(q)
    /\ UNCHANGED <<import, linked, output, stores, pipe, local, checked, history>>

InsertRun(q) ==
    /\ request[q] = "creating"
    /\ import # "gone"
    /\ run' = [run EXCEPT ![q] = "pending"]
    /\ Finish(q)
    /\ UNCHANGED <<import, linked, output, stores, pipe, local, checked, history>>

\* The runs go with their import.
RemoveImport(q) ==
    /\ request[q] = "removing"
    /\ import # "gone"
    /\ import' = "gone" /\ linked' = NULL /\ output' = {}
    /\ run' = AllGone
    /\ Finish(q)
    /\ UNCHANGED <<stores, pipe, local, checked, history>>

\* The import is gone, or the database fails: the request ends where it is.
RequestThrows(q) ==
    /\ request[q] \in {"runs", "counting", "resetting", "creating", "removing"}
    /\ Finish(q)
    /\ AtLeast(IF HalfWay(q) THEN HalfCleaned ELSE Faulted)
    /\ UNCHANGED <<rows, stores, pipe, local, checked, late, spared>>

CleanUp(q) ==
    \/ DeleteRuns(q) \/ CountModels(q) \/ DropSeen(q) \/ DeleteFiles(q)
    \/ ResetImport(q) \/ InsertRun(q) \/ RemoveImport(q) \/ RequestThrows(q)

-----------------------------------------------------------------------------
(* The user *)

\* PATCH data-imports/:id with a configuration, at any time.
UpdateConfig ==
    /\ import # "gone"
    /\ import' = "pending"
    /\ UNCHANGED <<linked, output, run, stores, pipe, local, requests, checked,
                   history>>

Disconnect(r) ==
    /\ pipe[r] \in Active
    /\ aborted' = aborted \cup {r}
    /\ UNCHANGED <<rows, stores, pipe, converted, uploaded, requests, checked,
                   history>>

\* cancelRun and deleteRun read the row and check its status.
CheckRun(r, verb, allowed) ==
    /\ checked = NULL /\ UnderWay < AtOnce
    /\ run[r] \in allowed
    /\ checked' = [verb |-> verb, run |-> r]
    /\ UNCHANGED <<rows, stores, pipe, local, requests, history>>

CancelCheck(r) == CheckRun(r, "cancel", RunStatuses \ Terminal)
DeleteRunCheck(r) == CheckRun(r, "delete", {"failed", "cancelled"})

\* The write, if it arrives, does not repeat the check.
WriteRun ==
    /\ checked # NULL
    /\ checked' = NULL
    /\ \/ UNCHANGED run
       \/ checked.verb = "cancel" /\ SetRun(checked.run, "cancelled")
       \/ checked.verb = "delete" /\ SetRun(checked.run, "gone")
    /\ UNCHANGED <<import, linked, output, stores, pipe, local, requests, history>>

\* A semantic model is created on an import's connection.
BuildModel(c) ==
    /\ c \in conns \ models
    /\ models' = models \cup {c}
    /\ late' = late \cup {q \in Requests : request[q] = "dropping" /\ seen[q] = c}
    /\ UNCHANGED <<rows, files, conns, pipe, local, requests, checked, trouble,
                   spared>>

\* SemanticModelsService.delete, of the last model on a connection: the
\* connection stays.
DeleteModel(c) ==
    /\ c \in models
    /\ models' = models \ {c}
    /\ UNCHANGED <<rows, files, conns, pipe, local, requests, checked, history>>

DeleteConnection(c) ==
    /\ DropConnection(c)
    /\ UNCHANGED <<import, output, run, files, pipe, local, requests, checked,
                   history>>

-----------------------------------------------------------------------------

\* The process ends; nothing looks for unfinished runs or clean-ups later.
Crash ==
    /\ Busy
    /\ pipe' = [r \in Runs |-> IF r \in Executing THEN "abandoned" ELSE pipe[r]]
    /\ aborted' = {}
    /\ converted' = [r \in Runs |-> {}]
    /\ uploaded' = [r \in Runs |-> {}]
    /\ request' = [q \in Requests |-> IF q \in Cleaning THEN "done" ELSE request[q]]
    /\ seen' = [q \in Requests |-> NULL]
    /\ checked' = NULL
    /\ AtLeast(IF \E q \in Requests : HalfWay(q) THEN HalfCleaned ELSE Faulted)
    /\ late' = {}
    /\ UNCHANGED <<rows, stores, spared>>

\* Nothing is under way; the user may never come back.
Idle ==
    /\ ~Busy
    /\ UNCHANGED vars

Next ==
    \/ \E r \in Runs : Claim(r) \/ Pipeline(r)
    \/ \E q \in Requests : Begin(q) \/ CleanUp(q)
    \/ UpdateConfig
    \/ \E r \in Runs : Disconnect(r) \/ CancelCheck(r) \/ DeleteRunCheck(r)
    \/ WriteRun
    \/ \E c \in conns : BuildModel(c) \/ DeleteModel(c) \/ DeleteConnection(c)
    \/ Crash
    \/ Idle

Spec == Init /\ [][Next]_vars

-----------------------------------------------------------------------------
(* Properties *)

\* Rows and requests keep the values the schema and the handlers give them; an
\* import refers to a connection that exists.
TypeOK ==
    /\ import \in {"draft", "pending", "ready", "partial", "failed", "gone"}
    /\ linked \in conns \cup {NULL}
    /\ output \subseteq Tables
    /\ run \in [Runs -> RunStatuses \cup Absent]
    /\ files \subseteq Tables
    /\ conns \subseteq Runs
    /\ models \subseteq conns
    /\ pipe \in [Runs -> Active \cup {"none", "completed", "failed", "abandoned"}]
    /\ aborted \subseteq Runs
    /\ converted \in [Runs -> SUBSET Tables]
    /\ uploaded \in [Runs -> SUBSET Tables]
    /\ request \in [Requests -> {"idle", "runs", "counting", "dropping", "files",
                                 "resetting", "creating", "removing", "done"}]
    /\ seen \in [Requests -> Runs \cup {NULL}]
    /\ checked \in [verb : {"cancel", "delete"}, run : Runs] \cup {NULL}
    /\ trouble \in Smooth..Overlapped
    /\ late \subseteq Requests
    /\ spared \subseteq Runs

\* An import that says it is ready, in whole or in part, has tables, and the
\* files of all of them are in S3, through re-runs, cancellations, closed
\* streams and failing calls.  It rests on two things the code does not
\* enforce: that runs, clean-ups and the deletion come one after another, and
\* that a clean-up that has begun gets to the end.
ReadyIsBacked ==
    (/\ import \in {"ready", "partial"}
     /\ trouble < HalfCleaned
     /\ Cleaning = {})
    => output # {} /\ output \subseteq files

\* Re-running or deleting an import never takes a semantic model away that was
\* there when the clean-up counted them; only the user does, who deletes the
\* model or its connection.
ModelsSurvive ==
    [][\/ models \ models' \subseteq {seen[q] : q \in late}
       \/ \E c \in conns : DeleteModel(c) \/ DeleteConnection(c)]_vars

\* However often an import is run, its connections do not pile up: at rest
\* there is none but the import's own and those that a clean-up left because it
\* counted a model on them.  The latter stay for good when the user deletes the
\* model later.  It rests on no call having failed and no two operations having
\* overlapped.
NoStrayConnection ==
    (trouble = Smooth /\ ~Busy) => conns \subseteq {linked} \cup spared

\* The status of a run says how its pipeline has ended: completed or failed;
\* unless the run was cancelled, or its row was deleted, whatever a cancelled,
\* disconnected or overtaken pipeline has written before.  A cancellation that
\* checked the status before the end may still write after it, over completed
\* and failed alike, because cancelRun does not repeat its check.  What the
\* error handling or the end of the process has broken off is excepted.
RunSettles ==
    \A r \in Runs :
        /\ pipe[r] = "completed" => run[r] \in {"completed", "cancelled", "gone"}
        /\ pipe[r] = "failed" => run[r] \in {"failed", "cancelled", "gone"}

-----------------------------------------------------------------------------
(* Each run as a piece of claimed work *)

\* A cancellation that the pipeline has yet to see, or will overwrite, has not
\* ended the run.
StageOf(r) ==
    IF run[r] = "none" THEN "absent"
    ELSE IF run[r] = "gone" THEN "gone"
    ELSE IF run[r] = "pending" THEN "open"
    ELSE IF run[r] \in Terminal /\ pipe[r] \notin Active THEN "over"
    ELSE "claimed"

WorkOf(r) == INSTANCE ClaimedWork
                WITH Workers <- {r}, Withdrawable <- TRUE,
                     stage <- StageOf(r),
                     worker <- {p \in {r} : pipe[p] # "none"}

\* What ClaimedWork promises, of every run: one pipeline executes it, and once
\* it was withdrawn, ended or deleted it is not executed again.
WorkSpecs ==
    /\ \A r \in Runs : WorkOf(r)!Init
    /\ [][\A r \in Runs : [WorkOf(r)!Next]_(WorkOf(r)!vars)]_vars
=============================================================================
