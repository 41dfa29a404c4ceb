-------------------------- MODULE SemanticModelRun ---------------------------
(***************************************************************************)
(* One semantic model run and everything that writes its row: the SSE      *)
(* requests that claim and execute it, the agent's persist node, the       *)
(* cancel and delete requests, the deletion of its model or of its         *)
(* connection, and the end of the process.  The rows live in PostgreSQL;   *)
(* each action is one database round trip, and between two of them every   *)
(* other request may make its own.                                         *)
(***************************************************************************)
EXTENDS Naturals, FiniteSets

CONSTANTS
    NULL,       \* no row, no model
    Streams,    \* POST runs/:runId/stream requests
    Cancels,    \* POST runs/:runId/cancel requests
    Deletes     \* DELETE runs/:runId requests

Cancellable == {"pending", "planning", "executing"}
Terminal == {"completed", "failed", "cancelled"}
Deletable == {"failed", "cancelled"}

Rows == [status: Cancellable \cup Terminal, model: Streams \cup {NULL}]

ASSUME RunAssumption ==
    NULL \notin Rows \cup Streams \cup {"run_complete", "run_error"}

VARIABLES
    run,        \* the run's row, or NULL once it is deleted
    connection, \* the connection the run works on still exists
    models,     \* the semantic models the agent created, by their stream
    removed,    \* models a user deleted (history)
    stream,     \* where each stream request stands
    owners,     \* streams that ever won the claim (history)
    event,      \* the last event of each stream: NULL, "run_complete", "run_error"
    cancel,     \* where each cancel request stands
    delete,     \* where each delete request stands
    crashed,    \* the process was restarted (history)
    lost        \* the update to 'failed' failed and was swallowed (history)

rows == <<run, connection, models, removed>>
requests == <<stream, owners, event, cancel, delete>>
history == <<crashed, lost>>
vars == <<rows, requests, history>>

\* createRun has left a pending row.
Init ==
    /\ run = [status |-> "pending", model |-> NULL]
    /\ connection = TRUE
    /\ models = {}
    /\ removed = {}
    /\ stream = [s \in Streams |-> "new"]
    /\ owners = {}
    /\ event = [s \in Streams |-> NULL]
    /\ cancel = [c \in Cancels |-> "new"]
    /\ delete = [d \in Deletes |-> "new"]
    /\ crashed = FALSE
    /\ lost = FALSE

-----------------------------------------------------------------------------
(* A stream request *)

Goto(s, where) == stream' = [stream EXCEPT ![s] = where]

\* The request ends with an event; nothing is written.
EndWith(s, e) ==
    /\ Goto(s, "done")
    /\ event' = [event EXCEPT ![s] = e]

GetRun(s) ==
    /\ stream[s] = "new"
    /\ Goto(s, IF run = NULL THEN "refused" ELSE "claiming")
    /\ UNCHANGED <<rows, owners, event, cancel, delete, history>>

\* Fault: claiming whatever the status is.
ClaimAny(s) ==
    /\ stream[s] = "claiming"
    /\ run # NULL
    /\ run' = [run EXCEPT !.status = "executing"]
    /\ owners' = owners \cup {s}
    /\ Goto(s, "executing")
    /\ UNCHANGED <<connection, models, removed, event, cancel, delete, history>>

\* claimRun: one UPDATE ... WHERE status = 'pending'.
ClaimRun(s) ==
    /\ stream[s] = "claiming"
    /\ IF run # NULL /\ run.status = "pending"
       THEN /\ run' = [run EXCEPT !.status = "executing"]
            /\ owners' = owners \cup {s}
            /\ Goto(s, "executing")
       ELSE /\ Goto(s, "refused")
            /\ UNCHANGED <<run, owners>>
    /\ UNCHANGED <<connection, models, removed, event, cancel, delete, history>>

\* The database fails before the claim: the request ends with an HTTP error.
SetupThrows(s) ==
    /\ stream[s] \in {"new", "claiming"}
    /\ Goto(s, "refused")
    /\ UNCHANGED <<rows, owners, event, cancel, delete, history>>

\* createAgentGraph and the nodes up to validate_model: nobody looks at the
\* run's status, and every progress write swallows its error.
Analysed(s) ==
    /\ stream[s] = "executing"
    /\ Goto(s, "persisting")
    /\ UNCHANGED <<rows, owners, event, cancel, delete, history>>

\* persist_model, first write: a model cannot be created without its connection.
CreateModel(s) ==
    /\ stream[s] = "persisting"
    /\ IF connection
       THEN models' = models \cup {s} /\ Goto(s, "linking")
       ELSE UNCHANGED models /\ Goto(s, "caught")
    /\ UNCHANGED <<run, connection, removed, owners, event, cancel, delete,
                   history>>

\* Fault: the run is completed without its model.
CompleteOnly(s) ==
    /\ stream[s] = "linking"
    /\ run # NULL
    /\ run' = [run EXCEPT !.status = "completed"]
    /\ Goto(s, "rereading")
    /\ UNCHANGED <<connection, models, removed, owners, event, cancel, delete,
                   history>>

\* persist_model, second write, whatever the run's status is by now.
CompleteRun(s) ==
    /\ stream[s] = "linking"
    /\ IF run # NULL /\ s \in models
       THEN /\ run' = [status |-> "completed", model |-> s]
            /\ Goto(s, "rereading")
       ELSE UNCHANGED run /\ Goto(s, "caught")
    /\ UNCHANGED <<connection, models, removed, owners, event, cancel, delete,
                   history>>

RereadRun(s) ==
    /\ stream[s] = "rereading"
    /\ Goto(s, IF run = NULL THEN "caught" ELSE "finishing")
    /\ UNCHANGED <<rows, owners, event, cancel, delete, history>>

\* The last updateRunProgress, then run_complete.
FinishStream(s) ==
    /\ stream[s] = "finishing"
    /\ IF run = NULL
       THEN Goto(s, "caught") /\ UNCHANGED event
       ELSE EndWith(s, "run_complete")
    /\ UNCHANGED <<rows, owners, cancel, delete, history>>

\* Any await inside the try throws: LLM, discovery or database.
StreamThrows(s) ==
    /\ stream[s] \in {"executing", "persisting", "linking", "rereading",
                      "finishing"}
    /\ Goto(s, "caught")
    /\ UNCHANGED <<rows, owners, event, cancel, delete, history>>

\* updateRunStatus, its read.
FindForFailure(s) ==
    /\ stream[s] = "caught"
    /\ IF run = NULL
       THEN EndWith(s, "run_error")
       ELSE Goto(s, "failing") /\ UNCHANGED event
    /\ UNCHANGED <<rows, owners, cancel, delete, history>>

\* Fault: run_error is sent, the row is left alone.
ReportOnly(s) ==
    /\ stream[s] = "failing"
    /\ EndWith(s, "run_error")
    /\ UNCHANGED <<rows, owners, cancel, delete, history>>

\* updateRunStatus, its unconditional write; a row that is gone throws, which
\* is logged.  Either way the client gets run_error.
MarkFailed(s) ==
    /\ stream[s] = "failing"
    /\ run' = IF run = NULL THEN NULL ELSE [run EXCEPT !.status = "failed"]
    /\ EndWith(s, "run_error")
    /\ UNCHANGED <<connection, models, removed, owners, cancel, delete, history>>

\* The read or the write of updateRunStatus fails, and nothing tries again.
MarkFailedThrows(s) ==
    /\ stream[s] \in {"caught", "failing"}
    /\ lost' = TRUE
    /\ EndWith(s, "run_error")
    /\ UNCHANGED <<rows, owners, cancel, delete, crashed>>

-----------------------------------------------------------------------------
(* The other requests *)

CancelCheck(c) ==
    /\ cancel[c] = "new"
    /\ cancel' = [cancel EXCEPT ![c] =
                    IF run # NULL /\ run.status \in Cancellable
                    THEN "checked" ELSE "refused"]
    /\ UNCHANGED <<rows, stream, owners, event, delete, history>>

\* Fault: the status is not one the enum has.
CancelMisspelt(c) ==
    /\ cancel[c] = "checked"
    /\ run # NULL
    /\ run' = [run EXCEPT !.status = "canceled"]
    /\ cancel' = [cancel EXCEPT ![c] = "done"]
    /\ UNCHANGED <<connection, models, removed, stream, owners, event, delete,
                   history>>

\* The write does not look at the status again.
CancelWrite(c) ==
    /\ cancel[c] = "checked"
    /\ IF run # NULL
       THEN /\ run' = [run EXCEPT !.status = "cancelled"]
            /\ cancel' = [cancel EXCEPT ![c] = "done"]
       ELSE UNCHANGED run /\ cancel' = [cancel EXCEPT ![c] = "refused"]
    /\ UNCHANGED <<connection, models, removed, stream, owners, event, delete,
                   history>>

DeleteCheck(d) ==
    /\ delete[d] = "new"
    /\ delete' = [delete EXCEPT ![d] =
                    IF run # NULL /\ run.status \in Deletable
                    THEN "checked" ELSE "refused"]
    /\ UNCHANGED <<rows, stream, owners, event, cancel, history>>

DeleteWrite(d) ==
    /\ delete[d] = "checked"
    /\ run' = NULL
    /\ delete' = [delete EXCEPT ![d] = "done"]
    /\ UNCHANGED <<connection, models, removed, stream, owners, event, cancel,
                   history>>

\* A user deletes a model; the run's foreign key is set to null.
DeleteModel(m) ==
    /\ m \in models
    /\ models' = models \ {m}
    /\ removed' = removed \cup {m}
    /\ run' = IF run # NULL /\ run.model = m THEN [run EXCEPT !.model = NULL]
              ELSE run
    /\ UNCHANGED <<connection, requests, history>>

\* A user deletes the connection; its runs and models go with it.
DeleteConnection ==
    /\ connection
    /\ connection' = FALSE
    /\ run' = NULL
    /\ models' = {}
    /\ UNCHANGED <<removed, requests, history>>

-----------------------------------------------------------------------------

Over == {"refused", "done", "dead"}

\* The process ends; nothing looks for runs left executing when it starts
\* again.  Requests that have not arrived yet reach the next process.
Crash ==
    /\ ~crashed
    /\ crashed' = TRUE
    /\ LET Cut(pc) == [r \in DOMAIN pc |->
                        IF pc[r] = "new" \/ pc[r] \in Over THEN pc[r] ELSE "dead"]
       IN  /\ stream' = Cut(stream)
           /\ cancel' = Cut(cancel)
           /\ delete' = Cut(delete)
    /\ UNCHANGED <<rows, owners, event, lost>>

Finished ==
    /\ \A s \in Streams : stream[s] \in Over
    /\ \A c \in Cancels : cancel[c] \in Over
    /\ \A d \in Deletes : delete[d] \in Over
    /\ UNCHANGED vars

Stream(s) ==
    \/ GetRun(s) \/ ClaimRun(s) \/ SetupThrows(s) \/ Analysed(s) \/ CreateModel(s)
    \/ CompleteRun(s) \/ RereadRun(s) \/ FinishStream(s) \/ StreamThrows(s)
    \/ FindForFailure(s) \/ MarkFailed(s) \/ MarkFailedThrows(s)

Next ==
    \/ \E s \in Streams : Stream(s)
    \/ \E c \in Cancels : CancelCheck(c) \/ CancelWrite(c)
    \/ \E d \in Deletes : DeleteCheck(d) \/ DeleteWrite(d)
    \/ \E m \in Streams : DeleteModel(m)
    \/ DeleteConnection
    \/ Crash
    \/ Finished

\* A request that was accepted goes on: every await ends, one way or another.
Fairness == \A s \in Streams : WF_vars(Stream(s))

Spec == Init /\ [][Next]_vars /\ Fairness

-----------------------------------------------------------------------------
(* Properties *)

\* Rows and requests keep the values the schema and the handlers give them.
TypeOK ==
    /\ run \in Rows \cup {NULL}
    /\ connection \in BOOLEAN
    /\ models \subseteq Streams
    /\ removed \subseteq Streams
    /\ stream \in [Streams -> {"new", "claiming", "executing", "persisting",
                               "linking", "rereading", "finishing", "caught",
                               "failing"} \cup Over]
    /\ owners \subseteq Streams
    /\ event \in [Streams -> {NULL, "run_complete", "run_error"}]
    /\ cancel \in [Cancels -> {"new", "checked"} \cup Over]
    /\ delete \in [Deletes -> {"new", "checked"} \cup Over]
    /\ crashed \in BOOLEAN
    /\ lost \in BOOLEAN

\* "Atomic claimRun() prevents duplicate concurrent execution of same run":
\* over the run's whole life, restarts included, one request executes it.
ExecutedOnce == Cardinality(owners) <= 1

\* A finished run never becomes pending or executing again and a deleted one
\* never comes back, although every write but the claim is unconditional and
\* follows a check that may be out of date.
NoRevival ==
    [][/\ run = NULL => run' = NULL
       /\ (run # NULL /\ run' # NULL /\ run.status \in Terminal)
            => run'.status \in Terminal]_vars

\* Every model that a run links exists, and a completed run has lost its model
\* only to a user who deleted it.
CompletedHasModel ==
    run # NULL =>
        /\ run.model # NULL => run.model \in models
        /\ run.status = "completed" => run.model # NULL \/ removed # {}

\* What the client was told and what the row says agree: after run_complete
\* the run is not failed, and after run_error it is not left executing unless
\* the write of the failure was itself lost.
EventAgreesWithRow ==
    \A s \in owners :
        run # NULL =>
            /\ event[s] = "run_complete" => run.status \notin {"failed", "executing"}
            /\ event[s] = "run_error" => run.status # "executing" \/ lost

\* The only ways a run stays executing for ever are a restart and a lost
\* write of its failure; nothing sweeps such runs up.
ExecutionSettles ==
    (run # NULL /\ run.status = "executing")
        ~> (run = NULL \/ run.status \in Terminal \/ crashed \/ lost)

\* What ExecutionSettles rests on: a run that is executing is in the hands of a
\* request that has still to complete it or to mark it failed.
ExecutingIsAttended ==
    run # NULL /\ run.status = "executing" =>
        \/ crashed \/ lost
        \/ \E s \in owners :
             stream[s] \in {"executing", "persisting", "linking", "caught",
                            "failing"}

\* semantic-models.service.ts: only pending, planning and executing runs can
\* be cancelled.
OnlyUnfinishedCancelled ==
    [][(run # NULL /\ run' # NULL /\ run.status \in {"completed", "failed"})
            => run'.status # "cancelled"]_vars

-----------------------------------------------------------------------------
(* The run as a piece of claimed work *)

Stage ==
    IF run = NULL THEN "gone"
    ELSE IF run.status = "pending" THEN "open"
    ELSE IF run.status \in Cancellable THEN "claimed"
    ELSE "over"

Work == INSTANCE ClaimedWork
            WITH Workers <- Streams, Withdrawable <- TRUE,
                 stage <- Stage, worker <- owners

\* What ClaimedWork promises, kept by every late write of a stream or a
\* cancellation: one stream claims the run, while it is pending, and a run that
\* ended or was deleted is neither claimed nor executed again.
WorkSpec == Work!Spec
=============================================================================
