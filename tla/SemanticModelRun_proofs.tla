------------------------ MODULE SemanticModelRun_proofs ------------------------
(***************************************************************************)
(* Proofs about semantic model runs, for any number of requests.           *)
(*                                                                         *)
(* One fact carries the rest: a pending row has had no owner (Unclaimed),  *)
(* so the claim that makes it executing is the first and the last.  What   *)
(* clients are told then only has to be compared with what a single stream *)
(* and a cancellation can do to the row (Told), and the owner of a run     *)
(* that is executing is still there to end it (ExecutingIsAttended).       *)
(***************************************************************************)
EXTENDS SemanticModelRun, FiniteSetTheorems, TLAPS

USE DEF rows, requests, history, Rows

LEMMA InitTypes == Init => TypeOK
<1> SUFFICES ASSUME Init PROVE TypeOK
  OBVIOUS
<1>1. run \in [status: Cancellable \cup Terminal, model: Streams \cup {NULL}]
  BY DEF Init, Cancellable
<1> QED
  BY <1>1 DEF Init, TypeOK

LEMMA StreamTypes ==
    ASSUME TypeOK, NEW s \in Streams, Stream(s) PROVE TypeOK'
<1>1. CASE GetRun(s)
  BY <1>1 DEF GetRun, Goto, TypeOK, Over
<1>2. CASE ClaimRun(s)
  BY <1>2 DEF ClaimRun, Goto, TypeOK, Over, Cancellable
<1>3. CASE SetupThrows(s)
  BY <1>3 DEF SetupThrows, Goto, TypeOK, Over
<1>4. CASE Analysed(s)
  BY <1>4 DEF Analysed, Goto, TypeOK
<1>5. CASE CreateModel(s)
  BY <1>5 DEF CreateModel, Goto, TypeOK
<1>6. CASE CompleteRun(s)
  BY <1>6 DEF CompleteRun, Goto, TypeOK, Terminal
<1>7. CASE RereadRun(s)
  BY <1>7 DEF RereadRun, Goto, TypeOK
<1>8. CASE FinishStream(s)
  BY <1>8 DEF FinishStream, EndWith, Goto, TypeOK, Over
<1>9. CASE StreamThrows(s)
  BY <1>9 DEF StreamThrows, Goto, TypeOK
<1>10. CASE FindForFailure(s)
  BY <1>10 DEF FindForFailure, EndWith, Goto, TypeOK, Over
<1>11. CASE MarkFailed(s)
  BY <1>11 DEF MarkFailed, EndWith, Goto, TypeOK, Over, Terminal
<1>12. CASE MarkFailedThrows(s)
  BY <1>12 DEF MarkFailedThrows, EndWith, Goto, TypeOK, Over
<1> QED
  BY <1>1, <1>2, <1>3, <1>4, <1>5, <1>6, <1>7, <1>8, <1>9, <1>10, <1>11, <1>12
  DEF Stream

LEMMA StepTypes == TypeOK /\ [Next]_vars => TypeOK'
<1> SUFFICES ASSUME TypeOK, [Next]_vars PROVE TypeOK'
  OBVIOUS
<1>1. ASSUME NEW c \in Cancels, CancelCheck(c) PROVE TypeOK'
  BY <1>1 DEF CancelCheck, TypeOK, Over
<1>2. ASSUME NEW c \in Cancels, CancelWrite(c) PROVE TypeOK'
  BY <1>2 DEF CancelWrite, TypeOK, Over, Terminal
<1>3. ASSUME NEW d \in Deletes, DeleteCheck(d) PROVE TypeOK'
  BY <1>3 DEF DeleteCheck, TypeOK, Over
<1>4. ASSUME NEW d \in Deletes, DeleteWrite(d) PROVE TypeOK'
  BY <1>4 DEF DeleteWrite, TypeOK, Over
<1>5. ASSUME NEW m \in Streams, DeleteModel(m) PROVE TypeOK'
  BY <1>5 DEF DeleteModel, TypeOK
<1>6. CASE DeleteConnection
  BY <1>6 DEF DeleteConnection, TypeOK
<1>7. CASE Crash
  BY <1>7 DEF Crash, TypeOK, Over
<1>8. CASE Finished \/ UNCHANGED vars
  BY <1>8 DEF Finished, vars, TypeOK
<1> QED
  BY <1>1, <1>2, <1>3, <1>4, <1>5, <1>6, <1>7, <1>8, StreamTypes DEF Next

\* Rows and requests keep the values the schema and the handlers give them.
THEOREM Typing == Spec => []TypeOK
BY InitTypes, StepTypes, PTL DEF Spec

-----------------------------------------------------------------------------
(* One owner *)

\* Past the claim and before the end of the request.
Working == {"executing", "persisting", "linking", "rereading", "finishing",
            "caught", "failing"}

Unclaimed ==
    /\ run # NULL /\ run.status = "pending" => owners = {}
    /\ \A s, t \in owners : s = t
    /\ \A s \in Streams : stream[s] \in Working => s \in owners
    /\ \A s \in owners : stream[s] \notin {"new", "claiming"}

LEMMA InitUnclaimed == Init => Unclaimed
BY DEF Init, Unclaimed, Working

LEMMA StepUnclaimed == TypeOK /\ Unclaimed /\ [Next]_vars => Unclaimed'
<1> SUFFICES ASSUME TypeOK, Unclaimed, [Next]_vars PROVE Unclaimed'
  OBVIOUS
<1>1. ASSUME NEW s \in Streams, ClaimRun(s) PROVE Unclaimed'
  <2>1. CASE run # NULL /\ run.status = "pending"
    <3>1. owners' = {s} /\ run'.status = "executing"
          /\ stream' = [stream EXCEPT ![s] = "executing"]
      BY <1>1, <2>1 DEF ClaimRun, Goto, Unclaimed, TypeOK
    <3> QED
      BY <2>1, <3>1 DEF Unclaimed, TypeOK, Working
  <2>2. CASE ~(run # NULL /\ run.status = "pending")
    BY <1>1, <2>2 DEF ClaimRun, Goto, Unclaimed, TypeOK, Working
  <2> QED
    BY <2>1, <2>2
<1>2. ASSUME NEW s \in Streams, Stream(s), ~ClaimRun(s) PROVE Unclaimed'
  <2>1. owners' = owners /\ (run' = run \/ run' = NULL \/ run'.status \in Terminal)
    BY <1>2
    DEF Stream, GetRun, SetupThrows, Analysed, CreateModel, CompleteRun, RereadRun,
        FinishStream, StreamThrows, FindForFailure, MarkFailed, MarkFailedThrows,
        Terminal, TypeOK
  <2>2. \E where : /\ stream' = [stream EXCEPT ![s] = where]
                   /\ where \in Working => stream[s] \in Working
                   /\ where \in {"new", "claiming"} => stream[s] \in {"new", "claiming"}
    BY <1>2
    DEF Stream, GetRun, SetupThrows, Analysed, CreateModel, CompleteRun, RereadRun,
        FinishStream, StreamThrows, FindForFailure, MarkFailed, MarkFailedThrows,
        Goto, EndWith, Working
  <2> QED
    BY <2>1, <2>2 DEF Unclaimed, TypeOK, Terminal
<1>3. ASSUME UNCHANGED <<stream, owners>>,
             run' = run \/ run' = NULL \/ run'.status \in Terminal
             \/ (run # NULL /\ run'.status = run.status)
      PROVE  Unclaimed'
  BY <1>3 DEF Unclaimed, Terminal
<1>4. CASE Crash
  BY <1>4 DEF Crash, Unclaimed, Over, Working, TypeOK
<1>5. ASSUME NEW c \in Cancels, CancelCheck(c) \/ CancelWrite(c) PROVE Unclaimed'
  BY <1>3, <1>5 DEF CancelCheck, CancelWrite, TypeOK, Terminal
<1>6. ASSUME NEW d \in Deletes, DeleteCheck(d) \/ DeleteWrite(d) PROVE Unclaimed'
  BY <1>3, <1>6 DEF DeleteCheck, DeleteWrite
<1>7. ASSUME NEW m \in Streams, DeleteModel(m) PROVE Unclaimed'
  BY <1>3, <1>7 DEF DeleteModel, TypeOK
<1>8. CASE DeleteConnection \/ Finished \/ UNCHANGED vars
  BY <1>3, <1>8 DEF DeleteConnection, Finished, vars
<1> QED
  BY <1>1, <1>2, <1>4, <1>5, <1>6, <1>7, <1>8 DEF Next

LEMMA AtMostOne ==
    ASSUME NEW S, \A x, y \in S : x = y PROVE Cardinality(S) <= 1
<1>1. CASE S = {}
  BY <1>1, FS_EmptySet
<1>2. CASE S # {}
  <2>1. PICK x \in S : TRUE
    BY <1>2
  <2>2. S = {x}
    BY <2>1
  <2> QED
    BY <2>2, FS_Singleton
<1> QED
  BY <1>1, <1>2

\* semantic-models.service.ts claimRun: over its whole life a run is executed
\* by one request at most.
THEOREM RunsExecuteOnce == Spec => []ExecutedOnce
<1>1. Unclaimed => ExecutedOnce
  BY AtMostOne DEF Unclaimed, ExecutedOnce
<1> QED
  BY <1>1, InitTypes, StepTypes, InitUnclaimed, StepUnclaimed, PTL DEF Spec

-----------------------------------------------------------------------------
(* The row and its model *)

\* However late a cancellation or an execution writes, a finished run stays
\* finished and a deleted one deleted.
THEOREM FinishedRunsStayFinished == Spec => NoRevival
<1>1. TypeOK /\ [Next]_vars
      => [/\ run = NULL => run' = NULL
          /\ (run # NULL /\ run' # NULL /\ run.status \in Terminal)
               => run'.status \in Terminal]_vars
  <2> SUFFICES ASSUME TypeOK, Next
               PROVE  /\ run = NULL => run' = NULL
                      /\ (run # NULL /\ run' # NULL /\ run.status \in Terminal)
                           => run'.status \in Terminal
    BY DEF vars
  <2>1. ASSUME NEW s \in Streams, Stream(s)
        PROVE  \/ run' = run
               \/ run # NULL /\ run.status = "pending"
               \/ run # NULL /\ (run' = NULL \/ run'.status \in Terminal)
    BY <2>1
    DEF Stream, GetRun, ClaimRun, SetupThrows, Analysed, CreateModel, CompleteRun,
        RereadRun, FinishStream, StreamThrows, FindForFailure, MarkFailed,
        MarkFailedThrows, Terminal, TypeOK
  <2>2. ASSUME NEW c \in Cancels, CancelCheck(c) \/ CancelWrite(c)
        PROVE  run' = run \/ (run # NULL /\ run'.status \in Terminal)
    BY <2>2 DEF CancelCheck, CancelWrite, TypeOK, Terminal
  <2>3. ASSUME NEW d \in Deletes, DeleteCheck(d) \/ DeleteWrite(d)
        PROVE  run' = run \/ run' = NULL
    BY <2>3 DEF DeleteCheck, DeleteWrite
  <2>4. ASSUME NEW m \in Streams, DeleteModel(m)
        PROVE  run' = run \/ (run # NULL /\ run'.status = run.status)
    BY <2>4 DEF DeleteModel, TypeOK
  <2>5. ASSUME DeleteConnection \/ Crash \/ Finished
        PROVE  run' = run \/ run' = NULL
    BY <2>5 DEF DeleteConnection, Crash, Finished, vars
  <2> QED
    BY <2>1, <2>2, <2>3, <2>4, <2>5 DEF Next, Terminal
<1> QED
  BY <1>1, InitTypes, StepTypes, PTL DEF Spec, NoRevival

LEMMA InitModel == Init => CompletedHasModel
BY DEF Init, CompletedHasModel

LEMMA StepModel == TypeOK /\ CompletedHasModel /\ [Next]_vars => CompletedHasModel'
<1> SUFFICES ASSUME TypeOK, CompletedHasModel, [Next]_vars PROVE CompletedHasModel'
  OBVIOUS
<1> USE DEF CompletedHasModel
<1>1. ASSUME NEW s \in Streams, ClaimRun(s) PROVE CompletedHasModel'
  BY <1>1 DEF ClaimRun, TypeOK
<1>2. ASSUME NEW s \in Streams, CreateModel(s) PROVE CompletedHasModel'
  BY <1>2 DEF CreateModel, TypeOK
<1>3. ASSUME NEW s \in Streams, CompleteRun(s) PROVE CompletedHasModel'
  BY <1>3, RunAssumption DEF CompleteRun, TypeOK
<1>4. ASSUME NEW s \in Streams, MarkFailed(s) PROVE CompletedHasModel'
  BY <1>4 DEF MarkFailed, TypeOK
<1>5. ASSUME UNCHANGED rows PROVE CompletedHasModel'
  BY <1>5
<1>6. ASSUME NEW c \in Cancels, CancelWrite(c) PROVE CompletedHasModel'
  BY <1>6 DEF CancelWrite, TypeOK
<1>7. ASSUME NEW d \in Deletes, DeleteWrite(d) PROVE CompletedHasModel'
  BY <1>7 DEF DeleteWrite
<1>8. ASSUME NEW m \in Streams, DeleteModel(m) PROVE CompletedHasModel'
  BY <1>8 DEF DeleteModel, TypeOK
<1>9. CASE DeleteConnection
  BY <1>9 DEF DeleteConnection
<1> QED
  BY <1>1, <1>2, <1>3, <1>4, <1>5, <1>6, <1>7, <1>8, <1>9
  DEF Next, Stream, GetRun, SetupThrows, Analysed, RereadRun, FinishStream,
      StreamThrows, FindForFailure, MarkFailedThrows, CancelCheck, DeleteCheck,
      Crash, Finished, vars

\* persist-model.ts: the model a run links exists, and a completed run has lost
\* its model only to a user.
THEOREM CompletedRunsHaveModels == Spec => []CompletedHasModel
BY InitTypes, StepTypes, InitModel, StepModel, PTL DEF Spec

-----------------------------------------------------------------------------
(* What clients are told *)

Told ==
    /\ \A s \in Streams : event[s] # NULL => stream[s] = "done"
    /\ \A s \in owners :
         run # NULL =>
            /\ stream[s] \in {"rereading", "finishing"} \/ event[s] = "run_complete"
               => run.status \in {"completed", "cancelled"}
            /\ event[s] = "run_error" => run.status # "executing" \/ lost

LEMMA InitTold == Init => Told
BY DEF Init, Told

LEMMA StepTold == TypeOK /\ Unclaimed /\ Told /\ [Next]_vars => Told'
<1> SUFFICES ASSUME TypeOK, Unclaimed, Told, [Next]_vars PROVE Told'
  OBVIOUS
<1> USE DEF Told
<1>1. ASSUME NEW s \in Streams, Stream(s), UNCHANGED <<run, owners, event, lost>>,
             stream[s] # "done",
             \E where : /\ stream' = [stream EXCEPT ![s] = where]
                        /\ where \in {"rereading", "finishing"}
                           => stream[s] \in {"rereading", "finishing"}
      PROVE  Told'
  BY <1>1 DEF TypeOK
<1>2. ASSUME NEW s \in Streams, ClaimRun(s) PROVE Told'
  <2>1. CASE run # NULL /\ run.status = "pending"
    <3>1. /\ owners' = {s} /\ event' = event /\ event[s] = NULL
          /\ stream' = [stream EXCEPT ![s] = "executing"]
      BY <1>2, <2>1 DEF ClaimRun, Goto, Unclaimed
    <3> QED
      BY <3>1, RunAssumption DEF TypeOK
  <2>2. CASE ~(run # NULL /\ run.status = "pending")
    BY <1>2, <2>2 DEF ClaimRun, Goto, TypeOK
  <2> QED
    BY <2>1, <2>2
<1>3. ASSUME NEW s \in Streams, CompleteRun(s) PROVE Told'
  <2>1. s \in owners /\ owners' = owners /\ event' = event /\ lost' = lost
        /\ event[s] = NULL
    BY <1>3 DEF CompleteRun, Unclaimed, Working
  <2>2. CASE run # NULL /\ s \in models
    <3>1. run'.status = "completed" /\ stream' = [stream EXCEPT ![s] = "rereading"]
      BY <1>3, <2>2 DEF CompleteRun, Goto
    <3> QED
      BY <2>1, <3>1 DEF Unclaimed, TypeOK
  <2>3. CASE ~(run # NULL /\ s \in models)
    BY <1>3, <2>1, <2>3 DEF CompleteRun, Goto, TypeOK
  <2> QED
    BY <2>2, <2>3
<1>4. ASSUME NEW s \in Streams, FinishStream(s) PROVE Told'
  <2>1. s \in owners /\ owners' = owners /\ run' = run /\ lost' = lost
    BY <1>4 DEF FinishStream, Unclaimed, Working
  <2> QED
    BY <1>4, <2>1 DEF FinishStream, EndWith, Goto, TypeOK, Unclaimed
<1>5. ASSUME NEW s \in Streams, FindForFailure(s) PROVE Told'
  BY <1>5 DEF FindForFailure, EndWith, Goto, TypeOK
<1>6. ASSUME NEW s \in Streams, MarkFailed(s) PROVE Told'
  <2>1. s \in owners /\ owners' = owners /\ lost' = lost
        /\ stream' = [stream EXCEPT ![s] = "done"]
        /\ event' = [event EXCEPT ![s] = "run_error"]
        /\ (run' = NULL \/ run'.status = "failed")
    BY <1>6 DEF MarkFailed, EndWith, Goto, Unclaimed, Working, TypeOK
  <2> QED
    BY <2>1 DEF Unclaimed, TypeOK
<1>7. ASSUME NEW s \in Streams, MarkFailedThrows(s) PROVE Told'
  BY <1>7 DEF MarkFailedThrows, EndWith, Goto, TypeOK, Unclaimed
<1>8. ASSUME NEW s \in Streams,
             GetRun(s) \/ SetupThrows(s) \/ Analysed(s) \/ CreateModel(s)
             \/ RereadRun(s) \/ StreamThrows(s)
      PROVE  Told'
  <2>1. Stream(s)
    BY <1>8 DEF Stream
  <2> QED
    BY <1>1, <1>8, <2>1
    DEF GetRun, SetupThrows, Analysed, CreateModel, RereadRun, StreamThrows, Goto
<1>9. ASSUME NEW c \in Cancels, CancelCheck(c) \/ CancelWrite(c) PROVE Told'
  BY <1>9 DEF CancelCheck, CancelWrite, TypeOK
<1>10. ASSUME NEW d \in Deletes, DeleteCheck(d) \/ DeleteWrite(d) PROVE Told'
  BY <1>10 DEF DeleteCheck, DeleteWrite
<1>11. ASSUME NEW m \in Streams, DeleteModel(m) PROVE Told'
  BY <1>11 DEF DeleteModel, TypeOK
<1>12. CASE DeleteConnection \/ Finished \/ UNCHANGED vars
  BY <1>12 DEF DeleteConnection, Finished, vars
<1>13. CASE Crash
  BY <1>13 DEF Crash, Over, TypeOK
<1> QED
  BY <1>2, <1>3, <1>4, <1>5, <1>6, <1>7, <1>8, <1>9, <1>10, <1>11, <1>12, <1>13
  DEF Next, Stream

\* agent-stream.controller.ts: after run_complete the run is neither failed nor
\* executing, and after run_error it is not executing, unless that write was lost.
THEOREM EventsAgree == Spec => []EventAgreesWithRow
<1>1. Told => EventAgreesWithRow
  BY DEF Told, EventAgreesWithRow
<1> QED
  BY <1>1, InitTypes, StepTypes, InitUnclaimed, StepUnclaimed, InitTold, StepTold, PTL
  DEF Spec

-----------------------------------------------------------------------------
(* The run as a piece of claimed work *)

\* A row with another status is a row.
LEMMA NewStatus ==
    ASSUME NEW r \in Rows, NEW status \in Cancellable \cup Terminal
    PROVE  /\ [r EXCEPT !.status = status].status = status
           /\ [r EXCEPT !.status = status] # NULL
<1>1. [r EXCEPT !.status = status] \in Rows
  OBVIOUS
<1> QED
  BY <1>1, RunAssumption

\* Writes that follow a claim find the row claimed or ended, never open.
LEMMA StreamWork ==
    ASSUME TypeOK, Unclaimed, NEW s \in Streams, Stream(s)
    PROVE  [Work!Next]_(Work!vars)
<1>1. CASE ClaimRun(s) /\ run # NULL /\ run.status = "pending"
  <2>1. run' = [run EXCEPT !.status = "executing"] /\ owners' = owners \cup {s}
    BY <1>1 DEF ClaimRun
  <2>2. run' # NULL /\ run'.status = "executing"
    BY <1>1, <2>1, NewStatus DEF TypeOK, Cancellable
  <2>3. Stage = "open" /\ Stage' = "claimed"
    BY <1>1, <2>2 DEF Stage, Cancellable
  <2> QED
    BY <2>1, <2>3 DEF Work!Next, Work!Claim
<1>2. CASE ~(ClaimRun(s) /\ run # NULL /\ run.status = "pending")
  <2>1. UNCHANGED owners
    BY <1>2
    DEF Stream, GetRun, ClaimRun, SetupThrows, Analysed, CreateModel, CompleteRun,
        RereadRun, FinishStream, StreamThrows, FindForFailure, MarkFailed,
        MarkFailedThrows
  <2>2. \/ run' = run
        \/ /\ stream[s] \in Working /\ run # NULL
           /\ run' # NULL /\ run'.status \in {"completed", "failed"}
    <3>1. CASE CompleteRun(s)
      <4>1. ASSUME run # NULL, s \in models
            PROVE  run' # NULL /\ run'.status = "completed"
        <5>1. run' = [status |-> "completed", model |-> s]
          BY <3>1, <4>1 DEF CompleteRun
        <5>2. run' \in Rows
          BY <5>1 DEF Terminal
        <5> QED
          BY <5>1, <5>2, RunAssumption
      <4> QED
        BY <3>1, <4>1 DEF CompleteRun, Working
    <3>2. CASE MarkFailed(s)
      <4>1. ASSUME run # NULL PROVE run' # NULL /\ run'.status = "failed"
        BY <3>2, <4>1, NewStatus DEF MarkFailed, TypeOK, Terminal
      <4> QED
        BY <3>2, <4>1 DEF MarkFailed, Working
    <3> QED
      BY <1>2, <3>1, <3>2
      DEF Stream, GetRun, ClaimRun, SetupThrows, Analysed, CreateModel, RereadRun,
          FinishStream, StreamThrows, FindForFailure, MarkFailedThrows
  <2>3. CASE run' = run
    BY <2>1, <2>3 DEF Stage, Work!vars
  <2>4. CASE /\ stream[s] \in Working /\ run # NULL
             /\ run' # NULL /\ run'.status \in {"completed", "failed"}
    <3>1. Stage \in {"claimed", "over"} /\ Stage' = "over"
      BY <2>4 DEF Stage, Unclaimed, Cancellable
    <3> QED
      BY <2>1, <3>1 DEF Work!Next, Work!Settle, Work!vars
  <2> QED
    BY <2>2, <2>3, <2>4
<1> QED
  BY <1>1, <1>2

LEMMA StepWork ==
    TypeOK /\ Unclaimed /\ [Next]_vars => [Work!Next]_(Work!vars)
<1> SUFFICES ASSUME TypeOK, Unclaimed, [Next]_vars PROVE [Work!Next]_(Work!vars)
  OBVIOUS
<1>1. ASSUME UNCHANGED owners, Stage' = Stage PROVE [Work!Next]_(Work!vars)
  BY <1>1 DEF Work!vars
<1>2. ASSUME UNCHANGED owners, run' = NULL PROVE [Work!Next]_(Work!vars)
  BY <1>2 DEF Stage, Work!Next, Work!Remove, Work!vars
<1>3. ASSUME NEW c \in Cancels, CancelCheck(c) \/ CancelWrite(c)
      PROVE  [Work!Next]_(Work!vars)
  <2>1. UNCHANGED owners
    BY <1>3 DEF CancelCheck, CancelWrite
  <2>2. Stage' = Stage \/ (Stage \in {"open", "claimed", "over"} /\ Stage' = "over")
    <3>1. CASE run # NULL /\ CancelWrite(c)
      <4>1. run' # NULL /\ run'.status = "cancelled"
        BY <3>1, NewStatus DEF CancelWrite, TypeOK, Terminal
      <4> QED
        BY <3>1, <4>1 DEF Stage, Cancellable
    <3>2. CASE run = NULL \/ CancelCheck(c)
      BY <1>3, <3>2 DEF CancelCheck, CancelWrite, Stage
    <3> QED
      BY <1>3, <3>1, <3>2
  <2> QED
    BY <2>1, <2>2 DEF Work!Next, Work!Settle, Work!Withdraw, Work!vars
<1>4. ASSUME NEW d \in Deletes, DeleteCheck(d) \/ DeleteWrite(d)
      PROVE  [Work!Next]_(Work!vars)
  BY <1>1, <1>2, <1>4 DEF DeleteCheck, DeleteWrite, Stage
<1>5. ASSUME NEW m \in Streams, DeleteModel(m) PROVE [Work!Next]_(Work!vars)
  <2>1. UNCHANGED owners /\ Stage' = Stage
    <3>1. CASE run # NULL /\ run.model = m
      <4>1. run' = [run EXCEPT !.model = NULL] /\ run \in Rows
        BY <1>5, <3>1 DEF DeleteModel, TypeOK
      <4>2. run' \in Rows /\ run'.status = run.status
        BY <4>1
      <4> QED
        BY <1>5, <3>1, <4>2, RunAssumption DEF DeleteModel, Stage
    <3>2. CASE ~(run # NULL /\ run.model = m)
      BY <1>5, <3>2 DEF DeleteModel, Stage
    <3> QED
      BY <3>1, <3>2
  <2> QED
    BY <1>1, <2>1
<1>6. CASE DeleteConnection
  BY <1>2, <1>6 DEF DeleteConnection
<1>7. CASE Crash \/ Finished \/ UNCHANGED vars
  BY <1>1, <1>7 DEF Crash, Finished, vars, Stage
<1> QED
  BY <1>3, <1>4, <1>5, <1>6, <1>7, StreamWork DEF Next

\* agent-stream.controller.ts and semantic-models.service.ts: for any number of
\* streams, cancellations and deletions the run implements ClaimedWork: every
\* write of its row is a claim, an end, a removal or invisible.
THEOREM ImplementsClaimedWork == Spec => WorkSpec
<1>1. Init => Work!Init
  <2> SUFFICES ASSUME Init PROVE Work!Init
    OBVIOUS
  <2>1. run \in Rows /\ run.status = "pending" /\ owners = {}
    BY DEF Init, Cancellable
  <2> QED
    BY <2>1, RunAssumption DEF Work!Init, Stage
<1> QED
  BY <1>1, InitTypes, StepTypes, InitUnclaimed, StepUnclaimed, StepWork, PTL
  DEF Spec, WorkSpec, Work!Spec

-----------------------------------------------------------------------------
(* Who executes is there to finish *)

LEMMA InitAttended == Init => ExecutingIsAttended
BY DEF Init, ExecutingIsAttended

\* What a request does next, as long as the run is executing.
LEMMA StreamAttends ==
    ASSUME TypeOK, ExecutingIsAttended, NEW s \in Streams, Stream(s)
    PROVE  ExecutingIsAttended'
<1> DEFINE Busy == {"executing", "persisting", "linking", "caught", "failing"}
<1> SUFFICES ASSUME run' # NULL, run'.status = "executing", ~crashed', ~lost'
             PROVE  \E t \in owners' : stream'[t] \in Busy
  BY DEF ExecutingIsAttended
<1>1. CASE ClaimRun(s) /\ run # NULL /\ run.status = "pending"
  BY <1>1 DEF ClaimRun, Goto, TypeOK
<1>2. CASE ~(ClaimRun(s) /\ run # NULL /\ run.status = "pending")
  <2>1. run' = run /\ owners' = owners /\ ~crashed /\ ~lost
    BY <1>2
    DEF Stream, GetRun, ClaimRun, SetupThrows, Analysed, CreateModel, CompleteRun,
        RereadRun, FinishStream, StreamThrows, FindForFailure, MarkFailed,
        MarkFailedThrows, TypeOK
  <2>2. PICK t \in owners : stream[t] \in Busy
    BY <2>1 DEF ExecutingIsAttended
  <2>3. CASE t = s
    <3>1. stream'[s] \in Busy
      BY <1>2, <2>1, <2>2, <2>3
      DEF Stream, GetRun, ClaimRun, SetupThrows, Analysed, CreateModel, CompleteRun,
          RereadRun, FinishStream, StreamThrows, FindForFailure, MarkFailed,
          MarkFailedThrows, Goto, EndWith, TypeOK
    <3> QED
      BY <2>1, <2>3, <3>1
  <2>4. CASE t # s
    <3>1. stream'[t] = stream[t]
      BY <1>2, <2>4
      DEF Stream, GetRun, ClaimRun, SetupThrows, Analysed, CreateModel, CompleteRun,
          RereadRun, FinishStream, StreamThrows, FindForFailure, MarkFailed,
          MarkFailedThrows, Goto, EndWith, TypeOK
    <3> QED
      BY <2>1, <2>2, <3>1
  <2> QED
    BY <2>3, <2>4
<1> QED
  BY <1>1, <1>2

LEMMA StepAttended ==
    TypeOK /\ ExecutingIsAttended /\ [Next]_vars => ExecutingIsAttended'
<1> SUFFICES ASSUME TypeOK, ExecutingIsAttended, [Next]_vars
             PROVE  ExecutingIsAttended'
  OBVIOUS
<1>1. ASSUME NEW c \in Cancels, CancelCheck(c) \/ CancelWrite(c)
      PROVE  ExecutingIsAttended'
  BY <1>1 DEF CancelCheck, CancelWrite, ExecutingIsAttended, TypeOK
<1>2. ASSUME NEW d \in Deletes, DeleteCheck(d) \/ DeleteWrite(d)
      PROVE  ExecutingIsAttended'
  BY <1>2 DEF DeleteCheck, DeleteWrite, ExecutingIsAttended
<1>3. ASSUME NEW m \in Streams, DeleteModel(m) PROVE ExecutingIsAttended'
  BY <1>3 DEF DeleteModel, ExecutingIsAttended, TypeOK
<1>4. CASE DeleteConnection \/ Crash \/ Finished \/ UNCHANGED vars
  BY <1>4 DEF DeleteConnection, Crash, Finished, vars, ExecutingIsAttended
<1> QED
  BY <1>1, <1>2, <1>3, <1>4, StreamAttends DEF Next

\* No write of another request takes an executing run out of the hands of the
\* one that executes it: only a restart and a lost write leave it behind.
THEOREM ExecutionIsAttended == Spec => []ExecutingIsAttended
BY InitTypes, StepTypes, InitAttended, StepAttended, PTL DEF Spec
=============================================================================
