------------------------- MODULE DataImportRun_proofs -------------------------
(***************************************************************************)
(* Proofs about data imports, for any tables and any number of runs and of *)
(* operations at once.  A run's status says how its pipeline has ended     *)
(* because its row was created by a request that is over (Fresh), so that  *)
(* nobody makes it pending again (Settling).  That models survive a        *)
(* clean-up rests on what the count has established (Counted).  That a     *)
(* ready import has its files (Backed) and that re-runs leave no other     *)
(* connection behind (Accounted) rest on operations being alone (Serial).  *)
(* That a run is executed once, and never after its end, rests on where    *)
(* its pipeline may stand while it is pending (Claimable).                 *)
(***************************************************************************)
EXTENDS DataImportRun, TLAPS

USE DEF rows, stores, local, requests, history

LEMMA InitTypes == Init => TypeOK
BY ImportAssumption
DEF Init, TypeOK, Absent, Smooth, Faulted, HalfCleaned, Overlapped

\* The history of troubles keeps its type.
LEMMA TroubleType ==
    ASSUME TypeOK, NEW level \in Smooth..Overlapped, AtLeast(level)
    PROVE  trouble' \in Smooth..Overlapped
BY DEF TypeOK, AtLeast

LEMMA LevelTypes ==
    /\ Smooth \in Smooth..Overlapped /\ Faulted \in Smooth..Overlapped
    /\ HalfCleaned \in Smooth..Overlapped /\ Overlapped \in Smooth..Overlapped
BY DEF Smooth, Faulted, HalfCleaned, Overlapped

LEMMA PipelineTypes ==
    ASSUME TypeOK, NEW r \in Runs, Claim(r) \/ Pipeline(r) PROVE TypeOK'
<1> USE LevelTypes, TroubleType
<1>1. CASE Claim(r)
  <2>1. trouble' \in Smooth..Overlapped
    BY <1>1 DEF Claim, Begins
  <2> QED
    BY <1>1, <2>1 DEF Claim, SetRun, Goto, TypeOK, RunStatuses, Active
<1>2. CASE ReadRowsThrows(r)
  BY <1>2 DEF ReadRowsThrows, Leave, TypeOK
<1>3. CASE StartParsing(r)
  BY <1>3 DEF StartParsing, EnterPhase, SetRun, Goto, TypeOK, RunStatuses, Active
<1>4. CASE StartConverting(r)
  BY <1>4 DEF StartConverting, EnterPhase, SetRun, Goto, TypeOK, RunStatuses, Active
<1>5. CASE StartUploading(r)
  BY <1>5 DEF StartUploading, EnterPhase, SetRun, TypeOK, RunStatuses, Active
<1>6. ASSUME NEW t \in Tables, Upload(r, t) PROVE TypeOK'
  BY <1>6 DEF Upload, TypeOK
<1>7. CASE StartConnecting(r)
  BY <1>7 DEF StartConnecting, EnterPhase, SetRun, Goto, TypeOK, RunStatuses, Active
<1>8. CASE CreateConnection(r)
  BY <1>8 DEF CreateConnection, Goto, TypeOK, Active
<1>9. CASE LinkImport(r)
  <2>1. FinalStatus(uploaded[r]) \in {"ready", "partial", "failed"}
    BY DEF FinalStatus
  <2> QED
    BY <1>9, <2>1 DEF LinkImport, Goto, TypeOK, Active
<1>10. CASE CompleteRun(r)
  BY <1>10 DEF CompleteRun, SetRun, Leave, TypeOK, RunStatuses
<1>11. CASE Stops(r)
  BY <1>11 DEF Stops, Goto, TypeOK, Active
<1>12. CASE Throws(r)
  BY <1>12 DEF Throws, Goto, TypeOK, Active
<1>13. CASE FailRun(r)
  BY <1>13 DEF FailRun, SetRun, Goto, TypeOK, RunStatuses, Active
<1>14. CASE FailImport(r)
  BY <1>14 DEF FailImport, Leave, TypeOK
<1>15. CASE FailThrows(r)
  BY <1>15 DEF FailThrows, Leave, TypeOK
<1> QED
  BY <1>1, <1>2, <1>3, <1>4, <1>5, <1>6, <1>7, <1>8, <1>9, <1>10, <1>11, <1>12,
     <1>13, <1>14, <1>15
  DEF Pipeline

LEMMA RequestTypes ==
    ASSUME TypeOK, NEW q \in Requests, Begin(q) \/ CleanUp(q) PROVE TypeOK'
<1> USE LevelTypes, TroubleType
<1> DEFINE Steps == {"idle", "runs", "counting", "dropping", "files",
                     "resetting", "creating", "removing", "done"}
<1>1. AllGone \in [Runs -> RunStatuses \cup Absent]
  BY DEF AllGone, Absent
<1>2. /\ TowardsConnection(q) \in Steps /\ AfterConnection(q) \in Steps
  BY DEF TowardsConnection, AfterConnection
<1>3. CASE Begin(q)
  <2>1. trouble' \in Smooth..Overlapped
    BY <1>3 DEF Begin, Begins
  <2>2. linked \in Runs \cup {NULL}
    BY DEF TypeOK
  <2> QED
    BY <1>3, <2>1, <2>2 DEF Begin, TypeOK
<1>4. CASE DeleteRuns(q)
  BY <1>1, <1>2, <1>4 DEF DeleteRuns, Step, TypeOK
<1>5. CASE CountModels(q)
  BY <1>2, <1>5 DEF CountModels, Step, TypeOK
<1>6. CASE DropSeen(q)
  <2>1. trouble' \in Smooth..Overlapped
    BY <1>6 DEF DropSeen, TypeOK
  <2>2. /\ linked' \in conns' \cup {NULL} /\ conns' \subseteq Runs
        /\ models' \subseteq conns'
    BY <1>6 DEF DropSeen, DropConnection, TypeOK
  <2> QED
    BY <1>2, <1>6, <2>1, <2>2 DEF DropSeen, Step, TypeOK
<1>7. CASE DeleteFiles(q)
  BY <1>2, <1>7 DEF DeleteFiles, Step, TypeOK
<1>8. CASE ResetImport(q)
  BY <1>8 DEF ResetImport, Step, TypeOK
<1>9. CASE InsertRun(q)
  BY <1>9 DEF InsertRun, Finish, TypeOK, RunStatuses
<1>10. CASE RemoveImport(q)
  BY <1>1, <1>10 DEF RemoveImport, Finish, TypeOK
<1>11. CASE RequestThrows(q)
  BY <1>11 DEF RequestThrows, Finish, TypeOK
<1> QED
  BY <1>3, <1>4, <1>5, <1>6, <1>7, <1>8, <1>9, <1>10, <1>11 DEF CleanUp

LEMMA UserTypes ==
    ASSUME TypeOK,
           \/ UpdateConfig \/ WriteRun
           \/ \E r \in Runs : Disconnect(r) \/ CancelCheck(r) \/ DeleteRunCheck(r)
           \/ \E c \in conns : BuildModel(c) \/ DeleteModel(c) \/ DeleteConnection(c)
    PROVE  TypeOK'
<1>1. CASE UpdateConfig
  BY <1>1 DEF UpdateConfig, TypeOK
<1>2. CASE WriteRun
  <2>1. checked \in [verb : {"cancel", "delete"}, run : Runs]
    BY <1>2 DEF WriteRun, TypeOK
  <2>2. run' \in [Runs -> RunStatuses \cup Absent]
    BY <1>2, <2>1 DEF WriteRun, SetRun, TypeOK, RunStatuses, Absent
  <2> QED
    BY <1>2, <2>2 DEF WriteRun, TypeOK
<1>3. ASSUME NEW r \in Runs, Disconnect(r) PROVE TypeOK'
  BY <1>3 DEF Disconnect, TypeOK
<1>4. ASSUME NEW r \in Runs, CancelCheck(r) \/ DeleteRunCheck(r) PROVE TypeOK'
  BY <1>4 DEF CancelCheck, DeleteRunCheck, CheckRun, TypeOK
<1>5. ASSUME NEW c \in conns, BuildModel(c) \/ DeleteModel(c) PROVE TypeOK'
  BY <1>5 DEF BuildModel, DeleteModel, TypeOK
<1>6. ASSUME NEW c \in conns, DeleteConnection(c) PROVE TypeOK'
  BY <1>6 DEF DeleteConnection, DropConnection, TypeOK
<1> QED
  BY <1>1, <1>2, <1>3, <1>4, <1>5, <1>6

LEMMA StepTypes == TypeOK /\ [Next]_vars => TypeOK'
<1> SUFFICES ASSUME TypeOK, [Next]_vars PROVE TypeOK'
  OBVIOUS
<1>1. CASE Crash
  <2>1. trouble' \in Smooth..Overlapped
    BY <1>1, LevelTypes, TroubleType DEF Crash
  <2> QED
    BY <1>1, <2>1 DEF Crash, TypeOK
<1>2. CASE Idle \/ UNCHANGED vars
  BY <1>2 DEF Idle, vars, TypeOK
<1> QED
  BY <1>1, <1>2, PipelineTypes, RequestTypes, UserTypes DEF Next

\* Every row, store and request keeps its type, and an import refers to a
\* connection that exists.
THEOREM Typing == Spec => []TypeOK
BY InitTypes, StepTypes, PTL DEF Spec

-----------------------------------------------------------------------------
(* Finished pipelines *)

\* A request that is not over has created no run, and a checked run has a row.
Fresh ==
    /\ \A r \in Runs : request[r] # "done" => run[r] = "none" /\ pipe[r] = "none"
    /\ checked # NULL => run[checked.run] # "none"

Settling ==
    \A r \in Runs :
        /\ pipe[r] = "completed" => run[r] \in {"completed", "cancelled", "gone"}
        /\ pipe[r] \in {"failingImport", "failed"}
              => run[r] \in {"failed", "cancelled", "gone"}

IInv == TypeOK /\ Fresh /\ Settling

LEMMA InitSettling == Init => Fresh /\ Settling
BY DEF Init, Fresh, Settling

LEMMA PipelineSettling ==
    ASSUME IInv, NEW r \in Runs, Claim(r) \/ Pipeline(r) PROVE Fresh' /\ Settling'
<1> USE DEF IInv, Fresh, Settling
<1>0. /\ request' = request /\ checked' = checked
      /\ run[r] # "none" \/ pipe[r] # "none"
      /\ checked # NULL => checked.run \in Runs
  BY DEF TypeOK, Pipeline, Claim, ReadRowsThrows, StartParsing, StartConverting,
         StartUploading, Upload, StartConnecting, CreateConnection, LinkImport,
         CompleteRun, Stops, Throws, FailRun, FailImport, FailThrows, EnterPhase, Active
<1>1. CASE /\ \E status \in RunStatuses : SetRun(r, status)
           /\ pipe[r] \notin {"completed", "failed", "failingImport"}
           /\ \E where \in Active \ {"failingImport"} :
                 pipe' = [pipe EXCEPT ![r] = where]
  BY <1>0, <1>1 DEF SetRun, TypeOK, Active, RunStatuses
<1>2. CASE run' = run /\ \E where \in (Active \cup {"abandoned"}) \ {"failingImport"} :
                            pipe' = [pipe EXCEPT ![r] = where]
  BY <1>0, <1>2 DEF TypeOK, Active
<1>3. CASE CompleteRun(r) \/ FailRun(r)
  <2>1. CASE CompleteRun(r)
    BY <1>0, <2>1 DEF CompleteRun, SetRun, Leave, TypeOK
  <2>2. CASE FailRun(r)
    BY <1>0, <2>2 DEF FailRun, SetRun, Goto, TypeOK
  <2> QED
    BY <1>3, <2>1, <2>2
<1>4. CASE FailImport(r)
  BY <1>0, <1>4 DEF FailImport, Leave, TypeOK
<1>5. ASSUME NEW t \in Tables, Upload(r, t) PROVE Fresh' /\ Settling'
  BY <1>0, <1>5 DEF Upload
<1>6. ASSUME Claim(r) \/ StartParsing(r) \/ StartConverting(r) \/ StartUploading(r)
             \/ StartConnecting(r)
      PROVE  Fresh' /\ Settling'
  BY <1>1, <1>6
  DEF Claim, StartParsing, StartConverting, StartUploading, StartConnecting,
      EnterPhase, Goto, Active, RunStatuses
<1>7. ASSUME ReadRowsThrows(r) \/ CreateConnection(r) \/ LinkImport(r) \/ Stops(r)
             \/ Throws(r) \/ FailThrows(r)
      PROVE  Fresh' /\ Settling'
  BY <1>2, <1>7
  DEF ReadRowsThrows, CreateConnection, LinkImport, Stops, Throws, FailThrows,
      Goto, Leave, Active
<1> QED
  BY <1>3, <1>4, <1>5, <1>6, <1>7 DEF Pipeline

LEMMA RequestSettling ==
    ASSUME IInv, NEW q \in Requests, Begin(q) \/ CleanUp(q) PROVE Fresh' /\ Settling'
<1> USE DEF IInv, Fresh, Settling
<1>0. /\ pipe' = pipe /\ checked' = checked
      /\ checked # NULL => checked.run \in Runs
  BY DEF TypeOK, CleanUp, Begin, DeleteRuns, CountModels, DropSeen, DeleteFiles,
         ResetImport, InsertRun, RemoveImport, RequestThrows
<1>1. request[q] # "done" /\ \E where : request' = [request EXCEPT ![q] = where]
  BY DEF TypeOK, CleanUp, Begin, DeleteRuns, CountModels, DropSeen, DeleteFiles,
         ResetImport, InsertRun, RemoveImport, RequestThrows, Step, Finish
<1>2. CASE run' = run
  BY <1>0, <1>1, <1>2 DEF TypeOK
<1>3. CASE run' = AllGone
  BY <1>0, <1>1, <1>3 DEF TypeOK, AllGone
<1>4. CASE InsertRun(q)
  BY <1>0, <1>4, ImportAssumption DEF InsertRun, Finish, TypeOK, Requests
<1> QED
  BY <1>2, <1>3, <1>4
  DEF CleanUp, Begin, DeleteRuns, CountModels, DropSeen, DeleteFiles, ResetImport,
      RemoveImport, RequestThrows

LEMMA StepSettling == IInv /\ [Next]_vars => Fresh' /\ Settling'
<1> SUFFICES ASSUME IInv, [Next]_vars PROVE Fresh' /\ Settling'
  OBVIOUS
<1> USE DEF IInv, Fresh, Settling
<1>1. CASE WriteRun
  <2>1. checked # NULL /\ checked \in [verb : {"cancel", "delete"}, run : Runs]
    BY <1>1 DEF WriteRun, TypeOK
  <2>2. run' = run \/ \E status \in {"cancelled", "gone"} :
                        run' = [run EXCEPT ![checked.run] = status]
    BY <1>1 DEF WriteRun, SetRun
  <2>3. pipe' = pipe /\ request' = request /\ checked' = NULL
    BY <1>1 DEF WriteRun
  <2> QED
    BY <2>1, <2>2, <2>3 DEF TypeOK, Terminal
<1>2. ASSUME NEW r \in Runs, CancelCheck(r) \/ DeleteRunCheck(r)
      PROVE  Fresh' /\ Settling'
  <2>1. /\ checked'.run = r /\ run' = run /\ pipe' = pipe /\ request' = request
        /\ run[r] \in RunStatuses
    BY <1>2 DEF CancelCheck, DeleteRunCheck, CheckRun, RunStatuses, Terminal
  <2> QED
    BY <2>1 DEF RunStatuses
<1>3. CASE Crash
  <2>1. run' = run /\ checked' = NULL
    BY <1>3 DEF Crash
  <2>2. \A r \in Runs : pipe'[r] \in {"completed", "failed", "failingImport", "none"} => pipe'[r] = pipe[r]
    BY <1>3 DEF Crash
  <2>3. \A r \in Runs : request'[r] # "done" => request[r] # "done"
    BY <1>3 DEF Crash, Cleaning, Requests
  <2>4. \A r \in Runs : pipe[r] = "none" => pipe'[r] = "none"
    BY <1>3 DEF Crash, Executing, Active
  <2>5. Settling'
    BY <2>1, <2>2
  <2>6. Fresh'
    BY <2>1, <2>3, <2>4
  <2> QED
    BY <2>5, <2>6
<1>4. ASSUME UNCHANGED <<run, pipe, request, checked>> PROVE Fresh' /\ Settling'
  BY <1>4
<1> QED
  BY <1>1, <1>2, <1>3, <1>4, PipelineSettling, RequestSettling
  DEF Next, UpdateConfig, Disconnect, BuildModel, DeleteModel, DeleteConnection, Idle, vars

\* data-imports.service.ts: a run's status says how its pipeline has ended, by
\* completing or by failing, unless the run was cancelled or deleted.
THEOREM RunsSettle == Spec => []RunSettles
<1>1. Init => IInv
  BY InitTypes, InitSettling DEF IInv
<1>2. IInv /\ [Next]_vars => IInv'
  BY StepTypes, StepSettling DEF IInv
<1>3. IInv => RunSettles
  BY DEF IInv, Settling, RunSettles
<1> QED
  BY <1>1, <1>2, <1>3, PTL DEF Spec

-----------------------------------------------------------------------------
(* Models *)

\* A clean-up about to delete a connection has counted no models on it, and has
\* been overtaken by those there are.
Counted ==
    \A q \in Requests :
        request[q] = "dropping" => seen[q] \notin models \/ q \in late

LEMMA InitCounted == Init => Counted
BY DEF Init, Counted

LEMMA StepCounted == TypeOK /\ Counted /\ [Next]_vars => Counted'
<1> SUFFICES ASSUME TypeOK, Counted, [Next]_vars PROVE Counted'
  OBVIOUS
<1>1. ASSUME NEW q \in Requests, Begin(q) PROVE Counted'
  BY <1>1 DEF Begin, Counted, TypeOK
<1>2. ASSUME NEW q \in Requests, CountModels(q) PROVE Counted'
  BY <1>2 DEF CountModels, Step, Counted, TypeOK, AfterConnection
<1>3. ASSUME NEW q \in Requests, DropSeen(q) PROVE Counted'
  <2>1. models' \subseteq models /\ seen' = seen /\ late' = late \ {q}
    BY <1>3 DEF DropSeen, DropConnection, Step
  <2>2. request'[q] # "dropping" /\ \A p \in Requests : p # q => request'[p] = request[p]
    BY <1>3 DEF DropSeen, Step, TypeOK, AfterConnection
  <2> QED
    BY <2>1, <2>2 DEF Counted
<1>4. ASSUME NEW q \in Requests,
             DeleteRuns(q) \/ DeleteFiles(q) \/ ResetImport(q)
      PROVE  Counted'
  BY <1>4
  DEF DeleteRuns, DeleteFiles, ResetImport, Step, Counted, TypeOK,
      TowardsConnection, AfterConnection
<1>5. ASSUME NEW q \in Requests,
             InsertRun(q) \/ RemoveImport(q) \/ RequestThrows(q)
      PROVE  Counted'
  BY <1>5 DEF InsertRun, RemoveImport, RequestThrows, Finish, Counted, TypeOK
<1>6. ASSUME NEW c \in conns, BuildModel(c) PROVE Counted'
  BY <1>6 DEF BuildModel, Counted
<1>7. ASSUME NEW c \in conns, DeleteModel(c) \/ DeleteConnection(c) PROVE Counted'
  BY <1>7 DEF DeleteModel, DeleteConnection, DropConnection, Counted
<1>8. CASE Crash
  BY <1>8 DEF Crash, Counted, Cleaning
<1>9. ASSUME UNCHANGED <<request, seen, models, late>> PROVE Counted'
  BY <1>9 DEF Counted
<1>10. ASSUME NEW r \in Runs, Claim(r) \/ Pipeline(r)
       PROVE  UNCHANGED <<request, seen, models, late>>
  BY <1>10
  DEF Pipeline, Claim, ReadRowsThrows, StartParsing, StartConverting,
      StartUploading, Upload, StartConnecting, CreateConnection, LinkImport,
      CompleteRun, Stops, Throws, FailRun, FailImport, FailThrows, EnterPhase
<1> QED
  BY <1>1, <1>2, <1>3, <1>4, <1>5, <1>6, <1>7, <1>8, <1>9, <1>10
  DEF Next, CleanUp, UpdateConfig, Disconnect, CancelCheck, DeleteRunCheck, CheckRun,
      WriteRun, Idle, vars

\* Only the user's deletions, or a clean-up that counted, remove models.
LEMMA StepModels ==
    TypeOK /\ Counted /\ [Next]_vars
    => [\/ models \ models' \subseteq {seen[q] : q \in late}
        \/ \E c \in conns : DeleteModel(c) \/ DeleteConnection(c)]_vars
<1> SUFFICES ASSUME TypeOK, Counted, Next
             PROVE  \/ models \ models' \subseteq {seen[q] : q \in late}
                    \/ \E c \in conns : DeleteModel(c) \/ DeleteConnection(c)
  BY DEF vars
<1>1. ASSUME NEW q \in Requests, DropSeen(q)
      PROVE  models \ models' \subseteq {seen[p] : p \in late}
  BY <1>1 DEF DropSeen, DropConnection, Counted
<1>2. ASSUME models \subseteq models'
      PROVE  models \ models' \subseteq {seen[p] : p \in late}
  BY <1>2
<1>3. ASSUME NEW r \in Runs, Claim(r) \/ Pipeline(r) PROVE models' = models
  BY <1>3
  DEF Pipeline, Claim, ReadRowsThrows, StartParsing, StartConverting,
      StartUploading, Upload, StartConnecting, CreateConnection, LinkImport,
      CompleteRun, Stops, Throws, FailRun, FailImport, FailThrows, EnterPhase
<1>4. ASSUME NEW q \in Requests, Begin(q) \/ CleanUp(q), ~DropSeen(q)
      PROVE  models' = models
  BY <1>4
  DEF Begin, CleanUp, DeleteRuns, CountModels, DeleteFiles, ResetImport, InsertRun,
      RemoveImport, RequestThrows
<1>5. ASSUME NEW c \in conns, BuildModel(c) PROVE models \subseteq models'
  BY <1>5 DEF BuildModel
<1>6. ASSUME \/ UpdateConfig \/ WriteRun \/ Crash \/ Idle
             \/ \E r \in Runs : Disconnect(r) \/ CancelCheck(r) \/ DeleteRunCheck(r)
      PROVE  models' = models
  BY <1>6
  DEF UpdateConfig, Disconnect, CancelCheck, DeleteRunCheck, CheckRun, WriteRun,
      Crash, Idle, vars
<1> QED
  BY <1>1, <1>2, <1>3, <1>4, <1>5, <1>6 DEF Next

\* data-imports.service.ts cleanupPreviousRun and delete: no clean-up takes away
\* a model that was there when it counted them; the user deletes models.
THEOREM CleanUpsSpareModels == Spec => ModelsSurvive
BY InitTypes, StepTypes, InitCounted, StepCounted, StepModels, PTL
DEF Spec, ModelsSurvive

-----------------------------------------------------------------------------
(* One operation after the other.  While nothing has overlapped, at most    *)
(* one pipeline or clean-up is under way, so that each finds the stores as  *)
(* the one before has left them.                                            *)

Alone ==
    trouble < Overlapped =>
        /\ \A r, s \in Executing : r = s
        /\ \A p, q \in Cleaning : p = q
        /\ Executing = {} \/ Cleaning = {}

\* The steps of the deletion and of POST runs.
Roads ==
    /\ request[DELETE] \in {"idle", "files", "counting", "dropping", "removing", "done"}
    /\ \A q \in Runs : request[q] # "removing"

\* What a pipeline had in memory is gone when it is over.
Forgotten == \A r \in Runs : pipe[r] \notin Active => uploaded[r] = {}

Serial == TypeOK /\ Alone /\ Roads /\ Forgotten

\* A step of a pipeline is made by one that executes, and leaves the requests
\* and the other pipelines alone.
LEMMA PipelineFootprint ==
    ASSUME TypeOK, NEW r \in Runs, Pipeline(r)
    PROVE  /\ pipe[r] \in Active
           /\ request' = request /\ seen' = seen
           /\ \A s \in Runs \ {r} : pipe'[s] = pipe[s] /\ uploaded'[s] = uploaded[s]
           /\ pipe'[r] \in Active \cup {"completed", "failed", "abandoned"}
           /\ pipe'[r] \in Active \/ uploaded'[r] = {}
           /\ trouble <= trouble'
BY DEF TypeOK, Pipeline, ReadRowsThrows, StartParsing, StartConverting,
       StartUploading, Upload, StartConnecting, CreateConnection, LinkImport,
       CompleteRun, Stops, Throws, FailRun, FailImport, FailThrows, EnterPhase,
       Goto, Leave, Active, AtLeast, Smooth, Faulted, Overlapped

LEMMA RequestFootprint ==
    ASSUME TypeOK, NEW q \in Requests, CleanUp(q)
    PROVE  /\ q \in Cleaning
           /\ pipe' = pipe /\ uploaded' = uploaded
           /\ \A p \in Requests \ {q} : request'[p] = request[p]
           /\ request'[q] # "idle"
           /\ trouble <= trouble'
BY DEF TypeOK, CleanUp, DeleteRuns, CountModels, DropSeen, DeleteFiles, ResetImport,
       InsertRun, RemoveImport, RequestThrows, Step, Finish, Cleaning, AtLeast,
       AfterConnection, TowardsConnection, Smooth, Faulted, HalfCleaned, Overlapped

LEMMA InitSerial == Init => Serial
<1> SUFFICES ASSUME Init PROVE Serial
  OBVIOUS
<1>1. Executing = {} /\ Cleaning = {}
  BY DEF Init, Executing, Active, Cleaning
<1>2. DELETE \in Requests
  BY DEF Requests
<1> QED
  BY <1>1, <1>2, InitTypes DEF Init, Serial, Alone, Roads, Forgotten, Requests

LEMMA StepSerial == Serial /\ [Next]_vars => Serial'
<1> SUFFICES ASSUME Serial, [Next]_vars PROVE Alone' /\ Roads' /\ Forgotten'
  BY StepTypes DEF Serial
<1> USE DEF Serial
<1>0. trouble \in 0..3 /\ Overlapped = 3
  BY DEF TypeOK, Smooth, Overlapped
<1>1. ASSUME NEW r \in Runs, Claim(r) PROVE Alone' /\ Roads' /\ Forgotten'
  <2>1. /\ request' = request /\ uploaded' = uploaded
        /\ \A s \in Runs \ {r} : pipe'[s] = pipe[s]
        /\ pipe'[r] \in Active
    BY <1>1 DEF Claim, Goto, TypeOK, Active
  <2>2. trouble' < Overlapped => Executing = {} /\ Cleaning = {}
    BY <1>0, <1>1 DEF Claim, Begins, Busy, AtLeast
  <2>3. Executing' \subseteq Executing \cup {r} /\ Cleaning' = Cleaning
    BY <2>1 DEF Executing, Cleaning
  <2>4. Alone'
    BY <2>2, <2>3 DEF Alone
  <2> QED
    BY <2>1, <2>4 DEF Roads, Forgotten
<1>2. ASSUME NEW r \in Runs, Pipeline(r) PROVE Alone' /\ Roads' /\ Forgotten'
  <2>1. Executing' \subseteq Executing /\ Cleaning' = Cleaning /\ trouble <= trouble'
    BY <1>2, PipelineFootprint DEF Executing, Cleaning
  <2>2. Alone'
    BY <1>0, <2>1, StepTypes DEF Alone, TypeOK, Smooth, Overlapped
  <2> QED
    BY <1>2, <2>2, PipelineFootprint DEF Roads, Forgotten
<1>3. ASSUME NEW q \in Requests, Begin(q) PROVE Alone' /\ Roads' /\ Forgotten'
  <2>1. /\ pipe' = pipe /\ uploaded' = uploaded
        /\ request' = [request EXCEPT ![q] = IF q = DELETE THEN "files" ELSE "runs"]
    BY <1>3 DEF Begin
  <2>2. trouble' < Overlapped => Executing = {} /\ Cleaning = {}
    BY <1>0, <1>3 DEF Begin, Begins, Busy, AtLeast
  <2>3. Executing' = Executing /\ Cleaning' \subseteq Cleaning \cup {q}
    BY <2>1 DEF Executing, Cleaning, TypeOK
  <2>4. Alone'
    BY <2>2, <2>3 DEF Alone
  <2>5. Roads'
    BY <2>1, ImportAssumption DEF Roads, TypeOK, Runs, Requests
  <2> QED
    BY <2>1, <2>4, <2>5 DEF Forgotten
<1>4. ASSUME NEW q \in Requests, CleanUp(q) PROVE Alone' /\ Roads' /\ Forgotten'
  <2>1. Executing' = Executing /\ Cleaning' \subseteq Cleaning /\ trouble <= trouble'
    BY <1>4, RequestFootprint DEF Executing, Cleaning
  <2>2. Alone'
    BY <1>0, <2>1, StepTypes DEF Alone, TypeOK, Smooth, Overlapped
  <2>3. /\ \A p \in Requests \ {q} : request'[p] = request[p]
        /\ q = DELETE => request'[q] \in {"idle", "files", "counting", "dropping",
                                          "removing", "done"}
        /\ q # DELETE => request'[q] # "removing"
    BY <1>4, RequestFootprint
    DEF TypeOK, CleanUp, DeleteRuns, CountModels, DropSeen, DeleteFiles, ResetImport,
        InsertRun, RemoveImport, RequestThrows, Step, Finish, AfterConnection,
        TowardsConnection, Roads
  <2>4. DELETE \notin Runs
    BY ImportAssumption DEF Runs
  <2>5. request'[DELETE] \in {"idle", "files", "counting", "dropping", "removing", "done"}
    BY <2>3 DEF Roads, Requests
  <2>6. \A p \in Runs : request'[p] # "removing"
    BY <2>3, <2>4 DEF Roads, Requests
  <2>7. Roads'
    BY <2>5, <2>6 DEF Roads
  <2> QED
    BY <1>4, <2>2, <2>7, RequestFootprint DEF Forgotten
<1>5. CASE Crash
  <2>1. Executing' = {} /\ Cleaning' = {}
    BY <1>5 DEF Crash, Executing, Cleaning, Active
  <2>2. \A q \in Requests : request'[q] \in {request[q], "done"}
    BY <1>5 DEF Crash
  <2>3. Roads'
    BY <2>2 DEF Roads, Requests
  <2> QED
    BY <1>5, <2>1, <2>3 DEF Crash, Alone, Forgotten
<1>6. ASSUME UNCHANGED <<pipe, request, uploaded, trouble>>
      PROVE  Alone' /\ Roads' /\ Forgotten'
  BY <1>6 DEF Alone, Executing, Cleaning, Roads, Forgotten
<1> QED
  BY <1>1, <1>2, <1>3, <1>4, <1>5, <1>6
  DEF Next, UpdateConfig, Disconnect, CancelCheck, DeleteRunCheck, CheckRun, WriteRun,
      BuildModel, DeleteModel, DeleteConnection, Idle, vars

-----------------------------------------------------------------------------
(* Ready imports.  What a clean-up has not finished clearing is not ready,  *)
(* and nobody clears what another one is filling.                           *)

SoundImport == import \in {"ready", "partial"} => output # {} /\ output \subseteq files

\* A clean-up that has begun and cleared nothing of the stores.
Untouched(q) == request[q] = "runs" \/ (q = DELETE /\ request[q] = "files")

Backed ==
    trouble < HalfCleaned =>
        /\ \A r \in Runs : uploaded[r] \subseteq files
        /\ Cleaning = {} => SoundImport
        /\ \A q \in Requests : Untouched(q) => SoundImport
        /\ \A q \in Requests : request[q] = "creating" => import \notin {"ready", "partial"}

LEMMA InitBacked == Init => Backed
BY ImportAssumption DEF Init, Backed, SoundImport, Untouched

\* A pipeline that may still write the import has it to itself.
LEMMA PipelineBacked ==
    ASSUME Serial, Backed, NEW r \in Runs, Pipeline(r) PROVE Backed'
<1> SUFFICES ASSUME trouble' < HalfCleaned PROVE Backed'
  BY DEF Backed
<1> USE DEF Serial
<1>0. /\ trouble \in 0..3 /\ HalfCleaned = 2 /\ Overlapped = 3
      /\ trouble' \in 0..3
  BY StepTypes DEF TypeOK, Smooth, HalfCleaned, Overlapped, Next
<1>1. trouble < HalfCleaned /\ r \in Executing /\ Cleaning = {}
  BY <1>0, PipelineFootprint DEF Executing, Alone
<1>2. SoundImport /\ \A s \in Runs : uploaded[s] \subseteq files
  BY <1>1 DEF Backed
<1>3. request' = request /\ Cleaning' = Cleaning
  BY PipelineFootprint DEF Cleaning
<1>4. \A q \in Requests : request[q] \in {"idle", "done"}
  BY <1>1 DEF Cleaning
<1>5. SoundImport' /\ \A s \in Runs : uploaded'[s] \subseteq files'
  <2>1. CASE LinkImport(r)
    <3>1. import' \in {"ready", "partial"} => uploaded[r] # {}
      BY <2>1, ImportAssumption DEF LinkImport, FinalStatus
    <3> QED
      BY <1>2, <2>1, <3>1 DEF LinkImport, Goto, SoundImport
  <2>2. CASE FailImport(r)
    BY <1>2, <2>2 DEF FailImport, Leave, SoundImport, TypeOK
  <2>3. ASSUME NEW t \in Tables, Upload(r, t)
        PROVE  SoundImport' /\ \A s \in Runs : uploaded'[s] \subseteq files'
    BY <1>2, <2>3 DEF Upload, SoundImport, TypeOK
  <2>4. ASSUME UNCHANGED <<import, output, files>>,
               \A s \in Runs : uploaded'[s] \in {uploaded[s], {}}
        PROVE  SoundImport' /\ \A s \in Runs : uploaded'[s] \subseteq files'
    BY <1>2, <2>4 DEF SoundImport
  <2>5. CASE ReadRowsThrows(r) \/ CompleteRun(r) \/ FailThrows(r)
    BY <2>4, <2>5 DEF ReadRowsThrows, CompleteRun, FailThrows, Leave, TypeOK
  <2>6. ASSUME \/ StartParsing(r) \/ StartConverting(r) \/ StartUploading(r)
               \/ StartConnecting(r) \/ CreateConnection(r) \/ Stops(r)
               \/ Throws(r) \/ FailRun(r)
        PROVE  SoundImport' /\ \A s \in Runs : uploaded'[s] \subseteq files'
    BY <2>4, <2>6
    DEF StartParsing, StartConverting, StartUploading, StartConnecting,
        CreateConnection, Stops, Throws, FailRun, EnterPhase, Goto
  <2> QED
    BY <2>1, <2>2, <2>3, <2>5, <2>6 DEF Pipeline
<1> QED
  BY <1>3, <1>4, <1>5 DEF Backed, Untouched

\* A clean-up is over only after it has cleared nothing or everything.
LEMMA RequestBacked ==
    ASSUME Serial, Backed, NEW q \in Requests, CleanUp(q) PROVE Backed'
<1> SUFFICES ASSUME trouble' < HalfCleaned PROVE Backed'
  BY DEF Backed
<1> USE DEF Serial
<1>0. /\ trouble \in 0..3 /\ HalfCleaned = 2 /\ Overlapped = 3
      /\ trouble' \in 0..3
  BY StepTypes DEF TypeOK, Smooth, HalfCleaned, Overlapped, Next
<1>1. trouble < HalfCleaned /\ q \in Cleaning
  BY <1>0, RequestFootprint
<1>2. Executing = {} /\ \A p \in Cleaning : p = q
  BY <1>0, <1>1 DEF Alone
<1>3. \A r \in Runs : uploaded[r] = {} /\ uploaded'[r] = {}
  BY <1>2, RequestFootprint DEF Executing, Forgotten
<1>4. \A p \in Requests : p # q => request'[p] \in {"idle", "done"}
  BY <1>2, RequestFootprint DEF Cleaning
<1>5. /\ Untouched(q) => SoundImport
      /\ request[q] = "creating" => import \notin {"ready", "partial"}
  BY <1>1 DEF Backed
<1>6. ASSUME UNCHANGED <<import, output, files>>,
             request'[q] \in {"counting", "dropping", "removing", "resetting"}
             \/ (q # DELETE /\ request'[q] = "files")
      PROVE  Backed'
  BY <1>3, <1>4, <1>6 DEF Backed, Untouched, Cleaning
<1>7. DELETE \notin Runs
  BY ImportAssumption DEF Runs
<1>8. CASE DeleteRuns(q)
  BY <1>6, <1>8 DEF DeleteRuns, Step, TypeOK, TowardsConnection, AfterConnection, Roads
<1>9. CASE CountModels(q)
  BY <1>6, <1>9 DEF CountModels, Step, TypeOK, AfterConnection
<1>10. CASE DropSeen(q)
  BY <1>6, <1>10 DEF DropSeen, Step, TypeOK, AfterConnection
<1>11. CASE DeleteFiles(q)
  <2>1. request'[q] \in {"counting", "removing", "resetting"}
    BY <1>11 DEF DeleteFiles, Step, TypeOK, TowardsConnection, AfterConnection
  <2> QED
    BY <1>3, <1>4, <2>1 DEF Backed, Untouched, Cleaning
<1>12. CASE ResetImport(q)
  <2>1. request'[q] = "creating" /\ import' = "pending"
    BY <1>12 DEF ResetImport, Step, TypeOK
  <2> QED
    BY <1>3, <1>4, <2>1 DEF Backed, Untouched, Cleaning, SoundImport
<1>13. ASSUME SoundImport', request'[q] = "done" PROVE Backed'
  BY <1>3, <1>4, <1>13 DEF Backed, Untouched, Cleaning
<1>14. CASE InsertRun(q)
  BY <1>5, <1>13, <1>14 DEF InsertRun, Finish, TypeOK, SoundImport
<1>15. CASE RemoveImport(q)
  BY <1>13, <1>15 DEF RemoveImport, Finish, TypeOK, SoundImport
<1>16. CASE RequestThrows(q)
  <2>1. ~HalfWay(q)
    BY <1>0, <1>16 DEF RequestThrows, AtLeast
  <2>2. Untouched(q) \/ request[q] = "creating"
    BY <1>7, <1>16, <2>1 DEF RequestThrows, HalfWay, Untouched, Roads, Requests
  <2> QED
    BY <1>5, <1>13, <1>16, <2>2 DEF RequestThrows, Finish, TypeOK, SoundImport
<1> QED
  BY <1>8, <1>9, <1>10, <1>11, <1>12, <1>14, <1>15, <1>16 DEF CleanUp

LEMMA StepBacked == Serial /\ Backed /\ [Next]_vars => Backed'
<1> SUFFICES ASSUME Serial, Backed, [Next]_vars, trouble' < HalfCleaned PROVE Backed'
  BY DEF Backed
<1> USE DEF Serial
<1>0. /\ trouble \in 0..3 /\ HalfCleaned = 2 /\ Overlapped = 3
      /\ trouble' \in 0..3
  BY StepTypes DEF TypeOK, Smooth, HalfCleaned, Overlapped
<1>1. ASSUME NEW r \in Runs, Claim(r) PROVE Backed'
  <2>1. trouble < HalfCleaned
    BY <1>0, <1>1 DEF Claim, Begins, AtLeast
  <2>2. UNCHANGED <<import, output, files, request, uploaded>>
    BY <1>1 DEF Claim, SetRun, Goto
  <2> QED
    BY <2>1, <2>2 DEF Backed, Untouched, SoundImport, Cleaning
<1>2. ASSUME NEW q \in Requests, Begin(q) PROVE Backed'
  <2>1. trouble < HalfCleaned /\ Cleaning = {}
    BY <1>0, <1>2 DEF Begin, Begins, AtLeast, Busy
  <2>2. UNCHANGED <<import, output, files, uploaded>>
    BY <1>2 DEF Begin
  <2>3. SoundImport'
    BY <2>1, <2>2 DEF Backed, SoundImport
  <2>4. \A p \in Requests : request'[p] # "creating"
    BY <1>2, <2>1 DEF Begin, TypeOK, Cleaning
  <2> QED
    BY <2>1, <2>2, <2>3, <2>4 DEF Backed
<1>3. CASE Crash
  <2>1. trouble < HalfCleaned /\ \A q \in Requests : ~HalfWay(q)
    BY <1>0, <1>3 DEF Crash, AtLeast, Faulted
  <2>2. \A q \in Requests : request'[q] \in {"idle", "done"}
    BY <1>3 DEF Crash, Cleaning
  <2>3. SoundImport
    <3>1. CASE Cleaning = {}
      BY <2>1, <3>1 DEF Backed
    <3>2. ASSUME NEW q \in Cleaning PROVE SoundImport
      <4>1. DELETE \notin Runs
        BY ImportAssumption DEF Runs
      <4>2. Untouched(q) \/ request[q] = "creating"
        BY <2>1, <3>2, <4>1
        DEF HalfWay, Untouched, Roads, Requests, Cleaning, TypeOK
      <4> QED
        BY <2>1, <3>2, <4>2 DEF Backed, SoundImport, Cleaning
    <3> QED
      BY <3>1, <3>2
  <2> QED
    BY <1>3, <2>2, <2>3 DEF Crash, Backed, SoundImport, Untouched
<1>4. CASE UpdateConfig
  BY <1>4 DEF UpdateConfig, Backed, SoundImport, Cleaning, Untouched
<1>5. ASSUME UNCHANGED <<import, output, files, request, uploaded, trouble>>
      PROVE  Backed'
  BY <1>5 DEF Backed, SoundImport, Cleaning, Untouched
<1> QED
  BY <1>1, <1>2, <1>3, <1>4, <1>5, PipelineBacked, RequestBacked
  DEF Next, Disconnect, CancelCheck, DeleteRunCheck, CheckRun, WriteRun,
      BuildModel, DeleteModel, DeleteConnection, DropConnection, Idle, vars

\* An import that says it is ready has its files, for any tables and any
\* number of runs, as long as operations do not overlap and no clean-up stops
\* between its stores.
THEOREM ReadyImportsAreBacked == Spec => []ReadyIsBacked
<1>1. Serial /\ Backed => ReadyIsBacked
  BY DEF Backed, SoundImport, ReadyIsBacked
<1> QED
  BY <1>1, InitSerial, StepSerial, InitBacked, StepBacked, PTL DEF Spec

-----------------------------------------------------------------------------
(* Connections.  As long as nothing failed, the run that waits for its      *)
(* pipeline is the only one there is, and finds an import whose clean-up    *)
(* has left no connection but those it spared for their models.             *)

Waiting == {r \in Runs : run[r] = "pending" /\ pipe[r] = "none"}

Orderly ==
    trouble = Smooth =>
        /\ \A r, s \in Waiting : r = s
        /\ Executing # {} => Waiting = {}
        /\ \A q \in Runs : request[q] \notin {"idle", "runs", "done"} => Waiting = {}
        /\ Waiting # {} => linked = NULL

Linking == {r \in Runs : pipe[r] = "linking"}

\* Where the import's connection, if there is one, is the request's business.
Pending(q) == Untouched(q) \/ request[q] \in {"counting", "dropping"}

\* The connection has been dealt with.
Cleared(q) ==
    \/ request[q] \in {"resetting", "creating", "removing"}
    \/ q # DELETE /\ request[q] = "files"

Accounted ==
    trouble = Smooth =>
        /\ conns \subseteq {linked} \cup spared \cup Linking
        /\ \A r \in Runs :
              pipe[r] \in Active \ {"completing", "failing", "failingImport"} => linked = NULL
        /\ \A q \in Requests :
              /\ Pending(q) => linked \in {seen[q], NULL}
              /\ Cleared(q) => conns \subseteq spared
              /\ request[q] = "creating" => linked = NULL

Tidy == Serial /\ IInv /\ Orderly /\ Accounted

LEMMA InitTidy == Init => Tidy
<1> SUFFICES ASSUME Init PROVE Tidy
  OBVIOUS
<1>1. Waiting = {} /\ Executing = {}
  BY DEF Init, Waiting, Executing, Active
<1>2. \A q \in Requests : ~Pending(q) /\ ~Cleared(q) /\ request[q] # "creating"
  BY DEF Init, Pending, Cleared, Untouched
<1> QED
  BY <1>1, <1>2, InitSerial, InitTypes, InitSettling
  DEF Init, Tidy, IInv, Orderly, Accounted, Active

\* NULL is not the name of a connection.
LEMMA ConnectionNames == TypeOK => NULL \notin conns
<1>1. NULL \notin Runs
  BY ImportAssumption DEF Runs
<1> QED
  BY <1>1 DEF TypeOK

LEMMA PipelineTidy ==
    ASSUME Tidy, NEW r \in Runs, Pipeline(r), trouble' = Smooth
    PROVE  Orderly' /\ Accounted'
<1> USE DEF Tidy, Serial
<1>0. trouble = Smooth /\ Smooth = 0 /\ trouble < Overlapped
  BY PipelineFootprint DEF TypeOK, Smooth, Overlapped
<1>1. /\ r \in Executing /\ Cleaning = {} /\ Waiting = {}
      /\ \A s \in Runs \ {r} : pipe[s] \notin Active /\ pipe'[s] = pipe[s]
  BY <1>0, PipelineFootprint DEF Executing, Alone, Orderly
<1>2. \A q \in Requests : request[q] \in {"idle", "done"} /\ request'[q] = request[q]
  BY <1>1, PipelineFootprint DEF Cleaning
<1>3. \A q \in Requests : ~Pending(q)' /\ ~Cleared(q)' /\ request'[q] # "creating"
  BY <1>2 DEF Pending, Cleared, Untouched
<1>4. Waiting' = {}
  <2>1. pipe'[r] # "none"
    BY PipelineFootprint DEF Active
  <2>2. \A s \in Runs \ {r} : run'[s] = run[s]
    BY DEF Pipeline, ReadRowsThrows, StartParsing, StartConverting, StartUploading,
           Upload, StartConnecting, CreateConnection, LinkImport, CompleteRun, Stops,
           Throws, FailRun, FailImport, FailThrows, EnterPhase, SetRun, TypeOK
  <2> QED
    BY <1>1, <2>1, <2>2 DEF Waiting
<1>5. Orderly'
  BY <1>2, <1>4 DEF Orderly, Requests
<1>6. Linking \subseteq {r} /\ Linking' \subseteq {r}
  BY <1>1 DEF Linking, Active
<1>7. conns \subseteq {linked} \cup spared \cup Linking /\ spared' = spared
  BY <1>0
  DEF Accounted, Pipeline, ReadRowsThrows, StartParsing, StartConverting,
      StartUploading, Upload, StartConnecting, CreateConnection, LinkImport,
      CompleteRun, Stops, Throws, FailRun, FailImport, FailThrows, EnterPhase
<1>8. ASSUME conns' \subseteq {linked'} \cup spared',
             pipe'[r] \in Active \ {"completing", "failing", "failingImport"}
               => linked' = NULL
      PROVE  Accounted'
  BY <1>1, <1>3, <1>8 DEF Accounted
<1>9. CASE CreateConnection(r)
  <2>1. linked = NULL /\ Linking = {}
    BY <1>0, <1>6, <1>9 DEF CreateConnection, Accounted, Active, Linking
  <2>2. /\ pipe'[r] = "linking" /\ linked' = NULL
        /\ conns' \subseteq {linked', r} \cup spared'
    BY <1>7, <1>9, <2>1 DEF CreateConnection, Goto, TypeOK
  <2>3. Linking' = {r}
    BY <1>6, <2>2 DEF Linking
  <2> QED
    BY <1>1, <1>3, <1>5, <2>2, <2>3 DEF Accounted
<1>10. CASE LinkImport(r)
  <2>1. linked = NULL
    BY <1>0, <1>10 DEF LinkImport, Accounted, Active
  <2>2. conns' \subseteq {linked'} \cup spared'
    BY <1>6, <1>7, <1>10, <2>1, ConnectionNames DEF LinkImport
  <2>3. pipe'[r] = "completing"
    BY <1>10 DEF LinkImport, Goto, TypeOK
  <2> QED
    BY <1>5, <1>8, <2>2, <2>3
<1>11. ASSUME pipe[r] # "linking", UNCHANGED <<conns, linked>>
       PROVE  conns' \subseteq {linked'} \cup spared'
  BY <1>6, <1>7, <1>11 DEF Linking
<1>12. CASE CompleteRun(r) \/ FailImport(r)
  <2>1. /\ pipe[r] # "linking" /\ UNCHANGED <<conns, linked>>
        /\ pipe'[r] \in {"completed", "failed"}
    BY <1>12 DEF CompleteRun, FailImport, Leave, TypeOK
  <2> QED
    BY <1>5, <1>8, <1>11, <2>1 DEF Active
<1>13. CASE Stops(r) \/ FailRun(r)
  <2>1. /\ pipe[r] # "linking" /\ UNCHANGED <<conns, linked>>
        /\ pipe'[r] \in {"failing", "failingImport"}
    BY <1>13 DEF Stops, FailRun, Goto, TypeOK
  <2> QED
    BY <1>5, <1>8, <1>11, <2>1
<1>14. ASSUME \/ StartParsing(r) \/ StartConverting(r) \/ StartUploading(r)
              \/ StartConnecting(r) \/ \E t \in Tables : Upload(r, t)
       PROVE  Accounted'
  <2>1. pipe[r] \in {"claimed", "parsing", "converting", "uploading"}
        /\ UNCHANGED <<conns, linked>>
    BY <1>14
    DEF StartParsing, StartConverting, StartUploading, StartConnecting, Upload,
        EnterPhase
  <2>2. linked' = NULL
    BY <1>0, <2>1 DEF Accounted, Active
  <2> QED
    BY <1>8, <1>11, <2>1, <2>2
<1>15. ~(ReadRowsThrows(r) \/ Throws(r) \/ FailThrows(r))
  BY <1>0 DEF ReadRowsThrows, Throws, FailThrows, AtLeast, Faulted
<1> QED
  BY <1>5, <1>9, <1>10, <1>12, <1>13, <1>14, <1>15 DEF Pipeline

LEMMA RequestTidy ==
    ASSUME Tidy, NEW q \in Requests, CleanUp(q), trouble' = Smooth
    PROVE  Orderly' /\ Accounted'
<1> USE DEF Tidy, Serial
<1>0. trouble = Smooth /\ Smooth = 0 /\ trouble < Overlapped
  BY RequestFootprint DEF TypeOK, Smooth, Overlapped
<1>1. /\ Executing = {} /\ Executing' = {} /\ \A p \in Cleaning : p = q
  BY <1>0, RequestFootprint DEF Alone, Executing
<1>2. \A p \in Requests : p # q => request'[p] \in {"idle", "done"}
  BY <1>1, RequestFootprint DEF Cleaning
<1>3. /\ \A r \in Runs : pipe[r] \notin Active /\ pipe'[r] \notin Active
      /\ Linking = {} /\ Linking' = {}
  BY <1>1 DEF Executing, Linking, Active
<1>4. /\ conns \subseteq {linked} \cup spared
      /\ Pending(q) => linked \in {seen[q], NULL}
      /\ Cleared(q) => conns \subseteq spared
      /\ request[q] = "creating" => linked = NULL
  BY <1>0, <1>3 DEF Accounted
<1>5. NULL \notin conns
  BY ConnectionNames
<1>6. ASSUME conns' \subseteq {linked'} \cup spared',
             Pending(q)' => linked' \in {seen'[q], NULL},
             Cleared(q)' => conns' \subseteq spared',
             request'[q] = "creating" => linked' = NULL
      PROVE  Accounted'
  BY <1>2, <1>3, <1>6 DEF Accounted, Pending, Cleared, Untouched
<1>7. ASSUME Waiting' = {} PROVE Orderly'
  BY <1>7 DEF Orderly
<1>8. ASSUME run' = run, q = DELETE \/ request[q] # "runs", linked' \in {linked, NULL}
      PROVE  Orderly'
  <2>1. Waiting' = Waiting
    BY <1>8, RequestFootprint DEF Waiting
  <2>2. q # DELETE => Waiting = {}
    BY <1>0, <1>8, RequestFootprint DEF Orderly, Requests, Cleaning
  <2>3. DELETE \notin Runs
    BY ImportAssumption DEF Runs
  <2> QED
    BY <1>0, <1>1, <1>2, <1>8, <2>1, <2>2, <2>3 DEF Orderly, Requests
<1>9. CASE DeleteRuns(q)
  <2>1. Waiting' = {}
    BY <1>9 DEF DeleteRuns, AllGone, Waiting, TypeOK
  <2>2. /\ request'[q] = TowardsConnection(q) /\ Pending(q)
        /\ UNCHANGED <<conns, linked, seen, spared>>
    BY <1>9 DEF DeleteRuns, Step, TypeOK, Pending, Untouched
  <2>3. seen[q] = NULL => conns \subseteq spared
    BY <1>4, <1>5, <2>2
  <2> QED
    BY <1>4, <1>6, <1>7, <2>1, <2>2, <2>3
    DEF TowardsConnection, AfterConnection, Pending, Cleared, Untouched
<1>10. CASE CountModels(q)
  <2>1. /\ \/ request'[q] = "dropping" /\ spared' = spared
           \/ request'[q] = AfterConnection(q) /\ spared' = spared \cup {seen[q]}
        /\ Pending(q) /\ UNCHANGED <<run, conns, linked, seen>>
        /\ request[q] # "runs"
    BY <1>10 DEF CountModels, Step, TypeOK, Pending
  <2>2. request'[q] # "dropping" => conns \subseteq spared'
    BY <1>4, <1>5, <2>1
  <2> QED
    BY <1>4, <1>6, <1>8, <2>1, <2>2 DEF AfterConnection, Pending, Cleared, Untouched
<1>11. CASE DropSeen(q)
  <2>1. /\ request'[q] = AfterConnection(q) /\ request[q] # "runs" /\ run' = run
        /\ Pending(q) /\ linked' \in {linked, NULL} /\ spared' = spared
    BY <1>11 DEF DropSeen, Step, TypeOK, Pending, DropConnection
  <2>2. conns' \subseteq spared'
    <3>1. CASE DropConnection(seen[q])
      BY <1>4, <1>5, <2>1, <3>1 DEF DropConnection
    <3>2. CASE UNCHANGED <<linked, conns, models>> /\ seen[q] \notin conns
      BY <1>4, <1>5, <2>1, <3>2
    <3> QED
      BY <1>0, <1>11, <3>1, <3>2 DEF DropSeen, AtLeast, Faulted
  <2> QED
    BY <1>6, <1>8, <2>1, <2>2 DEF AfterConnection, Pending, Cleared, Untouched
<1>12. CASE DeleteFiles(q)
  <2>1. /\ request'[q] = IF q = DELETE THEN TowardsConnection(q) ELSE "resetting"
        /\ request[q] # "runs" /\ UNCHANGED <<run, conns, linked, seen, spared>>
        /\ q = DELETE => Pending(q)
        /\ q # DELETE => Cleared(q)
    BY <1>12 DEF DeleteFiles, Step, TypeOK, Pending, Cleared, Untouched
  <2>2. (q = DELETE /\ seen[q] = NULL) => conns \subseteq spared
    BY <1>4, <1>5, <2>1
  <2> QED
    BY <1>4, <1>6, <1>8, <2>1, <2>2
    DEF TowardsConnection, AfterConnection, Pending, Cleared, Untouched
<1>13. CASE ResetImport(q)
  <2>1. /\ request'[q] = "creating" /\ linked' = NULL
        /\ UNCHANGED <<run, conns, spared>> /\ Cleared(q) /\ request[q] # "runs"
    BY <1>13 DEF ResetImport, Step, TypeOK, Cleared
  <2> QED
    BY <1>4, <1>6, <1>8, <2>1 DEF Pending, Cleared, Untouched
<1>14. CASE InsertRun(q)
  <2>1. /\ request'[q] = "done" /\ linked = NULL /\ run' = [run EXCEPT ![q] = "pending"]
        /\ UNCHANGED <<conns, linked, spared>> /\ request[q] = "creating"
    BY <1>4, <1>14 DEF InsertRun, Finish, TypeOK
  <2>2. q # DELETE
    BY <2>1 DEF Roads
  <2>3. Waiting = {}
    BY <1>0, <2>1, <2>2 DEF Orderly, Requests
  <2>4. Waiting' \subseteq {q}
    BY <2>1, <2>3, RequestFootprint DEF Waiting, TypeOK
  <2>5. Orderly'
    BY <1>1, <1>2, <2>1, <2>4 DEF Orderly, Requests
  <2> QED
    BY <1>4, <1>6, <2>1, <2>5 DEF Pending, Cleared, Untouched
<1>15. CASE RemoveImport(q)
  <2>1. /\ request'[q] = "done" /\ linked' = NULL
        /\ UNCHANGED <<conns, spared>> /\ Cleared(q)
    BY <1>15 DEF RemoveImport, Finish, TypeOK, Cleared
  <2>2. Waiting' = {}
    BY <1>15 DEF RemoveImport, AllGone, Waiting, TypeOK
  <2> QED
    BY <1>4, <1>6, <1>7, <2>1, <2>2 DEF Pending, Cleared, Untouched
<1>16. ~RequestThrows(q)
  BY <1>0 DEF RequestThrows, AtLeast, Faulted, HalfCleaned
<1> QED
  BY <1>9, <1>10, <1>11, <1>12, <1>13, <1>14, <1>15, <1>16 DEF CleanUp

LEMMA StepTidy == Tidy /\ [Next]_vars => Tidy'
<1> SUFFICES ASSUME Tidy, [Next]_vars, trouble' = Smooth
             PROVE  Orderly' /\ Accounted'
  BY StepSerial, StepTypes, StepSettling DEF Tidy, IInv, Orderly, Accounted
<1> USE DEF Tidy, Serial
<1>0. trouble \in 0..3 /\ Smooth = 0 /\ Overlapped = 3
  BY DEF TypeOK, Smooth, Overlapped
<1>1. ASSUME NEW r \in Runs, Claim(r) PROVE Orderly' /\ Accounted'
  <2>1. trouble = Smooth /\ Executing = {} /\ r \in Waiting
    BY <1>0, <1>1 DEF Claim, Begins, AtLeast, Busy, Waiting
  <2>2. /\ \A s \in Runs \ {r} : pipe'[s] = pipe[s] /\ run'[s] = run[s]
        /\ pipe'[r] = "claimed"
        /\ UNCHANGED <<conns, spared, linked, request, seen>>
    BY <1>1 DEF Claim, Goto, SetRun, TypeOK
  <2>3. Waiting' = {} /\ linked = NULL
    BY <2>1, <2>2 DEF Orderly, Waiting
  <2>4. Linking = {}
    BY <2>1 DEF Executing, Linking, Active
  <2> QED
    BY <2>1, <2>2, <2>3, <2>4
    DEF Orderly, Accounted, Pending, Cleared, Untouched
<1>2. ASSUME NEW q \in Requests, Begin(q) PROVE Orderly' /\ Accounted'
  <2>1. /\ trouble = Smooth /\ Executing = {} /\ Cleaning = {}
        /\ UNCHANGED <<run, pipe, conns, spared, linked>>
    BY <1>0, <1>2 DEF Begin, Begins, AtLeast, Busy
  <2>2. /\ \A p \in Requests : p # q => request'[p] \in {"idle", "done"}
        /\ request'[q] = IF q = DELETE THEN "files" ELSE "runs"
        /\ seen'[q] = linked
    BY <1>2, <2>1 DEF Begin, Cleaning, TypeOK
  <2>3. DELETE \notin Runs
    BY ImportAssumption DEF Runs
  <2>4. Orderly'
    BY <2>1, <2>2, <2>3 DEF Orderly, Waiting, Executing, Requests
  <2>5. Accounted'
    BY <2>1, <2>2 DEF Accounted, Linking, Pending, Cleared, Untouched
  <2> QED
    BY <2>4, <2>5
<1>3. CASE WriteRun
  <2>1. Waiting' \subseteq Waiting
    BY <1>3 DEF WriteRun, SetRun, TypeOK, Waiting
  <2> QED
    BY <1>3, <2>1
    DEF WriteRun, Orderly, Accounted, Executing, Linking, Pending, Cleared, Untouched
<1>4. ASSUME NEW c \in conns, BuildModel(c) \/ DeleteModel(c)
      PROVE  Orderly' /\ Accounted'
  BY <1>4
  DEF BuildModel, DeleteModel, Orderly, Accounted, Waiting, Executing, Linking, Pending,
      Cleared, Untouched
<1>5. ASSUME NEW c \in conns, DeleteConnection(c) PROVE Orderly' /\ Accounted'
  <2>1. /\ conns' = conns \ {c}
        /\ linked' = IF linked = c THEN NULL ELSE linked
        /\ UNCHANGED <<run, pipe, request, seen, trouble, spared>>
    BY <1>5 DEF DeleteConnection, DropConnection
  <2> QED
    BY <2>1
    DEF Orderly, Accounted, Waiting, Executing, Linking, Pending, Cleared, Untouched
<1>6. ~Crash
  BY <1>0 DEF Crash, AtLeast, Faulted, HalfCleaned
<1>7. ASSUME UNCHANGED <<run, pipe, request, seen, conns, linked, trouble, spared>>
      PROVE  Orderly' /\ Accounted'
  BY <1>7
  DEF Orderly, Accounted, Waiting, Executing, Linking, Pending, Cleared, Untouched
<1> QED
  BY <1>1, <1>2, <1>3, <1>4, <1>5, <1>6, <1>7, PipelineTidy, RequestTidy
  DEF Next, UpdateConfig, Disconnect, CancelCheck, DeleteRunCheck, CheckRun, Idle, vars

\* Re-runs leave no connection behind but the import's own and those a clean-up
\* left to a model, however often and with whatever tables an import is run, and
\* whatever the user does to models and connections.
THEOREM NoConnectionStrays == Spec => []NoStrayConnection
<1>1. Tidy => NoStrayConnection
  BY DEF Tidy, Accounted, NoStrayConnection, Linking, Busy, Executing, Active
<1> QED
  BY <1>1, InitTidy, StepTidy, PTL DEF Spec

-----------------------------------------------------------------------------
(* Each run as a piece of claimed work *)

\* A run that has no pipeline was not claimed, and one that was is past pending.
Claimable ==
    \A r \in Runs :
        /\ run[r] \in {"none", "pending"} => pipe[r] = "none"
        /\ pipe[r] = "none" => run[r] \in Absent \cup {"pending", "cancelled"}

Started(r) == {p \in {r} : pipe[p] # "none"}

\* A pipeline's step makes no run pending, and takes none to or from its end but
\* with the end of the pipeline.
LEMMA PipelineStatus ==
    ASSUME TypeOK, NEW r \in Runs, Pipeline(r)
    PROVE  /\ \A s \in Runs \ {r} : run'[s] = run[s] /\ pipe'[s] = pipe[s]
           /\ pipe[r] \in Active /\ pipe'[r] # "none"
           /\ \/ run'[r] = run[r]
              \/ run[r] # "gone" /\ run'[r] \in RunStatuses \ {"pending"}
           /\ pipe'[r] \in Active \cup {"completed", "failed", "abandoned"}
<1>1. pipe[r] \in Active /\ \A s \in Runs \ {r} : pipe'[s] = pipe[s]
  BY PipelineFootprint
<1>2. pipe'[r] \in Active \cup {"completed", "failed", "abandoned"}
  BY PipelineFootprint
<1>3. \/ run' = run
      \/ run[r] # "gone" /\ \E status \in RunStatuses \ {"pending"} :
                                run' = [run EXCEPT ![r] = status]
  BY DEF Pipeline, ReadRowsThrows, StartParsing, StartConverting, StartUploading,
         Upload, StartConnecting, CreateConnection, LinkImport, CompleteRun, Stops,
         Throws, FailRun, FailImport, FailThrows, EnterPhase, SetRun, RunStatuses
<1> QED
  BY <1>1, <1>2, <1>3 DEF TypeOK, Active

\* What a request does to the runs' rows.
LEMMA RequestStatus ==
    ASSUME IInv, NEW q \in Requests, Begin(q) \/ CleanUp(q)
    PROVE  /\ pipe' = pipe
           /\ \/ run' = run
              \/ run' = AllGone
              \/ /\ q \in Runs /\ run[q] = "none" /\ pipe[q] = "none"
                 /\ run' = [run EXCEPT ![q] = "pending"]
<1>1. CASE InsertRun(q)
  <2>1. CASE q \in Runs
    BY <1>1, <2>1 DEF InsertRun, IInv, Fresh
  <2>2. CASE q \notin Runs
    BY <1>1, <2>2 DEF InsertRun, IInv, TypeOK
  <2> QED
    BY <2>1, <2>2
<1>2. CASE ~InsertRun(q)
  BY <1>2
  DEF CleanUp, Begin, DeleteRuns, CountModels, DropSeen, DeleteFiles, ResetImport,
      RemoveImport, RequestThrows
<1> QED
  BY <1>1, <1>2

LEMMA InitClaimable == Init => Claimable
BY DEF Init, Claimable, Absent

LEMMA StepClaimable == IInv /\ Claimable /\ [Next]_vars => Claimable'
<1> SUFFICES ASSUME IInv, Claimable, [Next]_vars PROVE Claimable'
  OBVIOUS
<1>0. TypeOK
  BY DEF IInv
<1> USE DEF Claimable
<1>1. ASSUME NEW r \in Runs, Claim(r) PROVE Claimable'
  <2>1. run' = [run EXCEPT ![r] = "parsing"] /\ pipe' = [pipe EXCEPT ![r] = "claimed"]
    BY <1>1 DEF Claim, SetRun, Goto
  <2> QED
    BY <1>0, <2>1 DEF TypeOK
<1>2. ASSUME NEW r \in Runs, Pipeline(r) PROVE Claimable'
  <2>1. run[r] \notin {"none", "pending"}
    BY <1>0, <1>2, PipelineStatus DEF Active
  <2> QED
    BY <1>0, <1>2, <2>1, PipelineStatus DEF RunStatuses
<1>3. ASSUME NEW q \in Requests, Begin(q) \/ CleanUp(q) PROVE Claimable'
  BY <1>0, <1>3, RequestStatus DEF AllGone, Absent, TypeOK
<1>4. CASE WriteRun
  <2>1. checked # NULL /\ checked \in [verb : {"cancel", "delete"}, run : Runs]
    BY <1>0, <1>4 DEF WriteRun, TypeOK
  <2>2. run' = run \/ \E status \in {"cancelled", "gone"} :
                        run' = [run EXCEPT ![checked.run] = status]
    BY <1>4 DEF WriteRun, SetRun
  <2> QED
    BY <1>0, <1>4, <2>1, <2>2 DEF WriteRun, TypeOK, Absent
<1>5. CASE Crash
  BY <1>0, <1>5 DEF Crash, Executing, Active, TypeOK
<1>6. ASSUME UNCHANGED <<run, pipe>> PROVE Claimable'
  BY <1>6
<1> QED
  BY <1>1, <1>2, <1>3, <1>4, <1>5, <1>6
  DEF Next, UpdateConfig, Disconnect, CancelCheck, DeleteRunCheck, CheckRun, BuildModel,
      DeleteModel, DeleteConnection, Idle, vars

LEMMA StepWork ==
    ASSUME IInv, Claimable, [Next]_vars, NEW r \in Runs
    PROVE  [WorkOf(r)!Next]_(WorkOf(r)!vars)
<1>0. TypeOK
  BY DEF IInv
<1>1. ASSUME run'[r] = run[r], pipe'[r] = pipe[r]
      PROVE  [WorkOf(r)!Next]_(WorkOf(r)!vars)
  <2>1. StageOf(r)' = StageOf(r) /\ Started(r)' = Started(r)
    BY <1>1 DEF StageOf, Started
  <2> QED
    BY <2>1 DEF WorkOf!vars, Started
<1>2. ASSUME Started(r)' = Started(r),
             \/ StageOf(r)' = StageOf(r)
             \/ StageOf(r)' = "gone"
             \/ StageOf(r) = "absent" /\ StageOf(r)' = "open"
             \/ StageOf(r) \in {"open", "claimed"} /\ StageOf(r)' = "over"
      PROVE  [WorkOf(r)!Next]_(WorkOf(r)!vars)
  BY <1>2
  DEF WorkOf!Next, WorkOf!vars, WorkOf!Offer, WorkOf!Settle, WorkOf!Withdraw,
      WorkOf!Remove, Started
<1>3. ASSUME NEW s \in Runs, Claim(s) PROVE [WorkOf(r)!Next]_(WorkOf(r)!vars)
  <2>1. /\ run[s] = "pending" /\ pipe[s] = "none"
        /\ run' = [run EXCEPT ![s] = "parsing"] /\ pipe' = [pipe EXCEPT ![s] = "claimed"]
    BY <1>3 DEF Claim, SetRun, Goto
  <2>2. CASE s = r
    <3>1. run'[r] = "parsing" /\ pipe'[r] = "claimed"
      BY <1>0, <2>1, <2>2 DEF TypeOK
    <3>2. StageOf(r) = "open" /\ StageOf(r)' = "claimed"
      BY <2>1, <2>2, <3>1 DEF StageOf, Terminal
    <3>3. Started(r)' = Started(r) \cup {r}
      BY <3>1 DEF Started
    <3> QED
      BY <3>2, <3>3 DEF WorkOf!Next, WorkOf!Claim, Started
  <2>3. CASE s # r
    BY <1>0, <1>1, <2>1, <2>3 DEF TypeOK
  <2> QED
    BY <2>2, <2>3
<1>4. ASSUME NEW s \in Runs, Pipeline(s) PROVE [WorkOf(r)!Next]_(WorkOf(r)!vars)
  <2>1. CASE s # r
    BY <1>0, <1>1, <1>4, <2>1, PipelineStatus
  <2>2. CASE s = r
    <3>1. /\ pipe[r] \in Active /\ pipe[r] # "none" /\ pipe'[r] # "none"
          /\ run[r] \notin {"none", "pending"}
      BY <1>0, <1>4, <2>2, PipelineStatus DEF Claimable, Active
    <3>2. Started(r)' = Started(r)
      BY <3>1 DEF Started
    <3>3. CASE run[r] = "gone"
      <4>1. run'[r] = "gone"
        BY <1>0, <1>4, <2>2, <3>3, PipelineStatus
      <4> QED
        BY <1>2, <3>2, <4>1 DEF StageOf
    <3>4. CASE run[r] # "gone"
      <4>1. StageOf(r) = "claimed"
        BY <3>1, <3>4 DEF StageOf
      <4>2. run'[r] \notin {"none", "pending", "gone"}
        BY <1>0, <1>4, <2>2, <3>1, <3>4, PipelineStatus DEF RunStatuses
      <4>3. StageOf(r)' \in {"over", "claimed"}
        BY <4>2 DEF StageOf
      <4> QED
        BY <1>2, <3>2, <4>1, <4>3
    <3> QED
      BY <3>3, <3>4
  <2> QED
    BY <2>1, <2>2
<1>5. ASSUME NEW q \in Requests, Begin(q) \/ CleanUp(q)
      PROVE  [WorkOf(r)!Next]_(WorkOf(r)!vars)
  <2>1. pipe' = pipe /\ Started(r)' = Started(r)
    BY <1>5, RequestStatus DEF Started
  <2>2. CASE run' = run
    BY <1>1, <2>1, <2>2
  <2>3. CASE run' = AllGone
    <3>1. StageOf(r)' = StageOf(r) \/ StageOf(r)' = "gone"
      BY <2>3 DEF AllGone, StageOf
    <3> QED
      BY <1>2, <2>1, <3>1
  <2>4. CASE /\ q \in Runs /\ run[q] = "none" /\ pipe[q] = "none"
             /\ run' = [run EXCEPT ![q] = "pending"]
    <3>1. CASE q = r
      <4>1. StageOf(r) = "absent" /\ StageOf(r)' = "open"
        BY <1>0, <2>4, <3>1 DEF StageOf, TypeOK
      <4> QED
        BY <1>2, <2>1, <4>1
    <3>2. CASE q # r
      BY <1>0, <1>1, <2>1, <2>4, <3>2 DEF TypeOK
    <3> QED
      BY <3>1, <3>2
  <2> QED
    BY <1>5, <2>2, <2>3, <2>4, RequestStatus
<1>6. CASE WriteRun
  <2>1. /\ checked # NULL /\ checked \in [verb : {"cancel", "delete"}, run : Runs]
        /\ run[checked.run] # "none" /\ pipe' = pipe
    BY <1>0, <1>6 DEF WriteRun, TypeOK, IInv, Fresh
  <2>2. Started(r)' = Started(r)
    BY <2>1 DEF Started
  <2>3. run' = run \/ \E status \in {"cancelled", "gone"} :
                        /\ run[checked.run] # "gone"
                        /\ run' = [run EXCEPT ![checked.run] = status]
    BY <1>6 DEF WriteRun, SetRun
  <2>4. run'[r] = run[r] \/ (run[r] \notin {"none", "gone"} /\ run'[r] \in {"cancelled", "gone"})
    BY <1>0, <2>1, <2>3 DEF TypeOK
  <2>5. CASE run'[r] = run[r]
    BY <1>1, <2>1, <2>5
  <2>6. CASE run'[r] = "gone"
    BY <1>2, <2>2, <2>6 DEF StageOf
  <2>7. CASE run[r] \notin {"none", "gone"} /\ run'[r] = "cancelled"
    <3>1. pipe'[r] \in Active => StageOf(r)' = "claimed" /\ StageOf(r) = "claimed"
      BY <2>1, <2>7 DEF StageOf, Claimable, Active
    <3>2. pipe'[r] \notin Active => StageOf(r)' = "over"
      BY <2>7 DEF StageOf, Terminal
    <3>3. StageOf(r) \in {"open", "claimed", "over"}
      BY <2>7 DEF StageOf
    <3> QED
      BY <1>2, <2>2, <3>1, <3>2, <3>3
  <2> QED
    BY <2>4, <2>5, <2>6, <2>7
<1>7. CASE Crash
  <2>1. run' = run /\ pipe'[r] = IF r \in Executing THEN "abandoned" ELSE pipe[r]
    BY <1>7 DEF Crash
  <2>2. CASE r \in Executing
    <3>1. Started(r)' = Started(r)
      BY <2>1, <2>2 DEF Started, Executing, Active
    <3>2. StageOf(r)' = StageOf(r) \/ (StageOf(r) = "claimed" /\ StageOf(r)' = "over")
      BY <2>1, <2>2 DEF StageOf, Executing
    <3> QED
      BY <1>2, <3>1, <3>2
  <2>3. CASE r \notin Executing
    BY <1>1, <2>1, <2>3
  <2> QED
    BY <2>2, <2>3
<1>8. ASSUME UNCHANGED <<run, pipe>> PROVE [WorkOf(r)!Next]_(WorkOf(r)!vars)
  BY <1>1, <1>8
<1> QED
  BY <1>3, <1>4, <1>5, <1>6, <1>7, <1>8
  DEF Next, UpdateConfig, Disconnect, CancelCheck, DeleteRunCheck, CheckRun, BuildModel,
      DeleteModel, DeleteConnection, Idle, vars

\* data-imports.service.ts and its stream controller: each run implements
\* ClaimedWork, whatever is re-run, cancelled, deleted or disconnected meanwhile.
THEOREM ImplementsClaimedWork == Spec => WorkSpecs
<1>1. Init => \A r \in Runs : WorkOf(r)!Init
  <2> SUFFICES ASSUME Init, NEW r \in Runs PROVE WorkOf(r)!Init
    OBVIOUS
  <2>1. StageOf(r) = "absent" /\ Started(r) = {}
    BY DEF Init, StageOf, Started
  <2> QED
    BY <2>1 DEF WorkOf!Init, Started
<1>2. IInv /\ Claimable /\ [Next]_vars
      => [\A r \in Runs : [WorkOf(r)!Next]_(WorkOf(r)!vars)]_vars
  BY StepWork
<1>3. Init => IInv
  BY InitTypes, InitSettling DEF IInv
<1>4. IInv /\ [Next]_vars => IInv'
  BY StepTypes, StepSettling DEF IInv
<1> QED
  BY <1>1, <1>2, <1>3, <1>4, InitClaimable, StepClaimable, PTL DEF Spec, WorkSpecs

=============================================================================
