------------------------- MODULE StorageObject_proofs -------------------------
(***************************************************************************)
(* For any number of requests: the types hold, an object offered for       *)
(* download has its content, a row that goes leaves nothing behind, and a  *)
(* row that is processing has a handler that will mark it.                 *)
(***************************************************************************)
EXTENDS StorageObject, TLAPS

(* Initially the types hold. *)
LEMMA InitTypeOK == Init => TypeOK
  BY StorageAssumption DEF Init, TypeOK, Actors, Handlers, Exists

(* Every step keeps the types. *)
LEMMA StepTypeOK == TypeOK /\ [Next]_vars => TypeOK'
<1> USE StorageAssumption
<1> SUFFICES ASSUME TypeOK, [Next]_vars PROVE TypeOK'
  OBVIOUS
<1> USE DEF TypeOK, Exists, Goto, Handlers, Actors
<1>1. CASE InitMultipart
  BY <1>1 DEF InitMultipart, record, history
<1>2. CASE CreatePending
  BY <1>2 DEF CreatePending, bucket, history
<1>3. CASE StoreContent
  BY <1>3 DEF StoreContent, record, history
<1>4. CASE CreateProcessing
  BY <1>4 DEF CreateProcessing, bucket, history
<1>5. ASSUME NEW r \in Requests, Begin(r) PROVE TypeOK'
  BY <1>5 DEF Begin, record, bucket, history
<1>6. ASSUME NEW r \in Requests, Complete(r) PROVE TypeOK'
  BY <1>6 DEF Complete, record, history
<1>7. ASSUME NEW r \in Requests, SetProcessing(r) PROVE TypeOK'
  BY <1>7 DEF SetProcessing, bucket, history
<1>8. ASSUME NEW r \in Requests, DeleteContent(r) PROVE TypeOK'
  BY <1>8 DEF DeleteContent, record
<1>9. ASSUME NEW a \in Actors, Abort(a) PROVE TypeOK'
  BY <1>9 DEF Abort, record, history, Actors
<1>10. ASSUME NEW a \in Actors, RemoveRow(a) PROVE TypeOK'
  BY <1>10 DEF RemoveRow, bucket, history, Actors, Resting
<1>11. ASSUME NEW a \in Actors, Throws(a) PROVE TypeOK'
  BY <1>11 DEF Throws, record, bucket, history, Actors, Resting
<1>12. CASE Age
  BY <1>12 DEF Age, bucket, history
<1>13. CASE FindStale
  BY <1>13 DEF FindStale, record, bucket, history
<1>14. ASSUME NEW h \in Handlers, Process(h) PROVE TypeOK'
  BY <1>14 DEF Process, record, bucket, history
<1>15. ASSUME NEW h \in Handlers, Mark(h) PROVE TypeOK'
  BY <1>15 DEF Mark, bucket, history
<1>16. ASSUME NEW h \in Handlers, MarkThrows(h) PROVE TypeOK'
  BY <1>16 DEF MarkThrows, record, bucket
<1>17. CASE Crash
  BY <1>17 DEF Crash, record, bucket, Resting, Actors
<1>18. CASE UNCHANGED vars
  BY <1>18 DEF vars, record, bucket, history
<1> QED
  BY <1>1, <1>2, <1>3, <1>4, <1>5, <1>6, <1>7, <1>8, <1>9, <1>10, <1>11, <1>12,
     <1>13, <1>14, <1>15, <1>16, <1>17, <1>18 DEF Next, Handler, Rest

(* The row, the requests and S3 always fit, for any set of requests. *)
THEOREM Typing == Spec => []TypeOK
  BY InitTypeOK, StepTypeOK, PTL DEF Spec

-----------------------------------------------------------------------------
(* What is ready has its content *)

\* S3 has the object, or its owner's deletion has been there.
Stored == content \/ deleting

\* Whatever says that the content has arrived is right.
Backed ==
    /\ upload = "completed" => Stored
    /\ at[UPLOAD] = "creatingProcessing" => Stored
    /\ \A r \in Requests : at[r] = "completed" => Stored
    /\ \A h \in Handlers : process[h] # "none" => Stored
    /\ row \in {"processing", "ready", "failed"} => Stored

\* Content appears with the completion and goes only with a deletion.
LEMMA StepBacked == TypeOK /\ Backed /\ [Next]_vars => Backed'
<1> USE StorageAssumption
<1> SUFFICES ASSUME TypeOK, Backed, [Next]_vars PROVE Backed'
  OBVIOUS
<1> USE DEF TypeOK, Backed, Stored, Exists, Goto, Handlers, Actors
<1>1. CASE InitMultipart
  BY <1>1 DEF InitMultipart, record, history
<1>2. CASE CreatePending
  BY <1>2 DEF CreatePending, bucket, history
<1>3. CASE StoreContent
  BY <1>3 DEF StoreContent, record, history
<1>4. CASE CreateProcessing
  BY <1>4 DEF CreateProcessing, bucket, history
<1>5. ASSUME NEW r \in Requests, Begin(r) PROVE Backed'
  BY <1>5 DEF Begin, record, bucket, history
<1>6. ASSUME NEW r \in Requests, Complete(r) PROVE Backed'
  BY <1>6 DEF Complete, record, history
<1>7. ASSUME NEW r \in Requests, SetProcessing(r) PROVE Backed'
  BY <1>7 DEF SetProcessing, bucket, history
<1>8. ASSUME NEW r \in Requests, DeleteContent(r) PROVE Backed'
  BY <1>8 DEF DeleteContent, record
<1>9. ASSUME NEW a \in Actors, Abort(a) PROVE Backed'
  BY <1>9 DEF Abort, record, history
<1>10. ASSUME NEW a \in Actors, RemoveRow(a) PROVE Backed'
  BY <1>10 DEF RemoveRow, bucket, history, Resting
<1>11. ASSUME NEW a \in Actors, Throws(a) PROVE Backed'
  BY <1>11 DEF Throws, record, bucket, history, Resting
<1>12. CASE Age
  BY <1>12 DEF Age, bucket, history
<1>13. CASE FindStale
  BY <1>13 DEF FindStale, record, bucket, history
<1>14. ASSUME NEW h \in Handlers, Process(h) PROVE Backed'
  BY <1>14 DEF Process, record, bucket, history
<1>15. ASSUME NEW h \in Handlers, Mark(h) PROVE Backed'
  BY <1>15 DEF Mark, bucket, history
<1>16. ASSUME NEW h \in Handlers, MarkThrows(h) PROVE Backed'
  BY <1>16 DEF MarkThrows, record, bucket
<1>17. CASE Crash
  BY <1>17 DEF Crash, record, bucket, Resting
<1>18. CASE UNCHANGED vars
  BY <1>18 DEF vars, record, bucket, history
<1> QED
  BY <1>1, <1>2, <1>3, <1>4, <1>5, <1>6, <1>7, <1>8, <1>9, <1>10, <1>11, <1>12,
     <1>13, <1>14, <1>15, <1>16, <1>17, <1>18 DEF Next, Handler, Rest

\* An object that is offered for download has its content, unless its owner's
\* deletion got as far as S3, for any number of overlapping requests.
THEOREM ReadyIsStored == Spec => []ReadyHasContent
<1>1. Init => Backed
  BY StorageAssumption DEF Init, Backed, Actors, Handlers
<1>2. Backed => ReadyHasContent
  BY DEF Backed, Stored, ReadyHasContent
<1> QED
  BY <1>1, <1>2, StepBacked, Typing, PTL DEF Spec

-----------------------------------------------------------------------------
(* What goes leaves nothing behind *)

\* S3 holds content only of a completed upload, or of none at all, and a row
\* that is about to be removed has had its upload aborted or its content
\* deleted.
Cleared ==
    /\ at[UPLOAD] = "idle" => upload = "none" /\ ~content
    /\ upload \in {"open", "aborted"} => ~content
    /\ \A a \in Actors : at[a] = "removing" => deleting \/ upload = "aborted"

\* Who is about to remove the row has cleared S3 before, and nothing refills it.
LEMMA StepCleared == TypeOK /\ Cleared /\ [Next]_vars => Cleared'
<1> USE StorageAssumption
<1> SUFFICES ASSUME TypeOK, Cleared, [Next]_vars PROVE Cleared'
  OBVIOUS
<1> USE DEF TypeOK, Cleared, Exists, Goto, Handlers, Actors
<1>1. CASE InitMultipart
  BY <1>1 DEF InitMultipart, record, history
<1>2. CASE CreatePending
  BY <1>2 DEF CreatePending, bucket, history
<1>3. CASE StoreContent
  BY <1>3 DEF StoreContent, record, history
<1>4. CASE CreateProcessing
  BY <1>4 DEF CreateProcessing, bucket, history
<1>5. ASSUME NEW r \in Requests, Begin(r) PROVE Cleared'
  BY <1>5 DEF Begin, record, bucket, history
<1>6. ASSUME NEW r \in Requests, Complete(r) PROVE Cleared'
  BY <1>6 DEF Complete, record, history
<1>7. ASSUME NEW r \in Requests, SetProcessing(r) PROVE Cleared'
  BY <1>7 DEF SetProcessing, bucket, history
<1>8. ASSUME NEW r \in Requests, DeleteContent(r) PROVE Cleared'
  BY <1>8 DEF DeleteContent, record
<1>9. ASSUME NEW a \in Actors, Abort(a) PROVE Cleared'
  BY <1>9 DEF Abort, record, history
<1>10. ASSUME NEW a \in Actors, RemoveRow(a) PROVE Cleared'
  BY <1>10 DEF RemoveRow, bucket, history, Resting
<1>11. ASSUME NEW a \in Actors, Throws(a) PROVE Cleared'
  BY <1>11 DEF Throws, record, bucket, history, Resting
<1>12. CASE Age
  BY <1>12 DEF Age, bucket, history
<1>13. CASE FindStale
  BY <1>13 DEF FindStale, record, bucket, history
<1>14. ASSUME NEW h \in Handlers, Handler(h) PROVE Cleared'
  BY <1>14 DEF Handler, Process, Mark, MarkThrows, record, bucket, history
<1>15. CASE Crash
  BY <1>15 DEF Crash, record, bucket, Resting
<1>16. CASE UNCHANGED vars
  BY <1>16 DEF vars, record, bucket, history
<1> QED
  BY <1>1, <1>2, <1>3, <1>4, <1>5, <1>6, <1>7, <1>8, <1>9, <1>10, <1>11, <1>12,
     <1>13, <1>14, <1>15, <1>16 DEF Next, Rest

\* Only RemoveRow takes the row away, and it finds S3 cleared.
LEMMA RemovalIsClean ==
    ASSUME TypeOK, Cleared, [Next]_vars, Exists, row' = "gone"
    PROVE  deleting \/ (~content /\ upload # "open")
<1> USE StorageAssumption DEF TypeOK, Cleared, Exists, Actors
<1>1. ASSUME NEW a \in Actors, RemoveRow(a)
      PROVE  deleting \/ (~content /\ upload # "open")
  BY <1>1 DEF RemoveRow
<1>2. ASSUME NEW h \in Handlers, Mark(h) PROVE FALSE
  BY <1>2 DEF Mark, Handlers
<1>3. CASE CreatePending \/ CreateProcessing \/ \E r \in Requests : SetProcessing(r)
  BY <1>3 DEF CreatePending, CreateProcessing, SetProcessing
<1>4. CASE row' = row
  BY <1>4
<1> QED
  BY <1>1, <1>2, <1>3, <1>4
  DEF Next, Rest, vars, record, InitMultipart, StoreContent, Begin, Complete,
      DeleteContent, Abort, Throws, Age, FindStale, Handler, Process, MarkThrows,
      Crash

\* Where a row goes, S3 keeps neither an open upload nor content, except after
\* the owner's deletion.
THEOREM RemovalLeavesNothing == Spec => NothingLeftBehind
<1>1. Init => Cleared
  BY StorageAssumption DEF Init, Cleared, Actors
<1>2. TypeOK /\ Cleared /\ [Next]_vars
      => [(Exists /\ row' = "gone") => deleting \/ (~content /\ upload # "open")]_vars
  BY RemovalIsClean
<1> QED
  BY <1>1, <1>2, StepCleared, Typing, PTL DEF Spec, NothingLeftBehind

-----------------------------------------------------------------------------
(* Who processes is there to mark the row *)

LEMMA StepAttended ==
    TypeOK /\ ProcessingIsAttended /\ [Next]_vars => ProcessingIsAttended'
<1> SUFFICES ASSUME TypeOK, ProcessingIsAttended, [Next]_vars
             PROVE  ProcessingIsAttended'
  OBVIOUS
<1> USE DEF ProcessingIsAttended, TypeOK, Handlers
<1>1. CASE CreateProcessing \/ \E r \in Requests : SetProcessing(r)
  BY <1>1 DEF CreateProcessing, SetProcessing
<1>2. ASSUME NEW h \in Handlers, Handler(h) PROVE ProcessingIsAttended'
  BY <1>2 DEF Handler, Process, Mark, MarkThrows, record, history
<1>3. CASE Crash
  BY <1>3 DEF Crash
<1>4. CASE CreatePending \/ \E a \in Actors : RemoveRow(a)
  BY <1>4 DEF CreatePending, RemoveRow
<1>5. CASE UNCHANGED <<row, process, stuck>>
  BY <1>5
<1> QED
  BY <1>1, <1>2, <1>3, <1>4, <1>5
  DEF Next, Rest, vars, record, history, InitMultipart, StoreContent, Begin, Complete,
      DeleteContent, Abort, Throws, Age, FindStale

\* A row that says processing has a handler that will mark it, however often
\* the upload is completed, aborted or deleted meanwhile.
THEOREM ProcessingHasItsHandler == Spec => []ProcessingIsAttended
<1>1. Init => ProcessingIsAttended
  BY DEF Init, ProcessingIsAttended
<1> QED
  BY <1>1, StepAttended, Typing, PTL DEF Spec
=============================================================================
