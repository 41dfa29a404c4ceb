--------------------------- MODULE FolderSync_proofs ---------------------------
(***************************************************************************)
(* Proofs about the folder sync, for any paths, sizes, times and edits.    *)
(*                                                                         *)
(* What a finished run has dealt with follows from what its two lists say  *)
(* of the paths that were neither touched nor missed (Listed).  That a     *)
(* synced row is current or detected follows from the order of three files *)
(* of its path: the one the scan saw, the one that was sent, and the one   *)
(* on disk (InOrder); contents are numbered, so the order is that of       *)
(* numbers.                                                                *)
(***************************************************************************)
EXTENDS FolderSync, TLAPS

LEMMA StatOfType ==
    ASSUME NEW file \in Files PROVE StatOf(file) \in Stats
BY DEF StatOf, Files, Stats

\* NULL is none of the things a map holds.
LEMMA NullApart ==
    NULL \notin Paths /\ NULL \notin Nat /\ NULL \notin Stats
    /\ NULL \notin Files /\ NULL \notin Rows /\ NULL \notin 1..MaxEdits
BY SyncAssumption

LEMMA InitTypes == Init => TypeOK
BY SyncAssumption DEF Init, TypeOK, Nothing

LEMMA StepTypes == TypeOK /\ [Next]_vars => TypeOK'
<1> SUFFICES ASSUME TypeOK, [Next]_vars PROVE TypeOK'
  OBVIOUS
<1> USE SyncAssumption, NullApart
<1>1. ASSUME NEW p \in Paths, Write(p) PROVE TypeOK'
  <2>1. edits + 1 \in 1..MaxEdits
    BY <1>1 DEF Write, TypeOK
  <2>2. PICK stat \in Stats :
          /\ disk' = [disk EXCEPT ![p] = [mtime |-> stat.mtime, size |-> stat.size,
                                          content |-> edits + 1]]
          /\ past' = [past EXCEPT ![p] = @ \cup
                        {[mtime |-> stat.mtime, size |-> stat.size,
                          content |-> edits + 1]}]
    BY <1>1 DEF Write
  <2>3. [mtime |-> stat.mtime, size |-> stat.size, content |-> edits + 1] \in Files
    BY <2>1 DEF Files, Stats
  <2> QED
    BY <1>1, <2>1, <2>2, <2>3 DEF Write, TypeOK, run, Active
<1>2. ASSUME NEW p \in Paths, Remove(p) PROVE TypeOK'
  BY <1>2 DEF Remove, TypeOK, run, Active
<1>3. ASSUME NEW p \in Paths, MarkDeleted(p) PROVE TypeOK'
  <2>1. row[p] \in Rows
    BY <1>3 DEF MarkDeleted, TypeOK, Active
  <2>2. [row[p] EXCEPT !.status = "deleted"] \in Rows
    BY <2>1 DEF Rows
  <2>3. current = NULL
    BY <1>3 DEF MarkDeleted, TypeOK
  <2> QED
    BY <1>3, <2>2, <2>3 DEF MarkDeleted, TypeOK, folder, history, Active
<1>4. ASSUME NEW p \in Paths, Upsert(p) PROVE TypeOK'
  <2> DEFINE new == [mtime |-> toUpload[p].mtime, size |-> toUpload[p].size,
                     object |-> IF row[p] = NULL THEN NULL ELSE row[p].object,
                     status |-> "pending"]
  <2>1. toUpload[p] \in Stats
    BY <1>4 DEF Upsert, TypeOK
  <2>2. new \in Rows
    BY <2>1 DEF Rows, Stats, TypeOK
  <2>3. row' = [row EXCEPT ![p] = new]
    BY <1>4 DEF Upsert
  <2> HIDE DEF new
  <2>4. new.status = "pending" /\ new # NULL
    BY <2>2 DEF new
  <2> QED
    BY <1>4, <2>2, <2>3, <2>4 DEF Upsert, TypeOK, folder, history, Active
<1>5. CASE Start
  <2>1. ASSUME NEW p \in Paths, disk[p] # NULL PROVE StatOf(disk[p]) \in Stats
    BY <2>1, StatOfType DEF TypeOK
  <2>2. toUpload' \in [Paths -> Stats \cup {NULL}]
    BY <1>5, <2>1 DEF Start, IsNew, IsChanged
  <2> QED
    BY <1>5, <2>2 DEF Start, TypeOK, folder, Active
<1>6. CASE Read
  <2>1. current \in Paths
    BY <1>6 DEF Read, TypeOK
  <2>2. disk[current].content \in 1..MaxEdits
    BY <1>6, <2>1 DEF Read, TypeOK, Files
  <2> QED
    BY <1>6, <2>1, <2>2 DEF Read, TypeOK, folder, history, Active
<1>7. CASE MarkSynced
  <2>1. current \in Paths /\ row[current] \in Rows /\ sending \in 1..MaxEdits
    BY <1>7 DEF MarkSynced, TypeOK
  <2>2. [row[current] EXCEPT !.object = sending, !.status = "synced"] \in Rows
    BY <2>1 DEF Rows
  <2>3. row' = [row EXCEPT ![current] =
                  [row[current] EXCEPT !.object = sending, !.status = "synced"]]
    BY <1>7, <2>1 DEF MarkSynced, TypeOK
  <2> QED
    BY <1>7, <2>1, <2>2, <2>3 DEF MarkSynced, NextChange, TypeOK, folder, history, Active, Rows
<1>8. CASE MarkError
  <2>1. current \in Paths /\ row[current] \in Rows
    BY <1>8 DEF MarkError, TypeOK
  <2>2. [row[current] EXCEPT !.status = "error"] \in Rows
    BY <2>1 DEF Rows
  <2> QED
    BY <1>8, <2>1, <2>2 DEF MarkError, NextChange, TypeOK, folder, history, Active, Rows
<1>9. CASE Finish
  BY <1>9 DEF Finish, TypeOK, folder, Active
<1>10. CASE Interrupt
  BY <1>10 DEF Interrupt, TypeOK, folder, Active, Nothing
<1>11. CASE Reset
  <2>1. current = NULL /\ toDelete \subseteq {}
    BY <1>11 DEF Reset, TypeOK
  <2> QED
    BY <1>11, <2>1 DEF Reset, TypeOK, folder, run, history, Active, Nothing
<1>12. CASE UNCHANGED vars
  BY <1>12 DEF vars, folder, run, history, TypeOK, Active
<1>13. ASSUME NEW p \in Paths, UpsertFails(p) PROVE TypeOK'
  <2>1. row[p] # NULL
        => [row[p] EXCEPT !.status = "error"] \in Rows
    BY DEF TypeOK, Rows
  <2>2. row' \in [Paths -> Rows \cup {NULL}]
    BY <1>13, <2>1 DEF UpsertFails, TypeOK
  <2>3. \A q \in Paths : Active(q) => Active(q)'
    BY <1>13, <2>1 DEF UpsertFails, TypeOK, Active, Rows
  <2>4. current = NULL
    BY <1>13 DEF UpsertFails, TypeOK
  <2> QED
    BY <1>13, <2>2, <2>3, <2>4 DEF UpsertFails, TypeOK, folder
<1> QED
  BY <1>1, <1>2, <1>3, <1>4, <1>5, <1>6, <1>7, <1>8, <1>9, <1>10, <1>11, <1>12,
     <1>13
  DEF Next

\* sync-engine.ts: every variable and every row keeps its type, and a file is
\* uploaded under a row that says pending.
THEOREM Typing == Spec => []TypeOK
BY InitTypes, StepTypes, PTL DEF Spec

-----------------------------------------------------------------------------
(* The lists of a run and the paths nobody touched *)

\* As long as a path is not touched, and unless the run missed it: if it is
\* listed for upload its file is the one the scan saw, if it is listed as
\* deleted it has none, and if a scan would list it again it is still on one of
\* the lists.
Listed ==
    \A p \in Paths \ (touched \cup missed) :
        /\ toUpload[p] # NULL
           => disk[p] # NULL /\ disk[p].mtime = toUpload[p].mtime
                            /\ disk[p].size = toUpload[p].size
        /\ p \in toDelete => disk[p] = NULL
        /\ at # "idle" /\ Detected(p) => toUpload[p] # NULL \/ p \in toDelete

LEMMA InitListed == Init => Listed
BY DEF Init, Listed, Nothing

\* A path is detected by what is on disk and by its row alone.
LEMMA SameDetected ==
    ASSUME NEW p \in Paths, disk'[p] = disk[p], row'[p] = row[p]
    PROVE  Detected(p)' = Detected(p)
BY DEF Detected, IsNew, IsChanged, IsDeleted, Active, IsModified

\* A file whose row has its own time and size is not detected.
LEMMA MatchingRow ==
    ASSUME TypeOK, NEW p \in Paths, disk[p] # NULL, Active(p),
           disk[p].mtime = row[p].mtime, disk[p].size = row[p].size
    PROVE  ~Detected(p)
<1>1. disk[p].mtime \in Int
  BY SyncAssumption DEF TypeOK, Files
<1> QED
  BY <1>1 DEF Detected, IsNew, IsChanged, IsDeleted, IsModified, Active

LEMMA StepListed == TypeOK /\ TypeOK' /\ Listed /\ [Next]_vars => Listed'
<1> SUFFICES ASSUME TypeOK, TypeOK', Listed, [Next]_vars PROVE Listed'
  OBVIOUS
<1>1. ASSUME NEW p \in Paths, Write(p) PROVE Listed'
  <2> SUFFICES ASSUME NEW q \in Paths, q \notin touched, q # p,
                      touched' = touched \cup {p}, missed' = missed
               PROVE  /\ disk'[q] = disk[q] /\ row'[q] = row[q]
                      /\ toUpload' = toUpload /\ toDelete' = toDelete /\ at' = at
    BY <1>1, SameDetected DEF Write, Listed
  <2> QED
    BY <1>1 DEF Write, TypeOK, run
<1>2. ASSUME NEW p \in Paths, Remove(p) PROVE Listed'
  <2> SUFFICES ASSUME NEW q \in Paths, q \notin touched, q # p,
                      touched' = touched \cup {p}, missed' = missed
               PROVE  /\ disk'[q] = disk[q] /\ row'[q] = row[q]
                      /\ toUpload' = toUpload /\ toDelete' = toDelete /\ at' = at
    BY <1>2, SameDetected DEF Remove, Listed
  <2> QED
    BY <1>2 DEF Remove, TypeOK, run
<1>3. ASSUME NEW p \in Paths, MarkDeleted(p) PROVE Listed'
  <2>1. /\ disk' = disk /\ at' = at /\ toUpload' = toUpload /\ touched' = touched
        /\ toDelete' = toDelete \ {p} /\ at # "idle" /\ missed' = missed
    BY <1>3 DEF MarkDeleted, folder, history
  <2>2. p \notin touched \cup missed => ~Detected(p)'
    <3>1. p \notin touched \cup missed => disk'[p] = NULL
      BY <1>3, <2>1 DEF MarkDeleted, Listed
    <3>2. ~Active(p)'
      BY <1>3 DEF MarkDeleted, TypeOK, Active, Rows
    <3> QED
      BY <3>1, <3>2 DEF Detected, IsNew, IsChanged, IsDeleted
  <2>3. ASSUME NEW q \in Paths, q # p PROVE Detected(q)' = Detected(q)
    <3>1. row'[q] = row[q]
      BY <1>3, <2>3 DEF MarkDeleted, TypeOK
    <3> QED
      BY <3>1, <2>1, SameDetected
  <2> QED
    BY <2>1, <2>2, <2>3 DEF Listed
<1>4. ASSUME NEW p \in Paths, Upsert(p) PROVE Listed'
  <2>1. /\ disk' = disk /\ at # "idle" /\ toUpload' = [toUpload EXCEPT ![p] = NULL]
        /\ touched' = touched /\ missed' = missed /\ toDelete' = toDelete
    BY <1>4 DEF Upsert, folder, history
  <2>2. p \notin touched \cup missed => ~Detected(p)'
    <3> SUFFICES ASSUME p \notin touched \cup missed PROVE ~Detected(p)'
      OBVIOUS
    <3>1. /\ disk'[p] # NULL /\ disk'[p].mtime = toUpload[p].mtime
          /\ disk'[p].size = toUpload[p].size
      BY <1>4, <2>1 DEF Upsert, Listed
    <3>2. /\ row'[p].mtime = toUpload[p].mtime /\ row'[p].size = toUpload[p].size
          /\ row'[p].status = "pending"
      BY <1>4 DEF Upsert, TypeOK
    <3>3. current' = p /\ p # NULL
      BY <1>4, NullApart DEF Upsert
    <3>4. row'[p] # NULL
      BY <3>3 DEF TypeOK
    <3>5. disk'[p].mtime \in Int
      BY <3>1, SyncAssumption DEF TypeOK, Files
    <3> QED
      BY <3>1, <3>2, <3>4, <3>5
      DEF Detected, IsNew, IsChanged, IsDeleted, IsModified, Active
  <2>3. ASSUME NEW q \in Paths, q # p PROVE Detected(q)' = Detected(q)
    <3>1. row'[q] = row[q]
      BY <1>4, <2>3 DEF Upsert, TypeOK
    <3> QED
      BY <3>1, <2>1, SameDetected
  <2>4. \A q \in Paths : q # p => toUpload'[q] = toUpload[q]
    BY <2>1 DEF TypeOK
  <2>5. toUpload'[p] = NULL
    BY <2>1 DEF TypeOK
  <2> QED
    BY <1>4, <2>1, <2>2, <2>3, <2>4, <2>5 DEF Listed
<1>5. CASE Start
  <2>1. disk' = disk /\ row' = row /\ touched' = {}
    BY <1>5 DEF Start, folder
  <2>2. PICK unread \in SUBSET Paths :
          /\ toUpload' = [p \in Paths |->
                            IF p \notin unread /\ (IsNew(p) \/ IsChanged(p))
                            THEN StatOf(disk[p]) ELSE NULL]
          /\ toDelete' = {p \in Paths : Active(p) /\ (disk[p] = NULL \/ p \in unread)}
          /\ missed' = unread
    BY <1>5 DEF Start
  <2>3. ASSUME NEW p \in Paths, IsNew(p) \/ IsChanged(p)
        PROVE  disk[p] \in Files /\ StatOf(disk[p]) # NULL
    BY <2>3, StatOfType, NullApart DEF IsNew, IsChanged, TypeOK
  <2> SUFFICES ASSUME NEW p \in Paths, p \notin unread
               PROVE  /\ toUpload'[p] # NULL
                         => disk'[p] # NULL /\ disk'[p].mtime = toUpload'[p].mtime
                                           /\ disk'[p].size = toUpload'[p].size
                      /\ p \in toDelete' => disk'[p] = NULL
                      /\ Detected(p)' => toUpload'[p] # NULL \/ p \in toDelete'
    BY <2>1, <2>2 DEF Listed
  <2>4. Detected(p)' = Detected(p)
    BY <2>1, SameDetected
  <2>5. toUpload'[p] # NULL <=> IsNew(p) \/ IsChanged(p)
    BY <2>2, <2>3
  <2>6. IsNew(p) \/ IsChanged(p)
        => disk'[p] # NULL /\ disk'[p].mtime = toUpload'[p].mtime
                          /\ disk'[p].size = toUpload'[p].size
    <3> SUFFICES ASSUME IsNew(p) \/ IsChanged(p)
                 PROVE  /\ disk[p] # NULL
                        /\ toUpload'[p] = [mtime |-> disk[p].mtime, size |-> disk[p].size]
      BY <2>1
    <3>1. disk[p] # NULL
      BY DEF IsNew, IsChanged
    <3> QED
      BY <2>2, <3>1 DEF StatOf
  <2>7. p \in toDelete' => disk'[p] = NULL
    BY <2>1, <2>2
  <2>8. Detected(p)' => toUpload'[p] # NULL \/ p \in toDelete'
    BY <2>2, <2>4, <2>5 DEF Detected, IsDeleted
  <2> QED
    BY <2>5, <2>6, <2>7, <2>8
<1>6. CASE Read
  BY <1>6, SameDetected DEF Read, Listed, folder, history
<1>7. ASSUME MarkSynced \/ MarkError PROVE Listed'
  <2>1. /\ disk' = disk /\ toUpload' = toUpload /\ toDelete' = toDelete
        /\ touched' = touched /\ missed' = missed /\ at # "idle"
    BY <1>7 DEF MarkSynced, MarkError, NextChange, folder, history
  <2>2. current \in Paths /\ row[current] \in Rows /\ row[current].status = "pending"
    BY <1>7 DEF MarkSynced, MarkError, TypeOK
  <2>3. ASSUME NEW p \in Paths PROVE Detected(p)' = Detected(p)
    <3>1. CASE p # current
      <4>1. row'[p] = row[p]
        BY <1>7, <2>2, <3>1 DEF MarkSynced, MarkError, TypeOK
      <4> QED
        BY <4>1, <2>1, SameDetected
    <3>2. CASE p = current
      <4>1. /\ row'[p].mtime = row[p].mtime /\ row'[p].size = row[p].size
            /\ row'[p].status \in {"synced", "error"} /\ row'[p] \in Rows
        BY <1>7, <2>2, <3>2 DEF MarkSynced, MarkError, TypeOK, Rows
      <4>2. row'[p] # NULL /\ row[p] # NULL
        BY <4>1, <2>2, <3>2, NullApart
      <4> QED
        BY <4>1, <4>2, <2>1, <2>2, <3>2
        DEF Detected, IsNew, IsChanged, IsDeleted, Active, IsModified
    <3> QED
      BY <3>1, <3>2
  <2> QED
    BY <2>1, <2>3 DEF Listed
<1>8. CASE Finish
  BY <1>8 DEF Finish, Listed, Nothing
<1>9. CASE Interrupt
  BY <1>9 DEF Interrupt, Listed, folder, Nothing
<1>10. CASE Reset
  BY <1>10 DEF Reset, Listed, folder, run, history
<1>11. ASSUME NEW p \in Paths, UpsertFails(p) PROVE Listed'
  <2>1. /\ disk' = disk /\ at' = at /\ toUpload' = [toUpload EXCEPT ![p] = NULL]
        /\ toDelete' = toDelete /\ touched' = touched /\ missed' = missed \cup {p}
    BY <1>11 DEF UpsertFails, folder
  <2>2. ASSUME NEW q \in Paths, q # p
        PROVE  toUpload'[q] = toUpload[q] /\ Detected(q)' = Detected(q)
    <3>1. row'[q] = row[q] /\ toUpload'[q] = toUpload[q]
      BY <1>11, <2>2 DEF UpsertFails, TypeOK
    <3> QED
      BY <3>1, <2>1, SameDetected
  <2> QED
    BY <2>1, <2>2 DEF Listed
<1>12. CASE UNCHANGED vars
  BY <1>12, SameDetected DEF vars, folder, run, history, Listed
<1> QED
  BY <1>1, <1>2, <1>3, <1>4, <1>5, <1>6, <1>7, <1>8, <1>9, <1>10, <1>11, <1>12
  DEF Next

\* sync-engine.ts runSync: when a run ends, a scan would list nothing but paths
\* touched since its own, skipped by it, or whose row could not be written,
\* whatever else failed on the way.
THEOREM RunsCatchUp == Spec => RunCatchesUp
<1>1. Listed /\ [Next]_vars
      => [Finish => \A p \in Paths : Detected(p) => p \in touched \cup missed]_vars
  BY DEF Listed, Finish, Nothing
<1> QED
  BY <1>1, InitTypes, StepTypes, InitListed, StepListed, PTL DEF Spec, RunCatchesUp

-----------------------------------------------------------------------------
(* The order of the files of a path *)

\* What is on disk is the newest the path had, and contents are numbered up to
\* edits.
Newest ==
    \A p \in Paths :
        /\ \A f \in past[p] : f.content <= edits
        /\ disk[p] # NULL => /\ disk[p] \in past[p]
                             /\ \A f \in past[p] : f.content <= disk[p].content

\* A content that was read comes from a file not older than the one f that the
\* scan saw, and not newer than the one on disk.
Between(p, f, content) ==
    /\ f.content <= content
    /\ content <= edits
    /\ disk[p] # NULL => content <= disk[p].content

\* A scanned file stays the source of a row's time and size: on the list, while
\* it is uploaded, and once it is synced.
InOrder ==
    \A p \in Paths :
        /\ toUpload[p] # NULL => \E f \in past[p] : StatOf(f) = toUpload[p]
        /\ current = p
           => \E f \in past[p] : /\ f.mtime = row[p].mtime /\ f.size = row[p].size
                                 /\ sending # NULL => Between(p, f, sending)
        /\ row[p] # NULL /\ row[p].status = "synced"
           => \E f \in past[p] : /\ f.mtime = row[p].mtime /\ f.size = row[p].size
                                 /\ row[p].object # NULL
                                 /\ Between(p, f, row[p].object)

LEMMA InitOrder == Init => Newest /\ InOrder
BY NullApart DEF Init, Newest, InOrder, Nothing

LEMMA StepNewest == TypeOK /\ Newest /\ [Next]_vars => Newest'
<1> SUFFICES ASSUME TypeOK, Newest, [Next]_vars PROVE Newest'
  OBVIOUS
<1>1. ASSUME NEW p \in Paths, Write(p) PROVE Newest'
  <2>1. PICK file \in Files :
          /\ file.content = edits + 1 /\ file # NULL
          /\ disk' = [disk EXCEPT ![p] = file]
          /\ past' = [past EXCEPT ![p] = @ \cup {file}]
    <3>1. edits + 1 \in 1..MaxEdits
      BY <1>1, SyncAssumption DEF Write, TypeOK
    <3>2. ASSUME NEW stat \in Stats
          PROVE  [mtime |-> stat.mtime, size |-> stat.size, content |-> edits + 1] \in Files
      BY <3>1 DEF Files, Stats
    <3> QED
      BY <1>1, <3>2, NullApart DEF Write
  <2>2. edits' = edits + 1 /\ edits \in Nat
    BY <1>1, SyncAssumption DEF Write, TypeOK
  <2>3. \A q \in Paths : \A f \in past[q] : f.content \in Nat
    BY SyncAssumption DEF TypeOK, Files
  <2>4. past'[p] = past[p] \cup {file} /\ disk'[p] = file
    BY <2>1 DEF TypeOK
  <2>5. \A q \in Paths : q # p => past'[q] = past[q] /\ disk'[q] = disk[q]
    BY <2>1 DEF TypeOK
  <2>6. ASSUME NEW q \in Paths, q # p
        PROVE  /\ \A f \in past'[q] : f.content <= edits'
               /\ disk'[q] # NULL => /\ disk'[q] \in past'[q]
                                     /\ \A f \in past'[q] : f.content <= disk'[q].content
    BY <2>2, <2>3, <2>5, <2>6 DEF Newest
  <2>7. /\ \A f \in past'[p] : f.content <= edits'
        /\ disk'[p] \in past'[p] /\ \A f \in past'[p] : f.content <= disk'[p].content
    BY <2>1, <2>2, <2>3, <2>4 DEF Newest
  <2> QED
    BY <2>6, <2>7 DEF Newest
<1>2. ASSUME NEW p \in Paths, Remove(p) PROVE Newest'
  BY <1>2 DEF Remove, Newest, TypeOK
<1>3. ASSUME UNCHANGED <<folder, past>> PROVE Newest'
  BY <1>3 DEF Newest, folder
<1> QED
  BY <1>1, <1>2, <1>3
  DEF Next, MarkDeleted, Upsert, UpsertFails, Start, Read, MarkSynced, MarkError,
      Finish, Interrupt, Reset, vars, history

\* Writing or removing a file takes nothing from the order.
LEMMA StaysBetween ==
    ASSUME TypeOK, TypeOK', NEW p \in Paths, NEW q \in Paths, Write(q) \/ Remove(q),
           NEW f, NEW c \in 1..MaxEdits, Between(p, f, c)
    PROVE  Between(p, f, c)'
<1>1. edits \in Nat /\ edits' \in Nat /\ edits <= edits' /\ c \in Nat /\ c <= edits
  BY SyncAssumption DEF TypeOK, Write, Remove, Between
<1>2. CASE p = q /\ Write(q)
  <2>1. disk'[p].content = edits + 1
    BY <1>2 DEF Write, TypeOK
  <2> QED
    BY <1>1, <2>1 DEF Between
<1>3. CASE p = q /\ Remove(q)
  <2>1. disk'[p] = NULL
    BY <1>3 DEF Remove, TypeOK
  <2> QED
    BY <1>1, <2>1 DEF Between
<1>4. CASE p # q
  <2>1. disk'[p] = disk[p]
    BY <1>4 DEF Write, Remove, TypeOK
  <2> QED
    BY <1>1, <2>1 DEF Between
<1> QED
  BY <1>2, <1>3, <1>4

LEMMA StepOrder ==
    TypeOK /\ TypeOK' /\ Newest /\ InOrder /\ [Next]_vars => InOrder'
<1> SUFFICES ASSUME TypeOK, TypeOK', Newest, InOrder, [Next]_vars PROVE InOrder'
  OBVIOUS
<1>1. ASSUME NEW q \in Paths, Write(q) \/ Remove(q) PROVE InOrder'
  <2>1. /\ toUpload' = toUpload /\ current' = current /\ sending' = sending /\ row' = row
    BY <1>1 DEF Write, Remove, run
  <2>2. \A r \in Paths : past[r] \subseteq past'[r]
    BY <1>1 DEF Write, Remove, TypeOK
  <2>3. ASSUME NEW r \in Paths, NEW f \in past[r], NEW c \in 1..MaxEdits, Between(r, f, c)
        PROVE  Between(r, f, c)'
    BY <1>1, <2>3, StaysBetween
  <2>4. sending # NULL => sending \in 1..MaxEdits
    BY DEF TypeOK
  <2>5. \A r \in Paths : row[r] # NULL /\ row[r].object # NULL => row[r].object \in 1..MaxEdits
    BY DEF TypeOK, Rows
  <2> QED
    BY <2>1, <2>2, <2>3, <2>4, <2>5 DEF InOrder, Between
<1>2. ASSUME NEW q \in Paths, MarkDeleted(q) PROVE InOrder'
  <2>1. /\ toUpload' = toUpload /\ current' = NULL /\ past' = past
        /\ disk' = disk /\ edits' = edits
    BY <1>2 DEF MarkDeleted, folder, history, TypeOK
  <2>2. row'[q].status = "deleted" /\ \A r \in Paths : r # q => row'[r] = row[r]
    BY <1>2 DEF MarkDeleted, TypeOK, Active, Rows
  <2> QED
    BY <2>1, <2>2, NullApart DEF InOrder, Between
<1>3. ASSUME NEW q \in Paths, Upsert(q) PROVE InOrder'
  <2>1. /\ current' = q /\ sending' = NULL /\ past' = past /\ disk' = disk /\ edits' = edits
        /\ toUpload[q] # NULL
    BY <1>3 DEF Upsert, folder, history, TypeOK
  <2>2. /\ row'[q].mtime = toUpload[q].mtime /\ row'[q].size = toUpload[q].size
        /\ row'[q].status = "pending"
    BY <1>3 DEF Upsert, TypeOK
  <2>3. \A r \in Paths : r # q => row'[r] = row[r] /\ toUpload'[r] = toUpload[r]
    BY <1>3 DEF Upsert, TypeOK
  <2>4. toUpload'[q] = NULL
    BY <1>3 DEF Upsert, TypeOK
  <2>5. PICK f \in past[q] : StatOf(f) = toUpload[q]
    BY <2>1 DEF InOrder
  <2>6. f.mtime = row'[q].mtime /\ f.size = row'[q].size
    BY <2>2, <2>5 DEF StatOf
  <2> QED
    BY <2>1, <2>2, <2>3, <2>4, <2>6 DEF InOrder, Between
<1>4. CASE Start
  <2>1. /\ current' = current /\ sending' = sending /\ past' = past /\ row' = row
        /\ disk' = disk /\ edits' = edits
    BY <1>4 DEF Start, folder
  <2>2. ASSUME NEW r \in Paths, toUpload'[r] # NULL
        PROVE  disk[r] \in past[r] /\ StatOf(disk[r]) = toUpload'[r]
    BY <1>4, <2>2 DEF Start, IsNew, IsChanged, Newest
  <2> QED
    BY <2>1, <2>2 DEF InOrder, Between
<1>5. CASE Read
  <2>1. /\ current' = current /\ past' = past /\ row' = row /\ disk' = disk
        /\ edits' = edits /\ toUpload' = toUpload /\ current \in Paths
        /\ disk[current] # NULL /\ sending' = disk[current].content
    BY <1>5 DEF Read, folder, history, TypeOK
  <2>2. PICK f \in past[current] : f.mtime = row[current].mtime /\ f.size = row[current].size
    BY <2>1 DEF InOrder
  <2>3. f.content <= disk[current].content /\ disk[current].content <= edits
    BY <2>1, <2>2 DEF Newest
  <2>4. disk[current].content \in Nat
    BY <2>1, SyncAssumption DEF TypeOK, Files
  <2>5. Between(current, f, sending)'
    BY <2>1, <2>3, <2>4 DEF Between
  <2> QED
    BY <2>1, <2>2, <2>5 DEF InOrder, Between
<1>6. CASE MarkSynced
  <2>1. /\ current' = NULL /\ past' = past /\ disk' = disk /\ edits' = edits
        /\ toUpload' = toUpload /\ current \in Paths /\ sending # NULL
        /\ row[current] \in Rows
    BY <1>6 DEF MarkSynced, NextChange, folder, history, TypeOK
  <2>2. /\ row'[current].mtime = row[current].mtime /\ row'[current].size = row[current].size
        /\ row'[current].object = sending
    BY <1>6, <2>1 DEF MarkSynced, TypeOK, Rows
  <2>3. \A r \in Paths : r # current => row'[r] = row[r]
    BY <1>6 DEF MarkSynced, TypeOK
  <2> QED
    BY <2>1, <2>2, <2>3, NullApart DEF InOrder, Between
<1>7. CASE MarkError
  <2>1. /\ current' = NULL /\ past' = past /\ disk' = disk /\ edits' = edits
        /\ toUpload' = toUpload /\ current \in Paths /\ row[current] \in Rows
    BY <1>7 DEF MarkError, NextChange, folder, history, TypeOK
  <2>2. row'[current].status = "error" /\ \A r \in Paths : r # current => row'[r] = row[r]
    BY <1>7, <2>1 DEF MarkError, TypeOK, Rows
  <2> QED
    BY <2>1, <2>2, NullApart DEF InOrder, Between
<1>8. CASE Finish
  BY <1>8 DEF Finish, InOrder, Between, folder
<1>9. CASE Interrupt
  BY <1>9, NullApart DEF Interrupt, InOrder, Between, folder, Nothing
<1>10. CASE Reset
  BY <1>10, NullApart DEF Reset, InOrder, Between, folder, run, history, Nothing, TypeOK
<1>11. CASE UNCHANGED vars
  BY <1>11 DEF vars, folder, run, history, InOrder, Between
<1>12. ASSUME NEW q \in Paths, UpsertFails(q) PROVE InOrder'
  <2>1. /\ current' = NULL /\ past' = past /\ disk' = disk /\ edits' = edits
        /\ toUpload' = [toUpload EXCEPT ![q] = NULL]
    BY <1>12 DEF UpsertFails, folder, TypeOK
  <2>2. row'[q] # NULL => row'[q].status = "error"
    BY <1>12 DEF UpsertFails, TypeOK, Rows
  <2>3. \A r \in Paths : r # q => row'[r] = row[r]
    BY <1>12 DEF UpsertFails, TypeOK
  <2> QED
    BY <2>1, <2>2, <2>3, NullApart DEF InOrder, Between, TypeOK
<1> QED
  BY <1>1, <1>2, <1>3, <1>4, <1>5, <1>6, <1>7, <1>8, <1>9, <1>10, <1>11, <1>12
  DEF Next

\* The scanned file and the one on disk look alike, so they are one file, and
\* what was sent lies between them.
LEMMA OrderImpliesCurrent == TypeOK /\ Newest /\ InOrder => SyncedIsCurrentOrDetected
<1> SUFFICES ASSUME TypeOK, Newest, InOrder, NEW p \in Paths,
                    row[p] # NULL, ~Ambiguous(p), row[p].status = "synced", ~Detected(p)
             PROVE  disk[p] # NULL /\ disk[p].content = row[p].object
  BY DEF SyncedIsCurrentOrDetected
<1>1. Active(p) /\ disk[p] # NULL /\ ~IsModified(disk[p], row[p])
  BY DEF Detected, IsNew, IsChanged, IsDeleted, Active
<1>2. PICK f \in past[p] : /\ f.mtime = row[p].mtime /\ f.size = row[p].size
                           /\ row[p].object # NULL /\ Between(p, f, row[p].object)
  BY DEF InOrder
<1>3. ~IsModified(disk[p], f)
  BY <1>1, <1>2 DEF IsModified
<1>4. disk[p] = f
  BY <1>1, <1>2, <1>3 DEF Ambiguous, Newest
<1>5. row[p].object \in Nat /\ disk[p].content \in Nat
  BY <1>1, <1>2, SyncAssumption DEF TypeOK, Rows, Files
<1> QED
  BY <1>1, <1>2, <1>4, <1>5 DEF Between

\* sync-engine.ts: a row that calls a file synced is never wrong unnoticed,
\* whatever edits, failures and stops interleave with the upload, as long as the
\* comparison can tell the path's files apart.
THEOREM SyncedIsSound == Spec => []SyncedIsCurrentOrDetected
BY InitTypes, StepTypes, InitOrder, StepNewest, StepOrder, OrderImpliesCurrent, PTL
DEF Spec

=============================================================================
