------------------------- MODULE TableWorkers_proofs --------------------------
(***************************************************************************)
(* What holds of the limiter for every number of tables and every value of *)
(* SEMANTIC_MODEL_CONCURRENCY: its counter is exact, the limit is kept, a  *)
(* free slot is never left idle, every step is one of TableSettlement or   *)
(* invisible to it, and the stage cannot stall.                            *)
(***************************************************************************)
EXTENDS TableWorkers, FiniteSetTheorems, SequenceTheorems, TLAPS

\* The tables that hold a slot when the workers stand at w.
HeldBy(w) == {t \in Tables : w[t] \in InTable \cup {"settled"}}

\* q may be the limiter's queue when the workers stand at w.
FitQueue(q, w) ==
    /\ q \in Seq(Tables)
    /\ \A i, j \in 1..Len(q) : q[i] = q[j] => i = j
    /\ \A i \in 1..Len(q) : w[q[i]] = "queued"

\* Before the tables are dispatched nothing has happened.
Prefetching ==
    /\ node = "prefetch" => queue = <<>> /\ active = 0
    /\ \A t \in Tables : node = "prefetch" <=> worker[t] = "new"

IInv ==
    /\ TypeOK
    /\ FitQueue(queue, worker)
    /\ SlotsExact
    /\ NoIdleSlot
    /\ Prefetching

-----------------------------------------------------------------------------
(* The limit, the slots and the loop of next() *)

\* Whatever the setting is, the limit is a positive number, 20 at most.
THEOREM ConcurrencyInRange == Concurrency \in 1..20
BY RawConcurrencyAssumption, NaNAssumption
   DEF Concurrency, Clamp, DefaultConcurrency

LEMMA TablesFinite == IsFiniteSet(Tables)
BY NumTablesAssumption, FS_Interval DEF Tables

LEMMA HeldFinite ==
    ASSUME NEW w
    PROVE  IsFiniteSet(HeldBy(w)) /\ Cardinality(HeldBy(w)) \in Nat
<1>1. HeldBy(w) \in SUBSET Tables
  BY DEF HeldBy
<1>2. IsFiniteSet(HeldBy(w))
  BY <1>1, TablesFinite, FS_Subset
<1> QED
  BY <1>2, FS_CardinalityType

\* The loop of next() takes what it can: it never exceeds the limit, and it
\* stops short of the queue's end only when every slot is taken.
LEMMA AdmittedFills ==
    ASSUME NEW q \in Seq(Tables), NEW a \in 0..Concurrency
    PROVE  /\ Admitted(q, a) \in 0..Len(q)
           /\ a + Admitted(q, a) \in 0..Concurrency
           /\ Admitted(q, a) < Len(q) => a + Admitted(q, a) = Concurrency
BY ConcurrencyInRange DEF Admitted

\* The first n elements of a queue without repetition are n tables.
LEMMA PrefixCounts ==
    ASSUME NEW q \in Seq(Tables), NEW n \in 0..Len(q),
           \A i, j \in 1..Len(q) : q[i] = q[j] => i = j
    PROVE  /\ IsFiniteSet({q[i] : i \in 1..n})
           /\ Cardinality({q[i] : i \in 1..n}) = n
<1> DEFINE begun == {q[i] : i \in 1..n}
           f == [i \in 1..n |-> q[i]]
<1>1. Len(q) \in Nat
  OBVIOUS
<1>2. f \in Bijection(1..n, begun)
  <2>1. f \in [1..n -> begun]
    OBVIOUS
  <2>2. \A i, j \in 1..n : f[i] = f[j] => i = j
    BY <1>1
  <2>3. \A t \in begun : \E i \in 1..n : f[i] = t
    OBVIOUS
  <2> QED
    BY <2>1, <2>2, <2>3 DEF Bijection, Injection, Surjection, IsInjective
<1>3. IsFiniteSet(1..n) /\ Cardinality(1..n) = n
  BY <1>1, FS_Interval
<1>4. ExistsBijection(1..n, begun)
  BY <1>2 DEF ExistsBijection
<1> HIDE DEF begun, f
<1>5. IsFiniteSet(begun) /\ Cardinality(begun) = n
  BY <1>3, <1>4, FS_Bijection
<1> QED
  BY <1>5 DEF begun

\* next() keeps the queue fit and the counter exact, and leaves no slot idle.
LEMMA DrainKeepsCount ==
    ASSUME NEW q, NEW a \in 0..Concurrency, NEW w \in [Tables -> WorkerStates],
           FitQueue(q, w), a = Cardinality(HeldBy(w)), Drain(q, a, w)
    PROVE  /\ FitQueue(queue', worker')
           /\ active' \in 0..Concurrency
           /\ worker' \in [Tables -> WorkerStates]
           /\ active' = Cardinality(HeldBy(worker'))
           /\ queue' # <<>> => active' = Concurrency
           /\ \A t \in Tables :
                worker'[t] = w[t]
                  \/ (w[t] = "queued" /\ worker'[t] = "discovering")
<1> DEFINE n == Admitted(q, a)
           begun == {q[i] : i \in 1..n}
<1>1. q \in Seq(Tables) /\ Len(q) \in Nat
  BY DEF FitQueue
<1>2. /\ n \in 0..Len(q)
      /\ a + n \in 0..Concurrency
      /\ n < Len(q) => a + n = Concurrency
  BY <1>1, AdmittedFills
<1>3. /\ queue' = SubSeq(q, n + 1, Len(q))
      /\ active' = a + n
      /\ worker' = [t \in Tables |->
                      IF t \in begun THEN "discovering" ELSE w[t]]
  BY DEF Drain
<1> HIDE DEF n
<1>4. \A t \in begun : t \in Tables /\ w[t] = "queued"
  BY <1>1, <1>2 DEF FitQueue
<1>5. IsFiniteSet(begun) /\ Cardinality(begun) = n
  BY <1>1, <1>2, PrefixCounts DEF FitQueue
<1>6. worker' \in [Tables -> WorkerStates]
  BY <1>3 DEF WorkerStates
<1>7. active' = Cardinality(HeldBy(worker'))
  <2>1. HeldBy(worker') = HeldBy(w) \cup begun
    BY <1>3, <1>4 DEF HeldBy, InTable
  <2>2. HeldBy(w) \cap begun = {}
    BY <1>4 DEF HeldBy, InTable
  <2>3. IsFiniteSet(HeldBy(w)) /\ Cardinality(HeldBy(w)) \in Nat
    BY HeldFinite
  <2> HIDE DEF begun
  <2>4. Cardinality(HeldBy(w) \cap begun) = 0
    BY <2>2, FS_EmptySet
  <2>5. Cardinality(HeldBy(w) \cup begun)
          = Cardinality(HeldBy(w)) + Cardinality(begun)
            - Cardinality(HeldBy(w) \cap begun)
    BY <1>5, <2>3, FS_Union
  <2>6. n \in Nat
    BY <1>1, <1>2
  <2>7. Cardinality(HeldBy(w) \cup begun) = a + n
    BY <1>5, <2>3, <2>4, <2>5, <2>6
  <2> QED
    BY <1>3, <2>1, <2>7
<1>8. /\ queue' \in Seq(Tables)
      /\ Len(queue') = Len(q) - n
      /\ \A i \in 1..Len(queue') : i + n \in 1..Len(q) /\ queue'[i] = q[i + n]
  BY <1>1, <1>2, <1>3
<1>9. queue' # <<>> => active' = Concurrency
  BY <1>1, <1>2, <1>3, <1>8
<1>10. FitQueue(queue', worker')
  <2>1. ASSUME NEW i \in 1..Len(queue'), NEW j \in 1..Len(queue'),
               queue'[i] = queue'[j]
        PROVE  i = j
    <3>1. i + n = j + n
      BY <1>8, <2>1 DEF FitQueue
    <3> QED
      BY <1>1, <1>2, <3>1
  <2>2. ASSUME NEW i \in 1..Len(queue')
        PROVE  worker'[queue'[i]] = "queued"
    <3>1. queue'[i] = q[i + n] /\ i + n \in 1..Len(q) /\ q[i + n] \in Tables
      BY <1>1, <1>8
    <3>2. \A k \in 1..n : q[i + n] # q[k]
      BY <1>1, <1>2, <1>8, <3>1 DEF FitQueue
    <3> QED
      BY <1>3, <3>1, <3>2 DEF FitQueue
  <2> QED
    BY <1>8, <2>1, <2>2 DEF FitQueue
<1> QED
  <2> HIDE DEF begun
  <2>1. ASSUME NEW t \in Tables
        PROVE  worker'[t] = w[t]
                  \/ (w[t] = "queued" /\ worker'[t] = "discovering")
    <3>1. CASE t \in begun
      BY <1>3, <1>4, <3>1
    <3>2. CASE t \notin begun
      BY <1>3, <3>2
    <3> QED
      BY <3>1, <3>2
  <2>2. active' \in 0..Concurrency
    BY <1>2, <1>3
  <2> QED
    BY <1>6, <1>7, <1>9, <1>10, <2>1, <2>2

-----------------------------------------------------------------------------
(* The inductive invariant *)

LEMMA InitIInv == Init => IInv
<1> SUFFICES ASSUME Init PROVE IInv
  OBVIOUS
<1>1. 0 \in 0..Concurrency
  BY ConcurrencyInRange
<1>2. TypeOK
  BY <1>1 DEF Init, TypeOK, WorkerStates, NoCount
<1>3. Holding = {}
  BY DEF Init, Holding, InTable
<1>4. SlotsExact
  BY <1>3, FS_EmptySet DEF Init, SlotsExact
<1>5. FitQueue(queue, worker)
  BY DEF Init, FitQueue
<1> QED
  BY <1>2, <1>4, <1>5 DEF Init, IInv, NoIdleSlot, Prefetching

\* A worker that is past the queue moves on, or stays among those past it,
\* without taking or freeing a slot.
LEMMA MoveKeepsLimiter ==
    ASSUME IInv, NEW t \in Tables, NEW where \in InTable \cup {"settled"},
           worker[t] \in InTable \cup {"settled"},
           worker' = [worker EXCEPT ![t] = where],
           UNCHANGED <<node, queue, active>>
    PROVE  /\ worker' \in [Tables -> WorkerStates]
           /\ FitQueue(queue', worker')
           /\ SlotsExact'
           /\ NoIdleSlot'
           /\ Prefetching'
<1>1. worker \in [Tables -> WorkerStates]
  BY DEF IInv, TypeOK
<1>2. worker' \in [Tables -> WorkerStates]
  BY <1>1 DEF WorkerStates, InTable
<1>3. FitQueue(queue', worker')
  BY <1>1 DEF IInv, FitQueue, InTable
<1>4. Holding' = Holding
  BY <1>1 DEF Holding
<1>5. SlotsExact'
  BY <1>4 DEF IInv, SlotsExact
<1>6. NoIdleSlot'
  BY DEF IInv, NoIdleSlot
<1>7. Prefetching'
  BY <1>1 DEF IInv, Prefetching, InTable
<1> QED
  BY <1>2, <1>3, <1>5, <1>6, <1>7

\* Dispatch: the limiter drains the queue of all tables.
LEMMA DispatchKeeps == IInv /\ Dispatch => IInv'
<1> SUFFICES ASSUME IInv, Dispatch PROVE IInv'
  OBVIOUS
<1> DEFINE q == [i \in Tables |-> i]
           w == [t \in Tables |-> "queued"]
<1>1. q \in Seq(Tables) /\ Len(q) = NumTables
  BY NumTablesAssumption DEF Tables
<1>2. FitQueue(q, w)
  BY <1>1 DEF FitQueue, Tables
<1>3. active = 0 /\ active \in 0..Concurrency
  BY ConcurrencyInRange DEF Dispatch, IInv, Prefetching
<1>4. HeldBy(w) = {}
  BY DEF HeldBy, InTable
<1>5. active = Cardinality(HeldBy(w))
  BY <1>3, <1>4, FS_EmptySet
<1>6. w \in [Tables -> WorkerStates]
  BY DEF WorkerStates
<1>7. Drain(q, active, w)
  BY DEF Dispatch
<1>8. \A t \in Tables : w[t] = "queued"
  OBVIOUS
<1> HIDE DEF q, w
<1>9. /\ FitQueue(queue', worker')
      /\ active' \in 0..Concurrency
      /\ worker' \in [Tables -> WorkerStates]
      /\ active' = Cardinality(HeldBy(worker'))
      /\ queue' # <<>> => active' = Concurrency
      /\ \A t \in Tables : worker'[t] \in {"queued", "discovering"}
  BY <1>2, <1>3, <1>5, <1>6, <1>7, <1>8, DrainKeepsCount
<1>10. TypeOK'
  BY <1>9 DEF Dispatch, IInv, TypeOK, FitQueue, results, progress
<1>11. SlotsExact' /\ NoIdleSlot'
  BY <1>9 DEF SlotsExact, NoIdleSlot, Holding, HeldBy
<1>12. Prefetching'
  BY <1>9 DEF Dispatch, Prefetching
<1> QED
  BY <1>9, <1>10, <1>11, <1>12 DEF IInv

\* Release: one slot is freed and offered to the queue at once.
LEMMA ReleaseKeeps ==
    ASSUME IInv, NEW t \in Tables, Release(t)
    PROVE  IInv'
<1> DEFINE w == [worker EXCEPT ![t] = "released"]
<1>1. /\ worker \in [Tables -> WorkerStates]
      /\ worker[t] = "settled"
      /\ active \in 0..Concurrency
      /\ active = Cardinality(HeldBy(worker))
  BY DEF IInv, TypeOK, Release, SlotsExact, Holding, HeldBy
<1>2. w \in [Tables -> WorkerStates]
  BY <1>1 DEF WorkerStates
<1>3. FitQueue(queue, w)
  BY <1>1 DEF IInv, FitQueue
<1>4. active - 1 = Cardinality(HeldBy(w))
  <2>1. HeldBy(w) = HeldBy(worker) \ {t} /\ t \in HeldBy(worker)
    BY <1>1 DEF HeldBy, InTable
  <2>2. IsFiniteSet(HeldBy(worker))
    BY HeldFinite
  <2> QED
    BY <1>1, <2>1, <2>2, FS_RemoveElement
<1>5. active - 1 \in 0..Concurrency
  <2>1. Cardinality(HeldBy(w)) \in Nat
    BY HeldFinite
  <2> QED
    BY <1>1, <1>4, <2>1, ConcurrencyInRange
<1>6. Drain(queue, active - 1, w) /\ UNCHANGED <<node, results, progress>>
  BY DEF Release
<1>7. \A u \in Tables : w[u] = IF u = t THEN "released" ELSE worker[u]
  BY <1>1
<1> HIDE DEF w
<1>8. /\ FitQueue(queue', worker')
      /\ active' \in 0..Concurrency
      /\ worker' \in [Tables -> WorkerStates]
      /\ active' = Cardinality(HeldBy(worker'))
      /\ queue' # <<>> => active' = Concurrency
      /\ \A u \in Tables :
                worker'[u] = w[u]
                  \/ (w[u] = "queued" /\ worker'[u] = "discovering")
  BY <1>2, <1>3, <1>4, <1>5, <1>6, DrainKeepsCount
<1>9. TypeOK'
  BY <1>6, <1>8 DEF IInv, TypeOK, FitQueue, results, progress
<1>10. SlotsExact' /\ NoIdleSlot'
  BY <1>8 DEF SlotsExact, NoIdleSlot, Holding, HeldBy
<1>11. Prefetching'
  <2>1. node # "prefetch" /\ node' = node
    BY <1>1, <1>6 DEF IInv, Prefetching
  <2>2. \A u \in Tables : worker'[u] # "new"
    BY <1>7, <1>8, <2>1 DEF IInv, Prefetching
  <2> QED
    BY <2>1, <2>2 DEF Prefetching
<1> QED
  BY <1>8, <1>9, <1>10, <1>11 DEF IInv

\* A worker's steps other than Release, and the stream handler's write.
LEMMA WorkKeeps ==
    ASSUME IInv, NEW t \in Tables, Work(t)
    PROVE  IInv'
<1>1. /\ worker \in [Tables -> WorkerStates]
      /\ datasets \in Seq(Tables)
      /\ failedTables \in Seq(Tables)
      /\ completedCount \in Nat
      /\ snapshot \in [Tables -> Nat \cup {NoCount}]
  BY DEF IInv, TypeOK
<1>2. CASE Discovered(t)
  <2>1. /\ worker' \in [Tables -> WorkerStates]
        /\ FitQueue(queue', worker') /\ SlotsExact' /\ NoIdleSlot' /\ Prefetching'
    BY <1>2, MoveKeepsLimiter DEF Discovered, InTable, limiter
  <2>2. TypeOK'
    BY <1>2, <2>1 DEF Discovered, IInv, TypeOK, limiter, results
  <2> QED
    BY <2>1, <2>2 DEF IInv
<1>3. CASE Generated(t) \/ Failed(t)
  <2>1. /\ worker' \in [Tables -> WorkerStates]
        /\ FitQueue(queue', worker') /\ SlotsExact' /\ NoIdleSlot' /\ Prefetching'
    BY <1>3, MoveKeepsLimiter
       DEF Generated, Failed, SaveProgress, InTable, limiter
  <2>2. datasets' \in Seq(Tables) /\ failedTables' \in Seq(Tables)
    <3>1. \A s \in Seq(Tables) : Append(s, t) \in Seq(Tables)
      OBVIOUS
    <3> QED
      BY <1>1, <1>3, <3>1 DEF Generated, Failed
  <2>3. completedCount' \in Nat /\ snapshot' \in [Tables -> Nat \cup {NoCount}]
    BY <1>1, <1>3 DEF Generated, Failed, SaveProgress
  <2>4. TypeOK'
    BY <1>3, <2>1, <2>2, <2>3
       DEF Generated, Failed, SaveProgress, IInv, TypeOK, limiter
  <2> QED
    BY <2>1, <2>4 DEF IInv
<1>4. CASE WriteLands(t) \/ WriteLost(t)
  <2>1. /\ worker' \in [Tables -> WorkerStates]
        /\ FitQueue(queue', worker') /\ SlotsExact' /\ NoIdleSlot' /\ Prefetching'
    BY <1>4, MoveKeepsLimiter DEF WriteLands, WriteLost, InTable, limiter
  <2>2. stored' \in Nat \cup {NoCount}
    BY <1>1, <1>4 DEF WriteLands, WriteLost, IInv, TypeOK, progress
  <2>3. TypeOK'
    BY <1>4, <2>1, <2>2
       DEF WriteLands, WriteLost, IInv, TypeOK, limiter, results, progress
  <2> QED
    BY <2>1, <2>3 DEF IInv
<1>5. CASE Settle(t)
  <2>1. /\ worker' \in [Tables -> WorkerStates]
        /\ FitQueue(queue', worker') /\ SlotsExact' /\ NoIdleSlot' /\ Prefetching'
    BY <1>5, MoveKeepsLimiter DEF Settle, InTable, limiter
  <2>2. TypeOK'
    BY <1>5, <2>1 DEF Settle, IInv, TypeOK, limiter, results, progress
  <2> QED
    BY <2>1, <2>2 DEF IInv
<1>6. CASE Release(t)
  BY <1>6, ReleaseKeeps
<1> QED
  BY <1>2, <1>3, <1>4, <1>5, <1>6 DEF Work

\* Whatever leaves limiter and workers alone keeps the limiter's invariant.
LEMMA FrameKeepsLimiter ==
    ASSUME IInv, UNCHANGED <<queue, active, worker>>,
           node' = node \/ (node # "prefetch" /\ node' # "prefetch")
    PROVE  FitQueue(queue', worker') /\ SlotsExact' /\ NoIdleSlot' /\ Prefetching'
<1>1. Holding' = Holding
  BY DEF Holding
<1> QED
  BY <1>1 DEF IInv, FitQueue, SlotsExact, NoIdleSlot, Prefetching

LEMMA StepIInv == IInv /\ [Next]_vars => IInv'
<1> SUFFICES ASSUME IInv, [Next]_vars PROVE IInv'
  OBVIOUS
<1>1. CASE Dispatch
  BY <1>1, DispatchKeeps
<1>2. CASE \E t \in Tables : Work(t)
  BY <1>2, WorkKeeps
<1>3. CASE StepWriteLands \/ StepWriteLost
  <2>1. FitQueue(queue', worker') /\ SlotsExact' /\ NoIdleSlot' /\ Prefetching'
    BY <1>3, FrameKeepsLimiter DEF StepWriteLands, StepWriteLost, limiter
  <2>2. TypeOK'
    BY <1>3 DEF StepWriteLands, StepWriteLost, IInv, TypeOK, limiter, results
  <2> QED
    BY <2>1, <2>2 DEF IInv
<1>4. CASE Return
  <2>1. FitQueue(queue', worker') /\ SlotsExact' /\ NoIdleSlot' /\ Prefetching'
    BY <1>4, FrameKeepsLimiter DEF Return, limiter
  <2>2. TypeOK'
    BY <1>4 DEF Return, IInv, TypeOK, limiter, results, progress
  <2> QED
    BY <2>1, <2>2 DEF IInv
<1>5. CASE UNCHANGED vars
  <2>1. FitQueue(queue', worker') /\ SlotsExact' /\ NoIdleSlot' /\ Prefetching'
    BY <1>5, FrameKeepsLimiter DEF vars, limiter
  <2>2. TypeOK'
    BY <1>5 DEF vars, IInv, TypeOK, limiter, results, progress
  <2> QED
    BY <2>1, <2>2 DEF IInv
<1> QED
  BY <1>1, <1>2, <1>3, <1>4, <1>5 DEF Next, Finished

LEMMA IInvAlways == Spec => []IInv
BY InitIInv, StepIInv, PTL DEF Spec

\* Every variable keeps its shape, for any number of tables and any setting.
THEOREM Typing == Spec => []TypeOK
<1>1. IInv => TypeOK
  BY DEF IInv
<1> QED
  BY <1>1, IInvAlways, PTL

\* No slot leaks and none is freed twice.
THEOREM SlotsAreExact == Spec => []SlotsExact
<1>1. IInv => SlotsExact
  BY DEF IInv
<1> QED
  BY <1>1, IInvAlways, PTL

\* Work never waits for a slot that is free.
THEOREM NoSlotIdles == Spec => []NoIdleSlot
<1>1. IInv => NoIdleSlot
  BY DEF IInv
<1> QED
  BY <1>1, IInvAlways, PTL

LEMMA HoldersWithinLimit == IInv => AtMostConcurrency
<1> SUFFICES ASSUME IInv PROVE AtMostConcurrency
  OBVIOUS
<1>1. IsFiniteSet(Holding) /\ Cardinality(Holding) \in Nat
  BY HeldFinite DEF Holding, HeldBy
<1>2. Running \in SUBSET Holding
  BY DEF Running, Holding
<1>3. IsFiniteSet(Running) /\ Cardinality(Running) <= Cardinality(Holding)
  BY <1>1, <1>2, FS_Subset
<1>4. Cardinality(Running) \in Nat
  BY <1>3, FS_CardinalityType
<1>5. Cardinality(Holding) <= Concurrency
  BY DEF IInv, TypeOK, SlotsExact
<1> QED
  BY <1>1, <1>3, <1>4, <1>5, ConcurrencyInRange DEF AtMostConcurrency

\* At most Concurrency tables are worked on at once.
THEOREM LimitIsKept == Spec => []AtMostConcurrency
BY HoldersWithinLimit, IInvAlways, PTL

-----------------------------------------------------------------------------
(* The stage implements what TableSettlement promises, liveness apart. *)

\* A table is among the results exactly when its worker has put it there.
Filed ==
    \A t \in Tables :
        worker[t] \in {"saving", "saved", "settled", "released"}
          <=> t \in Elements(datasets) \cup Elements(failedTables)

LEMMA AppendAddsOne ==
    ASSUME NEW s \in Seq(Tables), NEW t \in Tables
    PROVE  Elements(Append(s, t)) = Elements(s) \cup {t}
<1>1. /\ Len(s) \in Nat
      /\ Len(Append(s, t)) = Len(s) + 1
      /\ \A i \in 1..Len(s) : Append(s, t)[i] = s[i]
      /\ Append(s, t)[Len(s) + 1] = t
  OBVIOUS
<1>2. 1..(Len(s) + 1) = (1..Len(s)) \cup {Len(s) + 1}
  BY <1>1
<1> QED
  BY <1>1, <1>2 DEF Elements

LEMMA InitFiled == Init => Filed
BY DEF Init, Filed, Elements

\* next() only moves queued tables, none of which has an outcome.
LEMMA DrainMovesQueued ==
    ASSUME NEW q \in Seq(Tables), NEW a, NEW w \in [Tables -> WorkerStates],
           Admitted(q, a) \in 0..Len(q),
           \A i \in 1..Len(q) : w[q[i]] = "queued",
           Drain(q, a, w)
    PROVE  \A t \in Tables :
             worker'[t] = w[t]
               \/ (w[t] = "queued" /\ worker'[t] = "discovering")
<1>1. \A i \in 1..Admitted(q, a) : i \in 1..Len(q)
  OBVIOUS
<1> QED
  BY <1>1 DEF Drain

\* What each step does to where the workers stand.
LEMMA Moves ==
    ASSUME IInv, Next
    PROVE  \/ /\ \E t \in Tables :
                   /\ worker[t] \in {"discovering", "generating"}
                   /\ worker' = [worker EXCEPT ![t] = "saving"]
                   /\ \/ /\ datasets' = Append(datasets, t)
                         /\ UNCHANGED failedTables
                      \/ /\ failedTables' = Append(failedTables, t)
                         /\ UNCHANGED datasets
              /\ UNCHANGED node
           \/ /\ \E t \in Tables :
                   /\ worker[t] = "saved"
                   /\ worker' = [worker EXCEPT ![t] = "settled"]
              /\ UNCHANGED <<node, datasets, failedTables>>
           \/ /\ \A t \in Tables :
                   \/ worker'[t] = worker[t]
                   \/ worker[t] \in {"new", "queued"}
                      /\ worker'[t] \in {"queued", "discovering"}
                   \/ worker[t] = "discovering" /\ worker'[t] = "generating"
                   \/ worker[t] = "saving" /\ worker'[t] = "saved"
                   \/ worker[t] = "settled" /\ worker'[t] = "released"
              /\ UNCHANGED <<datasets, failedTables>>
              /\ node' = "returned" => node = "returned"
              /\ node = "returned" => node' = "returned"
           \/ Return
<1>1. /\ worker \in [Tables -> WorkerStates]
      /\ queue \in Seq(Tables)
      /\ active \in 0..Concurrency
      /\ node \in {"prefetch", "running", "returned"}
  BY DEF IInv, TypeOK
<1>2. CASE Dispatch
  <2> DEFINE q == [i \in Tables |-> i]
             w == [t \in Tables |-> "queued"]
  <2>1. NumTables \in Nat
    BY NumTablesAssumption
  <2>2. q \in Seq(Tables) /\ Len(q) = NumTables
    BY <2>1 DEF Tables
  <2>3. w \in [Tables -> WorkerStates]
    BY DEF WorkerStates
  <2>4. \A i \in 1..Len(q) : w[q[i]] = "queued"
    BY <2>2 DEF Tables
  <2>5. Admitted(q, active) \in 0..Len(q)
    BY <1>1, <2>2, AdmittedFills
  <2>6. Drain(q, active, w)
    BY <1>2 DEF Dispatch
  <2> HIDE DEF q
  <2>7. \A t \in Tables : worker'[t] \in {"queued", "discovering"}
    BY <2>2, <2>3, <2>4, <2>5, <2>6, DrainMovesQueued
  <2>8. \A t \in Tables : worker[t] = "new"
    BY <1>2 DEF Dispatch, IInv, Prefetching
  <2> QED
    BY <1>2, <2>7, <2>8 DEF Dispatch, results
<1>3. ASSUME NEW t \in Tables, Discovered(t) PROVE
        /\ worker[t] = "discovering"
        /\ worker' = [worker EXCEPT ![t] = "generating"]
        /\ UNCHANGED <<node, datasets, failedTables>>
  BY <1>3 DEF Discovered, results
<1>4. ASSUME NEW t \in Tables, WriteLands(t) \/ WriteLost(t) PROVE
        /\ worker[t] = "saving"
        /\ worker' = [worker EXCEPT ![t] = "saved"]
        /\ UNCHANGED <<node, datasets, failedTables>>
  BY <1>4 DEF WriteLands, WriteLost, results
<1>5. ASSUME NEW t \in Tables, Release(t) PROVE
        /\ \A u \in Tables :
              \/ worker'[u] = worker[u]
              \/ worker[u] = "queued" /\ worker'[u] = "discovering"
              \/ worker[u] = "settled" /\ worker'[u] = "released"
        /\ UNCHANGED <<node, datasets, failedTables>>
  <2> DEFINE w == [worker EXCEPT ![t] = "released"]
  <2>1. worker[t] = "settled" /\ Drain(queue, active - 1, w)
    BY <1>5 DEF Release
  <2>2. w \in [Tables -> WorkerStates]
    BY <1>1 DEF WorkerStates
  <2>3. \A i \in 1..Len(queue) : w[queue[i]] = "queued"
    BY <1>1, <2>1 DEF IInv, FitQueue
  <2>4. Admitted(queue, active - 1) \in 0..Len(queue)
    <3>1. Len(queue) \in Nat
      BY <1>1
    <3> QED
      BY <1>1, <3>1, ConcurrencyInRange DEF Admitted
  <2>5. \A u \in Tables :
           \/ worker'[u] = w[u]
           \/ w[u] = "queued" /\ worker'[u] = "discovering"
    BY <1>1, <2>1, <2>2, <2>3, <2>4, DrainMovesQueued
  <2> QED
    BY <1>1, <1>5, <2>1, <2>5 DEF Release, results
<1>6. CASE \E t \in Tables : Discovered(t) \/ WriteLands(t) \/ WriteLost(t)
  BY <1>1, <1>3, <1>4, <1>6
<1>7. CASE \E t \in Tables : Release(t)
  BY <1>5, <1>7
<1>8. CASE \E t \in Tables : Generated(t) \/ Failed(t)
  BY <1>8 DEF Generated, Failed, SaveProgress
<1>9. CASE \E t \in Tables : Settle(t)
  BY <1>9 DEF Settle, results
<1>10. CASE StepWriteLands \/ StepWriteLost \/ Finished
  BY <1>10 DEF StepWriteLands, StepWriteLost, Finished, vars, results
<1> QED
  BY <1>2, <1>6, <1>7, <1>8, <1>9, <1>10 DEF Next, Work

LEMMA StepFiled == IInv /\ Filed /\ [Next]_vars => Filed'
<1> SUFFICES ASSUME IInv, Filed, [Next]_vars PROVE Filed'
  OBVIOUS
<1> USE DEF Filed
<1>1. /\ worker \in [Tables -> WorkerStates]
      /\ datasets \in Seq(Tables) /\ failedTables \in Seq(Tables)
  BY DEF IInv, TypeOK
<1>2. CASE UNCHANGED vars
  BY <1>2 DEF vars, results, Elements
<1>3. CASE UNCHANGED <<worker, datasets, failedTables>>
  BY <1>3 DEF Elements
<1>4. ASSUME NEW t \in Tables,
             worker[t] \in {"discovering", "generating"},
             worker' = [worker EXCEPT ![t] = "saving"],
             \/ datasets' = Append(datasets, t) /\ UNCHANGED failedTables
             \/ failedTables' = Append(failedTables, t) /\ UNCHANGED datasets
      PROVE  Filed'
  <2>1. Elements(datasets)' \cup Elements(failedTables)'
          = Elements(datasets) \cup Elements(failedTables) \cup {t}
    BY <1>1, <1>4, AppendAddsOne
  <2> QED
    BY <1>1, <1>4, <2>1
<1>5. ASSUME UNCHANGED <<datasets, failedTables>>,
             \A t \in Tables :
                worker'[t] \in {"saving", "saved", "settled", "released"}
                  <=> worker[t] \in {"saving", "saved", "settled", "released"}
      PROVE  Filed'
  BY <1>5
<1>6. CASE Return
  BY <1>3, <1>6 DEF Return, results
<1> QED
  <2>1. CASE Next
    BY <1>1, <1>4, <1>5, <1>6, <2>1, Moves
  <2> QED
    BY <1>2, <2>1

\* Instantiated or not, a cardinality is the same number.
LEMMA SameCardinality ==
    ASSUME NEW S
    PROVE  Settlement!Cardinality(S) = Cardinality(S)
BY DEF Settlement!Cardinality, Cardinality, Settlement!IsFiniteSet, IsFiniteSet

\* Each step starts tables, records an outcome, finishes a table, returns, or
\* is invisible to the caller of the stage.
LEMMA StepSettles ==
    ASSUME IInv, Filed, [Next]_vars, AtMostConcurrency'
    PROVE  [Settlement!Next]_(Settlement!vars)
<1> DEFINE Done == {"saving", "saved", "settled", "released"}
<1>1. /\ worker \in [Tables -> WorkerStates]
      /\ datasets \in Seq(Tables) /\ failedTables \in Seq(Tables)
      /\ node \in {"prefetch", "running", "returned"}
  BY DEF IInv, TypeOK
<1>2. \A t \in Tables : outcomeBar[t] = "none" <=> worker[t] \notin Done
  BY DEF outcomeBar, Filed
<1>3. CASE UNCHANGED vars
  BY <1>3 DEF vars, results, Settlement!vars, Running, outcomeBar, Elements
<1>4. ASSUME NEW t \in Tables,
             worker[t] \in {"discovering", "generating"},
             worker' = [worker EXCEPT ![t] = "saving"],
             \/ datasets' = Append(datasets, t) /\ UNCHANGED failedTables
             \/ failedTables' = Append(failedTables, t) /\ UNCHANGED datasets,
             UNCHANGED node
      PROVE  \E o \in Settlement!Outcomes : Settlement!Record(t, o)
  <2>1. t \in Running /\ Running' = Running
    BY <1>1, <1>4 DEF Running, InTable
  <2>2. t \notin Elements(datasets) /\ t \notin Elements(failedTables)
    BY <1>4 DEF Filed
  <2>3. CASE datasets' = Append(datasets, t) /\ UNCHANGED failedTables
    <3>1. Elements(datasets)' = Elements(datasets) \cup {t}
      BY <1>1, <2>3, AppendAddsOne
    <3>2. Elements(failedTables)' = Elements(failedTables)
      BY <2>3 DEF Elements
    <3>3. outcomeBar' = [outcomeBar EXCEPT ![t] = "dataset"]
      BY <2>2, <3>1, <3>2 DEF outcomeBar
    <3> QED
      BY <1>2, <1>4, <2>1, <3>3 DEF Settlement!Record, Settlement!Outcomes
  <2>4. CASE failedTables' = Append(failedTables, t) /\ UNCHANGED datasets
    <3>1. Elements(failedTables)' = Elements(failedTables) \cup {t}
      BY <1>1, <2>4, AppendAddsOne
    <3>2. Elements(datasets)' = Elements(datasets)
      BY <2>4 DEF Elements
    <3>3. outcomeBar' = [outcomeBar EXCEPT ![t] = "failed"]
      BY <2>2, <3>1, <3>2 DEF outcomeBar
    <3> QED
      BY <1>2, <1>4, <2>1, <3>3 DEF Settlement!Record, Settlement!Outcomes
  <2> QED
    BY <1>4, <2>3, <2>4
<1>5. ASSUME NEW t \in Tables, worker[t] = "saved",
             worker' = [worker EXCEPT ![t] = "settled"],
             UNCHANGED <<node, datasets, failedTables>>
      PROVE  Settlement!Finish(t)
  <2>1. t \in Running /\ Running' = Running \ {t}
    BY <1>1, <1>5 DEF Running, InTable
  <2>2. outcomeBar' = outcomeBar
    BY <1>5 DEF outcomeBar, Elements
  <2> QED
    BY <1>2, <1>5, <2>1, <2>2 DEF Settlement!Finish
<1>6. ASSUME \A t \in Tables :
                \/ worker'[t] = worker[t]
                \/ worker[t] \in {"new", "queued"}
                   /\ worker'[t] \in {"queued", "discovering"}
                \/ worker[t] = "discovering" /\ worker'[t] = "generating"
                \/ worker[t] = "saving" /\ worker'[t] = "saved"
                \/ worker[t] = "settled" /\ worker'[t] = "released",
             UNCHANGED <<datasets, failedTables>>,
             node' = "returned" <=> node = "returned"
      PROVE  [Settlement!Next]_(Settlement!vars)
  <2> DEFINE S == Running' \ Running
  <2>1. outcomeBar' = outcomeBar
    BY <1>6 DEF outcomeBar, Elements
  <2>2. Running' = Running \cup S
    BY <1>6 DEF Running, InTable
  <2>3. \A t \in S : t \in Tables /\ outcomeBar[t] = "none"
    BY <1>2, <1>6 DEF Running, InTable
  <2>4. CASE S = {}
    BY <1>6, <2>1, <2>2, <2>4 DEF Settlement!vars
  <2>5. CASE S # {}
    <3>1. Settlement!Cardinality(Running \cup S) <= Concurrency
      BY <2>2, SameCardinality DEF AtMostConcurrency
    <3> HIDE DEF S
    <3>2. S \cap Running = {}
      BY DEF S
    <3>3. Settlement!Start(S)
      BY <1>6, <2>1, <2>2, <2>3, <2>5, <3>1, <3>2 DEF Settlement!Start
    <3>4. S \in SUBSET Tables
      BY <2>3
    <3> QED
      BY <3>3, <3>4 DEF Settlement!Next
  <2> QED
    BY <2>4, <2>5
<1>7. CASE Return
  <2>1. Running = {} /\ Running' = Running
    BY <1>7 DEF Return, Running, InTable
  <2>2. outcomeBar' = outcomeBar
    BY <1>7 DEF Return, results, outcomeBar, Elements
  <2>3. \A t \in Tables : outcomeBar[t] # "none"
    BY <1>2, <1>7 DEF Return
  <2>4. Settlement!Return
    BY <1>7, <2>1, <2>2, <2>3 DEF Return, Settlement!Return
  <2> QED
    BY <2>4 DEF Settlement!Next
<1> QED
  <2>1. CASE Next
    BY <1>4, <1>5, <1>6, <1>7, <2>1, Moves DEF Settlement!Next
  <2> QED
    BY <1>3, <2>1

LEMMA InitSettles == Init => Settlement!Init
<1> SUFFICES ASSUME Init PROVE Settlement!Init
  OBVIOUS
<1>1. Running = {}
  BY DEF Init, Running, InTable
<1>2. outcomeBar = [t \in Tables |-> "none"]
  BY DEF Init, outcomeBar, Elements
<1> QED
  BY <1>1, <1>2 DEF Init, Settlement!Init

\* The promise of TableSettlement without its liveness.
SettlementSafety == Settlement!Init /\ [][Settlement!Next]_(Settlement!vars)

\* For any number of tables and any limit the stage implements the abstract
\* one: every table gets one outcome, which is never revised, at most
\* Concurrency are worked on at a time, and the node returns only when all
\* of them are done.
THEOREM ImplementsSettlement == Spec => SettlementSafety
<1>1. IInv /\ [Next]_vars => IInv'
  BY StepIInv
<1>2. IInv' => AtMostConcurrency'
  BY HoldersWithinLimit, PTL
<1>3. IInv /\ Filed /\ [Next]_vars => [Settlement!Next]_(Settlement!vars)
  BY <1>1, <1>2, StepSettles
<1>4. Spec => [](IInv /\ Filed)
  BY InitIInv, InitFiled, StepIInv, StepFiled, PTL DEF Spec
<1> QED
  BY <1>3, <1>4, InitSettles, PTL DEF Spec, SettlementSafety

-----------------------------------------------------------------------------
(* The stage cannot stall *)

\* Whoever is queued is in the queue.
Awaited(q, w) ==
    \A t \in Tables : w[t] = "queued" => \E i \in 1..Len(q) : q[i] = t

\* next() forgets nobody: who leaves the queue has begun.
LEMMA DrainForgetsNobody ==
    ASSUME NEW q, NEW a \in 0..Concurrency, NEW w \in [Tables -> WorkerStates],
           q \in Seq(Tables), Awaited(q, w), Drain(q, a, w)
    PROVE  Awaited(queue', worker')
<1> DEFINE n == Admitted(q, a)
<1>1. n \in 0..Len(q) /\ Len(q) \in Nat
  BY AdmittedFills
<1>2. /\ queue' = SubSeq(q, n + 1, Len(q))
      /\ worker' = [t \in Tables |->
                      IF t \in {q[i] : i \in 1..n} THEN "discovering" ELSE w[t]]
  BY DEF Drain
<1> HIDE DEF n
<1>3. /\ Len(queue') = Len(q) - n
      /\ \A i \in 1..Len(queue') : queue'[i] = q[i + n]
  BY <1>1, <1>2
<1>4. ASSUME NEW t \in Tables, worker'[t] = "queued"
      PROVE  \E i \in 1..Len(queue') : queue'[i] = t
  <2>1. w[t] = "queued" /\ \A i \in 1..n : q[i] # t
    BY <1>2, <1>4
  <2>2. PICK k \in 1..Len(q) : q[k] = t
    BY <2>1 DEF Awaited
  <2>3. k \notin 1..n /\ k - n \in 1..Len(queue') /\ (k - n) + n = k
    BY <1>1, <1>3, <2>1, <2>2
  <2>4. queue'[k - n] = q[(k - n) + n]
    BY <1>3, <2>3
  <2> QED
    BY <2>2, <2>3, <2>4
<1> QED
  BY <1>4 DEF Awaited

LEMMA InitAwaited == Init => Awaited(queue, worker)
BY DEF Init, Awaited

LEMMA StepAwaited ==
    IInv /\ Awaited(queue, worker) /\ [Next]_vars => Awaited(queue, worker)'
<1> SUFFICES ASSUME IInv, Awaited(queue, worker), [Next]_vars
             PROVE  Awaited(queue', worker')
  OBVIOUS
<1>1. worker \in [Tables -> WorkerStates] /\ queue \in Seq(Tables)
  BY DEF IInv, TypeOK
<1>2. CASE Dispatch
  <2> DEFINE q == [i \in Tables |-> i]
             w == [t \in Tables |-> "queued"]
  <2>1. q \in Seq(Tables) /\ Len(q) = NumTables
    BY NumTablesAssumption DEF Tables
  <2>2. w \in [Tables -> WorkerStates]
    BY DEF WorkerStates
  <2>3. Awaited(q, w)
    BY <2>1 DEF Awaited, Tables
  <2>4. active \in 0..Concurrency
    BY DEF IInv, TypeOK
  <2>5. Drain(q, active, w)
    BY <1>2 DEF Dispatch
  <2> HIDE DEF q, w
  <2> QED
    BY <2>1, <2>2, <2>3, <2>4, <2>5, DrainForgetsNobody
<1>3. ASSUME NEW t \in Tables, Release(t) PROVE Awaited(queue', worker')
  <2> DEFINE w == [worker EXCEPT ![t] = "released"]
  <2>1. w \in [Tables -> WorkerStates]
    BY <1>1 DEF WorkerStates
  <2>2. Awaited(queue, w)
    BY <1>1 DEF Awaited
  <2>3. active \in 0..Concurrency /\ active = Cardinality(Holding) /\ t \in Holding
    BY <1>3 DEF IInv, TypeOK, SlotsExact, Holding, Release
  <2>4. Cardinality(Holding) # 0
    BY <2>3, HeldFinite, FS_EmptySet DEF Holding, HeldBy
  <2>5. active - 1 \in 0..Concurrency
    BY <2>3, <2>4, ConcurrencyInRange
  <2>6. Drain(queue, active - 1, w)
    BY <1>3 DEF Release
  <2> HIDE DEF w
  <2> QED
    BY <1>1, <2>1, <2>2, <2>5, <2>6, DrainForgetsNobody
<1>4. ASSUME NEW t \in Tables, Work(t), ~Release(t) PROVE Awaited(queue', worker')
  <2>1. /\ queue' = queue
        /\ \E where \in WorkerStates \ {"queued"} :
             worker' = [worker EXCEPT ![t] = where]
    BY <1>4
       DEF Work, Discovered, Generated, Failed, SaveProgress, WriteLands, WriteLost,
           Settle, limiter, WorkerStates
  <2> QED
    BY <1>1, <2>1 DEF Awaited
<1>5. CASE StepWriteLands \/ StepWriteLost \/ Return \/ UNCHANGED vars
  BY <1>5 DEF StepWriteLands, StepWriteLost, Return, vars, limiter, Awaited
<1> QED
  BY <1>2, <1>3, <1>4, <1>5 DEF Next, Finished

\* A table that waits has somebody to wait for.
LEMMA AwaitedHolds == IInv /\ Awaited(queue, worker) => SomeoneHoldsASlot
<1> SUFFICES ASSUME IInv, Awaited(queue, worker), node # "prefetch",
                    NEW t \in Tables, worker[t] # "released"
             PROVE  Holding # {}
  BY DEF SomeoneHoldsASlot
<1>1. worker[t] \in WorkerStates /\ worker[t] # "new"
  BY DEF IInv, TypeOK, Prefetching
<1>2. CASE worker[t] = "queued"
  <2>1. queue # <<>>
    BY <1>2 DEF Awaited
  <2>2. Cardinality(Holding) = Concurrency
    BY <2>1 DEF IInv, NoIdleSlot, SlotsExact
  <2>3. Cardinality(Holding) # 0
    BY <2>2, ConcurrencyInRange
  <2> QED
    BY <2>3, FS_EmptySet
<1>3. CASE worker[t] # "queued"
  BY <1>1, <1>3 DEF Holding, InTable, WorkerStates
<1> QED
  BY <1>2, <1>3

\* A table's worker moves to a later stage.
Advances(t) ==
    \E i, j \in DOMAIN Stages :
        /\ worker[t] = Stages[i] /\ worker'[t] = Stages[j]
        /\ i < j

LEMMA StagesInOrder ==
    /\ DOMAIN Stages = 1..8
    /\ Stages[1] = "new" /\ Stages[2] = "queued" /\ Stages[3] = "discovering"
    /\ Stages[4] = "generating" /\ Stages[5] = "saving" /\ Stages[6] = "saved"
    /\ Stages[7] = "settled" /\ Stages[8] = "released"
BY DEF Stages

\* The steps of a worker take it on, and of the others at most one that waits.
LEMMA WorkAdvances ==
    ASSUME IInv, NEW t \in Tables, Work(t)
    PROVE  /\ Advances(t)
           /\ \A u \in Tables \ {t} : Advances(u) \/ worker'[u] = worker[u]
<1>1. worker \in [Tables -> WorkerStates]
  BY DEF IInv, TypeOK
<1>2. CASE Release(t)
  <2> DEFINE n == Admitted(queue, active - 1)
             begun == {queue[i] : i \in 1..n}
  <2>1. /\ active \in 0..Concurrency /\ active = Cardinality(Holding)
        /\ worker[t] = "settled" /\ t \in Holding
    BY <1>2 DEF IInv, TypeOK, SlotsExact, Holding, Release
  <2>2. Cardinality(Holding) # 0
    BY <2>1, HeldFinite, FS_EmptySet DEF Holding, HeldBy
  <2>3. active - 1 \in 0..Concurrency
    BY <2>1, <2>2, ConcurrencyInRange
  <2>4. queue \in Seq(Tables) /\ n \in 0..Len(queue) /\ Len(queue) \in Nat
    BY <2>3, AdmittedFills DEF IInv, TypeOK
  <2>5. worker' = [u \in Tables |->
                     IF u \in begun THEN "discovering"
                     ELSE [worker EXCEPT ![t] = "released"][u]]
    BY <1>2 DEF Release, Drain
  <2> HIDE DEF n
  <2>6. \A u \in begun : worker[u] = "queued"
    BY <2>4 DEF IInv, FitQueue
  <2> HIDE DEF begun
  <2>7. \A u \in Tables :
          worker'[u] = IF u \in begun THEN "discovering"
                       ELSE IF u = t THEN "released" ELSE worker[u]
    BY <1>1, <2>5
  <2> QED
    BY <2>1, <2>6, <2>7, StagesInOrder DEF Advances
<1>3. CASE ~Release(t)
  <2>1. /\ \A u \in Tables \ {t} : worker'[u] = worker[u]
        /\ \/ worker[t] = "discovering" /\ worker'[t] \in {"generating", "saving"}
           \/ worker[t] = "generating" /\ worker'[t] = "saving"
           \/ worker[t] = "saving" /\ worker'[t] = "saved"
           \/ worker[t] = "saved" /\ worker'[t] = "settled"
    BY <1>1, <1>3
       DEF Work, Discovered, Generated, Failed, SaveProgress, WriteLands, WriteLost,
           Settle
  <2> QED
    BY <2>1, StagesInOrder DEF Advances
<1> QED
  BY <1>2, <1>3

LEMMA NobodyGoesBack ==
    ASSUME IInv, [Next]_vars, NEW t \in Tables
    PROVE  Advances(t) \/ worker'[t] = worker[t]
<1>1. CASE Dispatch
  <2>1. worker[t] = "new"
    BY <1>1 DEF Dispatch, IInv, Prefetching
  <2>2. worker'[t] \in {"queued", "discovering"}
    BY <1>1 DEF Dispatch, Drain
  <2> QED
    BY <2>1, <2>2, StagesInOrder DEF Advances
<1>2. CASE \E u \in Tables : Work(u)
  BY <1>2, WorkAdvances
<1>3. CASE StepWriteLands \/ StepWriteLost \/ Return \/ UNCHANGED vars
  BY <1>3 DEF StepWriteLands, StepWriteLost, Return, vars
<1> QED
  BY <1>1, <1>2, <1>3 DEF Next, Finished

LEMMA StepAdvances ==
    ASSUME IInv, [Next]_vars, NEW t \in Tables
    PROVE  \E i, j \in DOMAIN Stages :
             /\ worker[t] = Stages[i] /\ worker'[t] = Stages[j]
             /\ i <= j
             /\ Work(t) => i < j
<1>1. CASE Advances(t)
  BY <1>1, StagesInOrder DEF Advances
<1>2. CASE ~Advances(t)
  <2>1. worker'[t] = worker[t] /\ ~Work(t)
    BY <1>2, NobodyGoesBack, WorkAdvances
  <2>2. worker[t] \in WorkerStates
    BY DEF IInv, TypeOK
  <2>3. \E i \in DOMAIN Stages : worker[t] = Stages[i]
    BY <2>2, StagesInOrder DEF WorkerStates
  <2> QED
    BY <2>1, <2>3, StagesInOrder
<1> QED
  BY <1>1, <1>2

\* For any number of tables and any setting the stage has always somebody to
\* wait for, and nobody goes back: with the fairness of the event loop, which
\* no theorem states, it returns.
THEOREM StageCannotStall == Spec => []SomeoneHoldsASlot /\ WorkersAdvance
<1>1. IInv /\ [Next]_vars
      => [\A t \in Tables : \E i, j \in DOMAIN Stages :
            /\ worker[t] = Stages[i] /\ worker'[t] = Stages[j]
            /\ i <= j
            /\ Work(t) => i < j]_vars
  BY StepAdvances
<1> QED
  BY <1>1, InitIInv, StepIInv, InitAwaited, StepAwaited, AwaitedHolds, PTL
     DEF Spec, WorkersAdvance
=============================================================================
