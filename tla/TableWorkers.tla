---------------------------- MODULE TableWorkers -----------------------------
(***************************************************************************)
(* The discover_and_generate node of the semantic model agent: one async   *)
(* worker per selected table, admitted by the home-made promise limiter of *)
(* utils/concurrency.ts, all of them sharing result arrays and one         *)
(* progress column of the run's row.                                       *)
(*                                                                         *)
(* A step is what JavaScript runs without giving up the event loop: from   *)
(* one await to the next.  The database is a separate party: a progress    *)
(* write is sent in one step and lands (or fails) in another, on whichever *)
(* pooled connection got it, so writes land in any order.                  *)
(***************************************************************************)
EXTENDS Integers, Sequences, FiniteSets

CONSTANTS
    NumTables,          \* state.selectedTables.length
    RawConcurrency,     \* parseInt(SEMANTIC_MODEL_CONCURRENCY)
    NaN                 \* parseInt's answer to what is not a number

ASSUME NumTablesAssumption == NumTables \in Nat
ASSUME RawConcurrencyAssumption == RawConcurrency \in Int \cup {NaN}
ASSUME NaNAssumption == NaN \notin Int

DefaultConcurrency == 5

Clamp(n) == IF n > 20 THEN 20 ELSE IF n < 1 THEN 1 ELSE n

\* Any setting, missing, garbled or absurd, becomes a limit from 1 to 20.
Concurrency ==
    Clamp(IF RawConcurrency = NaN THEN DefaultConcurrency ELSE RawConcurrency)

\* A table is its index in selectedTables.
Tables == 1..NumTables

VARIABLES
    node,           \* the graph node: "prefetch", "running" or "returned"
    queue,          \* the limiter's queue of thunks
    active,         \* the limiter's counter
    worker,         \* where each table's worker stands
    datasets,       \* sharedState.datasets, in order of completion
    failedTables,   \* sharedState.failedTables
    completedCount, \* sharedState.completedCount.value
    snapshot,       \* completedTables in the write a worker awaits
    stepWrite,      \* the stream handler's write at the first LLM call
    stored          \* completedTables in the row's progress column

limiter == <<queue, active>>
results == <<datasets, failedTables, completedCount>>
progress == <<snapshot, stepWrite, stored>>
vars == <<node, limiter, worker, results, progress>>

\* The progress written by the stream handler has no completedTables field.
NoCount == -1

\* "saving" awaits the progress write, "saved" has its answer, "settled" has
\* resolved the promise handed out by the limiter but not yet run the
\* finally callback, which is a later microtask.
WorkerStates == {"new", "queued", "discovering", "generating", "saving",
                 "saved", "settled", "released"}

InTable == {"discovering", "generating", "saving", "saved"}

Running == {t \in Tables : worker[t] \in InTable}

\* Tables that hold one of the limiter's slots.
Holding == {t \in Tables : worker[t] \in InTable \cup {"settled"}}

Elements(s) == {s[i] : i \in 1..Len(s)}

-----------------------------------------------------------------------------

Init ==
    /\ node = "prefetch"
    /\ queue = <<>>
    /\ active = 0
    /\ worker = [t \in Tables |-> "new"]
    /\ datasets = <<>>
    /\ failedTables = <<>>
    /\ completedCount = 0
    /\ snapshot = [t \in Tables |-> NoCount]
    /\ stepWrite = "unsent"
    /\ stored = NoCount

-----------------------------------------------------------------------------
(* The limiter *)

\* Fault: active <= concurrency.
AdmittedOneMore(q, a) ==
    IF Len(q) < Concurrency - a + 1 THEN Len(q) ELSE Concurrency - a + 1

\* How many thunks the loop of next() shifts from queue q when a slots are
\* taken: while (queue.length > 0 && active < concurrency).
Admitted(q, a) ==
    IF Concurrency <= a THEN 0
    ELSE IF Len(q) < Concurrency - a THEN Len(q)
    ELSE Concurrency - a

\* next(), with queue q, a slots taken and the workers at w.  A thunk runs its
\* worker up to its first await: the table is then being discovered.
Drain(q, a, w) ==
    LET n == Admitted(q, a)
        begun == {q[i] : i \in 1..n}
    IN  /\ queue' = SubSeq(q, n + 1, Len(q))
        /\ active' = a + n
        /\ worker' = [t \in Tables |->
                        IF t \in begun THEN "discovering" ELSE w[t]]

\* selectedTables.map(t => limit(...)) pushes every table in one synchronous
\* turn; the first ones start at once.
Dispatch ==
    /\ node = "prefetch"
    /\ node' = "running"
    /\ Drain([i \in Tables |-> i], active, [t \in Tables |-> "queued"])
    /\ UNCHANGED <<results, progress>>

-----------------------------------------------------------------------------
(* A worker *)

\* Discovery worked; the worker marks the table and calls the LLM.  The first
\* call of the node makes the stream handler open the step and write it.
Discovered(t) ==
    /\ worker[t] = "discovering"
    /\ worker' = [worker EXCEPT ![t] = "generating"]
    /\ stepWrite' = IF stepWrite = "unsent" THEN "sent" ELSE stepWrite
    /\ UNCHANGED <<node, limiter, results, snapshot, stored>>

\* What follows a dataset or a failure alike: count it and send a snapshot.
SaveProgress(t) ==
    /\ worker' = [worker EXCEPT ![t] = "saving"]
    /\ completedCount' = completedCount + 1
    /\ snapshot' = [snapshot EXCEPT ![t] = completedCount + 1]
    /\ UNCHANGED <<node, limiter, stepWrite, stored>>

\* The LLM answered with a dataset.
Generated(t) ==
    /\ worker[t] = "generating"
    /\ datasets' = Append(datasets, t)
    /\ UNCHANGED failedTables
    /\ SaveProgress(t)

\* Fault: the dataset is pushed before the answer is validated.
FailedAfterPush(t) ==
    /\ worker[t] \in {"discovering", "generating"}
    /\ failedTables' = Append(failedTables, t)
    /\ datasets' = IF worker[t] = "generating" THEN Append(datasets, t)
                   ELSE datasets
    /\ SaveProgress(t)

\* listColumns, getSampleData, the LLM call or the parsing of its answer threw.
Failed(t) ==
    /\ worker[t] \in {"discovering", "generating"}
    /\ failedTables' = Append(failedTables, t)
    /\ UNCHANGED datasets
    /\ SaveProgress(t)

\* The row's progress column is overwritten whole by the worker's snapshot.
WriteLands(t) ==
    /\ worker[t] = "saving"
    /\ worker' = [worker EXCEPT ![t] = "saved"]
    /\ stored' = snapshot[t]
    /\ UNCHANGED <<node, limiter, results, snapshot, stepWrite>>

\* .catch(() => {}): a write that fails is forgotten.
WriteLost(t) ==
    /\ worker[t] = "saving"
    /\ worker' = [worker EXCEPT ![t] = "saved"]
    /\ UNCHANGED <<node, limiter, results, progress>>

\* The stream handler's own write, which nobody awaits.
StepWriteLands ==
    /\ stepWrite = "sent"
    /\ stepWrite' = "done"
    /\ stored' = NoCount
    /\ UNCHANGED <<node, limiter, worker, results, snapshot>>

StepWriteLost ==
    /\ stepWrite = "sent"
    /\ stepWrite' = "done"
    /\ UNCHANGED <<node, limiter, worker, results, snapshot, stored>>

\* processOneTable returns, fn().then(resolve, reject) resolves the promise.
Settle(t) ==
    /\ worker[t] = "saved"
    /\ worker' = [worker EXCEPT ![t] = "settled"]
    /\ UNCHANGED <<node, limiter, results, progress>>

\* Fault: finally() frees the slot and forgets to call next().
ReleaseOnly(t) ==
    /\ worker[t] = "settled"
    /\ active' = active - 1
    /\ worker' = [worker EXCEPT ![t] = "released"]
    /\ UNCHANGED <<node, queue, results, progress>>

\* .finally(() => { active--; next(); })
Release(t) ==
    /\ worker[t] = "settled"
    /\ Drain(queue, active - 1, [worker EXCEPT ![t] = "released"])
    /\ UNCHANGED <<node, results, progress>>

-----------------------------------------------------------------------------
(* The node *)

\* Promise.allSettled resolved: the node hands its arrays to the graph.
Return ==
    /\ node = "running"
    /\ \A t \in Tables : worker[t] \in {"settled", "released"}
    /\ node' = "returned"
    /\ UNCHANGED <<limiter, worker, results, progress>>

\* Nothing is left to run; only here may the system stop.
Finished ==
    /\ node = "returned"
    /\ \A t \in Tables : worker[t] = "released"
    /\ stepWrite # "sent"
    /\ UNCHANGED vars

Work(t) ==
    \/ Discovered(t) \/ Generated(t) \/ Failed(t)
    \/ WriteLands(t) \/ WriteLost(t)
    \/ Settle(t) \/ Release(t)

Next ==
    \/ Dispatch
    \/ \E t \in Tables : Work(t)
    \/ StepWriteLands \/ StepWriteLost
    \/ Return
    \/ Finished

\* The event loop runs every callback that is due, and every awaited call
\* (catalogue query, LLM request, row update) answers or fails.
Fairness ==
    /\ WF_vars(Dispatch)
    /\ \A t \in Tables : WF_vars(Work(t))
    /\ WF_vars(Return)

Spec == Init /\ [][Next]_vars /\ Fairness

-----------------------------------------------------------------------------
(* Properties *)

\* Every variable keeps the shape the TypeScript declarations give it.
TypeOK ==
    /\ node \in {"prefetch", "running", "returned"}
    /\ queue \in Seq(Tables)
    /\ active \in 0..Concurrency
    /\ worker \in [Tables -> WorkerStates]
    /\ datasets \in Seq(Tables)
    /\ failedTables \in Seq(Tables)
    /\ completedCount \in Nat
    /\ snapshot \in [Tables -> Nat \cup {NoCount}]
    /\ stepWrite \in {"unsent", "sent", "done"}
    /\ stored \in Nat \cup {NoCount}

\* The limiter's counter is exact: it counts the tables whose thunk has begun
\* and whose finally callback has not run, no slot leaks and none is freed
\* twice, although settling and releasing happen in different microtasks.
SlotsExact == active = Cardinality(Holding)

\* No more tables are worked on at once than the configured limit, whatever
\* SEMANTIC_MODEL_CONCURRENCY is set to: the limit protects the user's
\* database and the LLM provider.
AtMostConcurrency == Cardinality(Running) <= Concurrency

\* No table waits in the queue while a slot is free: a finished table always
\* pulls the next one in, so a run cannot stall with work left.
NoIdleSlot == queue # <<>> => active = Concurrency

\* Every run of the stage ends, however many tables fail, and whatever order
\* workers, microtasks and writes take.
StageReturns == <>(node = "returned")

\* What StageReturns rests on: once the tables are dispatched and until the last
\* one is released, some table holds a slot, so it has a step to take, and the
\* steps of a table lead it forward only.
Stages == <<"new", "queued", "discovering", "generating", "saving", "saved",
            "settled", "released">>

SomeoneHoldsASlot ==
    node # "prefetch" /\ (\E t \in Tables : worker[t] # "released")
        => Holding # {}

WorkersAdvance ==
    [][\A t \in Tables : \E i, j \in DOMAIN Stages :
         /\ worker[t] = Stages[i] /\ worker'[t] = Stages[j]
         /\ i <= j
         /\ Work(t) => i < j]_vars

\* docs/specs/SEMANTIC-MODELS.md: progress.completedTables increments
\* atomically after each table completes.  A reader who polls the row would
\* then never see the count of finished tables shrink or vanish.
StoredCountGrows == [][stored' >= stored]_vars

-----------------------------------------------------------------------------
(* The stage implements what TableSettlement promises. *)

outcomeBar ==
    [t \in Tables |->
        IF t \notin Elements(datasets) \cup Elements(failedTables) THEN "none"
        ELSE IF t \notin Elements(failedTables) THEN "dataset"
        ELSE IF t \notin Elements(datasets) THEN "failed"
        ELSE "both"]

Settlement == INSTANCE TableSettlement
    WITH Limit <- Concurrency, running <- Running, outcome <- outcomeBar,
         returned <- (node = "returned")

\* Refinement: limiter, shared arrays and allSettled together give every table
\* one unrevised outcome (never a place in both arrays), never exceed the limit
\* and return only when all tables are done.
SettlementSpec == Settlement!Spec
=============================================================================
