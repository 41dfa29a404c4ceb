--------------------------- MODULE TableSettlement ---------------------------
(***************************************************************************)
(* What the table-by-table stage of the semantic model agent promises to   *)
(* the graph node that calls it, with nothing about how: at most Limit     *)
(* tables are worked on at a time, every table gets exactly one outcome,   *)
(* an outcome is never revised, and the stage returns only when no table   *)
(* is being worked on and every table has its outcome.                     *)
(***************************************************************************)
EXTENDS Naturals, FiniteSets

CONSTANTS
    Tables,     \* the tables selected for the run
    Limit       \* how many may be worked on at once

VARIABLES
    running,    \* the tables being worked on
    outcome,    \* what became of each table
    returned    \* the stage has handed its results back

vars == <<running, outcome, returned>>

Outcomes == {"dataset", "failed"}

Init ==
    /\ running = {}
    /\ outcome = [t \in Tables |-> "none"]
    /\ returned = FALSE

Start(S) ==
    /\ S # {}
    /\ S \cap running = {}
    /\ \A t \in S : outcome[t] = "none"
    /\ Cardinality(running \cup S) <= Limit
    /\ running' = running \cup S
    /\ UNCHANGED <<outcome, returned>>

Record(t, o) ==
    /\ t \in running
    /\ outcome[t] = "none"
    /\ outcome' = [outcome EXCEPT ![t] = o]
    /\ UNCHANGED <<running, returned>>

Finish(t) ==
    /\ t \in running
    /\ outcome[t] # "none"
    /\ running' = running \ {t}
    /\ UNCHANGED <<outcome, returned>>

Return ==
    /\ ~returned
    /\ running = {}
    /\ \A t \in Tables : outcome[t] # "none"
    /\ returned' = TRUE
    /\ UNCHANGED <<running, outcome>>

Next ==
    \/ \E S \in SUBSET Tables : Start(S)
    \/ \E t \in Tables, o \in Outcomes : Record(t, o)
    \/ \E t \in Tables : Finish(t)
    \/ Return

\* Liveness is part of the promise: the stage does return.
Spec == Init /\ [][Next]_vars /\ WF_vars(Next)
=============================================================================
