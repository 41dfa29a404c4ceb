------------------------ MODULE DataAgentGraph_proofs -------------------------
(***************************************************************************)
(* What holds of the data agent's graph for every ontology, every set of   *)
(* plans the planner may return and every limit on revisions: the types of *)
(* its channels, the bound on revisions, the bound on the nodes a run      *)
(* visits, that a refusal never follows a query, that answers are verified *)
(* or say they are not, that a question has exactly one outcome, that the  *)
(* nodes find what they read, and that each step uses up one of finitely   *)
(* many.                                                                   *)
(***************************************************************************)
EXTENDS DataAgentGraph, TLAPS

\* A plan that is set has no more steps than there are step ids.
PlanFits == plan # NULL => plan \in PlanRecords /\ Len(plan.steps) <= MaxSteps

Typed == TypeOK /\ PlanFits

-----------------------------------------------------------------------------
(* The plans *)

\* The planner's fallback is a plan, of one step.
LEMMA FallbackFits ==
    FallbackPlan \in PlanRecords \ {NULL} /\ Len(FallbackPlan.steps) <= MaxSteps
<1>1. [strategy |-> "sql", chart |-> FALSE, datasets |-> RelevantDatasets,
       dependsOn |-> {}] \in Steps
  BY PlansAssumption DEF Steps, Strategies
<1> DEFINE fallback == <<[strategy |-> "sql", chart |-> FALSE,
                          datasets |-> RelevantDatasets, dependsOn |-> {}]>>
<1>2. fallback \in Seq(Steps) /\ Len(fallback) = 1
  BY <1>1
<1>3. FallbackPlan = [complexity |-> "simple", asks |-> FALSE,
                      questions |-> FALSE, ambiguous |-> FALSE,
                      steps |-> fallback]
  BY DEF FallbackPlan
<1> HIDE DEF fallback
<1>4. FallbackPlan \in PlanRecords /\ FallbackPlan.steps = fallback
  BY <1>2, <1>3 DEF PlanRecords
<1>5. Len(FallbackPlan.steps) = 1
  BY <1>2, <1>4
<1>6. NULL \notin PlanRecords /\ 1 <= MaxSteps
  BY PlansAssumption, NullAssumption
<1> QED
  BY <1>4, <1>5, <1>6

\* The clarification backstop changes flags of a plan, never its steps.
LEMMA BackstopIsPlan ==
    ASSUME NEW p \in PlanRecords
    PROVE  Backstop(p) \in PlanRecords /\ Backstop(p).steps = p.steps
BY DEF Backstop, PlanRecords

\* Whatever the planner returns leads to a node or to the end.
LEMMA PlannerRoutes ==
    ASSUME NEW p \in PlanRecords \cup {NULL}
    PROVE  routeAfterPlanner(p) \in {"navigator", "explainer", "end"}
BY DEF routeAfterPlanner

\* Every way out of the planner returns null or a plan that fits.
LEMMA PlannerReturnsPlan ==
    ASSUME Typed, Planner
    PROVE  \E p \in PlanRecords \cup {NULL} :
             PlannerReturns(p) /\ (p # NULL => Len(p.steps) <= MaxSteps)
<1>1. CASE PlannerPlans
  <2>1. PICK p \in Plans : PlannerReturns(Backstop(p))
    BY <1>1 DEF PlannerPlans
  <2>2. p \in PlanRecords /\ Len(p.steps) <= MaxSteps
    BY PlansAssumption
  <2> QED
    BY <2>1, <2>2, BackstopIsPlan
<1>2. CASE PlannerFails
  BY <1>2, FallbackFits DEF PlannerFails
<1>3. CASE PlannerUnparsed
  <2>1. CASE PlannerReturns(NULL)
    BY <2>1
  <2>2. CASE PlannerReturns(FallbackPlan)
    BY <2>2, FallbackFits
  <2> QED
    BY <1>3, <2>1, <2>2 DEF PlannerUnparsed
<1> QED
  BY <1>1, <1>2, <1>3 DEF Planner

\* The verifier's ways out: none but a pass has no target, and the navigator
\* is the target only when no step has a query.
LEMMA VerifierReports ==
    ASSUME Verifier
    PROVE  \E passed \in BOOLEAN, target \in Targets, why \in Reasons :
             /\ Report(passed, target, why)
             /\ ~passed => target # "none"
             /\ target = "navigator" => querySpecs = {}
BY DEF Verifier, VerifierBypasses, VerifierFindsNothing, VerifierChecks,
       VerifierCannotCheck, Targets, Reasons

-----------------------------------------------------------------------------
(* Types *)

LEMMA StepResultType ==
    ASSUME NEW id, NEW sqlOk \in BOOLEAN, NEW chartOk \in BOOLEAN, NEW python
    PROVE  StepResult(id, sqlOk, chartOk, python) \in StepResults
BY DEF StepResult, StepResults

LEMMA InitTyped == Init => Typed
<1> SUFFICES ASSUME Init PROVE Typed
  OBVIOUS
<1>1. executed \in Seq(StepResults)
  BY DEF Init
<1>2. visits \in [Nodes -> Nat]
  BY DEF Init
<1>3. plan = NULL /\ next \in Nodes
  BY DEF Init, Nodes
<1> QED
  BY <1>1, <1>2, <1>3 DEF Init, Typed, TypeOK, PlanFits

\* Whatever it finds, the navigator leaves a join plan, and
\* it begins to refuse only with a plan.
LEMMA NavigatorJoins ==
    ASSUME Typed, Navigator
    PROVE  \E joined \in JoinPlans, refused \in BOOLEAN :
             /\ Navigate(joined, refused)
             /\ refused => cannotAnswer \/ plan # NULL
<1>1. EmptyJoinPlan \in JoinPlans
  BY DEF EmptyJoinPlan, JoinPlans
<1>2. cannotAnswer \in BOOLEAN /\ catalog \subseteq Datasets
  BY DEF Typed, TypeOK
<1>3. CASE NavigatorFinds
  <2>1. PICK joins \in BOOLEAN :
          Navigate([datasets |-> PlanDatasets \cap catalog, joins |-> joins],
                   cannotAnswer)
    BY <1>3 DEF NavigatorFinds
  <2>2. [datasets |-> PlanDatasets \cap catalog, joins |-> joins] \in JoinPlans
    BY <1>2 DEF JoinPlans
  <2> QED
    BY <1>2, <2>1, <2>2
<1>4. CASE NavigatorRefuses
  BY <1>1, <1>4 DEF NavigatorRefuses
<1>5. CASE NavigatorFails
  BY <1>1, <1>2, <1>5 DEF NavigatorFails
<1> QED
  BY <1>3, <1>4, <1>5 DEF Navigator

LEMMA StepTyped == Typed /\ [Next]_vars => Typed'
<1> SUFFICES ASSUME Typed, [Next]_vars PROVE Typed'
  OBVIOUS
<1> USE DEF Typed, TypeOK, PlanFits, Nodes, Visit, inputs, outcome
<1>1. CASE Planner
  <2>1. PICK p \in PlanRecords \cup {NULL} :
          PlannerReturns(p) /\ (p # NULL => Len(p.steps) <= MaxSteps)
    BY <1>1, PlannerReturnsPlan
  <2> QED
    BY <2>1, PlannerRoutes DEF PlannerReturns
<1>2. CASE Navigator
  <2>1. PICK joined \in JoinPlans, refused \in BOOLEAN :
          Navigate(joined, refused)
    BY <1>2, NavigatorJoins
  <2> QED
    BY <2>1 DEF Navigate, routeAfterNavigator
<1>3. CASE SqlBuilder
  <2>1. Len(plan.steps) \in Nat
    BY <1>3 DEF SqlBuilder, PlanRecords
  <2>2. 1..Len(plan.steps) \subseteq StepIds
    BY <1>3, <2>1, PlansAssumption DEF SqlBuilder, StepIds
  <2>3. querySpecs' \in SUBSET StepIds
    BY <1>3, <2>2 DEF SqlBuilder
  <2> QED
    BY <1>3, <2>3 DEF SqlBuilder
<1>4. CASE SqlBuilderThrows
  BY <1>4 DEF SqlBuilderThrows
<1>5. CASE ExecutorStep
  <2>1. PICK result \in StepResults : executed' = Append(executed, result)
    BY <1>5, StepResultType DEF ExecutorStep
  <2> QED
    BY <1>5, <2>1 DEF ExecutorStep
<1>6. CASE ExecutorReturns
  BY <1>6 DEF ExecutorReturns
<1>7. CASE Verifier
  <2>1. PICK passed \in BOOLEAN, target \in Targets, why \in Reasons :
          /\ Report(passed, target, why)
          /\ ~passed => target # "none"
          /\ target = "navigator" => querySpecs = {}
    BY <1>7, VerifierReports
  <2> QED
    BY <2>1 DEF Report, Reports, Targets, routeAfterVerification
<1>8. CASE Explainer
  <2>1. Caveats \subseteq {"reason", "verification", "assumption",
                           "step_error", "explainer_error"}
    BY DEF Caveats
  <2>2. PICK kind \in {"refusal", "conversation", "answer", "error"},
             caveats \in SUBSET {"reason", "verification", "assumption",
                                 "step_error", "explainer_error"} :
          Explain(kind, caveats)
    BY <1>8, <2>1 DEF Explainer, ExplainerRefuses, ExplainerConverses,
                      ExplainerAnswers, ExplainerFails
  <2> QED
    BY <2>2 DEF Explain, Outputs
<1>9. CASE OntologyDeleted
  BY <1>9 DEF OntologyDeleted
<1>10. CASE UNCHANGED vars
  BY <1>10 DEF vars
<1> QED
  BY <1>1, <1>2, <1>3, <1>4, <1>5, <1>6, <1>7, <1>8, <1>9, <1>10
     DEF Next, Agent, Ended

\* Every channel of the graph keeps its type, for any ontology and plans.
THEOREM Typing == Spec => []TypeOK
<1>1. Typed => TypeOK
  BY DEF Typed
<1> QED
  BY InitTyped, StepTyped, <1>1, PTL DEF Spec

-----------------------------------------------------------------------------
(* How often the nodes run.  Between two verifications the navigator, the  *)
(* SQL builder and the executor run at most once each, and as long as a    *)
(* query may still follow every verification so far was a counted failure. *)

\* Where the loop stands, v times n for node n and r failures so far.
Upstream(r, nav, sql, exec) ==
    /\ visits["planner"] = 1
    /\ visits["navigator"] <= nav
    /\ visits["sql_builder"] <= sql
    /\ visits["executor"] = exec
    /\ visits["verifier"] = r
    /\ visits["explainer"] = 0
    /\ r < MaxRevisions

Behind ==
    /\ visits["planner"] = 1
    /\ visits["navigator"] <= MaxRevisions
    /\ visits["sql_builder"] <= MaxRevisions
    /\ visits["executor"] <= MaxRevisions
    /\ visits["verifier"] <= MaxRevisions

\* How far the nodes have run, given the node that runs next.
Progress ==
    LET r == revisionCount
    IN  /\ r <= MaxRevisions
        /\ next = "planner" => r = 0 /\ \A n \in Nodes : visits[n] = 0
        /\ next = "navigator" => Upstream(r, r, r, r)
        /\ next = "sql_builder" => Upstream(r, r + 1, r, r)
        /\ next = "executor" => Upstream(r, r + 1, r + 1, r)
        /\ next = "verifier" => Upstream(r, r + 1, r + 1, r + 1)
        /\ next = "explainer" => Behind /\ visits["explainer"] = 0
        /\ next \in {"end", "rejected"} => Behind /\ visits["explainer"] <= 1

LEMMA InitProgress == Init => Progress
BY BoundsAssumption DEF Init, Progress, Nodes

LEMMA StepProgress == Typed /\ Progress /\ [Next]_vars => Progress'
<1> SUFFICES ASSUME Typed, Progress, [Next]_vars PROVE Progress'
  OBVIOUS
<1>1. /\ visits \in [Nodes -> Nat]
      /\ revisionCount \in Nat
      /\ MaxRevisions \in Nat \ {0}
  BY BoundsAssumption DEF Typed, TypeOK
<1> USE <1>1 DEF Nodes, Visit, Upstream, Behind
<1>2. CASE Planner
  <2>1. PICK p \in PlanRecords \cup {NULL} : PlannerReturns(p)
    BY <1>2, PlannerReturnsPlan
  <2> QED
    BY <2>1, PlannerRoutes DEF PlannerReturns, Progress, outcome
<1>3. CASE Navigator
  <2>1. PICK joined, refused : Navigate(joined, refused)
    BY <1>3 DEF Navigator, NavigatorRefuses, NavigatorFinds, NavigatorFails
  <2> QED
    BY <1>3, <2>1 DEF Navigator, Navigate, routeAfterNavigator, Progress
<1>4. CASE SqlBuilder
  BY <1>4 DEF SqlBuilder, Progress, outcome
<1>5. CASE SqlBuilderThrows
  BY <1>5 DEF SqlBuilderThrows, Progress, outcome
<1>6. CASE ExecutorStep
  BY <1>6 DEF ExecutorStep, Progress, outcome
<1>7. CASE ExecutorReturns
  BY <1>7 DEF ExecutorReturns, Progress, outcome
<1>8. CASE Verifier
  <2>1. PICK passed \in BOOLEAN, target \in Targets, why \in Reasons :
          /\ Report(passed, target, why)
          /\ ~passed => target # "none"
          /\ target = "navigator" => querySpecs = {}
    BY <1>8, VerifierReports
  <2>2. CASE passed
    BY <1>8, <2>1, <2>2
       DEF Verifier, Report, Targets, routeAfterVerification, Progress
  <2>3. CASE ~passed
    BY <1>8, <2>1, <2>3
       DEF Verifier, Report, Targets, routeAfterVerification, Progress
  <2> QED
    BY <2>2, <2>3
<1>9. CASE Explainer
  <2>1. PICK kind, caveats : Explain(kind, caveats)
    BY <1>9 DEF Explainer, ExplainerRefuses, ExplainerConverses,
                ExplainerAnswers, ExplainerFails
  <2> QED
    BY <1>9, <2>1 DEF Explainer, Explain, Progress
<1>10. CASE OntologyDeleted
  BY <1>10 DEF OntologyDeleted, Progress, outcome
<1>11. CASE UNCHANGED vars
  BY <1>11 DEF vars, Progress, outcome
<1> QED
  BY <1>2, <1>3, <1>4, <1>5, <1>6, <1>7, <1>8, <1>9, <1>10, <1>11
     DEF Next, Agent, Ended

LEMMA ProgressAlways == Spec => [](Typed /\ Progress)
BY InitTyped, StepTyped, InitProgress, StepProgress, PTL DEF Spec

\* A question never costs more than MaxRevisions executions, and its recorded
\* revision count never exceeds the limit, for every limit.
THEOREM RevisionsBounded == Spec => []RevisionBound
<1>1. Typed /\ Progress => RevisionBound
  BY BoundsAssumption
     DEF Typed, TypeOK, Nodes, Progress, Upstream, Behind, RevisionBound
<1> QED
  BY <1>1, ProgressAlways, PTL

\* A run visits at most 2 + 4 * MaxRevisions nodes: any recursion limit from
\* there on leaves every revision loop room to end.
THEOREM RecursionLimitSuffices == Spec => []WithinRecursionLimit
<1>1. Typed /\ Progress => TotalVisits <= 2 + 4 * MaxRevisions
  <2> SUFFICES ASSUME Typed, Progress
               PROVE  TotalVisits <= 2 + 4 * MaxRevisions
    OBVIOUS
  <2>1. /\ visits \in [Nodes -> Nat]
        /\ revisionCount \in Nat
        /\ MaxRevisions \in Nat \ {0}
        /\ next \in Nodes \cup {"end", "rejected"}
    BY BoundsAssumption DEF Typed, TypeOK
  <2> QED
    BY <2>1 DEF Nodes, Progress, Upstream, Behind, TotalVisits
<1>2. TotalVisits \in Nat /\ TotalVisits <= 2 + 4 * MaxRevisions
        => WithinRecursionLimit
  BY BoundsAssumption DEF WithinRecursionLimit
<1>3. Typed => TotalVisits \in Nat
  BY DEF Typed, TypeOK, Nodes, TotalVisits
<1> QED
  BY <1>1, <1>2, <1>3, ProgressAlways, PTL

-----------------------------------------------------------------------------
(* Refusals.  The verifier sends work back to the navigator only if no step *)
(* has a query, hence only if the plan has no steps; then the plan names no *)
(* dataset, and the navigator cannot refuse for want of one.                *)

EmptyPlan == plan # NULL /\ plan.steps = <<>>

Refusals ==
    /\ next = "planner" => ~cannotAnswer
    /\ next = "navigator" =>
         ~cannotAnswer /\ (visits["navigator"] > 0 => EmptyPlan)
    /\ next = "sql_builder" => ~cannotAnswer
    /\ next \in {"executor", "verifier"} =>
         ~cannotAnswer /\ plan # NULL /\ (querySpecs = {} => EmptyPlan)
    /\ (visits["executor"] > 0 \/ next \in {"sql_builder", "executor", "verifier"})
         => visits["navigator"] > 0
    /\ NavigatorRerunsAreEmpty
    /\ RefusalBeforeQueries

\* A plan without steps names no datasets.
LEMMA EmptyPlanNamesNothing == EmptyPlan => PlanDatasets = {}
BY DEF EmptyPlan, PlanDatasets

\* Unless it refuses, the navigator leaves cannotAnswer alone.
LEMMA NavigatorGoesOn ==
    ASSUME NavigatorFinds \/ NavigatorFails
    PROVE  \E joined : Navigate(joined, cannotAnswer)
BY DEF NavigatorFinds, NavigatorFails

LEMMA InitRefusals == Init => Refusals
BY DEF Init, Refusals, NavigatorRerunsAreEmpty, RefusalBeforeQueries, Nodes

LEMMA StepRefusals == Typed /\ Progress /\ Refusals /\ [Next]_vars => Refusals'
<1> SUFFICES ASSUME Typed, Progress, Refusals, [Next]_vars PROVE Refusals'
  OBVIOUS
<1>1. visits \in [Nodes -> Nat] /\ cannotAnswer \in BOOLEAN
  BY DEF Typed, TypeOK
<1> USE <1>1 DEF Nodes, Visit, Refusals, NavigatorRerunsAreEmpty,
                 RefusalBeforeQueries, outcome
<1>2. CASE Planner
  <2>1. PICK p \in PlanRecords \cup {NULL} : PlannerReturns(p)
    BY <1>2, PlannerReturnsPlan
  <2>2. next = "planner" /\ \A n \in Nodes : visits[n] = 0
    BY <2>1 DEF PlannerReturns, Progress
  <2> QED
    BY <2>1, <2>2, PlannerRoutes DEF PlannerReturns
<1>3. CASE Navigator
  <2>1. CASE NavigatorRefuses
    <3>1. ~EmptyPlan
      BY <2>1, EmptyPlanNamesNothing DEF NavigatorRefuses
    <3> QED
      BY <1>3, <2>1, <3>1
         DEF Navigator, NavigatorRefuses, Navigate, routeAfterNavigator
  <2>2. CASE NavigatorFinds \/ NavigatorFails
    <3>1. PICK joined : Navigate(joined, cannotAnswer)
      BY <2>2, NavigatorGoesOn
    <3> QED
      BY <1>3, <3>1 DEF Navigator, Navigate, routeAfterNavigator, EmptyPlan
  <2> QED
    BY <1>3, <2>1, <2>2 DEF Navigator
<1>4. CASE SqlBuilder
  <2>1. plan.steps \in Seq(Steps)
    BY <1>4 DEF SqlBuilder, Typed, PlanFits, PlanRecords
  <2>2. querySpecs' = {} => 1..Len(plan.steps) = {}
    BY <1>4 DEF SqlBuilder
  <2>3. ASSUME querySpecs' = {} PROVE plan.steps = <<>>
    <3>1. Len(plan.steps) \in Nat /\ 1 \notin 1..Len(plan.steps)
      BY <2>1, <2>2, <2>3
    <3>2. Len(plan.steps) = 0
      BY <3>1
    <3> QED
      BY <2>1, <3>2
  <2> QED
    BY <1>4, <2>3 DEF SqlBuilder, EmptyPlan
<1>5. CASE SqlBuilderThrows
  BY <1>5 DEF SqlBuilderThrows, EmptyPlan
<1>6. CASE ExecutorStep
  BY <1>6 DEF ExecutorStep, EmptyPlan
<1>7. CASE ExecutorReturns
  BY <1>7 DEF ExecutorReturns, EmptyPlan
<1>8. CASE Verifier
  <2>1. PICK passed \in BOOLEAN, target \in Targets, why \in Reasons :
          /\ Report(passed, target, why)
          /\ ~passed => target # "none"
          /\ target = "navigator" => querySpecs = {}
    BY <1>8, VerifierReports
  <2>2. next' \in {"navigator", "sql_builder", "explainer"}
        /\ (next' = "navigator" => EmptyPlan)
    BY <1>8, <2>1 DEF Verifier, Report, Targets, routeAfterVerification
  <2> QED
    BY <1>8, <2>1, <2>2 DEF Verifier, Report, EmptyPlan
<1>9. CASE Explainer
  BY <1>9 DEF Explainer, ExplainerRefuses, ExplainerConverses,
              ExplainerAnswers, ExplainerFails, Explain, EmptyPlan
<1>10. CASE OntologyDeleted
  BY <1>10 DEF OntologyDeleted, EmptyPlan
<1>11. CASE UNCHANGED vars
  BY <1>11 DEF vars, EmptyPlan
<1> QED
  BY <1>2, <1>3, <1>4, <1>5, <1>6, <1>7, <1>8, <1>9, <1>10, <1>11
     DEF Next, Agent, Ended

LEMMA RefusalsAlways == Spec => [](Typed /\ Progress /\ Refusals)
BY InitTyped, StepTyped, InitProgress, StepProgress, InitRefusals,
   StepRefusals, PTL DEF Spec

\* A question is refused only before anything was executed for it, even if
\* the ontology is deleted while the agent works.
THEOREM RefusalsAreEarly == Spec => []RefusalBeforeQueries
<1>1. Refusals => RefusalBeforeQueries
  BY DEF Refusals
<1> QED
  BY <1>1, RefusalsAlways, PTL

\* The navigator runs again only for a plan without steps.
THEOREM RerunsAreEmpty == Spec => []NavigatorRerunsAreEmpty
<1>1. Refusals => NavigatorRerunsAreEmpty
  BY DEF Refusals
<1> QED
  BY <1>1, RefusalsAlways, PTL

-----------------------------------------------------------------------------
(* Answers.  Three roads lead to the explainer: a refusal, a conversation   *)
(* that skipped the pipeline, and a verification that was the last.         *)

Verified ==
    /\ verificationReport \in Reports
    /\ verificationReport.passed \/ revisionCount = MaxRevisions

Answers ==
    /\ next # "end" => explainerOutput = NULL
    /\ next = "planner" => stepResults = NULL
    /\ next \in {"navigator", "sql_builder", "executor", "verifier"} =>
         plan = NULL \/ plan.complexity # "conversational"
    /\ next \in {"executor", "verifier"} => plan # NULL
    /\ next = "explainer" =>
         /\ plan # NULL
         /\ \/ cannotAnswer
            \/ plan.complexity = "conversational" /\ stepResults = NULL
            \/ plan.complexity # "conversational" /\ Verified
    /\ VerifiedOrExhausted
    /\ FailureDisclosed

LEMMA InitAnswers == Init => Answers
BY DEF Init, Answers, VerifiedOrExhausted, FailureDisclosed

\* What the explainer writes satisfies both properties on every road.
LEMMA ExplainerAnswersWell ==
    ASSUME Typed, Answers, Explainer
    PROVE  Answers'
<1>1. next' = "end" /\ UNCHANGED <<plan, stepResults, verificationReport,
                                   revisionCount, cannotAnswer>>
  BY DEF Explainer, ExplainerRefuses, ExplainerConverses, ExplainerAnswers,
         ExplainerFails, Explain
<1>2. plan # NULL /\ next = "explainer"
  BY DEF Explainer, Answers
<1>3. CASE ExplainerRefuses
  BY <1>1, <1>3
     DEF ExplainerRefuses, Explain, Answers, VerifiedOrExhausted,
         FailureDisclosed
<1>4. CASE ExplainerConverses
  BY <1>1, <1>2, <1>4
     DEF ExplainerConverses, Explain, Answers, VerifiedOrExhausted,
         FailureDisclosed
<1>5. CASE ExplainerAnswers
  <2>1. Verified /\ explainerOutput' = [kind |-> "answer", caveats |-> Caveats]
    BY <1>2, <1>5 DEF ExplainerAnswers, Explain, Answers
  <2>2. VerifiedOrExhausted'
    BY <1>1, <2>1, NullAssumption DEF Verified, VerifiedOrExhausted
  <2>3. ASSUME Caveats = {}
        PROVE  /\ verificationReport.passed
               /\ \A i \in 1..Len(stepResults) : ~stepResults[i].error
    BY <2>3 DEF Caveats
  <2>4. FailureDisclosed'
    BY <1>1, <2>1, <2>3 DEF FailureDisclosed
  <2> QED
    BY <1>1, <2>2, <2>4 DEF Answers
<1>6. CASE ExplainerFails
  BY <1>1, <1>6
     DEF ExplainerFails, Explain, Answers, VerifiedOrExhausted,
         FailureDisclosed
<1> QED
  BY <1>3, <1>4, <1>5, <1>6 DEF Explainer

LEMMA StepAnswers ==
    Typed /\ Progress /\ Refusals /\ Answers /\ [Next]_vars => Answers'
<1> SUFFICES ASSUME Typed, Progress, Refusals, Answers, [Next]_vars
             PROVE  Answers'
  OBVIOUS
<1> USE DEF Answers, VerifiedOrExhausted, FailureDisclosed, Verified, outcome
<1>1. CASE Planner
  <2>1. PICK p \in PlanRecords \cup {NULL} : PlannerReturns(p)
    BY <1>1, PlannerReturnsPlan
  <2>2. /\ routeAfterPlanner(p) = "explainer" =>
             p # NULL /\ p.complexity = "conversational"
        /\ routeAfterPlanner(p) = "navigator" =>
             p = NULL \/ p.complexity # "conversational"
    BY DEF routeAfterPlanner
  <2> QED
    BY <2>1, <2>2, PlannerRoutes DEF PlannerReturns
<1>2. CASE Navigator
  <2>1. ~cannotAnswer /\ cannotAnswer \in BOOLEAN
    BY <1>2 DEF Navigator, Refusals, Typed, TypeOK
  <2>2. CASE NavigatorRefuses
    BY <1>2, <2>2
       DEF Navigator, NavigatorRefuses, Navigate, routeAfterNavigator
  <2>3. CASE NavigatorFinds \/ NavigatorFails
    <3>1. PICK joined : Navigate(joined, cannotAnswer)
      BY <2>3, NavigatorGoesOn
    <3> QED
      BY <1>2, <2>1, <3>1 DEF Navigator, Navigate, routeAfterNavigator
  <2> QED
    BY <1>2, <2>2, <2>3 DEF Navigator
<1>3. CASE SqlBuilder
  BY <1>3 DEF SqlBuilder
<1>4. CASE SqlBuilderThrows
  BY <1>4 DEF SqlBuilderThrows
<1>5. CASE ExecutorStep
  BY <1>5 DEF ExecutorStep
<1>6. CASE ExecutorReturns
  BY <1>6 DEF ExecutorReturns
<1>7. CASE Verifier
  <2>1. PICK passed \in BOOLEAN, target \in Targets, why \in Reasons :
          /\ Report(passed, target, why)
          /\ ~passed => target # "none"
          /\ target = "navigator" => querySpecs = {}
    BY <1>7, VerifierReports
  <2>2. next' = "explainer" => passed \/ revisionCount' = MaxRevisions
    <3>1. revisionCount < MaxRevisions /\ revisionCount \in Nat
          /\ MaxRevisions \in Nat
      BY <1>7, BoundsAssumption
         DEF Verifier, Progress, Upstream, Typed, TypeOK
    <3> QED
      BY <2>1, <3>1 DEF Report, Targets, routeAfterVerification
  <2>3. verificationReport' \in Reports /\ verificationReport'.passed = passed
    BY <2>1 DEF Report, Reports
  <2>4. next' \in {"navigator", "sql_builder", "explainer"}
    BY <2>1 DEF Report, Targets, routeAfterVerification
  <2> QED
    BY <1>7, <2>1, <2>2, <2>3, <2>4 DEF Verifier, Report
<1>8. CASE Explainer
  BY <1>8, ExplainerAnswersWell
<1>9. CASE OntologyDeleted
  BY <1>9 DEF OntologyDeleted
<1>10. CASE UNCHANGED vars
  BY <1>10 DEF vars
<1> QED
  BY <1>1, <1>2, <1>3, <1>4, <1>5, <1>6, <1>7, <1>8, <1>9, <1>10
     DEF Next, Agent, Ended

LEMMA AnswersAlways == Spec => []Answers
BY InitTyped, StepTyped, InitProgress, StepProgress, InitRefusals,
   StepRefusals, InitAnswers, StepAnswers, PTL DEF Spec

\* An answer rests on results the verifier let pass, or on the last revision.
THEOREM AnswersAreVerified == Spec => []VerifiedOrExhausted
<1>1. Answers => VerifiedOrExhausted
  BY DEF Answers
<1> QED
  BY <1>1, AnswersAlways, PTL

\* No failed verification and no failed step is passed over in silence.
THEOREM FailuresAreDisclosed == Spec => []FailureDisclosed
<1>1. Answers => FailureDisclosed
  BY DEF Answers
<1> QED
  BY <1>1, AnswersAlways, PTL
-----------------------------------------------------------------------------
(* Outcomes.  Only the planner ends the graph without the explainer, and   *)
(* only for a plan that asks; every other plan goes on to the explainer.   *)

Outcome ==
    /\ next \in Nodes \ {"planner"} => plan = NULL \/ ~Clarifies(plan)
    /\ OneOutcome

LEMMA InitOutcome == Init => Outcome
BY DEF Init, Outcome, OneOutcome, Nodes

\* The explainer always leaves an output.
LEMMA ExplainerLeavesOutput ==
    ASSUME Explainer
    PROVE  explainerOutput' # NULL /\ plan' = plan /\ next = "explainer"
<1>1. Caveats \subseteq {"reason", "verification", "assumption",
                         "step_error", "explainer_error"}
  BY DEF Caveats
<1>2. PICK kind \in {"refusal", "conversation", "answer", "error"},
           caveats \in SUBSET {"reason", "verification", "assumption",
                               "step_error", "explainer_error"} :
        Explain(kind, caveats)
  BY <1>1 DEF Explainer, ExplainerRefuses, ExplainerConverses,
              ExplainerAnswers, ExplainerFails
<1>3. explainerOutput' \in Outputs
  BY <1>2 DEF Explain, Outputs
<1> QED
  BY <1>2, <1>3, NullAssumption DEF Explain, Explainer

\* Out of rounds the planner's answer asks nothing any more.
LEMMA PlannerMinds ==
    ASSUME Typed, Planner, next' = "end", Clarifies(plan')
    PROVE  clarificationRound < MaxClarifications
<1>1. clarificationRound \in Nat /\ MaxClarifications \in Nat
  BY BoundsAssumption DEF Typed, TypeOK
<1>2. ASSUME clarificationRound >= MaxClarifications PROVE FALSE
  <2>1. ASSUME NEW p \in Plans, PlannerReturns(Backstop(p)) PROVE FALSE
    <3>1. plan' = Backstop(p) /\ p \in PlanRecords
      BY <2>1, PlansAssumption DEF PlannerReturns
    <3>2. ~Backstop(p).asks
      BY <1>2, <3>1 DEF Backstop, PlanRecords
    <3> QED
      BY <3>1, <3>2 DEF Clarifies
  <2>2. ASSUME PlannerReturns(FallbackPlan) PROVE FALSE
    BY <2>2 DEF PlannerReturns, FallbackPlan, Clarifies
  <2> QED
    BY <1>2, <2>1, <2>2 DEF Planner, PlannerPlans, PlannerFails, PlannerUnparsed
<1> QED
  BY <1>1, <1>2

LEMMA StepOutcome ==
    Typed /\ Answers /\ Outcome /\ [Next]_vars => Outcome'
<1> SUFFICES ASSUME Typed, Answers, Outcome, [Next]_vars PROVE Outcome'
  OBVIOUS
<1> USE DEF Outcome, OneOutcome, Nodes, outcome, inputs
<1>1. CASE Planner
  <2>1. PICK p \in PlanRecords \cup {NULL} : PlannerReturns(p)
    BY <1>1, PlannerReturnsPlan
  <2>2. /\ routeAfterPlanner(p) = "end" => Clarifies(p)
        /\ routeAfterPlanner(p) # "end" => p = NULL \/ ~Clarifies(p)
    BY DEF routeAfterPlanner
  <2>3. /\ plan' = p /\ next' = routeAfterPlanner(p)
        /\ explainerOutput' = NULL
    BY <2>1 DEF PlannerReturns, Answers
  <2>4. Clarifies(plan)' <=> Clarifies(p)
    BY <2>3 DEF Clarifies
  <2>5. next' = "end" /\ Clarifies(plan') => clarificationRound < MaxClarifications
    BY <1>1, PlannerMinds
  <2>6. clarificationRound' = clarificationRound
    BY <2>1 DEF PlannerReturns
  <2> QED
    BY <2>2, <2>3, <2>4, <2>5, <2>6, PlannerRoutes
<1>2. CASE Explainer
  <2>1. next' = "end" /\ plan' = plan /\ explainerOutput' # NULL
    BY <1>2, ExplainerLeavesOutput
       DEF Explainer, ExplainerRefuses, ExplainerConverses, ExplainerAnswers,
           ExplainerFails, Explain
  <2>2. ~Clarifies(plan)
    BY <1>2 DEF Explainer, Answers
  <2>3. Clarifies(plan)' <=> Clarifies(plan)
    BY <2>1 DEF Clarifies
  <2> QED
    BY <2>1, <2>2, <2>3
<1>3. ASSUME Navigator \/ SqlBuilder \/ SqlBuilderThrows \/ ExecutorStep
             \/ ExecutorReturns \/ Verifier \/ OntologyDeleted
      PROVE  Outcome'
  <2>1. /\ plan' = plan /\ explainerOutput' = explainerOutput
        /\ next \in Nodes /\ clarificationRound' = clarificationRound
        /\ next' = next \/ (next # "planner" /\ next' # "end")
    <3>1. CASE Verifier
      <4>1. PICK passed \in BOOLEAN, target \in Targets, why \in Reasons :
              /\ Report(passed, target, why)
              /\ ~passed => target # "none"
              /\ target = "navigator" => querySpecs = {}
        BY <3>1, VerifierReports
      <4> QED
        BY <3>1, <4>1 DEF Verifier, Report, Targets, routeAfterVerification
    <3>2. CASE Navigator
      BY <3>2 DEF Navigator, NavigatorRefuses, NavigatorFinds, NavigatorFails,
                  Navigate, routeAfterNavigator
    <3> QED
      BY <1>3, <3>1, <3>2
         DEF SqlBuilder, SqlBuilderThrows, ExecutorStep, ExecutorReturns,
             OntologyDeleted
  <2>2. Clarifies(plan)' <=> Clarifies(plan)
    BY <2>1 DEF Clarifies
  <2> QED
    BY <2>1, <2>2
<1>4. CASE UNCHANGED vars
  <2>1. UNCHANGED <<next, plan, explainerOutput, clarificationRound>>
    BY <1>4 DEF vars
  <2> QED
    BY <2>1 DEF Clarifies
<1> QED
  BY <1>1, <1>2, <1>3, <1>4 DEF Next, Agent, Ended

\* A question ends in a clarification or in an output, whichever nodes fail
\* and whatever the planner's LLM sets on its plan, and in a clarification only
\* while rounds are left: what DataAgentChat's GraphEnds rests on.
THEOREM OneOutcomeAlways == Spec => []OneOutcome
<1>1. Outcome => OneOutcome
  BY DEF Outcome
<1> QED
  BY <1>1, InitTyped, StepTyped, AnswersAlways, InitOutcome, StepOutcome, PTL
     DEF Spec

-----------------------------------------------------------------------------
(* What the nodes read *)

Filled ==
    /\ InputsReady
    /\ IF next = "executor" THEN Len(executed) <= Len(plan.steps)
                            ELSE executed = <<>>

LEMMA InitFilled == Init => Filled
BY DEF Init, Filled, InputsReady

LEMMA StepFilled ==
    Typed /\ Refusals /\ Answers /\ Filled /\ [Next]_vars => Filled'
<1> SUFFICES ASSUME Typed, Refusals, Answers, Filled, [Next]_vars PROVE Filled'
  OBVIOUS
<1> USE DEF Filled, InputsReady, inputs, outcome
<1>1. CASE Planner
  <2>1. PICK p \in PlanRecords \cup {NULL} : PlannerReturns(p)
    BY <1>1, PlannerReturnsPlan
  <2>2. routeAfterPlanner(p) = "explainer" => p # NULL /\ p.complexity = "conversational"
    BY DEF routeAfterPlanner
  <2> QED
    BY <2>1, <2>2, PlannerRoutes DEF PlannerReturns
<1>2. CASE Navigator
  <2>1. PICK joined \in JoinPlans, refused \in BOOLEAN :
          /\ Navigate(joined, refused)
          /\ refused => cannotAnswer \/ plan # NULL
    BY <1>2, NavigatorJoins
  <2> QED
    BY <1>2, <2>1, NullAssumption
       DEF Navigator, Navigate, routeAfterNavigator, Refusals
<1>3. CASE SqlBuilder
  <2>1. Len(plan.steps) \in Nat /\ plan \in PlanRecords /\ Len(plan.steps) <= MaxSteps
    BY <1>3 DEF SqlBuilder, Typed, PlanFits, PlanRecords
  <2>2. querySpecs' \in SUBSET StepIds
    BY <1>3, <2>1, PlansAssumption DEF SqlBuilder, StepIds
  <2>3. Len(executed) = 0
    BY <1>3 DEF SqlBuilder
  <2> QED
    BY <1>3, <2>1, <2>2, <2>3, NullAssumption DEF SqlBuilder
<1>4. CASE SqlBuilderThrows
  BY <1>4 DEF SqlBuilderThrows
<1>5. CASE ExecutorStep
  <2>1. PICK result \in StepResults : executed' = Append(executed, result)
    BY <1>5, StepResultType DEF ExecutorStep
  <2>2. executed \in Seq(StepResults) /\ Len(executed') = Len(executed) + 1
    BY <2>1 DEF Typed, TypeOK
  <2>3. plan # NULL /\ plan \in PlanRecords /\ Len(plan.steps) \in Nat
    BY <1>5 DEF ExecutorStep, Typed, PlanFits, PlanRecords
  <2> QED
    BY <1>5, <2>2, <2>3 DEF ExecutorStep
<1>6. CASE ExecutorReturns
  <2>1. executed \in Seq(StepResults)
    BY DEF Typed, TypeOK
  <2> QED
    BY <1>6, <2>1, NullAssumption DEF ExecutorReturns
<1>7. CASE Verifier
  <2>1. PICK passed \in BOOLEAN, target \in Targets, why \in Reasons :
          /\ Report(passed, target, why)
          /\ ~passed => target # "none"
          /\ target = "navigator" => querySpecs = {}
    BY <1>7, VerifierReports
  <2>2. next' \in {"navigator", "sql_builder", "explainer"}
    BY <2>1 DEF Report, Targets, routeAfterVerification
  <2> QED
    BY <1>7, <2>1, <2>2 DEF Verifier, Report
<1>8. CASE Explainer
  BY <1>8 DEF Explainer, ExplainerRefuses, ExplainerConverses, ExplainerAnswers,
              ExplainerFails, Explain
<1>9. CASE OntologyDeleted
  BY <1>9 DEF OntologyDeleted
<1>10. CASE UNCHANGED vars
  BY <1>10 DEF vars
<1> QED
  BY <1>1, <1>2, <1>3, <1>4, <1>5, <1>6, <1>7, <1>8, <1>9, <1>10
     DEF Next, Agent, Ended

LEMMA FilledAlways == Spec => [](Typed /\ Progress /\ Filled)
BY InitTyped, StepTyped, InitProgress, StepProgress, InitRefusals, StepRefusals,
   InitAnswers, StepAnswers, InitFilled, StepFilled, PTL DEF Spec

\* The non-null assertions of the nodes hold, but for the plan at the navigator
\* and the SQL builder, and no step's result is missing or left from before.
THEOREM NodesFindTheirInputs == Spec => []InputsReady
<1>1. Filled => InputsReady
  BY DEF Filled
<1> QED
  BY <1>1, FilledAlways, PTL

-----------------------------------------------------------------------------
(* The way to the end *)

LEMMA AgentCounts ==
    ASSUME Typed, Filled, Agent
    PROVE  \/ TotalVisits' = TotalVisits + 1
           \/ TotalVisits' = TotalVisits /\ Len(executed') = Len(executed) + 1
<1>1. visits \in [Nodes -> Nat]
  BY DEF Typed, TypeOK
<1>2. ASSUME NEW n \in Nodes, Visit(n) PROVE TotalVisits' = TotalVisits + 1
  BY <1>1, <1>2 DEF Visit, Nodes, TotalVisits
<1>3. CASE ExecutorStep
  <2>1. PICK result \in StepResults : executed' = Append(executed, result)
    BY <1>3, StepResultType DEF ExecutorStep
  <2>2. Len(executed') = Len(executed) + 1
    BY <2>1 DEF Typed, TypeOK
  <2> QED
    BY <1>3, <2>2 DEF ExecutorStep, TotalVisits
<1>4. CASE ~ExecutorStep
  <2>1. \E n \in Nodes : Visit(n)
    BY <1>4
    DEF Agent, Planner, PlannerPlans, PlannerFails, PlannerUnparsed, PlannerReturns,
        Navigator, NavigatorRefuses, NavigatorFinds, NavigatorFails, Navigate,
        SqlBuilder, SqlBuilderThrows, ExecutorReturns, Verifier, VerifierBypasses,
        VerifierFindsNothing, VerifierChecks, VerifierCannotCheck, Report, Explainer,
        ExplainerRefuses, ExplainerConverses, ExplainerAnswers, ExplainerFails, Explain,
        Nodes
  <2> QED
    BY <1>2, <2>1
<1> QED
  BY <1>3, <1>4

\* However the nodes answer, a question takes boundedly many steps: there are at
\* most 2 + 4 * MaxRevisions visits and MaxSteps plan steps in each, and every
\* step of the agent is one of them.  That the agent takes its next step is
\* what fairness adds.
THEOREM QuestionsAreFinite == Spec => []StepsAreCounted /\ NearerTheEnd
<1>1. Typed /\ Progress /\ Filled => StepsAreCounted
  <2> SUFFICES ASSUME Typed, Progress, Filled PROVE StepsAreCounted
    OBVIOUS
  <2>1. TotalVisits <= 2 + 4 * MaxRevisions
    <3>1. /\ visits \in [Nodes -> Nat]
          /\ revisionCount \in Nat
          /\ MaxRevisions \in Nat \ {0}
          /\ next \in Nodes \cup {"end", "rejected"}
      BY BoundsAssumption DEF Typed, TypeOK
    <3> QED
      BY <3>1 DEF Nodes, Progress, Upstream, Behind, TotalVisits
  <2>2. Len(executed) <= MaxSteps
    <3>1. CASE next = "executor"
      <4>1. plan # NULL /\ plan \in PlanRecords /\ Len(plan.steps) <= MaxSteps
        BY <3>1 DEF Filled, InputsReady, Typed, PlanFits
      <4>2. /\ Len(plan.steps) \in Nat /\ Len(executed) \in Nat
            /\ Len(executed) <= Len(plan.steps) /\ MaxSteps \in Nat
        BY <3>1, <4>1, PlansAssumption DEF Filled, Typed, TypeOK, PlanRecords
      <4> QED
        BY <4>1, <4>2
    <3>2. CASE next # "executor"
      BY <3>2, PlansAssumption DEF Filled
    <3> QED
      BY <3>1, <3>2
  <2> QED
    BY <2>1, <2>2 DEF StepsAreCounted
<1>2. Typed /\ Filled /\ [Next]_vars
      => [Agent => \/ TotalVisits' = TotalVisits + 1
                   \/ TotalVisits' = TotalVisits
                      /\ Len(executed') = Len(executed) + 1]_vars
  BY AgentCounts
<1> QED
  BY <1>1, <1>2, FilledAlways, PTL DEF Spec, NearerTheEnd
=============================================================================
