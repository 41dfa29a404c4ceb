--------------------------- MODULE DataAgentGraph ----------------------------
(***************************************************************************)
(* The data agent's LangGraph: planner, navigator, SQL builder, executor,  *)
(* verifier and explainer, their shared state (every reducer keeps the     *)
(* last write) and the three conditional routes between them.              *)
(*                                                                         *)
(* A step is one node, except in the executor, whose plan steps run one    *)
(* after the other with a database, an LLM or a sandbox answering each.    *)
(* What an LLM, Neo4j, the database or the sandbox answers is a choice.    *)
(* The agent works on a catalog it does not own: the ontology may be       *)
(* deleted under a question that is being answered.                        *)
(***************************************************************************)
EXTENDS Naturals, Sequences, FiniteSets

CONSTANTS
    NULL,                   \* JavaScript's null
    Datasets,               \* the names a plan or the ontology may mention
    Plans,                  \* the plans the planner's LLM may return
    RelevantDatasets,       \* what the vector search found for the question
    MaxSteps,               \* the longest plan, a bound
    MaxRevisions,           \* failed verifications before giving up (3)
    MaxClarifications,      \* clarification rounds before proceeding (3)
    RecursionLimit          \* LangGraph's limit on the nodes of one run (25)

Strategies == {"sql", "python", "sql_then_python"}

StepIds == 1..MaxSteps

\* PlanStepSchema.  A step's id is its position; chart stands for chartType.
Steps == [strategy: Strategies, chart: BOOLEAN,
          datasets: SUBSET Datasets, dependsOn: SUBSET StepIds]

\* PlanArtifactSchema: asks is shouldClarify, questions and ambiguous say
\* whether the two lists of that kind have an element.
PlanRecords == [complexity: {"simple", "analytical", "conversational"},
                asks: BOOLEAN, questions: BOOLEAN, ambiguous: BOOLEAN,
                steps: Seq(Steps)]

\* What a step leaves behind, VerificationReport and ExplainerOutput.
StepResults == [sql: BOOLEAN, python: BOOLEAN, error: BOOLEAN]

Targets == {"navigator", "sql_builder", "none"}

Reasons == {"bypass", "no_results", "checked", "no_code", "unparsed", "threw"}

Reports == [passed: BOOLEAN, target: Targets, why: Reasons]

Outputs == [kind: {"refusal", "conversation", "answer", "error"},
            caveats: SUBSET {"reason", "verification", "assumption",
                             "step_error", "explainer_error"}]

\* JoinPlan: joins says whether it has a join path.
JoinPlans == [datasets: SUBSET Datasets, joins: BOOLEAN]

ASSUME NullAssumption ==
    /\ NULL \notin PlanRecords \cup Reports \cup Outputs \cup JoinPlans
    /\ \A S \in SUBSET StepIds : S # NULL
    /\ NULL \notin Seq(StepResults)

ASSUME PlansAssumption ==
    /\ RelevantDatasets \subseteq Datasets
    /\ MaxSteps \in Nat \ {0}
    /\ \A p \in Plans : p \in PlanRecords /\ Len(p.steps) <= MaxSteps

ASSUME BoundsAssumption ==
    /\ MaxRevisions \in Nat \ {0}
    /\ MaxClarifications \in Nat
    /\ RecursionLimit \in Nat
    /\ RecursionLimit >= 2 + 4 * MaxRevisions

VARIABLES
    next,               \* the node LangGraph runs next, "end" when it has
                        \* answered, "rejected" when a node threw
    clarificationRound, \* clarifications already asked in this chat
    catalog,            \* the ontology's datasets, in Neo4j
    plan, joinPlan, querySpecs,
    executed,           \* the executor's list of step results under way
    stepResults,        \* the list it returned
    verificationReport, cannotAnswer, revisionCount, explainerOutput,
    visits              \* how often each node ran (a history variable)

inputs == <<clarificationRound, catalog>>
outcome == <<verificationReport, cannotAnswer, revisionCount, explainerOutput>>
vars == <<next, inputs, plan, joinPlan, querySpecs, executed, stepResults,
          outcome, visits>>

Nodes == {"planner", "navigator", "sql_builder", "executor", "verifier",
          "explainer"}

Visit(n) == visits' = [visits EXCEPT ![n] = @ + 1]

Init ==
    /\ next = "planner"
    /\ clarificationRound \in 0..MaxClarifications + 1
    /\ catalog \in SUBSET Datasets
    /\ plan = NULL
    /\ joinPlan = NULL
    /\ querySpecs = NULL
    /\ executed = <<>>
    /\ stepResults = NULL
    /\ verificationReport = NULL
    /\ cannotAnswer = FALSE
    /\ revisionCount = 0
    /\ explainerOutput = NULL
    /\ visits = [n \in Nodes |-> 0]

-----------------------------------------------------------------------------
(* Planner *)

\* The planner's own plan when the LLM fails or returns nothing parseable.
FallbackPlan ==
    [complexity |-> "simple", asks |-> FALSE, questions |-> FALSE,
     ambiguous |-> FALSE,
     steps |-> <<[strategy |-> "sql", chart |-> FALSE,
                  datasets |-> RelevantDatasets, dependsOn |-> {}]>>]

\* Out of clarification rounds: the questions become stated assumptions.
Backstop(p) ==
    IF clarificationRound >= MaxClarifications /\ p.asks
    THEN [p EXCEPT !.asks = FALSE, !.questions = FALSE,
                   !.ambiguous = @ \/ p.questions]
    ELSE p

Clarifies(p) == p.asks /\ p.questions

\* Fault: asks without looking whether there is anything to ask.
routeOnAsks(p) ==
    IF p = NULL THEN "navigator"
    ELSE IF p.asks THEN "end"
    ELSE IF p.complexity = "conversational" THEN "explainer"
    ELSE "navigator"

routeAfterPlanner(p) ==
    IF p = NULL THEN "navigator"
    ELSE IF Clarifies(p) THEN "end"
    ELSE IF p.complexity = "conversational" THEN "explainer"
    ELSE "navigator"

PlannerReturns(p) ==
    /\ next = "planner"
    /\ plan' = p
    /\ next' = routeAfterPlanner(p)
    /\ Visit("planner")
    /\ UNCHANGED <<inputs, joinPlan, querySpecs, executed, stepResults,
                   outcome>>

PlannerPlans == \E p \in Plans : PlannerReturns(Backstop(p))

\* The LLM call threw.
PlannerFails == PlannerReturns(FallbackPlan)

\* The structured output could not be parsed: parsed is null.  Nothing looks
\* into it until the rounds are used up; only then does that throw.
PlannerUnparsed ==
    IF clarificationRound >= MaxClarifications
    THEN PlannerReturns(FallbackPlan)
    ELSE PlannerReturns(NULL)

Planner == PlannerPlans \/ PlannerFails \/ PlannerUnparsed

-----------------------------------------------------------------------------
(* Navigator *)

PlanDatasets == UNION {plan.steps[i].datasets : i \in 1..Len(plan.steps)}

EmptyJoinPlan == [datasets |-> {}, joins |-> FALSE]

routeAfterNavigator(refused) == IF refused THEN "explainer" ELSE "sql_builder"

Navigate(joined, refused) ==
    /\ joinPlan' = joined
    /\ cannotAnswer' = refused
    /\ next' = routeAfterNavigator(refused)
    /\ Visit("navigator")
    /\ UNCHANGED <<inputs, plan, querySpecs, executed, stepResults,
                   verificationReport, revisionCount, explainerOutput>>

\* None of the plan's datasets is in the ontology.
NavigatorRefuses ==
    /\ plan # NULL
    /\ PlanDatasets # {}
    /\ PlanDatasets \cap catalog = {}
    /\ Navigate(EmptyJoinPlan, TRUE)

\* Some are (or the plan names none); relationships may touch them.
NavigatorFinds ==
    /\ plan # NULL
    /\ PlanDatasets = {} \/ PlanDatasets \cap catalog # {}
    /\ \E joins \in IF PlanDatasets = {} THEN {FALSE} ELSE BOOLEAN :
         Navigate([datasets |-> PlanDatasets \cap catalog, joins |-> joins],
                  cannotAnswer)

\* An LLM or Neo4j call threw, or there is no plan to read: the pipeline goes
\* on without a join plan.
NavigatorFails == Navigate(EmptyJoinPlan, cannotAnswer)

Navigator ==
    /\ next = "navigator"
    /\ NavigatorRefuses \/ NavigatorFinds \/ NavigatorFails

-----------------------------------------------------------------------------
(* SQL builder *)

\* The LLM's queries are for any steps, also for steps that do not exist; none
\* at all, or an error, and every step of the plan gets a plain SELECT.
SqlBuilder ==
    /\ next = "sql_builder"
    /\ plan # NULL
    /\ \E specs \in SUBSET StepIds :
         querySpecs' = IF specs = {} THEN 1..Len(plan.steps) ELSE specs
    /\ next' = "executor"
    /\ Visit("sql_builder")
    /\ UNCHANGED <<inputs, plan, joinPlan, executed, stepResults, outcome>>

\* Without a plan the node throws, and so does the catch that would build the
\* fallback queries: graph.invoke rejects.
SqlBuilderThrows ==
    /\ next = "sql_builder"
    /\ plan = NULL
    /\ next' = "rejected"
    /\ Visit("sql_builder")
    /\ UNCHANGED <<inputs, plan, joinPlan, querySpecs, executed, stepResults,
                   outcome>>

-----------------------------------------------------------------------------
(* Executor.  Each part of a step has its own catch, so the node's outer one *)
(* has nothing left to catch.                                                *)

\* What a step leaves behind, given what its query, chart and code came to.
StepResult(id, sqlOk, chartOk, python) ==
    LET step == plan.steps[id]
        usesSql == step.strategy # "python"
        sql == usesSql /\ id \in querySpecs /\ sqlOk
        charts == step.chart
                  /\ (sql \/ \E d \in step.dependsOn : d < id)
        usesPython == step.strategy # "sql" /\ ~step.chart
    IN  [sql |-> sql,
         python |-> usesPython /\ python = "ran",
         error |-> \/ usesSql /\ ~sql
                   \/ charts /\ ~chartOk
                   \/ usesPython /\ python = "threw"]

ExecutorStep ==
    /\ next = "executor"
    /\ Len(executed) < Len(plan.steps)
    /\ \E sqlOk, chartOk \in BOOLEAN, python \in {"ran", "no_code", "threw"} :
         executed' = Append(executed,
                            StepResult(Len(executed) + 1, sqlOk, chartOk, python))
    /\ UNCHANGED <<next, inputs, plan, joinPlan, querySpecs, stepResults,
                   outcome, visits>>

\* Fault: the executor waits for a first result.
ExecutorAwaitsResult ==
    /\ next = "executor"
    /\ Len(executed) = Len(plan.steps)
    /\ executed # <<>>
    /\ stepResults' = executed
    /\ executed' = <<>>
    /\ next' = "verifier"
    /\ Visit("executor")
    /\ UNCHANGED <<inputs, plan, joinPlan, querySpecs, outcome>>

ExecutorReturns ==
    /\ next = "executor"
    /\ Len(executed) = Len(plan.steps)
    /\ stepResults' = executed
    /\ executed' = <<>>
    /\ next' = "verifier"
    /\ Visit("executor")
    /\ UNCHANGED <<inputs, plan, joinPlan, querySpecs, outcome>>

-----------------------------------------------------------------------------
(* Verifier *)

\* Verification is skipped: a simple plan without joins, or with one step on
\* at most two datasets.
Bypasses ==
    /\ plan.complexity = "simple"
    /\ \/ ~joinPlan.joins
       \/ Len(plan.steps) = 1 /\ Cardinality(plan.steps[1].datasets) <= 2

HasResults ==
    \E i \in 1..Len(stepResults) : stepResults[i].sql \/ stepResults[i].python

\* Fault: the target is followed before the report is looked at.
routeWithoutPass(report, failures) ==
    IF failures >= MaxRevisions THEN "explainer" ELSE report.target

\* Fault: one failed verification too few.
routeOneLess(report, failures) ==
    IF report.passed \/ failures + 1 >= MaxRevisions THEN "explainer"
    ELSE report.target

\* Fault: twice the limit, the recursion limit left alone.
routeTwice(report, failures) ==
    IF report.passed \/ failures >= 2 * MaxRevisions THEN "explainer"
    ELSE report.target

routeAfterVerification(report, failures) ==
    IF report.passed THEN "explainer"
    ELSE IF failures >= MaxRevisions THEN "explainer"
    ELSE report.target

\* Every return of the node: a failing report counts a revision.
Report(passed, target, why) ==
    LET report == [passed |-> passed, target |-> target, why |-> why]
        failures == IF passed THEN revisionCount ELSE revisionCount + 1
    IN  /\ verificationReport' = report
        /\ revisionCount' = failures
        /\ next' = routeAfterVerification(report, failures)
        /\ Visit("verifier")
        /\ UNCHANGED <<inputs, plan, joinPlan, querySpecs, executed,
                       stepResults, cannotAnswer, explainerOutput>>

VerifierBypasses == Bypasses /\ Report(TRUE, "none", "bypass")

\* Fault: every empty result sends the work back to the navigator.
NothingToNavigator ==
    /\ ~Bypasses
    /\ ~HasResults
    /\ Report(FALSE, "navigator", "no_results")

VerifierFindsNothing ==
    /\ ~Bypasses
    /\ ~HasResults
    /\ Report(FALSE, IF querySpecs = {} THEN "navigator" ELSE "sql_builder",
              "no_results")

\* The generated checks ran in the sandbox and printed their verdict.
VerifierChecks ==
    /\ ~Bypasses
    /\ HasResults
    /\ \/ Report(TRUE, "none", "checked")
       \/ Report(FALSE, "sql_builder", "checked")

\* No code, an unreadable verdict, or an LLM or sandbox that threw: a pass.
VerifierCannotCheck ==
    /\ ~Bypasses
    /\ HasResults
    /\ \E why \in {"no_code", "unparsed", "threw"} : Report(TRUE, "none", why)

Verifier ==
    /\ next = "verifier"
    /\ VerifierBypasses \/ VerifierFindsNothing \/ VerifierChecks
       \/ VerifierCannotCheck

-----------------------------------------------------------------------------
(* Explainer *)

Explain(kind, caveats) ==
    /\ explainerOutput' = [kind |-> kind, caveats |-> caveats]
    /\ next' = "end"
    /\ Visit("explainer")
    /\ UNCHANGED <<inputs, plan, joinPlan, querySpecs, executed, stepResults,
                   verificationReport, cannotAnswer, revisionCount>>

ExplainerRefuses == cannotAnswer /\ Explain("refusal", {"reason"})

ExplainerConverses ==
    /\ ~cannotAnswer
    /\ plan.complexity = "conversational"
    /\ Explain("conversation", {})

\* Fault: a failed report adds no caveat.
StepCaveats ==
    {c \in {"step_error", "assumption"} :
        \/ c = "step_error" /\ \E i \in 1..Len(stepResults) :
                                  stepResults[i].error
        \/ c = "assumption" /\ plan.ambiguous}

Caveats ==
    {c \in {"verification", "assumption", "step_error"} :
        \/ c = "verification" /\ ~verificationReport.passed
        \/ c = "assumption" /\ plan.ambiguous
        \/ c = "step_error" /\ \E i \in 1..Len(stepResults) :
                                  stepResults[i].error}

ExplainerAnswers ==
    /\ ~cannotAnswer
    /\ plan.complexity # "conversational"
    /\ Explain("answer", Caveats)

\* The LLM threw while writing a conversation or an answer.
ExplainerFails == ~cannotAnswer /\ Explain("error", {"explainer_error"})

Explainer ==
    /\ next = "explainer"
    /\ ExplainerRefuses \/ ExplainerConverses \/ ExplainerAnswers
       \/ ExplainerFails

-----------------------------------------------------------------------------

\* Someone deletes the ontology: its nodes leave Neo4j.
OntologyDeleted ==
    /\ next \in Nodes
    /\ catalog # {}
    /\ catalog' = {}
    /\ UNCHANGED <<next, clarificationRound, plan, joinPlan, querySpecs,
                   executed, stepResults, outcome, visits>>

\* graph.invoke has returned or thrown.
Ended == next \in {"end", "rejected"} /\ UNCHANGED vars

Agent == Planner \/ Navigator \/ SqlBuilder \/ SqlBuilderThrows
         \/ ExecutorStep \/ ExecutorReturns \/ Verifier \/ Explainer

Next == Agent \/ OntologyDeleted \/ Ended

\* LangGraph runs the next node; every awaited call answers or throws.
Spec == Init /\ [][Next]_vars /\ WF_vars(Agent)

-----------------------------------------------------------------------------
(* Properties *)

\* Every channel of the graph's state holds what its TypeScript type says.
TypeOK ==
    /\ next \in Nodes \cup {"end", "rejected"}
    /\ clarificationRound \in 0..MaxClarifications + 1
    /\ catalog \subseteq Datasets
    /\ plan \in PlanRecords \cup {NULL}
    /\ joinPlan \in JoinPlans \cup {NULL}
    /\ querySpecs \in (SUBSET StepIds) \cup {NULL}
    /\ executed \in Seq(StepResults)
    /\ stepResults \in Seq(StepResults) \cup {NULL}
    /\ verificationReport \in Reports \cup {NULL}
    /\ cannotAnswer \in BOOLEAN
    /\ revisionCount \in Nat
    /\ explainerOutput \in Outputs \cup {NULL}
    /\ visits \in [Nodes -> Nat]

\* A question costs at most MaxRevisions passes over the user's database, and
\* the count recorded with the answer never exceeds the limit, whichever node
\* the verifier sends the work back to.
RevisionBound ==
    /\ revisionCount <= MaxRevisions
    /\ visits["executor"] <= MaxRevisions

TotalVisits == visits["planner"] + visits["navigator"] + visits["sql_builder"]
               + visits["executor"] + visits["verifier"] + visits["explainer"]

\* graph.invoke sets no recursionLimit: the longest revision loop must fit in
\* LangGraph's own, or a question would fail instead of ending with caveats.
WithinRecursionLimit == TotalVisits <= RecursionLimit

\* "I cannot answer this" is said only when nothing was ever executed: no
\* later visit to the navigator can refuse a question whose queries ran, even
\* if the ontology is deleted meanwhile.
RefusalBeforeQueries == cannotAnswer => visits["executor"] = 0

\* An answer is written from results the verifier let pass, or after every
\* revision was used up; no route reaches the explainer in between.
VerifiedOrExhausted ==
    (explainerOutput # NULL /\ explainerOutput.kind = "answer") =>
        /\ verificationReport # NULL
        /\ verificationReport.passed \/ revisionCount = MaxRevisions

\* A user is told: an output built over a failed verification or over a step
\* that failed, in the last execution, carries a caveat.
FailureDisclosed ==
    (explainerOutput # NULL /\ stepResults # NULL) =>
        \/ explainerOutput.caveats # {}
        \/ /\ verificationReport.passed
           /\ \A i \in 1..Len(stepResults) : ~stepResults[i].error

\* What the navigator is asked to revise: only plans without a single step.
\* Every failure of a plan with steps goes to the SQL builder, so a wrong join
\* path is never looked for again.
NavigatorRerunsAreEmpty ==
    visits["navigator"] > 1 => plan # NULL /\ plan.steps = <<>>

\* What a chat takes for granted when graph.invoke returns: the graph ends in a
\* clarification or an output, never in both, and in a clarification only
\* while the chat has rounds left.
OneOutcome ==
    next = "end" =>
        /\ Clarifies(plan) <=> explainerOutput = NULL
        /\ Clarifies(plan) => clarificationRound < MaxClarifications

\* The nodes take channels for written that TypeScript only knows to be
\* nullable (state.plan!, state.joinPlan!): past the SQL builder they are, and
\* verifier and explainer see one result for each step of the plan, those of
\* the last execution.
InputsReady ==
    /\ next = "sql_builder" => joinPlan # NULL
    /\ next \in {"executor", "verifier"} =>
         plan # NULL /\ joinPlan # NULL /\ querySpecs # NULL
    /\ next = "explainer" => plan # NULL
    /\ next = "verifier"
       \/ (next = "explainer" /\ ~cannotAnswer /\ plan.complexity # "conversational")
       => stepResults # NULL /\ Len(stepResults) = Len(plan.steps)

\* Each step of the agent is a visit to a node, of which there are few, or one
\* more step of a plan, which visits none: what is left to do only shrinks.
StepsAreCounted ==
    /\ TotalVisits <= 2 + 4 * MaxRevisions
    /\ Len(executed) <= MaxSteps

NearerTheEnd ==
    [][Agent => \/ TotalVisits' = TotalVisits + 1
                \/ TotalVisits' = TotalVisits /\ Len(executed') = Len(executed) + 1]_vars

\* The revision loop ends: every question reaches an end.
Terminates == <>(next \in {"end", "rejected"})

\* planner.node.ts says a null response.parsed triggers the fallback plan: the
\* phases after the planner would then always have a plan.
UnparsedPlanFallsBack == next \notin {"planner", "rejected"} => plan # NULL
=============================================================================
