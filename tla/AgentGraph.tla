----------------------------- MODULE AgentGraph -----------------------------
(***************************************************************************)
(* The agent graph of one run (engine/graph.py): its nodes, what each      *)
(* writes to the AgentState the routers read (engine/nodes), and the       *)
(* routers (engine/routing.py).  The language model, the sandbox and the   *)
(* metrics are nondeterministic; a plan is one of Plans.                   *)
(*                                                                         *)
(* A step of the graph is a node with the router after it: the checkpoint  *)
(* is written after both, so a node whose router raises has done nothing,  *)
(* and a resumed run starts with the node it was in.  A second dispatch of *)
(* the run enters at `init` with the channels of the first.                *)
(***************************************************************************)
EXTENDS Integers, Sequences

CONSTANTS
    Plans,          \* the plans the planner may produce
    NoPlan,         \* the plan channel before the first
    MaxDebug,       \* Budgets.max_debug_iterations
    MaxReplans,     \* Budgets.max_replans
    MaxVisits,      \* Budgets.max_node_visits
    MaxExecs,       \* Budgets.max_sandbox_executions
    MaxRounds,      \* RESEARCH_MAX_ROUNDS
    Window,         \* STAGNATION_WINDOW
    MaxDispatches   \* dispatches of the run (the model's bound)

StepKinds == {"research", "implement", "train", "evaluate", "report"}
Executable == {"implement", "train"}

\* A step and the earlier steps it depends on (Plan.acyclic_and_ordered).
IsPlan(p) ==
    /\ p.steps \in Seq([kind : StepKinds, after : SUBSET Nat])
    /\ \A i \in 1..Len(p.steps) : p.steps[i].after \subseteq 1..(i - 1)
    /\ p.required \in BOOLEAN    \* some success criterion is required

ASSUME PlansAssumption == NoPlan \notin Plans /\ \A p \in Plans : IsPlan(p)
ASSUME BudgetsAssumption ==
    /\ MaxDebug \in Nat /\ MaxReplans \in Nat /\ MaxExecs \in Nat
    /\ MaxRounds \in Nat
    /\ MaxVisits \in Nat \ {0} /\ Window \in Nat \ {0}
    /\ MaxDispatches \in Nat \ {0}

VARIABLES
    state,      \* AgentState: the channels the routers read
    node,       \* the node that runs next
    raised,     \* the invocation of the graph ended with an exception
    dispatches, \* invocations of the graph that entered at `init`
    kept        \* history: a planner failed and an old plan stayed in place

vars == <<state, node, raised, dispatches, kept>>

Nodes ==
    {"init", "planner", "researcher", "coder", "sandbox_exec", "debugger",
     "mlops", "evaluator", "reporter", "finalizer", "end"}

\* The metrics of the last execution against the plan's required criteria:
\* no metrics.json, a criterion's metric absent from it, a gap above or below
\* REFINE_GAP_CEILING, all met.
Measures == {"no_metrics", "absent", "far", "near", "met"}
Decisions == {"ACCEPT", "REFINE", "REPLAN", "ABORT"}
Outcomes == {"SUCCEEDED", "PARTIAL", "FAILED"}

AgentState ==
    [plan : Plans \cup {NoPlan},
     current_step : Nat,                     \* 0 is None
     step_status : Seq({"PENDING", "SKIPPED", "SUCCEEDED", "FAILED"}),
     context : {"none", "insufficient", "sufficient"},
     rounds : Nat,                           \* Len(context_history)
     revision : BOOLEAN,                     \* current_revision is not None
     last_outcome : {"none", "CLEAN", "FAILURE"},
     measured : Measures,
     repeats : 0..Window,                    \* consecutive_repeats(errors)
     debug_iterations : Nat,
     replan_count : Nat,
     decision : Decisions \cup {"none"},     \* of the newest verdict
     refines : Nat,                          \* refine_cycles(verdicts)
     outcome : Outcomes \cup {"none"},
     node_visits : Nat,
     sandbox_executions : Nat,
     spent : BOOLEAN]                        \* tokens or wall clock exhausted

\* Every step of the plan has a status, and the current step is one of them.
WellFormed(s) ==
    /\ s \in AgentState
    /\ s.plan # NoPlan =>
         /\ Len(s.step_status) = Len(s.plan.steps)
         /\ s.current_step \in 0..Len(s.plan.steps)
    /\ s.plan = NoPlan => s.step_status = <<>> /\ s.current_step = 0

TypeOK ==
    /\ WellFormed(state)
    /\ node \in Nodes
    /\ raised \in BOOLEAN
    /\ dispatches \in 1..MaxDispatches
    /\ kept \in BOOLEAN

\* The worker's seed state on a thread without a checkpoint.
Seed ==
    [plan |-> NoPlan, current_step |-> 0, step_status |-> <<>>,
     context |-> "none", rounds |-> 0, revision |-> FALSE,
     last_outcome |-> "none", measured |-> "no_metrics", repeats |-> 0,
     debug_iterations |-> 0, replan_count |-> 0, decision |-> "none",
     refines |-> 0, outcome |-> "none", node_visits |-> 0,
     sandbox_executions |-> 0, spent |-> FALSE]

Init ==
    /\ state = Seed
    /\ node = "init"
    /\ raised = FALSE
    /\ dispatches = 1
    /\ kept = FALSE

-----------------------------------------------------------------------------
(* Steps of the plan *)

Kind(s, i) == IF i = 0 THEN "none" ELSE s.plan.steps[i].kind

Satisfied == {"SUCCEEDED", "SKIPPED"}

Ready(s) ==
    {i \in DOMAIN s.step_status :
        /\ s.step_status[i] = "PENDING"
        /\ \A d \in s.plan.steps[i].after : s.step_status[d] \in Satisfied}

Earliest(steps) ==
    IF steps = {} THEN 0 ELSE CHOOSE i \in steps : \A j \in steps : i <= j

NextPendingStep(s) == Earliest(Ready(s))

FirstExecutable(p) ==
    Earliest({i \in DOMAIN p.steps : p.steps[i].kind \in Executable})

\* Steps before the first executable one are not performed.
InitialStepStatus(p) ==
    [i \in DOMAIN p.steps |->
        IF i < FirstExecutable(p) THEN "SKIPPED" ELSE "PENDING"]

-----------------------------------------------------------------------------
(* Routers *)

\* Mutant: an off-by-one in the visit budget.
ExhaustedLate(s) == s.node_visits > MaxVisits \/ s.spent

Exhausted(s) == s.node_visits >= MaxVisits \/ s.spent

Guarded(s, next) == IF Exhausted(s) THEN "reporter" ELSE next

ContextIsThin(s) == s.context # "sufficient"

RouteAfterPlan(s) ==
    LET kind == Kind(s, NextPendingStep(s))
    IN  Guarded(s,
            CASE s.plan = NoPlan -> "reporter"
              [] s.plan # NoPlan /\ kind = "report" -> "reporter"
              [] s.plan # NoPlan /\ kind \in {"none", "evaluate", "research"} ->
                   "evaluator"
              [] s.plan # NoPlan /\ kind \in Executable ->
                   IF ContextIsThin(s) THEN "researcher" ELSE "coder")

\* What the router returns once the guard lets it speak: the researcher's
\* edges do not lead to the reporter.
RouteAfterResearch(s) ==
    IF s.context = "insufficient" /\ s.rounds < MaxRounds
    THEN "researcher" ELSE "coder"

\* Mutant: the router does not ask whether there is a revision.
RouteAfterCodeUnchecked(s) == Guarded(s, "sandbox_exec")

RouteAfterCode(s) ==
    Guarded(s, IF s.revision THEN "sandbox_exec" ELSE "reporter")

CanDebug(s) ==
    /\ s.debug_iterations < MaxDebug
    /\ s.sandbox_executions < MaxExecs

RouteAfterExec(s) ==
    LET train == Kind(s, s.current_step) = "train" /\ s.measured # "no_metrics"
        remains == Kind(s, NextPendingStep(s)) \in Executable
    IN  Guarded(s,
            CASE s.last_outcome = "none" -> "reporter"
              [] s.last_outcome = "FAILURE" ->
                   IF CanDebug(s) THEN "debugger" ELSE "reporter"
              [] s.last_outcome = "CLEAN" /\ s.plan = NoPlan -> "reporter"
              [] s.last_outcome = "CLEAN" /\ s.plan # NoPlan ->
                   IF train THEN "mlops"
                   ELSE IF remains THEN "reporter" ELSE "evaluator")

CanReplan(s) == s.replan_count < MaxReplans

\* d is the diagnosis the debugger has just written.
RouteAfterDebug(s, d) ==
    LET replans == d.requires_replan /\ CanReplan(s)
        researches == d.requires_research /\ s.rounds < MaxRounds
        stagnates == s.repeats >= Window /\ CanReplan(s)
    IN  Guarded(s,
            IF s.debug_iterations > MaxDebug THEN "reporter"
            ELSE IF replans THEN "planner"
            ELSE IF researches THEN "researcher"
            ELSE IF stagnates THEN "planner" ELSE "coder")

\* The newest REFINE verdict is not acted upon yet.
RouteAfterEval(s) ==
    Guarded(s,
        CASE s.decision \in {"none", "ACCEPT", "ABORT"} -> "reporter"
          [] s.decision = "REFINE" ->
               IF s.debug_iterations + s.refines - 1 < MaxDebug
               THEN "coder" ELSE "reporter"
          [] s.decision = "REPLAN" ->
               IF CanReplan(s) THEN "planner" ELSE "reporter")

-----------------------------------------------------------------------------
(* Verdict and outcome *)

Passed(s) == s.measured = "met" \/ s.plan = NoPlan \/ ~s.plan.required

\* Mutant: the metrics condition the docstring of executed_cleanly rules out.
ExecutedWithMetrics(s) == s.last_outcome = "CLEAN" /\ s.measured # "no_metrics"

ExecutedCleanly(s) == s.last_outcome = "CLEAN"

\* Mutant: the budget is compared with > .
QualitySpentLate(s) == s.debug_iterations + s.refines > MaxDebug

QualitySpent(s) == s.debug_iterations + s.refines >= MaxDebug

\* decide, with the decision and the outcome it attaches to it.
Decide(s) ==
    LET narrow == s.measured = "near"
    IN  CASE Passed(s) -> <<"ACCEPT", "SUCCEEDED">>
          [] ~Passed(s) /\ ~ExecutedCleanly(s) -> <<"ABORT", "FAILED">>
          [] ~Passed(s) /\ ExecutedCleanly(s) ->
               IF QualitySpent(s) /\ ~CanReplan(s) THEN <<"ABORT", "PARTIAL">>
               ELSE IF ~QualitySpent(s) /\ (narrow \/ ~CanReplan(s))
                    THEN <<"REFINE", "none">>
                    ELSE <<"REPLAN", "none">>

\* The model may turn REFINE into REPLAN, and nothing else.
Reconcile(s, computed, proposesReplan) ==
    IF computed = "REFINE" /\ proposesReplan /\ CanReplan(s)
    THEN "REPLAN" ELSE computed

DetermineOutcome(s) ==
    CASE s.last_outcome # "CLEAN" -> "FAILED"
      [] s.last_outcome = "CLEAN" /\ Passed(s) -> "SUCCEEDED"
      [] s.last_outcome = "CLEAN" /\ ~Passed(s) -> "PARTIAL"

-----------------------------------------------------------------------------
(* Nodes *)

At(n) == node = n /\ ~raised

\* Mutant: _finalise forgets the visit.
Uncounted(s) == {[s EXCEPT !.spent = b] : b \in {s.spent, TRUE}}

\* _finalise counts the visit whether the node succeeded or degraded.  Tokens
\* and time pass in every node.
Counted(s) == {[s EXCEPT !.node_visits = @ + 1, !.spent = b] : b \in {s.spent, TRUE}}

Here == UNCHANGED <<raised, dispatches, kept>>

InitNode ==
    /\ At("init")
    /\ state' \in Counted([state EXCEPT !.debug_iterations = 0,
                                        !.replan_count = 0])
    /\ node' = "planner"
    /\ Here

\* How the last metrics, if there are any, compare with another plan's
\* criteria.
MeasuredBy(s) ==
    IF s.measured = "no_metrics" THEN {"no_metrics"}
    ELSE Measures \ {"no_metrics"}

\* Mutant: the status of the new plan's steps is not written.
PlannerKeepsStatus ==
    /\ At("planner")
    /\ \E p \in Plans, m \in MeasuredBy(state) :
         state' \in Counted(
             [state EXCEPT !.plan = p,
                           !.current_step = FirstExecutable(p),
                           !.measured = m,
                           !.replan_count = IF state.plan = NoPlan THEN @ ELSE @ + 1])
    /\ node' = RouteAfterPlan(state')
    /\ Here

Planner ==
    /\ At("planner")
    /\ \E p \in Plans, m \in MeasuredBy(state) :
         state' \in Counted(
             [state EXCEPT !.plan = p,
                           !.current_step = FirstExecutable(p),
                           !.step_status = InitialStepStatus(p),
                           !.measured = m,
                           !.replan_count = IF state.plan = NoPlan THEN @ ELSE @ + 1])
    /\ node' = RouteAfterPlan(state')
    /\ Here

(* RETRY_THEN_REPORT: the planner's channels keep what they had. *)
PlannerFails ==
    /\ At("planner")
    /\ state' \in Counted(state)
    /\ node' = RouteAfterPlan(state')
    /\ kept' = (kept \/ state.plan # NoPlan)
    /\ UNCHANGED <<raised, dispatches>>

\* A pack the researcher found, or the insufficient one it degrades to;
\* `sufficient` stands for `partial` as well.
Researched(s) ==
    UNION {Counted([s EXCEPT !.context = c, !.rounds = @ + 1]) :
             c \in {"insufficient", "sufficient"}}

Researcher ==
    /\ At("researcher")
    /\ state' \in Researched(state)
    /\ ~Exhausted(state')
    /\ node' = RouteAfterResearch(state')
    /\ Here

(* The guard answers "reporter", which is none of the researcher's edges:   *)
(* the lookup raises, and the visit leaves no trace in the checkpoint.      *)
ResearcherRaises ==
    /\ At("researcher")
    /\ \E s \in Researched(state) : Exhausted(s)
    /\ raised' = TRUE
    /\ UNCHANGED <<state, node, dispatches, kept>>

\* RETRY_THEN_REPORT again: a failed coder leaves an older revision in place.
Coder ==
    /\ At("coder")
    /\ \E written \in BOOLEAN :
         state' \in Counted([state EXCEPT !.revision = @ \/ written])
    /\ node' = RouteAfterCode(state')
    /\ Here

StepIs(s, status) ==
    IF s.current_step = 0 THEN s.step_status
    ELSE [s.step_status EXCEPT ![s.current_step] = status]

SandboxClean ==
    /\ At("sandbox_exec")
    /\ state.revision
    /\ \E m \in Measures :
         \* a train step without valid metrics is a contract violation
         /\ Kind(state, state.current_step) = "train" => m # "no_metrics"
         /\ state' \in Counted(
                [state EXCEPT !.last_outcome = "CLEAN",
                              !.measured = m,
                              !.step_status = StepIs(state, "SUCCEEDED"),
                              !.sandbox_executions = @ + 1])
    /\ node' = RouteAfterExec(state')
    /\ Here

\* The new error repeats the newest fingerprint or starts a new series.
SandboxFailure ==
    /\ At("sandbox_exec")
    /\ state.revision
    /\ \E same \in BOOLEAN :
         state' \in Counted(
             [state EXCEPT !.last_outcome = "FAILURE",
                           !.measured = "no_metrics",
                           !.step_status = StepIs(state, "FAILED"),
                           !.repeats = IF ~same THEN 1
                                       ELSE IF @ < Window THEN @ + 1 ELSE @,
                           !.sandbox_executions = @ + 1])
    /\ node' = RouteAfterExec(state')
    /\ Here

(* FAIL_RUN: no revision to run, or the sandbox itself failed. *)
SandboxRaises ==
    /\ At("sandbox_exec")
    /\ raised' = TRUE
    /\ UNCHANGED <<state, node, dispatches, kept>>

Diagnoses == [requires_replan : BOOLEAN, requires_research : BOOLEAN]

\* Mutant: an iteration that is not counted.
DebuggerUncounted ==
    /\ At("debugger")
    /\ state' \in Counted(state)
    /\ \E d \in Diagnoses : node' = RouteAfterDebug(state', d)
    /\ Here

\* The minimal diagnosis it degrades to asks for neither.
Debugger ==
    /\ At("debugger")
    /\ state' \in Counted([state EXCEPT !.debug_iterations = @ + 1])
    /\ \E d \in Diagnoses : node' = RouteAfterDebug(state', d)
    /\ Here

MLOps ==
    /\ At("mlops")
    /\ state' \in Counted(state)
    /\ node' = "evaluator"
    /\ Here

Evaluator ==
    /\ At("evaluator")
    /\ \E proposesReplan \in BOOLEAN :
         LET computed == Decide(state)
             decision == Reconcile(state, computed[1], proposesReplan)
             next == NextPendingStep(state)
         IN  state' \in Counted(
                 [state EXCEPT !.decision = decision,
                               !.refines = IF decision = "REFINE" THEN @ + 1 ELSE @,
                               !.outcome = IF computed[2] = "none" THEN @ ELSE computed[2],
                               !.step_status = IF Kind(state, next) = "evaluate"
                                               THEN [@ EXCEPT ![next] = "SUCCEEDED"]
                                               ELSE @])
    /\ node' = RouteAfterEval(state')
    /\ Here

Reporter ==
    /\ At("reporter")
    /\ state' \in Counted(state)
    /\ node' = "finalizer"
    /\ Here

\* BEST_EFFORT: a finalizer that fails leaves the outcome as it is.
Finalizer ==
    /\ At("finalizer")
    /\ \E o \in {DetermineOutcome(state), state.outcome} :
         state' \in Counted([state EXCEPT !.outcome = o])
    /\ node' = "end"
    /\ Here

NodeStep ==
    \/ InitNode
    \/ Planner
    \/ PlannerFails
    \/ Researcher
    \/ ResearcherRaises
    \/ Coder
    \/ SandboxClean
    \/ SandboxFailure
    \/ SandboxRaises
    \/ Debugger
    \/ MLOps
    \/ Evaluator
    \/ Reporter
    \/ Finalizer

(* A resumed run: ainvoke(None, config) runs the node that raised again. *)
Resume ==
    /\ raised
    /\ raised' = FALSE
    /\ UNCHANGED <<state, node, dispatches, kept>>

(* A new dispatch of the same run, at whatever node a dead worker left it. *)
Redispatch ==
    /\ dispatches < MaxDispatches
    /\ dispatches' = dispatches + 1
    /\ node' = "init"
    /\ raised' = FALSE
    /\ UNCHANGED <<state, kept>>

Next == NodeStep \/ Resume \/ Redispatch

Spec == Init /\ [][Next]_vars

\* A graph that runs goes on: the worker drives it to its end.
FairSpec == Spec /\ WF_vars(NodeStep)

-----------------------------------------------------------------------------
\* No cycle outlives the visit budget (routing.py, step 4 of the termination
\* proof): past it only the ungated mlops -> evaluator edge, the reporter and
\* the finalizer follow, and each further dispatch adds init, planner,
\* reporter and finalizer.
VisitsBounded ==
    state.node_visits <= MaxVisits + 3 + 4 * (dispatches - 1)

WithinBudgets ==
    /\ state.debug_iterations <= MaxDebug
    /\ state.refines <= MaxDebug
    /\ dispatches = 1 => state.replan_count <= MaxReplans

RefineIsGranted ==
    state'.refines > state.refines =>
        /\ state'.debug_iterations + state'.refines <= MaxDebug
        /\ node' = "coder" \/ Exhausted(state')

\* The three loops spend no more than their budgets, wherever they cross
\* (graph.py docstring).  Loops 1 and 2 draw on one budget: a REFINE fits into
\* what the debug iterations left of it, and the router, which compares after
\* the verdict is counted, grants every REFINE that decide, which compares
\* before, has issued; only the guard may stop it.  A second dispatch starts
\* with the old plan and counts it as a replan.
LoopsWithinBudgets == [][WithinBudgets' /\ RefineIsGranted]_vars

\* Every container after the first is paid for by a debug iteration, a REFINE
\* verdict or a replan.  Excluded are a second dispatch and a planner that
\* failed and kept its plan: the steps left of it run for nothing.
ExecutionsArePaidFor ==
    dispatches = 1 /\ ~kept =>
        state.sandbox_executions <=
            1 + state.debug_iterations + state.refines + state.replan_count

\* No node is reached without what it raises for: the coder's plan, the
\* debugger's error record, the outcome and metrics of mlops.
NodesFindTheirInputs ==
    /\ node = "coder" => state.plan # NoPlan
    /\ node = "sandbox_exec" => state.revision
    /\ node = "debugger" => state.repeats > 0 /\ state.last_outcome = "FAILURE"
    /\ node = "mlops" => /\ state.revision
                         /\ state.last_outcome = "CLEAN"
                         /\ state.measured # "no_metrics"

\* The outcome the evaluator attaches to a final verdict is the one the
\* reporter and the finalizer compute from the state (docstring of
\* executed_cleanly), for every plan with a required criterion.
VerdictAgreesWithOutcome ==
    /\ dispatches = 1
    /\ state.decision \in {"ACCEPT", "ABORT"}
    /\ state.plan # NoPlan /\ state.plan.required
    => state.outcome = DetermineOutcome(state)

\* The graph comes to its end or raises, whatever the model, the sandbox and
\* the metrics do.
Terminates == []<>(node = "end" \/ raised)

-----------------------------------------------------------------------------
\* Every terminating path, every budget diversion included, passes through the
\* node that writes a report (graph.py docstring); a failed sandbox alone is
\* meant to end a run without one.  The researcher has no edge to the reporter.
EveryRunReports == <>(node = "end" \/ (raised /\ node = "sandbox_exec"))
=============================================================================
