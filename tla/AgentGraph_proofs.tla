------------------------- MODULE AgentGraph_proofs -------------------------
(* Proofs about AgentGraph, for any plans and any budgets: types, the      *)
(* bound on node visits, what each node finds when it is reached, and the   *)
(* agreement of verdict and outcome.                                        *)
EXTENDS AgentGraph, WellFoundedInduction, SequenceTheorems, TLAPS

-----------------------------------------------------------------------------
(* The earliest of a set of steps *)

LEMMA EarliestIsOne ==
    ASSUME NEW S \in SUBSET Nat, S # {}
    PROVE  Earliest(S) \in S
<1>1. PICK i \in S : \A j \in S : ~(<<j, i>> \in OpToRel(<, Nat))
  BY NatLessThanWellFounded, WFMin
<1>2. \A j \in S : i <= j
  <2> SUFFICES ASSUME NEW j \in S
               PROVE  i <= j
    OBVIOUS
  <2>1. ASSUME j < i
        PROVE  FALSE
    <3>1. <<j, i>> \in Nat \X Nat /\ <<j, i>>[1] < <<j, i>>[2]
      BY <2>1
    <3>2. <<j, i>> \in OpToRel(<, Nat)
      BY <3>1, Zenon DEF OpToRel
    <3> QED
      BY <1>1, <3>2, Zenon
  <2> QED
    BY <2>1
<1> QED
  BY <1>2 DEF Earliest

LEMMA EarliestType ==
    ASSUME NEW S \in SUBSET Nat
    PROVE  Earliest(S) \in S \cup {0}
BY EarliestIsOne DEF Earliest

-----------------------------------------------------------------------------
(* Steps of a plan and routers *)

LEMMA PlanType == \A p \in Plans : IsPlan(p)
BY PlansAssumption

LEMMA KindType ==
    ASSUME NEW s, WellFormed(s), s.plan # NoPlan, NEW i \in DOMAIN s.step_status \cup {0}
    PROVE  Kind(s, i) \in StepKinds \cup {"none"}
<1>1. s.plan \in Plans
  BY DEF WellFormed, AgentState
<1>2. s.plan.steps \in Seq([kind : StepKinds, after : SUBSET Nat])
  BY <1>1, PlanType DEF IsPlan
<1>3. DOMAIN s.step_status = 1..Len(s.plan.steps)
  BY DEF WellFormed, AgentState
<1>4. ASSUME i # 0
      PROVE  s.plan.steps[i].kind \in StepKinds
  <2>1. i \in 1..Len(s.plan.steps)
    BY <1>3, <1>4
  <2>2. s.plan.steps[i] \in [kind : StepKinds, after : SUBSET Nat]
    BY <1>2, <2>1, ElementOfSeq
  <2> QED
    BY <2>2
<1> QED
  BY <1>4 DEF Kind

LEMMA NextPendingType ==
    ASSUME NEW s, WellFormed(s)
    PROVE  NextPendingStep(s) \in DOMAIN s.step_status \cup {0}
<1>1. Ready(s) \in SUBSET Nat
  BY DEF Ready, WellFormed, AgentState
<1>2. Earliest(Ready(s)) \in Ready(s) \cup {0}
  BY <1>1, EarliestType
<1> QED
  BY <1>2 DEF NextPendingStep, Ready

LEMMA AfterPlan ==
    ASSUME NEW s, WellFormed(s), RouteAfterPlan(s) # "reporter"
    PROVE  /\ RouteAfterPlan(s) \in {"researcher", "coder", "evaluator"}
           /\ s.plan # NoPlan
           /\ ~Exhausted(s)
<1>1. s.plan # NoPlan => Kind(s, NextPendingStep(s)) \in StepKinds \cup {"none"}
  BY KindType, NextPendingType
<1> QED
  BY <1>1 DEF RouteAfterPlan, Guarded, StepKinds, Executable

LEMMA AfterCode ==
    ASSUME NEW s, RouteAfterCode(s) # "reporter"
    PROVE  RouteAfterCode(s) = "sandbox_exec" /\ s.revision /\ ~Exhausted(s)
BY DEF RouteAfterCode, Guarded

LEMMA AfterExec ==
    ASSUME NEW s, WellFormed(s), RouteAfterExec(s) # "reporter"
    PROVE  /\ RouteAfterExec(s) \in {"debugger", "mlops", "evaluator"}
           /\ ~Exhausted(s)
           /\ RouteAfterExec(s) = "debugger" => s.last_outcome # "CLEAN" /\ CanDebug(s)
           /\ RouteAfterExec(s) = "mlops" =>
                s.last_outcome = "CLEAN" /\ s.measured # "no_metrics"
BY DEF RouteAfterExec, Guarded, WellFormed, AgentState

LEMMA AfterDebug ==
    ASSUME NEW s, NEW d, RouteAfterDebug(s, d) # "reporter"
    PROVE  /\ RouteAfterDebug(s, d) \in {"planner", "researcher", "coder"}
           /\ ~Exhausted(s)
           /\ RouteAfterDebug(s, d) = "planner" => CanReplan(s)
BY DEF RouteAfterDebug, Guarded

LEMMA AfterEval ==
    ASSUME NEW s, s.decision \in Decisions, RouteAfterEval(s) # "reporter"
    PROVE  /\ RouteAfterEval(s) \in {"coder", "planner"}
           /\ ~Exhausted(s)
           /\ s.decision \notin {"ACCEPT", "ABORT"}
           /\ RouteAfterEval(s) = "coder" => s.decision = "REFINE"
           /\ RouteAfterEval(s) = "planner" => CanReplan(s)
BY DEF RouteAfterEval, Guarded, Decisions

-----------------------------------------------------------------------------
(* Types *)

\* A visit adds one to node_visits and may exhaust tokens or time.
LEMMA CountedFields ==
    ASSUME NEW t, WellFormed(t), NEW s \in Counted(t)
    PROVE  /\ WellFormed(s)
           /\ s.node_visits = t.node_visits + 1
           /\ s.plan = t.plan
           /\ s.revision = t.revision
           /\ s.last_outcome = t.last_outcome
           /\ s.measured = t.measured
           /\ s.repeats = t.repeats
           /\ s.debug_iterations = t.debug_iterations
           /\ s.replan_count = t.replan_count
           /\ s.decision = t.decision
           /\ s.refines = t.refines
           /\ s.outcome = t.outcome
           /\ s.sandbox_executions = t.sandbox_executions
<1>1. PICK b \in {t.spent, TRUE} :
        s = [t EXCEPT !.node_visits = @ + 1, !.spent = b]
  BY DEF Counted
<1>2. b \in BOOLEAN
  BY DEF WellFormed, AgentState
<1>3. s \in AgentState
  <2>1. t \in AgentState
    BY DEF WellFormed
  <2>2. t.node_visits + 1 \in Nat
    BY <2>1 DEF AgentState
  <2>3. DEFINE u == [t EXCEPT !.node_visits = t.node_visits + 1]
  <2>4. u \in AgentState
    BY <2>1, <2>2 DEF AgentState
  <2>5. [u EXCEPT !.spent = b] \in AgentState
    BY <2>4, <1>2 DEF AgentState
  <2>6. s = [u EXCEPT !.spent = b]
    BY <1>1
  <2> QED
    BY <2>5, <2>6
<1>4. s.node_visits = t.node_visits + 1
  BY <1>1 DEF WellFormed, AgentState
<1>5. /\ s.plan = t.plan
      /\ s.current_step = t.current_step
      /\ s.step_status = t.step_status
      /\ s.revision = t.revision
      /\ s.last_outcome = t.last_outcome
      /\ s.measured = t.measured
      /\ s.repeats = t.repeats
      /\ s.debug_iterations = t.debug_iterations
      /\ s.replan_count = t.replan_count
      /\ s.decision = t.decision
      /\ s.refines = t.refines
      /\ s.outcome = t.outcome
      /\ s.sandbox_executions = t.sandbox_executions
  BY <1>1 DEF WellFormed, AgentState
<1> QED
  BY <1>3, <1>4, <1>5 DEF WellFormed

LEMMA SeedType == WellFormed(Seed)
<1>1. Seed \in AgentState
  BY BudgetsAssumption DEF Seed, AgentState, Measures, Decisions, Outcomes
<1> QED
  BY <1>1 DEF WellFormed, Seed

LEMMA InitType == Init => TypeOK
<1>1. 1 \in 1..MaxDispatches
  BY BudgetsAssumption
<1> QED
  BY <1>1, SeedType DEF Init, TypeOK, Nodes

LEMMA DecideType ==
    ASSUME NEW s
    PROVE  /\ Decide(s)[1] \in Decisions
           /\ Decide(s)[2] \in Outcomes \cup {"none"}
BY DEF Decide, Decisions, Outcomes

LEMMA RefineWithin ==
    ASSUME NEW s, Decide(s)[1] = "REFINE"
    PROVE  ~(s.debug_iterations + s.refines >= MaxDebug)
BY DEF Decide, QualitySpent

LEMMA OutcomeType == \A s : DetermineOutcome(s) \in Outcomes
BY DEF DetermineOutcome, Outcomes

LEMMA NewPlanType ==
    ASSUME NEW p \in Plans
    PROVE  /\ FirstExecutable(p) \in 0..Len(p.steps)
           /\ InitialStepStatus(p) \in Seq({"PENDING", "SKIPPED"})
           /\ Len(InitialStepStatus(p)) = Len(p.steps)
<1>1. p.steps \in Seq([kind : StepKinds, after : SUBSET Nat])
  BY PlanType DEF IsPlan
<1>2. DOMAIN p.steps = 1..Len(p.steps) /\ Len(p.steps) \in Nat
  BY <1>1
<1>3. FirstExecutable(p) \in 0..Len(p.steps)
  <2> DEFINE S == {i \in DOMAIN p.steps : p.steps[i].kind \in Executable}
  <2>1. S \in SUBSET Nat
    BY <1>2
  <2>2. Earliest(S) \in S \cup {0}
    BY <2>1, EarliestType
  <2> QED
    BY <1>2, <2>2 DEF FirstExecutable
<1>4. InitialStepStatus(p) \in [1..Len(p.steps) -> {"PENDING", "SKIPPED"}]
  BY <1>2 DEF InitialStepStatus
<1> QED
  BY <1>2, <1>3, <1>4

\* What a visit needs in order to keep the types.
LEMMA VisitType ==
    ASSUME TypeOK, NEW t, WellFormed(t), state' \in Counted(t), node' \in Nodes,
           UNCHANGED <<raised, dispatches>>, kept' \in BOOLEAN
    PROVE  TypeOK'
BY CountedFields DEF TypeOK, WellFormed

Statuses == {"PENDING", "SKIPPED", "SUCCEEDED", "FAILED"}

\* Writing a status leaves the length of the plan's bookkeeping as it was.
LEMMA StatusType ==
    ASSUME NEW q \in Seq(Statuses), NEW i \in DOMAIN q, NEW status \in Statuses
    PROVE  /\ [q EXCEPT ![i] = status] \in Seq(Statuses)
           /\ Len([q EXCEPT ![i] = status]) = Len(q)
<1>1. i \in 1..Len(q)
  OBVIOUS
<1> QED
  BY <1>1, ExceptSeq

LEMMA StepIsType ==
    ASSUME NEW s, WellFormed(s), NEW status \in Statuses
    PROVE  /\ StepIs(s, status) \in Seq(Statuses)
           /\ Len(StepIs(s, status)) = Len(s.step_status)
<1>1. s.step_status \in Seq(Statuses)
  BY DEF WellFormed, AgentState, Statuses
<1>2. CASE s.current_step = 0
  BY <1>1, <1>2 DEF StepIs
<1>3. CASE s.current_step # 0
  <2>1. s.current_step \in DOMAIN s.step_status
    BY <1>1, <1>3 DEF WellFormed, AgentState
  <2> QED
    BY <1>1, <1>3, <2>1, StatusType DEF StepIs
<1> QED
  BY <1>2, <1>3

-----------------------------------------------------------------------------
(* What each node does: it keeps the types, counts its visit, writes the    *)
(* fields of its own and leaves the others.                                 *)

LEMMA InitNodeFacts ==
    ASSUME TypeOK, InitNode
    PROVE  /\ TypeOK'
           /\ state'.node_visits = state.node_visits + 1
           /\ state'.plan = state.plan
           /\ state'.revision = state.revision
           /\ state'.last_outcome = state.last_outcome
           /\ state'.measured = state.measured
           /\ state'.repeats = state.repeats
           /\ state'.decision = state.decision
           /\ state'.refines = state.refines
           /\ state'.outcome = state.outcome
           /\ state'.sandbox_executions = state.sandbox_executions
           /\ state'.debug_iterations = 0
           /\ state'.replan_count = 0
<1> DEFINE t == [state EXCEPT !.debug_iterations = 0, !.replan_count = 0]
<1>1. WellFormed(t)
  BY DEF TypeOK, WellFormed, AgentState
<1>2. /\ t.plan = state.plan
      /\ t.revision = state.revision
      /\ t.last_outcome = state.last_outcome
      /\ t.measured = state.measured
      /\ t.repeats = state.repeats
      /\ t.decision = state.decision
      /\ t.refines = state.refines
      /\ t.outcome = state.outcome
      /\ t.sandbox_executions = state.sandbox_executions
  BY DEF TypeOK, WellFormed, AgentState
<1>3. t.node_visits = state.node_visits /\ t.debug_iterations = 0 /\ t.replan_count = 0
  BY DEF TypeOK, WellFormed, AgentState
<1>4. state' \in Counted(t)
  BY DEF InitNode
<1>5. TypeOK'
  BY <1>1, <1>4, VisitType DEF InitNode, Here, Nodes, TypeOK
<1> HIDE DEF t
<1> QED
  BY <1>1, <1>2, <1>3, <1>4, <1>5, CountedFields

LEMMA PlannerFacts ==
    ASSUME TypeOK, Planner
    PROVE  /\ TypeOK'
           /\ state'.node_visits = state.node_visits + 1
           /\ state'.revision = state.revision
           /\ state'.last_outcome = state.last_outcome
           /\ state'.repeats = state.repeats
           /\ state'.debug_iterations = state.debug_iterations
           /\ state'.decision = state.decision
           /\ state'.refines = state.refines
           /\ state'.outcome = state.outcome
           /\ state'.sandbox_executions = state.sandbox_executions
           /\ state'.plan # NoPlan
           /\ state'.measured \in MeasuredBy(state)
           /\ state'.replan_count =
                IF state.plan = NoPlan THEN state.replan_count
                ELSE state.replan_count + 1
           /\ kept' = kept
<1>1. PICK p \in Plans, m \in MeasuredBy(state) :
        state' \in Counted(
             [state EXCEPT !.plan = p,
                           !.current_step = FirstExecutable(p),
                           !.step_status = InitialStepStatus(p),
                           !.measured = m,
                           !.replan_count = IF state.plan = NoPlan THEN @ ELSE @ + 1])
  BY DEF Planner
<1> DEFINE n == IF state.plan = NoPlan THEN state.replan_count
                ELSE state.replan_count + 1
           t == [state EXCEPT !.plan = p,
                              !.current_step = FirstExecutable(p),
                              !.step_status = InitialStepStatus(p),
                              !.measured = m,
                              !.replan_count = n]
<1>2. /\ t.revision = state.revision
      /\ t.last_outcome = state.last_outcome
      /\ t.repeats = state.repeats
      /\ t.debug_iterations = state.debug_iterations
      /\ t.decision = state.decision
      /\ t.refines = state.refines
      /\ t.outcome = state.outcome
      /\ t.sandbox_executions = state.sandbox_executions
  BY DEF TypeOK, WellFormed, AgentState
<1>3. n \in Nat /\ m \in Measures
  BY DEF TypeOK, WellFormed, AgentState, MeasuredBy, Measures
<1>4. /\ FirstExecutable(p) \in Nat
      /\ InitialStepStatus(p) \in Seq(Statuses)
  BY NewPlanType, PlanType DEF IsPlan, Statuses
<1>5. t \in AgentState
  BY <1>3, <1>4 DEF TypeOK, WellFormed, AgentState, Statuses
<1>6. /\ t.plan = p /\ t.current_step = FirstExecutable(p)
      /\ t.step_status = InitialStepStatus(p)
      /\ t.node_visits = state.node_visits /\ t.replan_count = n
      /\ t.measured = m
  BY DEF TypeOK, WellFormed, AgentState
<1>7. WellFormed(t)
  BY <1>5, <1>6, NewPlanType, PlansAssumption DEF WellFormed
<1>8. state' \in Counted(t)
  BY <1>1
<1>9. WellFormed(state')
  BY <1>7, <1>8, CountedFields
<1>10. node' \in Nodes
  BY <1>9, AfterPlan DEF Planner, Nodes
<1>11. TypeOK'
  BY <1>7, <1>8, <1>10, VisitType DEF Planner, Here, TypeOK
<1>12. p # NoPlan
  BY PlansAssumption
<1>13. kept' = kept
  BY DEF Planner, Here
<1> HIDE DEF t
<1> QED
  BY <1>2, <1>6, <1>7, <1>8, <1>11, <1>12, <1>13, CountedFields

LEMMA PlannerFailsFacts ==
    ASSUME TypeOK, PlannerFails
    PROVE  /\ TypeOK'
           /\ state'.node_visits = state.node_visits + 1
           /\ state'.plan = state.plan
           /\ state'.revision = state.revision
           /\ state'.last_outcome = state.last_outcome
           /\ state'.measured = state.measured
           /\ state'.repeats = state.repeats
           /\ state'.debug_iterations = state.debug_iterations
           /\ state'.replan_count = state.replan_count
           /\ state'.decision = state.decision
           /\ state'.refines = state.refines
           /\ state'.outcome = state.outcome
           /\ state'.sandbox_executions = state.sandbox_executions
           /\ kept' = (kept \/ state.plan # NoPlan)
<1>1. state' \in Counted(state) /\ WellFormed(state)
  BY DEF PlannerFails, TypeOK
<1>2. WellFormed(state')
  BY <1>1, CountedFields
<1>3. node' \in Nodes
  BY <1>2, AfterPlan DEF PlannerFails, Nodes
<1>4. TypeOK'
  BY <1>1, <1>3, VisitType DEF PlannerFails, Here, TypeOK
<1> QED
  BY <1>1, <1>4, CountedFields DEF PlannerFails

LEMMA ResearcherFacts ==
    ASSUME TypeOK, Researcher
    PROVE  /\ TypeOK'
           /\ state'.node_visits = state.node_visits + 1
           /\ state'.plan = state.plan
           /\ state'.revision = state.revision
           /\ state'.last_outcome = state.last_outcome
           /\ state'.measured = state.measured
           /\ state'.repeats = state.repeats
           /\ state'.debug_iterations = state.debug_iterations
           /\ state'.replan_count = state.replan_count
           /\ state'.decision = state.decision
           /\ state'.refines = state.refines
           /\ state'.outcome = state.outcome
           /\ state'.sandbox_executions = state.sandbox_executions
<1>1. PICK c \in {"insufficient", "sufficient"} :
        state' \in Counted([state EXCEPT !.context = c, !.rounds = @ + 1])
  BY DEF Researcher, Researched
<1> DEFINE n == state.rounds + 1
           t == [state EXCEPT !.context = c, !.rounds = n]
<1>2. n \in Nat
  BY DEF TypeOK, WellFormed, AgentState
<1>3. state' \in Counted(t)
  BY <1>1
<1> HIDE DEF n
<1>4. /\ t.plan = state.plan
      /\ t.revision = state.revision
      /\ t.last_outcome = state.last_outcome
      /\ t.measured = state.measured
      /\ t.repeats = state.repeats
      /\ t.debug_iterations = state.debug_iterations
      /\ t.replan_count = state.replan_count
      /\ t.decision = state.decision
      /\ t.refines = state.refines
      /\ t.outcome = state.outcome
      /\ t.sandbox_executions = state.sandbox_executions
  BY DEF TypeOK, WellFormed, AgentState
<1>5. WellFormed(t) /\ t.node_visits = state.node_visits
  BY <1>2 DEF TypeOK, WellFormed, AgentState
<1>6. node' \in Nodes
  BY DEF Researcher, RouteAfterResearch, Nodes
<1>7. TypeOK'
  BY <1>3, <1>5, <1>6, VisitType DEF Researcher, Here, TypeOK
<1> HIDE DEF t
<1> QED
  BY <1>3, <1>4, <1>5, <1>7, CountedFields

LEMMA CoderFacts ==
    ASSUME TypeOK, Coder
    PROVE  /\ TypeOK'
           /\ state'.node_visits = state.node_visits + 1
           /\ state'.plan = state.plan
           /\ state'.last_outcome = state.last_outcome
           /\ state'.measured = state.measured
           /\ state'.repeats = state.repeats
           /\ state'.debug_iterations = state.debug_iterations
           /\ state'.replan_count = state.replan_count
           /\ state'.decision = state.decision
           /\ state'.refines = state.refines
           /\ state'.outcome = state.outcome
           /\ state'.sandbox_executions = state.sandbox_executions
<1>1. PICK written \in BOOLEAN :
        state' \in Counted([state EXCEPT !.revision = @ \/ written])
  BY DEF Coder
<1> DEFINE r == state.revision \/ written
           t == [state EXCEPT !.revision = r]
<1>7. r \in BOOLEAN
  OBVIOUS
<1> HIDE DEF r
<1>2. /\ t.plan = state.plan
      /\ t.last_outcome = state.last_outcome
      /\ t.measured = state.measured
      /\ t.repeats = state.repeats
      /\ t.debug_iterations = state.debug_iterations
      /\ t.replan_count = state.replan_count
      /\ t.decision = state.decision
      /\ t.refines = state.refines
      /\ t.outcome = state.outcome
      /\ t.sandbox_executions = state.sandbox_executions
  BY DEF TypeOK, WellFormed, AgentState
<1>3. WellFormed(t) /\ t.node_visits = state.node_visits
  BY <1>7 DEF TypeOK, WellFormed, AgentState
<1>6. state' \in Counted(t)
  BY <1>1 DEF r
<1>4. node' \in Nodes
  BY AfterCode DEF Coder, Nodes
<1>5. TypeOK'
  BY <1>3, <1>4, <1>6, VisitType DEF Coder, Here, TypeOK
<1> HIDE DEF t
<1> QED
  BY <1>2, <1>3, <1>5, <1>6, CountedFields

LEMMA SandboxCleanFacts ==
    ASSUME TypeOK, SandboxClean
    PROVE  /\ TypeOK'
           /\ state'.node_visits = state.node_visits + 1
           /\ state'.plan = state.plan
           /\ state'.revision = state.revision
           /\ state'.repeats = state.repeats
           /\ state'.debug_iterations = state.debug_iterations
           /\ state'.replan_count = state.replan_count
           /\ state'.decision = state.decision
           /\ state'.refines = state.refines
           /\ state'.outcome = state.outcome
           /\ state'.last_outcome = "CLEAN"
           /\ state'.sandbox_executions = state.sandbox_executions + 1
<1>1. PICK m \in Measures :
        state' \in Counted([state EXCEPT !.last_outcome = "CLEAN",
                                         !.measured = m,
                                         !.step_status = StepIs(state, "SUCCEEDED"),
                                         !.sandbox_executions = @ + 1])
  BY DEF SandboxClean
<1> DEFINE n == state.sandbox_executions + 1
           q == StepIs(state, "SUCCEEDED")
           t == [state EXCEPT !.last_outcome = "CLEAN", !.measured = m,
                              !.step_status = q, !.sandbox_executions = n]
<1>2. n \in Nat
  BY DEF TypeOK, WellFormed, AgentState
<1>3. state' \in Counted(t)
  BY <1>1
<1>4. q \in Seq(Statuses) /\ Len(q) = Len(state.step_status)
  BY StepIsType DEF TypeOK, Statuses
<1>5. q = <<>> <=> state.step_status = <<>>
  BY <1>4 DEF TypeOK, WellFormed, AgentState
<1> HIDE DEF n, q
<1>6. /\ t.plan = state.plan
      /\ t.current_step = state.current_step
      /\ t.revision = state.revision
      /\ t.repeats = state.repeats
      /\ t.debug_iterations = state.debug_iterations
      /\ t.replan_count = state.replan_count
      /\ t.decision = state.decision
      /\ t.refines = state.refines
      /\ t.outcome = state.outcome
      /\ t.node_visits = state.node_visits
  BY DEF TypeOK, WellFormed, AgentState
<1>7. /\ t.last_outcome = "CLEAN" /\ t.step_status = q
      /\ t.sandbox_executions = n
  BY DEF TypeOK, WellFormed, AgentState
<1>8. t \in AgentState
  BY <1>2, <1>4 DEF TypeOK, WellFormed, AgentState, Statuses
<1>9. WellFormed(t)
  BY <1>4, <1>5, <1>6, <1>7, <1>8 DEF TypeOK, WellFormed
<1>10. node' \in Nodes
  BY <1>3, <1>9, CountedFields, AfterExec DEF SandboxClean, Nodes
<1>11. TypeOK'
  BY <1>3, <1>9, <1>10, VisitType DEF SandboxClean, Here, TypeOK
<1> HIDE DEF t
<1> QED
  BY <1>3, <1>6, <1>7, <1>9, <1>11, CountedFields DEF n

LEMMA SandboxFailureFacts ==
    ASSUME TypeOK, SandboxFailure
    PROVE  /\ TypeOK'
           /\ state'.node_visits = state.node_visits + 1
           /\ state'.plan = state.plan
           /\ state'.revision = state.revision
           /\ state'.debug_iterations = state.debug_iterations
           /\ state'.replan_count = state.replan_count
           /\ state'.decision = state.decision
           /\ state'.refines = state.refines
           /\ state'.outcome = state.outcome
           /\ state'.last_outcome = "FAILURE"
           /\ state'.measured = "no_metrics"
           /\ state'.repeats > 0
           /\ state'.sandbox_executions = state.sandbox_executions + 1
<1>1. PICK same \in BOOLEAN :
        state' \in Counted([state EXCEPT !.last_outcome = "FAILURE",
                           !.measured = "no_metrics",
                           !.step_status = StepIs(state, "FAILED"),
                           !.repeats = IF ~same THEN 1
                                       ELSE IF @ < Window THEN @ + 1 ELSE @,
                           !.sandbox_executions = @ + 1])
  BY DEF SandboxFailure
<1> DEFINE n == state.sandbox_executions + 1
           q == StepIs(state, "FAILED")
           k == IF ~same THEN 1
                ELSE IF state.repeats < Window THEN state.repeats + 1
                     ELSE state.repeats
           t == [state EXCEPT !.last_outcome = "FAILURE",
                              !.measured = "no_metrics",
                              !.step_status = q, !.repeats = k,
                              !.sandbox_executions = n]
<1>2. n \in Nat
  BY DEF TypeOK, WellFormed, AgentState
<1>3. k \in 0..Window /\ k > 0
  BY BudgetsAssumption DEF TypeOK, WellFormed, AgentState
<1>4. state' \in Counted(t)
  BY <1>1
<1>5. q \in Seq(Statuses) /\ Len(q) = Len(state.step_status)
  BY StepIsType DEF TypeOK, Statuses
<1>6. q = <<>> <=> state.step_status = <<>>
  BY <1>5 DEF TypeOK, WellFormed, AgentState
<1> HIDE DEF n, q, k
<1>7. /\ t.plan = state.plan
      /\ t.current_step = state.current_step
      /\ t.revision = state.revision
      /\ t.debug_iterations = state.debug_iterations
      /\ t.replan_count = state.replan_count
      /\ t.decision = state.decision
      /\ t.refines = state.refines
      /\ t.outcome = state.outcome
      /\ t.node_visits = state.node_visits
  BY DEF TypeOK, WellFormed, AgentState
<1>8. /\ t.last_outcome = "FAILURE" /\ t.step_status = q /\ t.repeats = k
      /\ t.measured = "no_metrics"
      /\ t.sandbox_executions = n
  BY DEF TypeOK, WellFormed, AgentState
<1>9. t \in AgentState
  BY <1>2, <1>3, <1>5 DEF TypeOK, WellFormed, AgentState, Measures, Statuses
<1>10. WellFormed(t)
  BY <1>5, <1>6, <1>7, <1>8, <1>9 DEF TypeOK, WellFormed
<1>11. node' \in Nodes
  BY <1>4, <1>10, CountedFields, AfterExec DEF SandboxFailure, Nodes
<1>12. TypeOK'
  BY <1>4, <1>10, <1>11, VisitType DEF SandboxFailure, Here, TypeOK
<1> HIDE DEF t
<1> QED
  BY <1>3, <1>4, <1>7, <1>8, <1>10, <1>12, CountedFields DEF n

LEMMA DebuggerFacts ==
    ASSUME TypeOK, Debugger
    PROVE  /\ TypeOK'
           /\ state'.node_visits = state.node_visits + 1
           /\ state'.plan = state.plan
           /\ state'.revision = state.revision
           /\ state'.last_outcome = state.last_outcome
           /\ state'.measured = state.measured
           /\ state'.repeats = state.repeats
           /\ state'.replan_count = state.replan_count
           /\ state'.decision = state.decision
           /\ state'.refines = state.refines
           /\ state'.outcome = state.outcome
           /\ state'.sandbox_executions = state.sandbox_executions
           /\ state'.debug_iterations = state.debug_iterations + 1
<1> DEFINE n == state.debug_iterations + 1
           t == [state EXCEPT !.debug_iterations = n]
<1>1. n \in Nat
  BY DEF TypeOK, WellFormed, AgentState
<1>2. state' \in Counted(t)
  BY DEF Debugger
<1> HIDE DEF n
<1>3. /\ t.plan = state.plan
      /\ t.revision = state.revision
      /\ t.last_outcome = state.last_outcome
      /\ t.measured = state.measured
      /\ t.repeats = state.repeats
      /\ t.replan_count = state.replan_count
      /\ t.decision = state.decision
      /\ t.refines = state.refines
      /\ t.outcome = state.outcome
      /\ t.sandbox_executions = state.sandbox_executions
      /\ t.node_visits = state.node_visits
      /\ t.debug_iterations = n
  BY DEF TypeOK, WellFormed, AgentState
<1>4. WellFormed(t)
  BY <1>1 DEF TypeOK, WellFormed, AgentState
<1>5. node' \in Nodes
  BY AfterDebug DEF Debugger, Nodes
<1>6. TypeOK'
  BY <1>2, <1>4, <1>5, VisitType DEF Debugger, Here, TypeOK
<1> HIDE DEF t
<1> QED
  BY <1>2, <1>3, <1>4, <1>6, CountedFields DEF n

\* mlops and the reporter write nothing the routers read.
LEMMA PassingFacts ==
    ASSUME TypeOK, MLOps \/ Reporter
    PROVE  /\ TypeOK'
           /\ state'.node_visits = state.node_visits + 1
           /\ state'.plan = state.plan
           /\ state'.revision = state.revision
           /\ state'.last_outcome = state.last_outcome
           /\ state'.measured = state.measured
           /\ state'.repeats = state.repeats
           /\ state'.debug_iterations = state.debug_iterations
           /\ state'.replan_count = state.replan_count
           /\ state'.decision = state.decision
           /\ state'.refines = state.refines
           /\ state'.outcome = state.outcome
           /\ state'.sandbox_executions = state.sandbox_executions
<1>1. state' \in Counted(state) /\ WellFormed(state)
  BY DEF MLOps, Reporter, TypeOK
<1>2. node' \in Nodes
  BY DEF MLOps, Reporter, Nodes
<1>3. TypeOK'
  BY <1>1, <1>2, VisitType DEF MLOps, Reporter, Here, TypeOK
<1> QED
  BY <1>1, <1>3, CountedFields

LEMMA FinalizerFacts ==
    ASSUME TypeOK, Finalizer
    PROVE  /\ TypeOK'
           /\ state'.node_visits = state.node_visits + 1
           /\ state'.plan = state.plan
           /\ state'.revision = state.revision
           /\ state'.last_outcome = state.last_outcome
           /\ state'.measured = state.measured
           /\ state'.repeats = state.repeats
           /\ state'.debug_iterations = state.debug_iterations
           /\ state'.replan_count = state.replan_count
           /\ state'.decision = state.decision
           /\ state'.refines = state.refines
           /\ state'.sandbox_executions = state.sandbox_executions
           /\ state'.outcome \in {DetermineOutcome(state), state.outcome}
<1>1. PICK o \in {DetermineOutcome(state), state.outcome} :
        state' \in Counted([state EXCEPT !.outcome = o])
  BY DEF Finalizer
<1> DEFINE t == [state EXCEPT !.outcome = o]
<1>2. /\ t.plan = state.plan
      /\ t.revision = state.revision
      /\ t.last_outcome = state.last_outcome
      /\ t.measured = state.measured
      /\ t.repeats = state.repeats
      /\ t.debug_iterations = state.debug_iterations
      /\ t.replan_count = state.replan_count
      /\ t.decision = state.decision
      /\ t.refines = state.refines
      /\ t.sandbox_executions = state.sandbox_executions
      /\ t.node_visits = state.node_visits
      /\ t.outcome = o
  BY DEF TypeOK, WellFormed, AgentState
<1>3. o \in Outcomes \cup {"none"}
  BY OutcomeType DEF TypeOK, WellFormed, AgentState
<1>4. WellFormed(t)
  BY <1>3 DEF TypeOK, WellFormed, AgentState
<1>5. node' \in Nodes
  BY DEF Finalizer, Nodes
<1>6. TypeOK'
  BY <1>1, <1>4, <1>5, VisitType DEF Finalizer, Here, TypeOK
<1> HIDE DEF t
<1>7. state' \in Counted(t)
  BY <1>1 DEF t
<1> QED
  BY <1>2, <1>4, <1>6, <1>7, CountedFields

LEMMA EvaluatorFacts ==
    ASSUME TypeOK, Evaluator
    PROVE  /\ TypeOK'
           /\ state'.node_visits = state.node_visits + 1
           /\ state'.plan = state.plan
           /\ state'.revision = state.revision
           /\ state'.last_outcome = state.last_outcome
           /\ state'.measured = state.measured
           /\ state'.repeats = state.repeats
           /\ state'.debug_iterations = state.debug_iterations
           /\ state'.replan_count = state.replan_count
           /\ state'.sandbox_executions = state.sandbox_executions
           /\ state'.decision \in Decisions
           /\ state'.decision \in {"ACCEPT", "ABORT"} =>
                /\ state'.decision = Decide(state)[1]
                /\ state'.outcome = Decide(state)[2]
           /\ state'.decision = "REFINE" => Decide(state)[1] = "REFINE"
           /\ state'.refines = IF state'.decision = "REFINE"
                               THEN state.refines + 1 ELSE state.refines
<1> DEFINE next == NextPendingStep(state)
           c == Decide(state)
           q == IF Kind(state, next) = "evaluate"
                THEN [state.step_status EXCEPT ![next] = "SUCCEEDED"]
                ELSE state.step_status
           d(b) == Reconcile(state, c[1], b)
           n(b) == IF d(b) = "REFINE" THEN state.refines + 1 ELSE state.refines
           o == IF c[2] = "none" THEN state.outcome ELSE c[2]
<1>1. PICK b \in BOOLEAN :
        state' \in Counted([state EXCEPT !.decision = d(b),
                                         !.refines = n(b),
                                         !.outcome = o,
                                         !.step_status = q])
  BY Zenon DEF Evaluator
<1>2. /\ d(b) \in Decisions
      /\ d(b) \in {"ACCEPT", "ABORT"} => d(b) = c[1] /\ c[2] # "none"
      /\ d(b) = "REFINE" => c[1] = "REFINE"
  BY DecideType DEF Reconcile, Decisions, Decide
<1>3. n(b) \in Nat /\ o \in Outcomes \cup {"none"}
  BY DecideType DEF TypeOK, WellFormed, AgentState
<1>4. q \in Seq(Statuses) /\ Len(q) = Len(state.step_status)
  <2>1. state.step_status \in Seq(Statuses)
    BY DEF TypeOK, WellFormed, AgentState, Statuses
  <2>2. CASE Kind(state, next) = "evaluate"
    <3>1. next \in DOMAIN state.step_status
      BY <2>2, NextPendingType DEF TypeOK, Kind
    <3>2. q = [state.step_status EXCEPT ![next] = "SUCCEEDED"]
      BY <2>2
    <3> QED
      BY <2>1, <3>1, <3>2, StatusType DEF Statuses
  <2> QED
    BY <2>1, <2>2
<1>5. q = <<>> <=> state.step_status = <<>>
  BY <1>4 DEF TypeOK, WellFormed, AgentState
<1> DEFINE e == d(b)
           k == n(b)
           t == [state EXCEPT !.decision = e, !.refines = k,
                              !.outcome = o, !.step_status = q]
<1>6. state' \in Counted(t)
  BY <1>1
<1>7. /\ e \in Decisions /\ k \in Nat
      /\ k = IF e = "REFINE" THEN state.refines + 1 ELSE state.refines
      /\ e \in {"ACCEPT", "ABORT"} => e = Decide(state)[1] /\ o = Decide(state)[2]
      /\ e = "REFINE" => Decide(state)[1] = "REFINE"
  BY <1>2, <1>3
<1> HIDE DEF e, k, o, q
<1>8. /\ t.plan = state.plan
      /\ t.current_step = state.current_step
      /\ t.revision = state.revision
      /\ t.last_outcome = state.last_outcome
      /\ t.measured = state.measured
      /\ t.repeats = state.repeats
      /\ t.debug_iterations = state.debug_iterations
      /\ t.replan_count = state.replan_count
      /\ t.sandbox_executions = state.sandbox_executions
      /\ t.node_visits = state.node_visits
  BY DEF TypeOK, WellFormed, AgentState
<1>9. /\ t.decision = e /\ t.refines = k /\ t.outcome = o /\ t.step_status = q
  BY DEF TypeOK, WellFormed, AgentState
<1>10. t \in AgentState
  BY <1>3, <1>4, <1>7 DEF TypeOK, WellFormed, AgentState, Statuses
<1>11. WellFormed(t)
  BY <1>4, <1>5, <1>8, <1>9, <1>10 DEF TypeOK, WellFormed
<1>12. WellFormed(state') /\ state'.decision \in Decisions
  BY <1>6, <1>7, <1>9, <1>11, CountedFields
<1>13. node' \in Nodes
  BY <1>12, AfterEval DEF Evaluator, Nodes
<1>14. TypeOK'
  BY <1>6, <1>11, <1>13, VisitType DEF Evaluator, Here, TypeOK
<1> HIDE DEF t
<1> QED
  BY <1>6, <1>7, <1>8, <1>9, <1>11, <1>12, <1>14, CountedFields

-----------------------------------------------------------------------------
(* Type correctness *)

LEMMA TypeStep == TypeOK /\ [Next]_vars => TypeOK'
<1> SUFFICES ASSUME TypeOK, [Next]_vars
             PROVE  TypeOK'
  OBVIOUS
<1>1. CASE InitNode
  BY <1>1, InitNodeFacts
<1>2. CASE Planner
  BY <1>2, PlannerFacts
<1>3. CASE PlannerFails
  BY <1>3, PlannerFailsFacts
<1>4. CASE Researcher
  BY <1>4, ResearcherFacts
<1>5. CASE ResearcherRaises \/ SandboxRaises \/ Resume
  BY <1>5 DEF ResearcherRaises, SandboxRaises, Resume, TypeOK
<1>6. CASE Coder
  BY <1>6, CoderFacts
<1>7. CASE SandboxClean
  BY <1>7, SandboxCleanFacts
<1>8. CASE SandboxFailure
  BY <1>8, SandboxFailureFacts
<1>9. CASE Debugger
  BY <1>9, DebuggerFacts
<1>10. CASE MLOps \/ Reporter
  BY <1>10, PassingFacts
<1>11. CASE Evaluator
  BY <1>11, EvaluatorFacts
<1>12. CASE Finalizer
  BY <1>12, FinalizerFacts
<1>13. CASE Redispatch
  <2>1. dispatches' \in 1..MaxDispatches
    BY <1>13, BudgetsAssumption DEF Redispatch, TypeOK
  <2> QED
    BY <1>13, <2>1 DEF Redispatch, TypeOK, Nodes
<1>14. CASE UNCHANGED vars
  BY <1>14 DEF vars, TypeOK
<1> QED
  BY <1>1, <1>2, <1>3, <1>4, <1>5, <1>6, <1>7, <1>8, <1>9, <1>10, <1>11,
     <1>12, <1>13, <1>14 DEF Next, NodeStep

\* The channels of the graph keep their types, for any plans and budgets:
\* the planner always writes one status per step of its plan, and no node
\* afterwards writes a status outside them.
THEOREM TypeCorrect == Spec => []TypeOK
BY InitType, TypeStep, PTL DEF Spec

-----------------------------------------------------------------------------
(* The visit budget.  How many visits the run may have made when a node is  *)
(* reached: below the budget wherever a guarded edge leads, and one more    *)
(* for each unguarded edge since.                                           *)

Overrun == 4 * (dispatches - 1)

VisitCaps ==
    /\ node = "init" => state.node_visits <= MaxVisits - 1 + Overrun
    /\ node = "planner" => state.node_visits <= MaxVisits + Overrun
    /\ node \in {"researcher", "coder", "sandbox_exec", "debugger", "mlops"} =>
         state.node_visits <= MaxVisits - 1
    /\ node = "evaluator" => state.node_visits <= MaxVisits
    /\ node = "reporter" => state.node_visits <= MaxVisits + 1 + Overrun
    /\ node = "finalizer" => state.node_visits <= MaxVisits + 2 + Overrun
    /\ node = "end" => state.node_visits <= MaxVisits + 3 + Overrun

\* What the arithmetic of the caps needs of the types.
LEMMA Numbers ==
    ASSUME TypeOK
    PROVE  /\ state.node_visits \in Nat
           /\ state.sandbox_executions \in Nat
           /\ state.debug_iterations \in Nat
           /\ state.replan_count \in Nat
           /\ state.refines \in Nat
           /\ dispatches \in Nat /\ dispatches >= 1
           /\ MaxVisits \in Nat /\ MaxVisits >= 1
           /\ MaxDebug \in Nat /\ MaxReplans \in Nat
BY BudgetsAssumption DEF TypeOK, WellFormed, AgentState

\* An edge whose router guards it: the reporter, or below the budget.
LEMMA NotExhausted ==
    ASSUME NEW s, WellFormed(s), ~Exhausted(s)
    PROVE  s.node_visits <= MaxVisits - 1
BY BudgetsAssumption DEF WellFormed, AgentState, Exhausted

LEMMA VisitCapsStep == TypeOK /\ VisitCaps /\ [Next]_vars => VisitCaps'
<1> SUFFICES ASSUME TypeOK, VisitCaps, [Next]_vars
             PROVE  VisitCaps'
  OBVIOUS
<1>0. WellFormed(state')
  BY TypeStep DEF TypeOK
<1>1. CASE InitNode
  BY <1>1, InitNodeFacts, Numbers DEF InitNode, At, Here, VisitCaps, Overrun
<1>2. CASE Planner
  <2>1. \/ node' = "reporter"
        \/ node' \in {"researcher", "coder", "evaluator"} /\ ~Exhausted(state')
    BY <1>0, <1>2, AfterPlan DEF Planner
  <2>2. node = "planner" /\ dispatches' = dispatches
    BY <1>2 DEF Planner, At, Here
  <2>3. state'.node_visits = state.node_visits + 1
    BY <1>2, PlannerFacts
  <2> QED
    BY <1>0, <2>1, <2>2, <2>3, Numbers, NotExhausted DEF VisitCaps, Overrun
<1>3. CASE PlannerFails
  <2>1. \/ node' = "reporter"
        \/ node' \in {"researcher", "coder", "evaluator"} /\ ~Exhausted(state')
    BY <1>0, <1>3, AfterPlan DEF PlannerFails
  <2>2. node = "planner" /\ dispatches' = dispatches
    BY <1>3 DEF PlannerFails, At
  <2>3. state'.node_visits = state.node_visits + 1
    BY <1>3, PlannerFailsFacts
  <2> QED
    BY <1>0, <2>1, <2>2, <2>3, Numbers, NotExhausted DEF VisitCaps, Overrun
<1>4. CASE Researcher
  <2>1. node' \in {"researcher", "coder"} /\ ~Exhausted(state')
    BY <1>4 DEF Researcher, RouteAfterResearch
  <2> QED
    BY <1>0, <2>1, NotExhausted DEF VisitCaps
<1>5. CASE ResearcherRaises \/ SandboxRaises \/ Resume
  BY <1>5 DEF ResearcherRaises, SandboxRaises, Resume, VisitCaps, Overrun
<1>6. CASE Coder
  <2>1. \/ node' = "reporter"
        \/ node' = "sandbox_exec" /\ ~Exhausted(state')
    BY <1>6, AfterCode DEF Coder
  <2>2. node = "coder" /\ dispatches' = dispatches
    BY <1>6 DEF Coder, At, Here
  <2>3. state'.node_visits = state.node_visits + 1
    BY <1>6, CoderFacts
  <2> QED
    BY <1>0, <2>1, <2>2, <2>3, Numbers, NotExhausted DEF VisitCaps, Overrun
<1>7. CASE SandboxClean
  <2>1. \/ node' = "reporter"
        \/ node' \in {"debugger", "mlops", "evaluator"} /\ ~Exhausted(state')
    BY <1>0, <1>7, AfterExec DEF SandboxClean
  <2>2. node = "sandbox_exec" /\ dispatches' = dispatches
    BY <1>7 DEF SandboxClean, At, Here
  <2>3. state'.node_visits = state.node_visits + 1
    BY <1>7, SandboxCleanFacts
  <2> QED
    BY <1>0, <2>1, <2>2, <2>3, Numbers, NotExhausted DEF VisitCaps, Overrun
<1>8. CASE SandboxFailure
  <2>1. \/ node' = "reporter"
        \/ node' \in {"debugger", "mlops", "evaluator"} /\ ~Exhausted(state')
    BY <1>0, <1>8, AfterExec DEF SandboxFailure
  <2>2. node = "sandbox_exec" /\ dispatches' = dispatches
    BY <1>8 DEF SandboxFailure, At, Here
  <2>3. state'.node_visits = state.node_visits + 1
    BY <1>8, SandboxFailureFacts
  <2> QED
    BY <1>0, <2>1, <2>2, <2>3, Numbers, NotExhausted DEF VisitCaps, Overrun
<1>9. CASE Debugger
  <2>1. \/ node' = "reporter"
        \/ node' \in {"planner", "researcher", "coder"} /\ ~Exhausted(state')
    BY <1>9, AfterDebug DEF Debugger
  <2>2. node = "debugger" /\ dispatches' = dispatches
    BY <1>9 DEF Debugger, At, Here
  <2>3. state'.node_visits = state.node_visits + 1
    BY <1>9, DebuggerFacts
  <2> QED
    BY <1>0, <2>1, <2>2, <2>3, Numbers, NotExhausted DEF VisitCaps, Overrun
<1>10. CASE MLOps \/ Reporter
  BY <1>10, PassingFacts, Numbers DEF MLOps, Reporter, At, Here, VisitCaps, Overrun
<1>11. CASE Evaluator
  <2>1. \/ node' = "reporter"
        \/ node' \in {"coder", "planner"} /\ ~Exhausted(state')
    BY <1>11, AfterEval, EvaluatorFacts DEF Evaluator
  <2>2. node = "evaluator" /\ dispatches' = dispatches
    BY <1>11 DEF Evaluator, At, Here
  <2>3. state'.node_visits = state.node_visits + 1
    BY <1>11, EvaluatorFacts
  <2> QED
    BY <1>0, <2>1, <2>2, <2>3, Numbers, NotExhausted DEF VisitCaps, Overrun
<1>12. CASE Finalizer
  BY <1>12, FinalizerFacts, Numbers DEF Finalizer, At, Here, VisitCaps, Overrun
<1>13. CASE Redispatch
  BY <1>13, Numbers DEF Redispatch, VisitCaps, Overrun, TypeOK, Nodes
<1>14. CASE UNCHANGED vars
  BY <1>14 DEF vars, VisitCaps, Overrun
<1> QED
  BY <1>1, <1>2, <1>3, <1>4, <1>5, <1>6, <1>7, <1>8, <1>9, <1>10, <1>11,
     <1>12, <1>13, <1>14 DEF Next, NodeStep

\* No sequence of replans, research rounds, refinements and debug iterations
\* outlives the visit budget by more than the ungated tail of the graph and
\* four visits for each further dispatch, for any budgets and any plans.
THEOREM VisitsAreBounded == Spec => []VisitsBounded
<1>1. Init => VisitCaps
  BY BudgetsAssumption DEF Init, Seed, VisitCaps, Overrun
<1>2. TypeOK /\ VisitCaps => VisitsBounded
  BY Numbers DEF TypeOK, Nodes, VisitCaps, VisitsBounded, Overrun
<1> QED
  BY <1>1, <1>2, VisitCapsStep, TypeCorrect, PTL DEF Spec

-----------------------------------------------------------------------------
(* What a node finds when it is reached: the inductive invariants behind    *)
(* the other safety properties.                                             *)

\* The nodes that work on a plan are only reached with one.
InputsReady ==
    /\ node \in {"researcher", "coder", "sandbox_exec", "debugger", "mlops",
                 "evaluator"} => state.plan # NoPlan
    /\ NodesFindTheirInputs

\* A node that spends from a budget is only reached with some of it left.
LoopCaps ==
    /\ WithinBudgets
    /\ node = "debugger" => state.debug_iterations < MaxDebug
    /\ dispatches = 1 =>
         /\ node = "init" => state.plan = NoPlan
         /\ node = "planner" /\ state.plan # NoPlan =>
              state.replan_count < MaxReplans

Payments == state.debug_iterations + state.refines + state.replan_count

\* On the way to the sandbox, what will be executed is paid for already.
Paid ==
    /\ ExecutionsArePaidFor
    /\ dispatches = 1 /\ ~kept =>
         /\ node \in {"researcher", "coder", "sandbox_exec"} =>
              state.sandbox_executions <= Payments
         /\ state.plan = NoPlan => state.sandbox_executions = 0

\* Metrics are those of a clean execution, and after a final verdict only the
\* reporter and the finalizer run.
Judged ==
    /\ state.measured # "no_metrics" => state.last_outcome = "CLEAN"
    /\ dispatches = 1 /\ state.decision \in {"ACCEPT", "ABORT"} =>
         node \in {"reporter", "finalizer", "end"}
    /\ VerdictAgreesWithOutcome

GraphInv == InputsReady /\ LoopCaps /\ Paid /\ Judged

LEMMA GraphInvInitially == Init => GraphInv
BY BudgetsAssumption
DEF Init, Seed, GraphInv, InputsReady, NodesFindTheirInputs, LoopCaps,
    WithinBudgets, Paid, Payments, ExecutionsArePaidFor, Judged,
    VerdictAgreesWithOutcome

LEMMA GraphInvStep == TypeOK /\ GraphInv /\ [Next]_vars => GraphInv'
<1> SUFFICES ASSUME TypeOK, GraphInv, [Next]_vars
             PROVE  GraphInv'
  OBVIOUS
<1>0. TypeOK' /\ WellFormed(state')
  BY TypeStep DEF TypeOK
<1>1. CASE InitNode
  <2>1. node' = "planner"
    BY <1>1 DEF InitNode
  <2>2. node = "init" /\ dispatches' = dispatches /\ kept' = kept
    BY <1>1 DEF InitNode, At, Here
  <2>3. InputsReady'
    BY <1>0, <1>1, <2>1, <2>2, InitNodeFacts
    DEF GraphInv, InputsReady, NodesFindTheirInputs
  <2>4. LoopCaps'
    BY <1>0, <1>1, <2>1, <2>2, InitNodeFacts, Numbers
    DEF GraphInv, LoopCaps, WithinBudgets, CanDebug, CanReplan
  <2>5. Paid'
    BY <1>0, <1>1, <2>1, <2>2, InitNodeFacts, Numbers
    DEF GraphInv, LoopCaps, Paid, Payments, ExecutionsArePaidFor
  <2>6. Judged'
    BY <1>0, <1>1, <2>1, <2>2, InitNodeFacts
    DEF GraphInv, Judged, VerdictAgreesWithOutcome, DetermineOutcome, Passed
  <2> QED
    BY <2>3, <2>4, <2>5, <2>6 DEF GraphInv
<1>2. CASE Planner
  <2>1. \/ node' = "reporter"
        \/ node' \in {"researcher", "coder", "evaluator"}
    BY <1>0, <1>2, AfterPlan DEF Planner
  <2>2. node = "planner" /\ dispatches' = dispatches /\ kept' = kept
    BY <1>2 DEF Planner, At, Here
  <2>3. InputsReady'
    BY <1>0, <1>2, <2>1, <2>2, PlannerFacts
    DEF GraphInv, InputsReady, NodesFindTheirInputs
  <2>4. LoopCaps'
    BY <1>0, <1>2, <2>1, <2>2, PlannerFacts, Numbers
    DEF GraphInv, LoopCaps, WithinBudgets, CanDebug, CanReplan
  <2>5. Paid'
    BY <1>0, <1>2, <2>1, <2>2, PlannerFacts, Numbers
    DEF GraphInv, LoopCaps, Paid, Payments, ExecutionsArePaidFor
  <2>6. Judged'
    BY <1>0, <1>2, <2>1, <2>2, PlannerFacts
    DEF GraphInv, Judged, VerdictAgreesWithOutcome, DetermineOutcome, Passed, MeasuredBy
  <2> QED
    BY <2>3, <2>4, <2>5, <2>6 DEF GraphInv
<1>3. CASE PlannerFails
  <2>1. \/ node' = "reporter"
        \/ node' \in {"researcher", "coder", "evaluator"} /\ state'.plan # NoPlan
    BY <1>0, <1>3, AfterPlan DEF PlannerFails
  <2>2. node = "planner" /\ dispatches' = dispatches
    BY <1>3 DEF PlannerFails, At
  <2>3. InputsReady'
    BY <1>0, <1>3, <2>1, <2>2, PlannerFailsFacts
    DEF GraphInv, InputsReady, NodesFindTheirInputs
  <2>4. LoopCaps'
    BY <1>0, <1>3, <2>1, <2>2, PlannerFailsFacts, Numbers
    DEF GraphInv, LoopCaps, WithinBudgets, CanDebug, CanReplan
  <2>5. Paid'
    BY <1>0, <1>3, <2>1, <2>2, PlannerFailsFacts, Numbers
    DEF GraphInv, LoopCaps, Paid, Payments, ExecutionsArePaidFor
  <2>6. Judged'
    BY <1>0, <1>3, <2>1, <2>2, PlannerFailsFacts
    DEF GraphInv, Judged, VerdictAgreesWithOutcome, DetermineOutcome, Passed
  <2> QED
    BY <2>3, <2>4, <2>5, <2>6 DEF GraphInv
<1>4. CASE Researcher
  <2>1. node' \in {"researcher", "coder"}
    BY <1>4 DEF Researcher, RouteAfterResearch
  <2>2. node = "researcher" /\ dispatches' = dispatches /\ kept' = kept
    BY <1>4 DEF Researcher, At, Here
  <2>3. InputsReady'
    BY <1>0, <1>4, <2>1, <2>2, ResearcherFacts
    DEF GraphInv, InputsReady, NodesFindTheirInputs
  <2>4. LoopCaps'
    BY <1>0, <1>4, <2>1, <2>2, ResearcherFacts, Numbers
    DEF GraphInv, LoopCaps, WithinBudgets, CanDebug, CanReplan
  <2>5. Paid'
    BY <1>0, <1>4, <2>1, <2>2, ResearcherFacts, Numbers
    DEF GraphInv, LoopCaps, Paid, Payments, ExecutionsArePaidFor
  <2>6. Judged'
    BY <1>0, <1>4, <2>1, <2>2, ResearcherFacts
    DEF GraphInv, Judged, VerdictAgreesWithOutcome, DetermineOutcome, Passed
  <2> QED
    BY <2>3, <2>4, <2>5, <2>6 DEF GraphInv
<1>5. CASE ResearcherRaises \/ SandboxRaises \/ Resume
  BY <1>5
  DEF ResearcherRaises, SandboxRaises, Resume, GraphInv, InputsReady,
      NodesFindTheirInputs, LoopCaps, WithinBudgets, Paid, Payments,
      ExecutionsArePaidFor, Judged, VerdictAgreesWithOutcome, DetermineOutcome,
      Passed
<1>6. CASE Coder
  <2>1. \/ node' = "reporter"
        \/ node' = "sandbox_exec" /\ state'.revision
    BY <1>0, <1>6, AfterCode DEF Coder
  <2>2. node = "coder" /\ dispatches' = dispatches /\ kept' = kept
    BY <1>6 DEF Coder, At, Here
  <2>3. InputsReady'
    BY <1>0, <1>6, <2>1, <2>2, CoderFacts
    DEF GraphInv, InputsReady, NodesFindTheirInputs
  <2>4. LoopCaps'
    BY <1>0, <1>6, <2>1, <2>2, CoderFacts, Numbers
    DEF GraphInv, LoopCaps, WithinBudgets, CanDebug, CanReplan
  <2>5. Paid'
    BY <1>0, <1>6, <2>1, <2>2, CoderFacts, Numbers
    DEF GraphInv, LoopCaps, Paid, Payments, ExecutionsArePaidFor
  <2>6. Judged'
    BY <1>0, <1>6, <2>1, <2>2, CoderFacts
    DEF GraphInv, Judged, VerdictAgreesWithOutcome, DetermineOutcome, Passed
  <2> QED
    BY <2>3, <2>4, <2>5, <2>6 DEF GraphInv
<1>7. CASE SandboxClean
  <2>1. \/ node' \in {"reporter", "evaluator"}
        \/ node' = "mlops" /\ state'.measured # "no_metrics"
    BY <1>0, <1>7, AfterExec, SandboxCleanFacts DEF SandboxClean
  <2>2. node = "sandbox_exec" /\ dispatches' = dispatches /\ kept' = kept /\ state.revision
    BY <1>7 DEF SandboxClean, At, Here
  <2>3. InputsReady'
    BY <1>0, <1>7, <2>1, <2>2, SandboxCleanFacts
    DEF GraphInv, InputsReady, NodesFindTheirInputs
  <2>4. LoopCaps'
    BY <1>0, <1>7, <2>1, <2>2, SandboxCleanFacts, Numbers
    DEF GraphInv, LoopCaps, WithinBudgets, CanDebug, CanReplan
  <2>5. Paid'
    BY <1>0, <1>7, <2>1, <2>2, SandboxCleanFacts, Numbers
    DEF GraphInv, InputsReady, Paid, Payments, ExecutionsArePaidFor
  <2>6. Judged'
    BY <1>0, <1>7, <2>1, <2>2, SandboxCleanFacts
    DEF GraphInv, Judged, VerdictAgreesWithOutcome, DetermineOutcome, Passed
  <2> QED
    BY <2>3, <2>4, <2>5, <2>6 DEF GraphInv
<1>8. CASE SandboxFailure
  <2>1. \/ node' \in {"reporter", "evaluator"}
        \/ node' = "debugger" /\ CanDebug(state')
    BY <1>0, <1>8, AfterExec, SandboxFailureFacts DEF SandboxFailure
  <2>2. node = "sandbox_exec" /\ dispatches' = dispatches /\ kept' = kept
    BY <1>8 DEF SandboxFailure, At, Here
  <2>3. InputsReady'
    BY <1>0, <1>8, <2>1, <2>2, SandboxFailureFacts
    DEF GraphInv, InputsReady, NodesFindTheirInputs
  <2>4. LoopCaps'
    BY <1>0, <1>8, <2>1, <2>2, SandboxFailureFacts, Numbers
    DEF GraphInv, LoopCaps, WithinBudgets, CanDebug, CanReplan
  <2>5. Paid'
    BY <1>0, <1>8, <2>1, <2>2, SandboxFailureFacts, Numbers
    DEF GraphInv, InputsReady, Paid, Payments, ExecutionsArePaidFor
  <2>6. Judged'
    BY <1>0, <1>8, <2>1, <2>2, SandboxFailureFacts
    DEF GraphInv, Judged, VerdictAgreesWithOutcome, DetermineOutcome, Passed
  <2> QED
    BY <2>3, <2>4, <2>5, <2>6 DEF GraphInv
<1>9. CASE Debugger
  <2>1. \/ node' \in {"reporter", "researcher", "coder"}
        \/ node' = "planner" /\ CanReplan(state')
    BY <1>0, <1>9, AfterDebug DEF Debugger
  <2>2. node = "debugger" /\ dispatches' = dispatches /\ kept' = kept
    BY <1>9 DEF Debugger, At, Here
  <2>3. InputsReady'
    BY <1>0, <1>9, <2>1, <2>2, DebuggerFacts
    DEF GraphInv, InputsReady, NodesFindTheirInputs
  <2>4. LoopCaps'
    BY <1>0, <1>9, <2>1, <2>2, DebuggerFacts, Numbers
    DEF GraphInv, LoopCaps, WithinBudgets, CanDebug, CanReplan
  <2>5. Paid'
    BY <1>0, <1>9, <2>1, <2>2, DebuggerFacts, Numbers
    DEF GraphInv, LoopCaps, Paid, Payments, ExecutionsArePaidFor
  <2>6. Judged'
    BY <1>0, <1>9, <2>1, <2>2, DebuggerFacts
    DEF GraphInv, Judged, VerdictAgreesWithOutcome, DetermineOutcome, Passed
  <2> QED
    BY <2>3, <2>4, <2>5, <2>6 DEF GraphInv
<1>10. CASE MLOps
  <2>1. node' = "evaluator"
    BY <1>10 DEF MLOps
  <2>2. node = "mlops" /\ dispatches' = dispatches /\ kept' = kept
    BY <1>10 DEF MLOps, At, Here
  <2>3. InputsReady'
    BY <1>0, <1>10, <2>1, <2>2, PassingFacts
    DEF GraphInv, InputsReady, NodesFindTheirInputs
  <2>4. LoopCaps'
    BY <1>0, <1>10, <2>1, <2>2, PassingFacts, Numbers
    DEF GraphInv, LoopCaps, WithinBudgets, CanDebug, CanReplan
  <2>5. Paid'
    BY <1>0, <1>10, <2>1, <2>2, PassingFacts, Numbers
    DEF GraphInv, LoopCaps, Paid, Payments, ExecutionsArePaidFor
  <2>6. Judged'
    BY <1>0, <1>10, <2>1, <2>2, PassingFacts
    DEF GraphInv, Judged, VerdictAgreesWithOutcome, DetermineOutcome, Passed
  <2> QED
    BY <2>3, <2>4, <2>5, <2>6 DEF GraphInv
<1>11. CASE Evaluator
  <2>1. \/ node' = "reporter"
        \/ /\ state'.decision \notin {"ACCEPT", "ABORT"}
           /\ \/ node' = "coder" /\ state'.decision = "REFINE"
              \/ node' = "planner" /\ CanReplan(state')
    BY <1>0, <1>11, AfterEval, EvaluatorFacts DEF Evaluator
  <2>2. node = "evaluator" /\ dispatches' = dispatches /\ kept' = kept
    BY <1>11 DEF Evaluator, At, Here
  <2>3. InputsReady'
    BY <1>0, <1>11, <2>1, <2>2, EvaluatorFacts
    DEF GraphInv, InputsReady, NodesFindTheirInputs
  <2>4. LoopCaps'
    BY <1>0, <1>11, <2>1, <2>2, EvaluatorFacts, RefineWithin, Numbers
    DEF GraphInv, LoopCaps, WithinBudgets, CanDebug, CanReplan
  <2>5. Paid'
    BY <1>0, <1>11, <2>1, <2>2, EvaluatorFacts, RefineWithin, Numbers
    DEF GraphInv, LoopCaps, Paid, Payments, ExecutionsArePaidFor
  <2>6. Judged'
    BY <1>0, <1>11, <2>1, <2>2, EvaluatorFacts
    DEF GraphInv, Judged, VerdictAgreesWithOutcome, DetermineOutcome, Passed, Decide, ExecutedCleanly
  <2> QED
    BY <2>3, <2>4, <2>5, <2>6 DEF GraphInv
<1>12. CASE Reporter
  <2>1. node' = "finalizer"
    BY <1>12 DEF Reporter
  <2>2. node = "reporter" /\ dispatches' = dispatches /\ kept' = kept
    BY <1>12 DEF Reporter, At, Here
  <2>3. InputsReady'
    BY <1>0, <1>12, <2>1, <2>2, PassingFacts
    DEF GraphInv, InputsReady, NodesFindTheirInputs
  <2>4. LoopCaps'
    BY <1>0, <1>12, <2>1, <2>2, PassingFacts, Numbers
    DEF GraphInv, LoopCaps, WithinBudgets, CanDebug, CanReplan
  <2>5. Paid'
    BY <1>0, <1>12, <2>1, <2>2, PassingFacts, Numbers
    DEF GraphInv, LoopCaps, Paid, Payments, ExecutionsArePaidFor
  <2>6. Judged'
    BY <1>0, <1>12, <2>1, <2>2, PassingFacts
    DEF GraphInv, Judged, VerdictAgreesWithOutcome, DetermineOutcome, Passed
  <2> QED
    BY <2>3, <2>4, <2>5, <2>6 DEF GraphInv
<1>13. CASE Finalizer
  <2>1. node' = "end"
    BY <1>13 DEF Finalizer
  <2>2. node = "finalizer" /\ dispatches' = dispatches /\ kept' = kept
    BY <1>13 DEF Finalizer, At, Here
  <2>3. InputsReady'
    BY <1>0, <1>13, <2>1, <2>2, FinalizerFacts
    DEF GraphInv, InputsReady, NodesFindTheirInputs
  <2>4. LoopCaps'
    BY <1>0, <1>13, <2>1, <2>2, FinalizerFacts, Numbers
    DEF GraphInv, LoopCaps, WithinBudgets, CanDebug, CanReplan
  <2>5. Paid'
    BY <1>0, <1>13, <2>1, <2>2, FinalizerFacts, Numbers
    DEF GraphInv, LoopCaps, Paid, Payments, ExecutionsArePaidFor
  <2>6. Judged'
    BY <1>0, <1>13, <2>1, <2>2, FinalizerFacts
    DEF GraphInv, Judged, VerdictAgreesWithOutcome, DetermineOutcome, Passed
  <2> QED
    BY <2>3, <2>4, <2>5, <2>6 DEF GraphInv
<1>14. CASE Redispatch
  <2>1. /\ dispatches' # 1 /\ node' = "init"
        /\ state' = state
    BY <1>14, Numbers DEF Redispatch
  <2> QED
    BY <2>1
    DEF GraphInv, InputsReady, NodesFindTheirInputs, LoopCaps,
        WithinBudgets, Paid, ExecutionsArePaidFor, Judged,
        VerdictAgreesWithOutcome
<1>15. CASE UNCHANGED vars
  BY <1>15
  DEF vars, GraphInv, InputsReady, NodesFindTheirInputs, LoopCaps,
      WithinBudgets, Paid, Payments, ExecutionsArePaidFor, Judged,
      VerdictAgreesWithOutcome, DetermineOutcome, Passed
<1> QED
  BY <1>1, <1>2, <1>3, <1>4, <1>5, <1>6, <1>7, <1>8, <1>9, <1>10, <1>11,
     <1>12, <1>13, <1>14, <1>15 DEF Next, NodeStep

LEMMA GraphInvAlways == Spec => []GraphInv
BY GraphInvInitially, GraphInvStep, TypeCorrect, PTL DEF Spec

\* The coder never runs without a plan, the sandbox without a revision, the
\* debugger without an error record, mlops without a clean run and metrics,
\* whatever budgets divert the run and wherever it is dispatched again.
THEOREM InputsAreFound == Spec => []NodesFindTheirInputs
<1>1. GraphInv => NodesFindTheirInputs
  BY DEF GraphInv, InputsReady
<1> QED
  BY <1>1, GraphInvAlways, PTL

\* A new REFINE verdict is within the debug budget before it and after it, so
\* only an exhausted budget keeps it from the coder.
LEMMA NewRefine ==
    ASSUME TypeOK, Evaluator, state'.decision = "REFINE"
    PROVE  /\ state'.debug_iterations + state'.refines <= MaxDebug
           /\ node' = "coder" \/ Exhausted(state')
<1>1. /\ state'.debug_iterations = state.debug_iterations
      /\ state'.refines = state.refines + 1
  BY EvaluatorFacts
<1>2. Decide(state)[1] = "REFINE"
  BY EvaluatorFacts
<1>3. ~(state.debug_iterations + state.refines >= MaxDebug)
  BY <1>2, RefineWithin
<1>4. state'.debug_iterations + state'.refines <= MaxDebug
  BY <1>1, <1>3, Numbers
<1>5. node' = RouteAfterEval(state')
  BY DEF Evaluator
<1>6. state'.debug_iterations + state'.refines - 1 < MaxDebug
  BY <1>1, <1>4, Numbers
<1> QED
  BY <1>4, <1>5, <1>6 DEF RouteAfterEval, Guarded

LEMMA RefineStep ==
    ASSUME TypeOK, [Next]_vars
    PROVE  RefineIsGranted
<1>1. state.refines \in Nat /\ ~(state.refines > state.refines)
  BY Numbers
<1>2. CASE Evaluator
  BY <1>1, <1>2, EvaluatorFacts, NewRefine DEF RefineIsGranted
<1>3. CASE ~Evaluator
  <2>1. state'.refines = state.refines
    BY <1>3, InitNodeFacts, PlannerFacts, PlannerFailsFacts, ResearcherFacts,
       CoderFacts, SandboxCleanFacts, SandboxFailureFacts, DebuggerFacts,
       PassingFacts, FinalizerFacts
    DEF Next, NodeStep, ResearcherRaises, SandboxRaises, Resume, Redispatch, vars
  <2> QED
    BY <1>1, <2>1 DEF RefineIsGranted
<1> QED
  BY <1>2, <1>3

\* The three loops stay within their budgets wherever they cross, and the two
\* comparisons of the budget that debugging and refining share agree.
THEOREM LoopsAreWithinBudgets == Spec => LoopsWithinBudgets
<1>1. GraphInv => WithinBudgets
  BY DEF GraphInv, LoopCaps
<1>2. TypeOK /\ [Next]_vars => RefineIsGranted
  BY RefineStep
<1> QED
  BY <1>1, <1>2, GraphInvAlways, TypeCorrect, PTL DEF Spec, LoopsWithinBudgets

\* Every container after the first follows a debug iteration, a REFINE verdict
\* or a replan.
THEOREM ExecutionsAreCovered == Spec => []ExecutionsArePaidFor
<1>1. GraphInv => ExecutionsArePaidFor
  BY DEF GraphInv, Paid
<1> QED
  BY <1>1, GraphInvAlways, PTL

\* The evaluator's final verdict and the finalizer's outcome are one outcome,
\* for every plan with a required criterion.
THEOREM VerdictsAgree == Spec => []VerdictAgreesWithOutcome
<1>1. GraphInv => VerdictAgreesWithOutcome
  BY DEF GraphInv, Judged
<1> QED
  BY <1>1, GraphInvAlways, PTL

=============================================================================
