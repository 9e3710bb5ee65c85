---------------------------- MODULE MCAgentGraph ----------------------------
(* An instance of AgentGraph: small budgets and the plans whose shapes the  *)
(* routers tell apart.                                                      *)
EXTENDS AgentGraph

Do(kind, after) == [kind |-> kind, after |-> after]
PlanOf(steps, required) == [steps |-> steps, required |-> required]

MCPlans ==
    {\* research is skipped, training is judged, evaluation is a step
     PlanOf(<<Do("research", {}), Do("train", {1}), Do("evaluate", {2})>>, TRUE),
     \* two executable steps, the second behind the first
     PlanOf(<<Do("implement", {}), Do("train", {1})>>, TRUE),
     PlanOf(<<Do("implement", {})>>, TRUE),
     \* nothing executable, nothing required; kept by a second dispatch, its
     \* pending step is the report
     PlanOf(<<Do("evaluate", {}), Do("report", {1})>>, FALSE)}
=============================================================================
