--------------------------- MODULE MCRunLifecycle ---------------------------
(* Instances of RunLifecycle: two worker processes, and the requests and    *)
(* faults each run allows.                                                  *)
EXTENDS RunLifecycle, TLC

CONSTANTS w1, w2, r1, r2

MCWorkers == {w1, w2}
MCRequests == {r1, r2}
OneRequest == {r1}

None == [k \in Kinds |-> 0]

\* Two dispatches against a cancel, a dead worker and a sweep.
CancelScenario == [None EXCEPT !["dispatch"] = 2, !["cancel"] = 1, !["crash"] = 1]
\* A resume against a worker that outlives its lease.
StallScenario == [None EXCEPT !["dispatch"] = 1, !["resume"] = 1, !["stall"] = 1]
\* A resume after a crash and a failed statement.
CrashScenario == [None EXCEPT !["dispatch"] = 1, !["resume"] = 1, !["crash"] = 1,
                              !["io"] = 1]
\* A cancel that the worker could not subscribe to.
DeafScenario == [None EXCEPT !["dispatch"] = 1, !["cancel"] = 1, !["io"] = 1]
\* Two dispatches and a resume around a worker that is told to stop.
ShutdownScenario == [None EXCEPT !["dispatch"] = 2, !["resume"] = 1, !["shutdown"] = 1]
\* A resume and a dispatch in flight together around a dead worker.
RaceScenario == [None EXCEPT !["dispatch"] = 2, !["resume"] = 1, !["crash"] = 1]

FaultBudgets ==
    {CancelScenario, StallScenario, CrashScenario, DeafScenario,
     ShutdownScenario, RaceScenario}

Symmetry == Permutations(MCWorkers) \cup Permutations(MCRequests)
=============================================================================
