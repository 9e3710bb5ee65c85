------------------------------ MODULE Reporting ------------------------------
(***************************************************************************)
(* What a run tells of itself: the records its loops leave in the state    *)
(* (errors, diagnoses, code_revisions, verdicts), the report that pairs    *)
(* them up again (engine/reporting.py, nodes/reporter.py) and the episodic *)
(* memory of run_memory that later runs read (services/vector_store.py),   *)
(* and the bundle of its files (nodes/finalizer.py).                       *)
(* The routers and budgets are those of AgentGraph, cut down to the order  *)
(* in which records can be written.                                        *)
(***************************************************************************)
EXTENDS Naturals, Sequences

LOCAL INSTANCE Bags

CONSTANTS
    Prints,             \* the fingerprints failures may have
    MaxDebugging,       \* max_debug_iterations
    MaxRuns,            \* executions of the sandbox (the model's bound)
    ReportScenarios     \* budgets: how often each fault may happen

ReportFaults == {"degrade", "lose", "again", "crash"}

ASSUME ReportBoundsAssumption == MaxDebugging \in Nat /\ MaxRuns \in Nat
ASSUME ReportScenariosAssumption == ReportScenarios \subseteq [ReportFaults -> Nat]

VARIABLES
    records,    \* the channels of the run's thread
    stage,      \* the node that runs next
    past,       \* history: each failure as it happened
    report,     \* the newest report
    bundle,     \* bundle.zip: the revision of its code and of its artifacts
    memory,     \* the points of run_memory, a bag; cycle is history
    dispatched, \* dispatches of the run
    misfortune  \* what is left of the scenario

reportVars == <<records, stage, past, report, bundle, memory, dispatched, misfortune>>

Decisions == {"ACCEPT", "REFINE", "REPLAN", "ABORT"}
ErrorRecords == [print : Prints, revision : Nat]
Failings == [diagnosed : BOOLEAN, answer : Nat]
MemoryPoints == [cycle : Nat, print : Prints, fix : Nat]
Channels == [errors : Seq(ErrorRecords), diagnoses : Seq(Nat), verdicts : Seq(Decisions),
             delivered : Nat, revisions : Nat, last : Prints \cup {"none", "CLEAN"},
             met : BOOLEAN, iterations : Nat, runs : Nat]

ReportTypeOK ==
    /\ records \in Channels
    /\ \A i \in DOMAIN records.errors : records.errors[i].revision \in 1..records.revisions
    /\ \A i \in DOMAIN records.diagnoses : records.diagnoses[i] \in DOMAIN past
    /\ records.delivered <= records.revisions
    /\ stage \in {"coder", "sandbox_exec", "debugger", "evaluator", "reporter",
                 "finalizer", "end"}
    /\ past \in Seq(Failings)
    /\ \A i \in DOMAIN past : past[i].answer <= records.revisions
    /\ Len(report.cycles) <= Len(records.errors)
    /\ IsABag(memory) /\ BagToSet(memory) \subseteq MemoryPoints
    /\ bundle \in [code : Nat, artifacts : Nat]
    /\ dispatched \in 1..2
    /\ misfortune \in [ReportFaults -> Nat]

ReportInit ==
    /\ records = [errors |-> <<>>, diagnoses |-> <<>>, verdicts |-> <<>>, delivered |-> 0,
                  revisions |-> 0, last |-> "none", met |-> FALSE,
                  iterations |-> 0, runs |-> 0]
    /\ stage = "coder"
    /\ past = <<>>
    /\ report = [cycles |-> <<>>, quality |-> 0]
    /\ bundle = [code |-> 0, artifacts |-> 0]
    /\ memory = EmptyBag
    /\ dispatched = 1
    /\ misfortune \in ReportScenarios

Befalls(fault) == misfortune[fault] > 0 /\ misfortune' = [misfortune EXCEPT ![fault] = @ - 1]

-----------------------------------------------------------------------------
\* The loops.

\* The first revision after a failure is the answer to it.
AnsweredBy(revision) ==
    [i \in DOMAIN past |-> IF past[i].answer # 0 THEN past[i]
                          ELSE [past[i] EXCEPT !.answer = revision]]

(* coder_node, or what is left when it fails: the revision there was *)
WriteRevision ==
    /\ stage = "coder"
    /\ \/ /\ records' = [records EXCEPT !.revisions = @ + 1]
          /\ past' = AnsweredBy(records.revisions + 1)
          /\ stage' = "sandbox_exec"
          /\ UNCHANGED misfortune
       \/ /\ Befalls("degrade")
          /\ stage' = IF records.revisions = 0 THEN "reporter" ELSE "sandbox_exec"
          /\ UNCHANGED <<records, past>>
    /\ UNCHANGED <<report, bundle, memory, dispatched>>

\* build_error(): the failure of the current revision, by its fingerprint.
BuildError(print) == [print |-> print, revision |-> records.revisions]

\* _deliverables(): the execution wrote files or none; in the list of them all,
\* the first is of this revision if there was none before.
Deliverables ==
    {records.delivered, IF records.delivered = 0 THEN records.revisions ELSE records.delivered}

RunFails(print) ==
    /\ stage = "sandbox_exec" /\ records.runs < MaxRuns
    /\ \E delivered \in Deliverables :
          records' = [records EXCEPT !.errors = Append(@, BuildError(print)),
                                     !.delivered = delivered,
                                     !.last = print, !.met = FALSE, !.runs = @ + 1]
    /\ past' = Append(past, [diagnosed |-> FALSE, answer |-> 0])
    /\ stage' = IF records.iterations < MaxDebugging THEN "debugger" ELSE "reporter"
    /\ UNCHANGED <<report, bundle, memory, dispatched, misfortune>>

RunIsClean ==
    /\ stage = "sandbox_exec" /\ records.runs < MaxRuns
    /\ \E met \in BOOLEAN, delivered \in Deliverables :
          records' = [records EXCEPT !.last = "CLEAN", !.met = met, !.runs = @ + 1,
                                     !.delivered = delivered]
    /\ stage' = "evaluator"
    /\ UNCHANGED <<past, report, bundle, memory, dispatched, misfortune>>

\* Mutant: the fallback of the debugger writes no diagnosis.
DiagnoseOrNothing ==
    /\ stage = "debugger"
    /\ \/ /\ records' = [records EXCEPT !.diagnoses = Append(@, Len(past)),
                                        !.iterations = @ + 1]
          /\ past' = [past EXCEPT ![Len(past)].diagnosed = TRUE]
          /\ UNCHANGED misfortune
       \/ /\ Befalls("degrade")
          /\ records' = [records EXCEPT !.iterations = @ + 1]
          /\ UNCHANGED past
    /\ stage' = "coder"
    /\ UNCHANGED <<report, bundle, memory, dispatched>>

\* _reconcile(): a diagnosis is of the last failure, whatever the model says.
Reconciled == Len(past)

(* debugger_node, or minimal_diagnosis_update: each writes a diagnosis.  The *)
(* planner and the researcher may follow, before the coder.                  *)
Diagnose ==
    /\ stage = "debugger"
    /\ records' = [records EXCEPT !.diagnoses = Append(@, Reconciled), !.iterations = @ + 1]
    /\ past' = [past EXCEPT ![Len(past)].diagnosed = TRUE]
    /\ \/ UNCHANGED misfortune
       \/ Befalls("degrade")
    /\ stage' = "coder"
    /\ UNCHANGED <<report, bundle, memory, dispatched>>

(* evaluator_node; a new plan has criteria of its own *)
Judge(decision) ==
    /\ stage = "evaluator"
    /\ records.met <=> decision = "ACCEPT"
    /\ \E met \in IF decision = "REPLAN" THEN BOOLEAN ELSE {records.met} :
          records' = [records EXCEPT !.verdicts = Append(@, decision), !.met = met]
    /\ stage' = IF decision \in {"REFINE", "REPLAN"} THEN "coder" ELSE "reporter"
    /\ UNCHANGED <<past, report, bundle, memory, dispatched, misfortune>>

\* guarded(): a budget is exhausted, and stays so.
DivertToReport ==
    /\ stage \in {"coder", "sandbox_exec", "debugger"}
    /\ stage' = "reporter"
    /\ records' = [records EXCEPT !.runs = MaxRuns]
    /\ UNCHANGED <<past, report, bundle, memory, dispatched, misfortune>>

-----------------------------------------------------------------------------
\* The report.

\* _was_resolved(): the next failure is another one, or the last run was clean.
WasResolved(i) ==
    IF i < Len(records.errors)
    THEN records.errors[i + 1].print # records.errors[i].print
    ELSE records.last = "CLEAN"

\* The revision after the one that failed; 0 is None.
Fix(error) == IF error.revision < records.revisions THEN error.revision + 1 ELSE 0

\* debug_cycles(): errors and diagnoses are paired by position.
DebugCycles ==
    [i \in DOMAIN records.errors |->
        [print |-> records.errors[i].print,
         diagnosis |-> IF i <= Len(records.diagnoses) THEN records.diagnoses[i] ELSE 0,
         fix |-> Fix(records.errors[i]),
         resolved |-> WasResolved(i)]]

\* quality_cycles(): the verdicts that sent the run back.
QualityCycles == Len(SelectSeq(records.verdicts, LAMBDA d : d # "ACCEPT"))

\* report_context(): the facts, read off the state as it is.
ReportContext == [cycles |-> DebugCycles, quality |-> QualityCycles]

\* assemble_report(): what is rendered from the facts.  The model's prose, which
\* may stand in the place of what is rendered of the cycles, is left out.
AssembleReport == ReportContext

Status ==
    CASE records.last # "CLEAN" -> "FAILED"
      [] records.last = "CLEAN" /\ records.met -> "SUCCEEDED"
      [] records.last = "CLEAN" /\ ~records.met -> "PARTIAL"

\* _episodic_points(): the resolved cycles of a run that succeeded.
EpisodicPoints ==
    {[cycle |-> i, print |-> DebugCycles[i].print, fix |-> DebugCycles[i].fix] :
        i \in {i \in DOMAIN DebugCycles : DebugCycles[i].resolved /\ Status = "SUCCEEDED"}}

\* Every point gets an id of its own: writing one again adds a copy.
Written(points) == memory' = memory (+) SetToBag(points)

\* _write_episodic_memory(): a point that cannot be written is skipped.
Remember ==
    \/ Written(EpisodicPoints) /\ UNCHANGED misfortune
    \/ /\ Befalls("lose")
       /\ \E lost \in EpisodicPoints : Written(EpisodicPoints \ {lost})

(* reporter_node, or fallback_report, which remembers nothing *)
WriteReport ==
    /\ stage = "reporter"
    /\ report' = AssembleReport
    /\ \/ Remember
       \/ Befalls("degrade") /\ UNCHANGED memory
    /\ stage' = "finalizer"
    /\ UNCHANGED <<records, past, bundle, dispatched>>

\* _write_bundle(): the code that is current, and the first file of each name.
WriteBundle ==
    [code |-> records.revisions, artifacts |-> records.delivered]

(* finalise_run(): a directory that cannot be made and a bundle that cannot *)
(* be assembled each leave the bundle out; the run ends all the same.  The  *)
(* summary, the report's copy and the manifest beside it are left out.      *)
Finalise ==
    /\ stage = "finalizer"
    /\ \/ bundle' = WriteBundle /\ UNCHANGED misfortune
       \/ Befalls("lose") /\ UNCHANGED bundle
    /\ stage' = "end"
    /\ UNCHANGED <<records, past, report, memory, dispatched>>

\* The worker dies while it writes the points, one after the other; the node
\* runs again.
CrashInReporter ==
    /\ stage = "reporter" /\ Befalls("crash")
    /\ \E last \in EpisodicPoints :
          Written({p \in EpisodicPoints : p.cycle <= last.cycle})
    /\ UNCHANGED <<records, stage, past, report, bundle, dispatched>>

\* The run has ended or was cancelled between two nodes, and is dispatched
\* again on its thread: init resets the counter of the debugger alone.
DispatchAgain ==
    /\ dispatched = 1 /\ Befalls("again")
    /\ dispatched' = 2
    /\ records' = [records EXCEPT !.iterations = 0]
    /\ stage' = "coder"
    /\ UNCHANGED <<past, report, bundle, memory>>

ReportNext ==
    \/ WriteRevision
    \/ RunIsClean
    \/ Diagnose
    \/ DivertToReport
    \/ WriteReport
    \/ Finalise
    \/ CrashInReporter
    \/ DispatchAgain
    \/ \E print \in Prints : RunFails(print)
    \/ \E decision \in Decisions : Judge(decision)

ReportSpec == ReportInit /\ [][ReportNext]_reportVars

-----------------------------------------------------------------------------
\* No failure without a diagnosis comes before one that has its own.
InLockstep ==
    \A i, j \in DOMAIN past : i < j /\ past[j].diagnosed => past[i].diagnosed

\* The report has each failure with the diagnosis made of it, if any, and with
\* the first revision written after it, though errors, diagnoses and revisions
\* are three lists written by three nodes that may each fail or be skipped:
\* "`errors` and `diagnoses` advance in lockstep through the correctness loop"
\* (engine/reporting.py, line 171).  That is so of a run dispatched once.  A
\* dispatch on the thread of a run that ended with a failure nobody diagnosed
\* leaves them out of step for good.
CyclesTellHistory ==
    /\ dispatched = 1 => InLockstep
    /\ stage = "end" /\ InLockstep =>
          /\ Len(report.cycles) = Len(past)
          /\ \A i \in DOMAIN past :
                /\ report.cycles[i].diagnosis = IF past[i].diagnosed THEN i ELSE 0
                /\ report.cycles[i].fix = past[i].answer

\* The artifacts in bundle.zip are those of the code beside them.  Not so once a
\* revision follows one that wrote files: the bundle then holds the newest code
\* and the oldest file of each name.
BundleIsOfItsCode ==
    stage = "end" /\ records.delivered \in {0, records.revisions}
        => bundle.artifacts \in {0, bundle.code}

\* Each point of run_memory is of a failure there was, with the revision that
\* came after it, or with none where the same revision passed when it was run
\* again.  Until the run is dispatched again, it has succeeded and the failure
\* did not come back: "the whole reason this gate exists is that a fix from a
\* run that did not actually succeed would poison the memory"
\* (nodes/reporter.py, line 302).
MemoryIsOfSuccess ==
    \A p \in BagToSet(memory) :
        /\ p.cycle \in DOMAIN past
        /\ p.print = records.errors[p.cycle].print
        /\ p.fix \in {0, past[p.cycle].answer}
        /\ dispatched = 1 =>
              /\ Status = "SUCCEEDED" /\ WasResolved(p.cycle)
              /\ p.fix = past[p.cycle].answer

\* Report, bundle and run memory say of a run what happened in it.
RunIsTold == CyclesTellHistory /\ BundleIsOfItsCode /\ MemoryIsOfSuccess
=============================================================================
