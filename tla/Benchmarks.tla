------------------------------ MODULE Benchmarks ------------------------------
(***************************************************************************)
(* The benchmark runner (services/benchmarks.py) and the endpoints that    *)
(* start it and read its history (api/v1/benchmarks.py).  A suite is a     *)
(* background task of the API process that drives the graph itself, case   *)
(* by case: its tasks are RUNNING rows that no worker holds a lock of.     *)
(* What was measured is told twice, by the report of the task and by the   *)
(* rows it leaves.                                                         *)
(***************************************************************************)
EXTENDS Naturals, Sequences, FiniteSets

CONSTANTS
    Cases,              \* the suite's cases, in order
    Traps,              \* those with trap: true
    NamedTraps,         \* those whose id ends with TRAP_SUFFIX
    Expect,             \* what each case declares: outcome, metrics, artifacts, ...
    FinalStates,        \* what a run of the graph may end with
    Suites,             \* the background tasks
    Limit,              \* rows the results endpoint reads
    BenchScenarios      \* budgets: how often each fault may happen

BenchFaults == {"raise", "lose", "reap", "restart"}

\* A suite has cases, and no id twice.
ASSUME CasesAssumption ==
    /\ Cases \in Seq({Cases[i] : i \in DOMAIN Cases}) /\ Cases # <<>>
    /\ \A i, j \in DOMAIN Cases : Cases[i] = Cases[j] => i = j
    /\ Traps \cup NamedTraps \subseteq {Cases[i] : i \in DOMAIN Cases}
ASSUME FinalStatesAssumption == \A state \in FinalStates : state.debug_iterations \in Nat
ASSUME LimitAssumption == Limit \in Nat
ASSUME BenchScenariosAssumption == BenchScenarios \subseteq [BenchFaults -> Nat]

VARIABLES
    suite,      \* each task: where it is, the cases still to run, its results
    tasks,      \* the status of each case's task row
    recorded,   \* benchmark_results, oldest first
    lost,       \* history: tasks a row of which was not written
    setbacks    \* what is left of the scenario

benchVars == <<suite, tasks, recorded, lost, setbacks>>

CaseIds == {Cases[i] : i \in DOMAIN Cases}

BenchTypeOK ==
    /\ \A s \in Suites :
          /\ suite[s].at \in {"idle", "create", "graph", "persist", "done", "dead"}
          /\ suite[s].todo = <<>> => suite[s].at \notin {"create", "graph"}
          /\ {suite[s].results[i].case : i \in DOMAIN suite[s].results} \subseteq CaseIds
    /\ tasks \in [Suites \X CaseIds -> {"none", "RUNNING", "INTERRUPTED"}]
    /\ \A i \in DOMAIN recorded : recorded[i].suite \in Suites
    /\ lost \subseteq Suites

BenchInit ==
    /\ suite = [s \in Suites |-> [at |-> "idle", todo |-> <<>>, results |-> <<>>]]
    /\ tasks = [c \in Suites \X CaseIds |-> "none"]
    /\ recorded = <<>>
    /\ lost = {}
    /\ setbacks \in BenchScenarios

Setback(fault) == setbacks[fault] > 0 /\ setbacks' = [setbacks EXCEPT ![fault] = @ - 1]

-----------------------------------------------------------------------------
\* score_case(): all of the declared checks.

OutcomeCheck(case, state) == state.outcome = Expect[case].outcome

\* A metric that was not measured, or is not finite, has not met its threshold.
MetricChecks(case, state) == Expect[case].metrics \subseteq state.reached

ArtifactChecks(case, state) == Expect[case].artifacts \subseteq state.produced

\* Any one of the phrases is enough.
ReportChecks(case, state) ==
    Expect[case].report_mentions # {} =>
        Expect[case].report_mentions \cap state.mentioned # {}

DebugIterationCheck(case, state) == state.debug_iterations <= Expect[case].ceiling
MustNotCheck(case, state) == Expect[case].must_not => ~state.fabricated

ScoreCase(case, state) ==
    [case |-> case, outcome |-> state.outcome, debug_iterations |-> state.debug_iterations,
     replans |-> state.replan_count,
     passed |-> /\ OutcomeCheck(case, state)
                /\ MetricChecks(case, state)
                /\ ArtifactChecks(case, state)
                /\ DebugIterationCheck(case, state)
                /\ ReportChecks(case, state)
                /\ MustNotCheck(case, state)]

\* A case that raises: no outcome, no metrics, one failed check.
Raised(case) ==
    [case |-> case, outcome |-> "none", debug_iterations |-> 0, replans |-> 0, passed |-> FALSE]

-----------------------------------------------------------------------------
\* The runner.

(* POST /{suite}/run: all cases in the suite's order, or one *)
PostRun(s) ==
    /\ suite[s].at = "idle"
    /\ \E asked \in {Cases} \cup {<<c>> : c \in CaseIds} :
          suite' = [suite EXCEPT ![s].at = "create", ![s].todo = asked]
    /\ UNCHANGED <<tasks, recorded, lost, setbacks>>

(* _create_task_row(), best effort *)
CreateTaskRow(s) ==
    /\ suite[s].at = "create"
    /\ suite' = [suite EXCEPT ![s].at = "graph"]
    /\ \/ tasks' = [tasks EXCEPT ![<<s, Head(suite[s].todo)>>] = "RUNNING"] /\ UNCHANGED setbacks
       \/ Setback("lose") /\ UNCHANGED tasks
    /\ UNCHANGED <<recorded, lost>>

(* graph.ainvoke() and score_case(): one bad case does not end the suite *)
RunCase(s) ==
    LET scored(result) ==
            suite' = [suite EXCEPT ![s].at = "persist", ![s].todo = Tail(@),
                                   ![s].results = Append(@, result)]
    IN  /\ suite[s].at = "graph"
        /\ \/ \E state \in FinalStates : scored(ScoreCase(Head(suite[s].todo), state))
              /\ UNCHANGED setbacks
           \/ Setback("raise") /\ scored(Raised(Head(suite[s].todo)))
        /\ UNCHANGED <<tasks, recorded, lost>>

(* _persist_result(), best effort; then the next case, or the report.  The *)
(* task row keeps the status it has.                                       *)
PersistResult(s) ==
    LET result == suite[s].results[Len(suite[s].results)] IN
    /\ suite[s].at = "persist"
    /\ \/ /\ recorded' = Append(recorded, [suite |-> s, result |-> result])
          /\ UNCHANGED <<lost, setbacks>>
       \/ /\ Setback("lose")
          /\ lost' = lost \cup {s}
          /\ UNCHANGED recorded
    /\ suite' = [suite EXCEPT ![s].at = IF suite[s].todo = <<>> THEN "done" ELSE "create"]
    /\ UNCHANGED tasks

\* reap_interrupted_runs(): a RUNNING row without a lock.
ReapTask(s, case) ==
    /\ tasks[<<s, case>>] = "RUNNING" /\ Setback("reap")
    /\ tasks' = [tasks EXCEPT ![<<s, case>>] = "INTERRUPTED"]
    /\ UNCHANGED <<suite, recorded, lost>>

\* The API process restarts, and its background tasks with it.
RestartRunner ==
    /\ Setback("restart")
    /\ suite' = [s \in Suites |-> IF suite[s].at \in {"idle", "done"} THEN suite[s]
                                  ELSE [suite[s] EXCEPT !.at = "dead"]]
    /\ UNCHANGED <<tasks, recorded, lost>>

(* run_suite(): one case after the other *)
RunSuite(s) == CreateTaskRow(s) \/ RunCase(s) \/ PersistResult(s)

BenchNext ==
    \/ \E s \in Suites : PostRun(s) \/ RunSuite(s)
    \/ \E s \in Suites, case \in CaseIds : ReapTask(s, case)
    \/ RestartRunner

BenchSpec == BenchInit /\ [][BenchNext]_benchVars

-----------------------------------------------------------------------------
\* The key figures, twice.

Met(results) == {i \in DOMAIN results : results[i].passed}
Succeeded(results) == {i \in DOMAIN results : results[i].outcome = "SUCCEEDED"}
FirstPass(results) == {i \in Succeeded(results) : results[i].debug_iterations = 0}
Replans(results) == {i \in DOMAIN results : results[i].replans # 0}

\* How many debug iterations there were in all: each is a pair of its case's
\* index and its own number.
DebugSum(results) ==
    Cardinality(UNION {{i} \X (1..results[i].debug_iterations) : i \in Succeeded(results)})

\* Judgement, for the report, is over the cases with trap: true; a row does not
\* say whether its case is one.
Judging(results) == {i \in DOMAIN results : results[i].case \in Traps}
LooksJudging(table) ==
    {i \in DOMAIN table : table[i].case \in NamedTraps \/ table[i].outcome = "PARTIAL"}

\* The properties of SuiteReport.
ReportKpis(results) == [
    total |-> Len(results),
    met |-> Cardinality(Met(results)),
    succeeded |-> Cardinality(Succeeded(results)),
    debug |-> DebugSum(results),
    first_pass |-> Cardinality(FirstPass(results)),
    replan |-> Cardinality(Replans(results)),
    traps |-> {results[i].case : i \in Judging(results)}]

(* compute_kpis() *)
ComputeKpis(table) == [
    total |-> Cardinality(DOMAIN table),
    met |-> Cardinality(Met(table)),
    succeeded |-> Cardinality(Succeeded(table)),
    debug |-> DebugSum(table),
    first_pass |-> Cardinality(FirstPass(table)),
    replan |-> Cardinality(Replans(table)),
    traps |-> {table[i].case : i \in LooksJudging(table)}]

\* get_benchmark_results(): the newest rows, newest first
Newest ==
    LET n == Len(recorded) IN
    [i \in 1..(IF n < Limit THEN n ELSE Limit) |-> recorded[n + 1 - i].result]

\* Mutant: a later row of the same case replaces the one that is kept.
KeepLast(table) ==
    LET kept == {i \in DOMAIN table :
                    \A j \in DOMAIN table : table[j].case = table[i].case => i >= j}
    IN  [i \in kept |-> table[i]]

(* _deduplicate(): the first row of each case *)
Deduplicate(table) ==
    LET kept == {i \in DOMAIN table :
                    \A j \in DOMAIN table : table[j].case = table[i].case => i <= j}
    IN  [i \in kept |-> table[i]]

\* What the endpoint answers with.
GetBenchmarkResults(latest_only) ==
    ComputeKpis(IF latest_only THEN Deduplicate(Newest) ELSE Newest)

\* The endpoint and the report say the same of a suite that ran to its end and
\* whose rows are the newest, whatever older rows, other tasks and reaped task
\* rows there are: "it stays answerable across restarts and across the process
\* that ran the suite" (api/v1/benchmarks.py, line 12).  When it is asked to
\* count every row it reads, that is so if it reads no others.  They differ on
\* which cases are judgement cases, unless each trap is named one or ended
\* PARTIAL and no other case did.
KpisMatchReport ==
    \A s \in Suites, latest_only \in BOOLEAN :
        LET results == suite[s].results
            n == Len(recorded)
            report == ReportKpis(results)
            kpis == GetBenchmarkResults(latest_only)
        IN  /\ suite[s].at = "done" /\ Len(results) = Len(Cases) /\ s \notin lost
            /\ Limit >= Len(Cases) /\ (latest_only \/ Len(Newest) = Len(Cases))
            /\ \A i \in (n + 1 - Len(Cases))..n : recorded[i].suite = s
            => /\ \A figure \in DOMAIN report \ {"traps"} : kpis[figure] = report[figure]
               /\ Judging(results) = LooksJudging(results) => kpis.traps = report.traps
=============================================================================
