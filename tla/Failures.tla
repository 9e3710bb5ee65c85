------------------------------- MODULE Failures -------------------------------
(***************************************************************************)
(* The attempts at one step of a plan: the gate, the run, metrics.json,    *)
(* what sandbox_exec makes of them (nodes/sandbox_exec.py), and whether    *)
(* the debugger and its router see that the attempts fail for one reason.  *)
(* AgentGraph has the routers with all their budgets and knows only how    *)
(* long the series of equal failures is; this module has what makes them   *)
(* equal, and only the budgets the series meets.                           *)
(***************************************************************************)
EXTENDS Contract

LOCAL INSTANCE SequencesExt

CONSTANTS
    PlanSteps,          \* steps of a plan: [train, binding]
    Repertoires,        \* by name, the programs the coder may come up with
    StagnationWindow,   \* equal failures that end the attempts
    RepeatWarningAt,    \* equal failures the debugger is warned of
    DebugBudget,        \* max_debug_iterations
    ReplanBudget,       \* max_replans
    Refinements         \* quality iterations (the model's bound)

ASSUME WindowAssumption ==
    /\ RepeatWarningAt \in Nat /\ StagnationWindow \in Nat
    /\ 1 < RepeatWarningAt /\ RepeatWarningAt < StagnationWindow
ASSUME RepertoiresAssumption ==
    \A r \in DOMAIN Repertoires : IsList(Repertoires[r]) /\ \A i \in DOMAIN Repertoires[r] :
        /\ {"oversized", "parses", "tree", "runs"} \subseteq DOMAIN Repertoires[r][i]
        /\ \A run \in Repertoires[r][i].runs : \A d, e \in run.metrics :
              d = e /\ IsList(d.metrics) /\ IsList(d.declared)
\* A plan binds one dataset or none.
ASSUME PlanStepsAssumption == \A step \in PlanSteps : \A b, c \in step.binding : b = c
ASSUME FailureBudgetsAssumption ==
    DebugBudget \in Nat /\ ReplanBudget \in Nat /\ Refinements \in Nat

VARIABLES
    planned,    \* the step the code is written for
    repertoire, \* the name of the programs the coder may write
    source,     \* the one the current revision is, or 0
    shelf,      \* the artifacts directory of that revision
    found,      \* last_outcome: its classification and its metrics
    failures,   \* the errors channel, oldest first
    hop,        \* the node that runs next
    warned,     \* the debugger's last prompt carried the repeat warning
    replans,    \* replan_count
    refined     \* refinements so far

failureVars == <<planned, repertoire, source, shelf, found, failures, hop, warned,
                 replans, refined>>

EmptyShelf == [metrics |-> {}, files |-> {}]

Classifications == {"CLEAN", "VALIDATION_REJECTED", "TIMEOUT", "OOM", "CONTRACT_VIOLATION",
                    "RUNTIME_ERROR", "UNKNOWN_FAILURE"}
ErrorKinds == {"SYNTAX", "IMPORT", "NAME", "TYPE", "DATA", "SHAPE", "VALUE", "ASSERTION", "OOM",
               "TIMEOUT", "RUNTIME", "UNKNOWN", "CONTRACT_VIOLATION", "VALIDATION_REJECTED"}

FailureTypeOK ==
    /\ planned \in PlanSteps /\ repertoire \in DOMAIN Repertoires
    /\ source \in 0..Len(Repertoires[repertoire])
    /\ \A d, e \in shelf.metrics : d = e
    /\ found.classification \in Classifications \cup {"none"}
    /\ found.metrics # {} => found.classification = "CLEAN"
    /\ Len(failures) <= DebugBudget + 1
    /\ \A i \in DOMAIN failures : failures[i].kind \in ErrorKinds
    /\ hop \in {"coder", "sandbox_exec", "debugger", "planner", "evaluator", "reporter"}
    /\ warned \in BOOLEAN
    /\ replans \in 0..ReplanBudget /\ refined \in 0..Refinements

FailuresInit ==
    /\ planned \in PlanSteps /\ repertoire \in DOMAIN Repertoires
    /\ source = 0 /\ shelf = EmptyShelf
    /\ found = [classification |-> "none", metrics |-> {}]
    /\ failures = <<>>
    /\ hop = "coder"
    /\ warned = FALSE
    /\ replans = 0 /\ refined = 0

-----------------------------------------------------------------------------
\* A new revision has a directory of its own.
NextRevision ==
    /\ hop = "coder"
    /\ source' \in DOMAIN Repertoires[repertoire]
    /\ shelf' = EmptyShelf
    /\ hop' = "sandbox_exec"
    /\ UNCHANGED <<planned, repertoire, found, failures, warned, replans, refined>>

\* A coder that fails leaves the revision there was, which then runs once more.
SameRevision ==
    /\ hop = "coder" /\ source # 0
    /\ hop' = "sandbox_exec"
    /\ UNCHANGED <<planned, repertoire, source, shelf, found, failures, warned, replans,
                   refined>>

-----------------------------------------------------------------------------
\* sandbox_exec

\* A timeout or a kill for memory also exits with an error, so they come first.
Classify(rejections, run, parsed, problems) ==
    CASE rejections # <<>> -> "VALIDATION_REJECTED"
      [] rejections = <<>> /\ run.timed_out -> "TIMEOUT"
      [] rejections = <<>> /\ ~run.timed_out /\ run.oom_killed -> "OOM"
      [] rejections = <<>> /\ ~run.timed_out /\ ~run.oom_killed /\ run.exit_code = "0" ->
            IF planned.train /\ (parsed.payload = {} \/ problems # <<>>)
            THEN "CONTRACT_VIOLATION" ELSE "CLEAN"
      [] OTHER -> IF LooksLikeTraceback(run.stderr) THEN "RUNTIME_ERROR"
                  ELSE "UNKNOWN_FAILURE"

\* synthetic_error(): the kind is the type.
Synthetic(kind, text) == [kind |-> kind, fingerprint |-> FingerprintOf(kind, text), line |-> 0]

\* error_from_traceback()
FromTraceback(stderr) ==
    LET seen == ParseTraceback(stderr)
    IN [kind |-> ClassifyException(seen.type, seen.text),
        fingerprint |-> FingerprintOf(seen.type, seen.text), line |-> seen.line]

\* validation_error()
ValidationError(rejections) ==
    Synthetic(IF \E i \in DOMAIN rejections : rejections[i].about = <<"SyntaxError">>
              THEN "SYNTAX" ELSE "VALIDATION_REJECTED", Joined(rejections))

BuildErrorRecord(classification, rejections, run, problems) ==
    CASE classification = "RUNTIME_ERROR" -> FromTraceback(run.stderr)
      [] classification = "VALIDATION_REJECTED" -> ValidationError(rejections)
      [] classification = "CONTRACT_VIOLATION" -> Synthetic(classification, Joined(problems))
      [] classification = "TIMEOUT" ->
            Synthetic(classification, <<Word("exceeded the wall-clock limit"),
                                        Number(run.took), Word("ms")>>)
      [] classification = "OOM" ->
            Synthetic(classification, <<Word("the container was OOM-killed"),
                IF run.rss = "unknown" THEN Word("unknown") ELSE Number(run.rss),
                Word("bytes")>>)
      [] OTHER -> Synthetic("UNKNOWN", <<Word("the program exited"), Number(run.exit_code),
                                         Word("without a recognisable traceback")>>)

\* What really went wrong, for the properties: the bug a traceback comes from,
\* else the first problem, else the classification itself.
Cause(classification, rejections, run, problems) ==
    CASE classification = "RUNTIME_ERROR" -> <<classification, run.bug>>
      [] classification = "VALIDATION_REJECTED" -> <<classification, rejections[1].about>>
      [] classification = "CONTRACT_VIOLATION" -> <<classification, problems[1].about>>
      [] OTHER -> <<classification>>

\* The record says what is needed to tell the cause: the exception has a line
\* of its own, no apostrophe unbalances its quote marks, the memory was sampled.
Telling(classification, run) ==
    /\ classification = "RUNTIME_ERROR" =>
          LET seen == ParseTraceback(run.stderr)
          IN seen.type = run.raised /\ Marks(seen.text, Len(seen.text)) % 2 = 0
    /\ classification = "OOM" => run.rss # "unknown"

\* The driver starts nothing for a program the gate refuses.
Refused == [timed_out |-> FALSE, oom_killed |-> FALSE, exit_code |-> "none", rss |-> "unknown",
            took |-> "0", stderr |-> <<>>, bug |-> "", raised |-> "", metrics |-> {}, files |-> {}]

Record(rejections, run, leftover) ==
    LET parsed == ParseMetricsFile(leftover)
        problems == ContractProblems(parsed, planned.binding)
        classification == Classify(rejections, run, parsed, problems)
        error == BuildErrorRecord(classification, rejections, run, problems)
    IN /\ found' = [classification |-> classification,
                    metrics |-> IF classification = "CLEAN" THEN parsed.payload ELSE {}]
       /\ IF classification = "CLEAN"
          THEN hop' = "evaluator" /\ UNCHANGED failures
          ELSE /\ failures' = Append(failures,
                    [kind |-> error.kind, fingerprint |-> error.fingerprint, line |-> error.line,
                     cause |-> Cause(classification, rejections, run, problems),
                     telling |-> Telling(classification, run)])
               /\ hop' = IF Len(failures) >= DebugBudget THEN "reporter" ELSE "debugger"

\* The files of an earlier execution of the same revision are still there.
SandboxExec ==
    /\ hop = "sandbox_exec"
    /\ LET program == Repertoires[repertoire][source]
           rejections == ValidateSource(program, planned.train)
       IN \/ /\ rejections # <<>>
             /\ Record(rejections, Refused, EmptyShelf)
             /\ UNCHANGED shelf
          \/ /\ rejections = <<>>
             /\ \E run \in program.runs :
                   /\ shelf' = [metrics |-> IF run.metrics = {} THEN shelf.metrics ELSE run.metrics,
                                files |-> shelf.files \cup run.files]
                   /\ Record(rejections, run, shelf')
    /\ UNCHANGED <<planned, repertoire, source, warned, replans, refined>>

-----------------------------------------------------------------------------
Stagnates == ConsecutiveRepeats(failures) >= StagnationWindow /\ replans < ReplanBudget

\* The warning goes into the prompt; the router counts the same series.  That the
\* model itself asks for a replan or for research is in AgentGraph.
DebugFailure ==
    /\ hop = "debugger"
    /\ warned' = (ConsecutiveRepeats(failures) >= RepeatWarningAt)
    /\ hop' = IF Stagnates THEN "planner" ELSE "coder"
    /\ UNCHANGED <<planned, repertoire, source, shelf, found, failures, replans, refined>>

\* The errors are kept: after a replan the series goes on.
Replanned ==
    /\ hop = "planner"
    /\ replans' = replans + 1
    /\ hop' = "coder"
    /\ UNCHANGED <<planned, repertoire, source, shelf, found, failures, warned, refined>>

Refine ==
    /\ hop = "evaluator" /\ refined < Refinements
    /\ refined' = refined + 1
    /\ hop' = "coder"
    /\ UNCHANGED <<planned, repertoire, source, shelf, found, failures, warned, replans>>

FailuresNext ==
    \/ NextRevision \/ SameRevision \/ SandboxExec \/ DebugFailure \/ Replanned \/ Refine

FailuresSpec == FailuresInit /\ [][FailuresNext]_failureVars

-----------------------------------------------------------------------------
\* What a training step hands on to be judged can be: the
\* metrics are finite, none a criterion needs is absent, they are of the bound
\* dataset, and the files they declare exist (MLOPS.md, section 3.4).
CleanTrainIsUsable ==
    hop = "evaluator" /\ planned.train =>
        \E d \in found.metrics :
            /\ \A i \in DOMAIN d.metrics : d.metrics[i].finite
            /\ \A i \in DOMAIN Criteria :
                  \E j \in DOMAIN d.metrics : d.metrics[j].name = Criteria[i].metric
            /\ \A b \in planned.binding : d.dataset = b.dataset
            /\ \A i \in DOMAIN d.declared : d.declared[i] \in shelf.files

\* The newest failures, as many as the window has, that have one cause.
OneCause ==
    /\ Len(failures) >= StagnationWindow
    /\ \A i \in (Len(failures) - StagnationWindow + 1)..Len(failures) :
          failures[i].cause = failures[Len(failures)].cause

\* Two attempts have one fingerprint if and only if they failed for one reason,
\* whatever numbers, paths, addresses and values their messages carry
\* (fingerprint(), engine/errors.py).  Of messages that tell.
PrintsTellCauses ==
    \A i, j \in DOMAIN failures : failures[i].telling /\ failures[j].telling =>
        (failures[i].fingerprint = failures[j].fingerprint
            <=> failures[i].cause = failures[j].cause)

\* Attempts that fail for one reason are seen as such and end at the planner once
\* the debugger has been warned; attempts that fail for different reasons go on
\* (route_after_debug, AGENTS.md section 5.5 rule 4).
StagnationIsOneBug ==
    [][/\ PrintsTellCauses'
       /\ hop = "debugger" /\ replans < ReplanBudget
            /\ (\A i \in DOMAIN failures : failures[i].telling) =>
          /\ hop' = "planner" <=> OneCause
          /\ hop' = "planner" => warned]_failureVars
=============================================================================
