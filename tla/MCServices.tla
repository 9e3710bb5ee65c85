------------------------------ MODULE MCServices ------------------------------
(***************************************************************************)
(* The services around a run share no state with one another, so that one  *)
(* of them moves at a time: the initial state chooses which (subject) and, *)
(* where the module has them, its faults; the others stay where they       *)
(* start.  What is explored is the union of the eight state spaces, not    *)
(* their product.                                                          *)
(***************************************************************************)
EXTENDS Sandbox, Tracking, NodeVisit, Corpus, Benchmarks, Admission,
        Reporting, Failures, TLC

VARIABLE subject

\* The faults of each scenario happen at most that often, in any order.
Faulty(faults, chosen) == [f \in faults |-> Cardinality({i \in 1..2 : chosen[i] = f})]

MCSandboxScenarios == {Faulty(SandboxFaults, c) : c \in
    {<<"crash", "blip">>, <<"stall", "cancel">>, <<"early", "blip">>, <<"cancel", "crash">>}}

MCMeeting == {1}
MCImproving == {<<2, 1>>}
MCTrackingScenarios ==
    {Faulty(TrackingFaults, c) : c \in
        {<<"down", "cancel">>, <<"cancel", "crash">>, <<"down", "prune">>,
         <<"lost", "crash">>, <<"cancel", "cancel">>}}
    \cup {[Faulty(TrackingFaults, <<"down", "spoil">>) EXCEPT !["down"] = n] : n \in 1..2}

MCRequests == {"r1", "r2", "r3"}
MCTexts == {"t1", "t2", "t3"}
\* A heading shorter than the overlap, a word longer than a chunk, and a blank text.
MCLayout ==
    "t1" :> [length |-> 13, paragraphs |-> {2}, lines |-> {9}, words |-> {6, 11}] @@
    "t2" :> [length |-> 9, paragraphs |-> {}, lines |-> {}, words |-> {1, 7}] @@
    "t3" :> [length |-> 2, paragraphs |-> {}, lines |-> {}, words |-> {0, 1}]
MCCorpusScenarios == {Faulty(CorpusFaults, <<f, "">>) : f \in CorpusFaults}

MCSockets == {"s1", "s2", "s3"}
MCAdmissionScenarios == {Faulty(AdmissionFaults, <<f, "">>) : f \in AdmissionFaults}

MCCases == <<"leakage-trap", "impossible-target">>
MCTraps == {"leakage-trap", "impossible-target"}
MCNamedTraps == {"leakage-trap"}
MCExpect ==
    "leakage-trap" :> [outcome |-> "SUCCEEDED", metrics |-> {"accuracy"},
                       artifacts |-> {"model"}, report_mentions |-> {"leak", "target"},
                       ceiling |-> 1, must_not |-> TRUE] @@
    "impossible-target" :> [outcome |-> "PARTIAL", metrics |-> {}, artifacts |-> {},
                            report_mentions |-> {}, ceiling |-> 1, must_not |-> TRUE]
MCFinalState(outcome, iterations, fabricated, mentioned) ==
    [outcome |-> outcome, debug_iterations |-> iterations, fabricated |-> fabricated,
     replan_count |-> IF outcome = "PARTIAL" THEN 2 ELSE 0,
     reached |-> IF outcome = "SUCCEEDED" THEN {"accuracy"} ELSE {},
     produced |-> {"model", "metrics"}, mentioned |-> mentioned]
MCFinalStates ==
    {MCFinalState("SUCCEEDED", 0, TRUE, {"leak"}), MCFinalState("SUCCEEDED", 1, FALSE, {"leak"}),
     MCFinalState("PARTIAL", 1, FALSE, {})}
MCSuites == {1, 2}
MCBenchScenarios == {Faulty(BenchFaults, <<f, "">>) : f \in BenchFaults}

MCReportScenarios ==
    {Faulty(ReportFaults, c) : c \in
        {<<"again", "">>, <<"degrade", "crash">>, <<"degrade", "lose">>}}

MCAllowlist == {"numpy", "os"}
MCCriteria == <<[id |-> "c1", metric |-> "accuracy"], [id |-> "c2", metric |-> "f1"]>>
MCPlanSteps ==
    {[train |-> TRUE, binding |-> {[dataset |-> "iris", sha256 |-> "h"]}],
     [train |-> FALSE, binding |-> {}]}
MCWrites == [node |-> "metrics.json"]
MCProgram(nodes, runs) ==
    [oversized |-> FALSE, parses |-> TRUE, tree |-> nodes, runs |-> runs]
MCDocument(metrics, dataset, sha256, declared) ==
    [form |-> "valid", metrics |-> metrics, dataset |-> dataset, sha256 |-> sha256,
     declared |-> declared]
MCMetric(name, finite) == [name |-> name, finite |-> finite]
MCBoth == <<MCMetric("accuracy", TRUE), MCMetric("f1", TRUE)>>
MCEnd == [timed_out |-> FALSE, oom_killed |-> FALSE, exit_code |-> "0", rss |-> "900",
          took |-> "7", stderr |-> <<>>, bug |-> "", raised |-> "", metrics |-> {},
          files |-> {}]
MCExit(documents, files) == [MCEnd EXCEPT !.metrics = documents, !.files = files]
MCRaise(bug, type, main, text) ==
    [MCEnd EXCEPT !.exit_code = "1", !.bug = bug, !.raised = type,
        !.stderr = <<Header, Frame(main), Frame(0), Named(type, text)>>]

\* One bug on two values, at two lines; a message that is only its literal; an
\* apostrophe; and two exceptions of which the second one counts.
MCConvert(value) == <<Word("could not convert string to float")>> \o Literal(value)
MCTracebacks ==
    <<MCProgram(<<MCWrites>>,
        {MCRaise("float", "ValueError", 42, MCConvert("male")),
         MCRaise("float", "ValueError", 57, MCConvert("axis"))}),
     MCProgram(<<MCWrites>>,
        {MCRaise("target", "KeyError", 12, Literal("target")),
         MCRaise("diagnosis", "KeyError", 12, Literal("diagnosis"))})>>
MCDetails ==
    <<MCProgram(<<MCWrites>>,
        {MCRaise("address", "RuntimeError", 3, <<Word("failed at"), Address("7f3a"),
                                                   Word("in"), File("/workspace/a"), Number(n)>>)
            : n \in {"1", "2"}}),
     MCProgram(<<MCWrites>>,
        {[MCRaise("value", "ValueError", 9, <<Word("axis"), Number("1")>>) EXCEPT
            !.stderr = <<Header, Frame(4), Named("KeyError", Literal("x")),
                         Plain(<<Word("During handling")>>), Header, Frame(9)>>
                       \o <<Named("ValueError", <<Word("axis"), Number("1")>>)>>]})>>
MCObscure ==
    <<MCProgram(<<MCWrites>>,
        {MCRaise("apostrophe", "ValueError", 5,
            <<Word("can"), Mark, Word("t cast")>> \o Literal(v)) : v \in {"a", "b"}}),
     MCProgram(<<MCWrites>>,
        {[MCRaise("assert", "AssertionError", 6, <<>>) EXCEPT
            !.stderr = <<Named("INFO", <<Word("epoch"), Word(w)>>), Header, Frame(6),
                         Plain(<<Word("AssertionError")>>)>>] : w \in {"improves", "worsens"}})>>
MCKilled ==
    <<MCProgram(<<MCWrites>>,
        {[MCEnd EXCEPT !.oom_killed = TRUE, !.exit_code = "137", !.rss = r]
            : r \in {"800", "900", "unknown"}}),
     MCProgram(<<MCWrites>>,
        {[MCEnd EXCEPT !.timed_out = TRUE, !.exit_code = "137", !.took = t,
              !.oom_killed = (t = "31000"), !.stderr = <<Header, Frame(8)>>,
              !.metrics = {MCDocument(MCBoth, "iris", "h", <<>>)}] : t \in {"30000", "31000"}}
        \cup {MCEnd, [MCEnd EXCEPT !.exit_code = "1", !.stderr = <<Plain(<<Word("Killed")>>)>>]})>>
MCGated ==
    <<MCProgram(<<[node |-> "import", module |-> "requests"], MCWrites>>, {}),
     MCProgram(<<MCWrites, [node |-> "from", level |-> 0, module |-> "numpy", name |-> "array"],
                 [node |-> "import", module |-> "requests"],
                 [node |-> "os", attr |-> "system"]>>, {}),
     MCProgram(<<[node |-> "open", path |-> "/datasets", absolute |-> TRUE, mode |-> "w"],
                 [node |-> "open", path |-> "/tmp", absolute |-> TRUE, mode |-> "w"]>>,
        {MCExit({}, {})}),
     [oversized |-> FALSE, parses |-> FALSE, tree |-> <<>>, runs |-> {}]>>
MCRefused ==
    <<MCProgram(<<[node |-> "from", level |-> 1, module |-> "", name |-> "x"]>>, {}),
     MCProgram(<<[node |-> "from", level |-> 0, module |-> "os", name |-> "system"],
                 [node |-> "call", name |-> "eval", literal |-> TRUE]>>, {}),
     MCProgram(<<[node |-> "call", name |-> "eval", literal |-> FALSE],
                 [node |-> "call", name |-> "input", literal |-> TRUE]>>, {}),
     [oversized |-> TRUE, parses |-> TRUE, tree |-> <<>>, runs |-> {}]>>
\* One way to write outside of what may be written to, at two paths.
MCOpened ==
    <<MCProgram(<<[node |-> "open", path |-> "/etc", absolute |-> TRUE, mode |-> "w"],
                  MCWrites>>, {}),
     MCProgram(<<MCWrites,
                 [node |-> "open", path |-> "/srv", absolute |-> TRUE, mode |-> "w"]>>, {})>>
\* Good metrics once, then none; infinite or missing ones, another dataset, a file
\* that is only declared.
MCMeasured ==
    <<MCProgram(<<MCWrites>>,
        {MCExit({MCDocument(MCBoth, "iris", "h", <<"model">>)}, f) : f \in {{}, {"model"}}}
        \cup {MCExit({}, {})}),
     MCProgram(<<MCWrites>>,
        {MCExit({MCDocument(<<MCMetric("f1", TRUE), MCMetric("accuracy", FALSE)>>,
                            "iris", "", <<>>)}, {}),
         MCExit({MCDocument(<<MCMetric("f1", TRUE)>>, "iris", "h", <<>>)}, {})}),
     MCProgram(<<MCWrites>>,
        {MCExit({MCDocument(MCBoth, d, "g", <<>>)}, {}) : d \in {"iris", "wine"}}
        \cup {MCExit({[MCDocument(MCBoth, "iris", "h", <<>>) EXCEPT !.form = "not readable JSON"]}, {})})>>
MCRepertoires ==
    [tracebacks |-> MCTracebacks, details |-> MCDetails, obscure |-> MCObscure,
     killed |-> MCKilled, gated |-> MCGated, refused |-> MCRefused, opened |-> MCOpened,
     measured |-> MCMeasured]

-----------------------------------------------------------------------------
ServicesInit ==
    /\ subject \in {"sandbox", "tracking", "visit", "corpus", "bench", "admission", "report",
                    "failures"}
    /\ SandboxInit
    /\ subject # "sandbox" => spare = CHOOSE c \in SandboxScenarios : TRUE
    /\ TrackingInit
    /\ subject # "tracking" => chances = CHOOSE c \in TrackingScenarios : TRUE
    /\ VisitInit
    /\ subject # "visit" => visitor = "init"
    /\ CorpusInit
    /\ subject # "corpus" => collected /\ mishaps = CHOOSE c \in CorpusScenarios : TRUE
    /\ BenchInit
    /\ subject # "bench" => setbacks = CHOOSE c \in BenchScenarios : TRUE
    /\ AdmissionInit
    /\ subject # "admission" => incidents = CHOOSE c \in AdmissionScenarios : TRUE
    /\ ReportInit
    /\ subject # "report" => misfortune = CHOOSE c \in ReportScenarios : TRUE
    /\ FailuresInit
    /\ subject # "failures" => /\ planned = CHOOSE s \in PlanSteps : TRUE
                               /\ repertoire = CHOOSE r \in DOMAIN Repertoires : TRUE

ServicesNext ==
    \/ /\ subject = "sandbox" /\ SandboxNext
       /\ UNCHANGED <<subject, trackingVars, visitVars, corpusVars, benchVars,
                      admissionVars, reportVars, failureVars>>
    \/ /\ subject = "tracking" /\ TrackingNext
       /\ UNCHANGED <<subject, sandboxRunVars, visitVars, corpusVars, benchVars,
                      admissionVars, reportVars, failureVars>>
    \/ /\ subject = "visit" /\ VisitNext
       /\ UNCHANGED <<subject, sandboxRunVars, trackingVars, corpusVars, benchVars,
                      admissionVars, reportVars, failureVars>>
    \/ /\ subject = "corpus" /\ CorpusNext
       /\ UNCHANGED <<subject, sandboxRunVars, trackingVars, visitVars, benchVars,
                      admissionVars, reportVars, failureVars>>
    \/ /\ subject = "bench" /\ BenchNext
       /\ UNCHANGED <<subject, sandboxRunVars, trackingVars, visitVars, corpusVars,
                      admissionVars, reportVars, failureVars>>
    \/ /\ subject = "admission" /\ AdmissionNext
       /\ UNCHANGED <<subject, sandboxRunVars, trackingVars, visitVars, corpusVars,
                      benchVars, reportVars, failureVars>>
    \/ /\ subject = "report" /\ ReportNext
       /\ UNCHANGED <<subject, sandboxRunVars, trackingVars, visitVars, corpusVars,
                      benchVars, admissionVars, failureVars>>
    \/ /\ subject = "failures" /\ FailuresNext
       /\ UNCHANGED <<subject, sandboxRunVars, trackingVars, visitVars, corpusVars,
                      benchVars, admissionVars, reportVars>>

servicesVars == <<subject, sandboxRunVars, trackingVars, visitVars, corpusVars,
                  benchVars, admissionVars, reportVars, failureVars>>

\* The reaper and the backfill are cron jobs; an attempt of the driver or of a
\* logger is a coroutine or a thread that goes on unless its process dies.
ServicesFairness ==
    /\ \A d \in Drivers : WF_sandboxRunVars(subject = "sandbox" /\ DriverStep(d))
    /\ WF_sandboxRunVars(subject = "sandbox" /\ EndRow)
    /\ WF_sandboxRunVars(subject = "sandbox" /\ Interrupt)
    /\ WF_sandboxRunVars(subject = "sandbox" /\ ReaperStep)
    /\ \A l \in Loggers : WF_trackingVars(subject = "tracking" /\ LogStep(l))
    /\ WF_trackingVars(subject = "tracking" /\ NodeStep)
    /\ WF_trackingVars(subject = "tracking" /\ CronStep)
    /\ WF_trackingVars(subject = "tracking" /\ OldEnds)

ServicesSpec == ServicesInit /\ [][ServicesNext]_servicesVars /\ ServicesFairness

\* Each module's variables have their types.
ServicesTypeOK ==
    /\ SandboxTypeOK /\ TrackingTypeOK /\ VisitTypeOK
    /\ CorpusTypeOK /\ BenchTypeOK /\ AdmissionTypeOK
    /\ ReportTypeOK /\ FailureTypeOK
=============================================================================
