SPECIFICATION ServicesSpec
CONSTANTS
    Executions = 2
    SandboxScenarios <- MCSandboxScenarios
    Attempts = 2
    BatchLimit = 2
    Meeting <- MCMeeting
    Improving <- MCImproving
    TrackingScenarios <- MCTrackingScenarios
    MaxAgentRetries = 2
    MaxRepairs = 1
    Requests <- MCRequests
    Texts <- MCTexts
    Layout <- MCLayout
    ChunkSize = 4
    ChunkOverlap = 3
    CorpusScenarios <- MCCorpusScenarios
    Cases <- MCCases
    Traps <- MCTraps
    NamedTraps <- MCNamedTraps
    Expect <- MCExpect
    FinalStates <- MCFinalStates
    Suites <- MCSuites
    Limit = 4
    BenchScenarios <- MCBenchScenarios
    Sockets <- MCSockets
    MaxPerRun = 2
    MaxPerServer = 2
    AdmissionScenarios <- MCAdmissionScenarios
    Prints = {"A", "B"}
    MaxDebugging = 2
    MaxRuns = 3
    ReportScenarios <- MCReportScenarios
    SlugWords = 3
    Allowlist <- MCAllowlist
    Criteria <- MCCriteria
    PlanSteps <- MCPlanSteps
    Repertoires <- MCRepertoires
    StagnationWindow = 3
    RepeatWarningAt = 2
    DebugBudget = 3
    ReplanBudget = 1
    Refinements = 1
INVARIANT RegisteredMetCriteria
CHECK_DEADLOCK FALSE
