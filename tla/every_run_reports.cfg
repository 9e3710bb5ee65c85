SPECIFICATION FairSpec
CONSTANTS
    Plans <- MCPlans
    NoPlan = NoPlan
    MaxDebug = 2
    MaxReplans = 1
    MaxVisits = 16
    MaxExecs = 4
    MaxRounds = 2
    Window = 2
    MaxDispatches = 1
PROPERTY EveryRunReports
CHECK_DEADLOCK FALSE
