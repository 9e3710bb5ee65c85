SPECIFICATION FairSpec
CONSTANTS
    Plans <- MCPlans
    NoPlan = NoPlan
    MaxDebug = 2
    MaxReplans = 1
    MaxVisits = 16
    MaxExecs = 4
    MaxRounds = 2
    Window = 2
    MaxDispatches = 2
INVARIANTS
    TypeOK
    VisitsBounded
    ExecutionsArePaidFor
    NodesFindTheirInputs
    VerdictAgreesWithOutcome
PROPERTIES
    LoopsWithinBudgets
    Terminates
CHECK_DEADLOCK FALSE
