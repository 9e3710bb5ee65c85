SPECIFICATION Spec
CONSTANTS
    w1 = w1
    w2 = w2
    r1 = r1
    r2 = r2
    Workers <- MCWorkers
    Requests <- MCRequests
    Budgets <- FaultBudgets
    NoWorker = NoWorker
    NoJob = NoJob
SYMMETRY Symmetry
INVARIANTS
    TypeOK
    HolderOwnsLock
    OwnedExecutionIsRunning
    StreamAgreesWithRow
PROPERTIES
    ReaperSparesHolder
    CancelledIsNotClaimed
    FollowsDiagram
CHECK_DEADLOCK FALSE
