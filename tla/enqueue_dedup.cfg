SPECIFICATION Spec
CONSTANTS
    w1 = w1
    w2 = w2
    r1 = r1
    r2 = r2
    Workers <- MCWorkers
    Requests <- OneRequest
    Budgets <- FaultBudgets
    NoWorker = NoWorker
    NoJob = NoJob
PROPERTY EnqueueLeavesJob
CHECK_DEADLOCK FALSE
