SPECIFICATION FairSpec
CONSTANTS
    Workers = {w1, w2}
    NoWorker = NoWorker
    Period = 2
    Renewals = 3
INVARIANTS
    TypeOK
    BlipsDoNotLoseLease
PROPERTIES
    DeadHolderFreesLock
    ImplementsLease
