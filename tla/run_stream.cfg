SPECIFICATION FairSpec
CONSTANTS
    Coalesce = 2
    MaxLen = 2
    BacklogCount = 2
    LiveCount = 1
    Scenarios <- MCScenarios
INVARIANTS
    TypeOK
    TokensBeforeFrames
    NumberedInOrder
    ConsoleInOrder
PROPERTIES
    ImplementsFeed
    EndReachesClient
CHECK_DEADLOCK FALSE
