SPECIFICATION Spec
CONSTANTS
    Coalesce = 2
    MaxLen = 2
    BacklogCount = 2
    LiveCount = 1
    Scenarios <- MCFresh
INVARIANT SkippedAreDuplicates
CHECK_DEADLOCK FALSE
