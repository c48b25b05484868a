SPECIFICATION Spec
CONSTANTS
    Items = {q}
    Directs = {}
    Reprints = {}
    Swaps = {}
    NoItem = NoItem
    External = External
    DispatchMaxAttempts = 1
    MaxClaims = 2
    SlowStop = FALSE
    RetryOvertakes = {}
    StaleResume = FALSE
    MaxBoots = 3
    MaxIntents = 2
INVARIANT CrashLoopIsBounded
PROPERTY RefinesPrintRequest
CHECK_DEADLOCK FALSE
