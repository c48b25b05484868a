SPECIFICATION Spec
CONSTANTS
    Items = {q, d}
    Directs = {d}
    Reprints = {q}
    Swaps = {}
    NoItem = NoItem
    External = External
    DispatchMaxAttempts = 1
    MaxClaims = 2
    SlowStop = TRUE
    RetryOvertakes = {}
    StaleResume = TRUE
    MaxBoots = 1
    MaxIntents = 1
INVARIANTS OneClaimPerLane QueuedClaimWasSent
PROPERTIES HaltSurvives FailureHaltsLane
CHECK_DEADLOCK FALSE
