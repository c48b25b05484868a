SPECIFICATION Spec
CONSTANTS
    Items = {q}
    Directs = {}
    Reprints = {}
    Swaps = {}
    NoItem = NoItem
    External = External
    DispatchMaxAttempts = 1
    MaxClaims = 2
    SlowStop = FALSE
    RetryOvertakes = {}
    StaleResume = FALSE
    MaxBoots = 1
    MaxIntents = 2
PROPERTY StoppedRunIsClosed
CHECK_DEADLOCK FALSE
