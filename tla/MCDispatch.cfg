SPECIFICATION Spec
CONSTANTS
    Items = {q}
    Directs = {}
    Reprints = {}
    Swaps = {q}
    NoItem = NoItem
    External = External
    DispatchMaxAttempts = 2
    MaxClaims = 2
    SlowStop = FALSE
    RetryOvertakes = {}
    StaleResume = FALSE
    MaxBoots = 2
    MaxIntents = 2
INVARIANTS TypeOK AtMostOneStartPerIntent BindingIsOwned
PROPERTIES RequeueOnlyUnpublished
CHECK_DEADLOCK FALSE
