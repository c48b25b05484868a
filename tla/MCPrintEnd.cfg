SPECIFICATION Spec
CONSTANTS
    Items = {q}
    NoItem = NoItem
    Facts = {"no"}
    RequirePlateClear = TRUE
    Sweepers = {s1, s2}
    Tasks = {t1}
    MaxRuns = 1
    MaxFaults = 2
INVARIANTS TypeOK  EffectsRunOnce 
 
CHECK_DEADLOCK FALSE
