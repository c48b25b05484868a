SPECIFICATION Spec
CONSTANTS
    Items = {a, b}
    NoItem = NoItem
    Facts = {"no", "yes"}
    RequirePlateClear = FALSE
    Sweepers = {s1}
    Tasks = {t1}
    MaxRuns = 2
    MaxFaults = 1
 
PROPERTIES SwapsBetweenPrints 
CHECK_DEADLOCK FALSE
