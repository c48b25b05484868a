SPECIFICATION Spec
CONSTANTS
    Trays = {t1, t2}
    Unknown = Unknown
    Reels = {r1}
    NoReel = NoReel
    AtWrite = AtWrite
    None = None
    PendingLimit = 2
    SeedRetries = 0
    MaxReports = 3
    MaxBinds = 1
    MaxFaults = 2
SYMMETRY Symmetry
INVARIANTS TypeOK JournalInOrder ReplayNamesItsReel  NothingLeftWaiting
CHECK_DEADLOCK FALSE
