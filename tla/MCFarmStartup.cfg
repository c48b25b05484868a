SPECIFICATION Spec
CONSTANTS
    Procs = {p1, p2}
    Operators = {o1, o2}
    NoProc = NoProc
    LocklessStarts = TRUE
    MaxBoots = 4
    MaxHolds = 4
    MaxEpoch = 2
SYMMETRY Symmetry
ACTION_CONSTRAINT LocklessIsAlone
INVARIANTS TypeOK AdmissionIsReviewed OpenRecordIsRunning
PROPERTIES HoldGoesOnlyByReview
CHECK_DEADLOCK FALSE
