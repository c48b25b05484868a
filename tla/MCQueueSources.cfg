SPECIFICATION Spec
CONSTANTS
    Blobs = {h}
    NoBlob = NoBlob
    Jobs = {j, k}
    Captures = {c1, c2}
    Background = {c1}
    Rebalanced = {c2}
    Readers = {r}
    CaptureWorkers = 2
    MaxFaults = 1
SYMMETRY JobSymmetry
INVARIANTS TypeOK JobsNameLiveSources ReadyHasBytes StagedBytesStay BackupIsWhole
PROPERTIES PinnedFileStays
CHECK_DEADLOCK FALSE
