SPECIFICATION Spec
CONSTANTS
    Blobs = {h}
    NoBlob = NoBlob
    Jobs = {j}
    Captures = {c1}
    Background = {c1}
    Rebalanced = {}
    Readers = {}
    CaptureWorkers = 2
    MaxFaults = 2
PROPERTIES GarbageGoes
CHECK_DEADLOCK FALSE
