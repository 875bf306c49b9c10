SPECIFICATION RecorderFairSpec
CONSTANTS
    a1 = a1
    a2 = a2
    a3 = a3
    Attempts <- ThreeAttempts
    NoAttempt = NoAttempt
    Supported = TRUE
    MaxResets = 1
INVARIANTS
    NoOpenStreamWithoutRecorder
    RecordsForThisSession
PROPERTIES
    StoppedIsUploaded
CHECK_DEADLOCK FALSE
