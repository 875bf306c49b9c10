SPECIFICATION RetentionFairSpec
CONSTANTS
    n1 = n1
    n2 = n2
    Notes <- TwoNotes
    NoNote = NoNote
    Retention = 3
    Period = 2
    MaxAge = 16
    MaxRestarts = 1
    MaxErrors = 1
    Faults = {"sync"}
INVARIANTS
    UnopenedMessageGoesWithNote
    RemovedInTime
PROPERTIES
    OnlyExpiredRemoved
    EventuallyRemoved
CHECK_DEADLOCK FALSE
