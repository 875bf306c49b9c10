SPECIFICATION Spec
CONSTANTS
    g1 = g1
    g2 = g2
    o1 = o1
    o2 = o2
    s1 = s1
    none = none
    NoUpload = none
    Requests <- TwoGuests
    OrdinaryUploads = {o1}
    Sessions <- OneSession
    PerSessionLimit = 1
    GlobalLimit = 1
    WindowSeconds = 1
    ConcurrentLimit = 2
    MaxTime = 2
    RawSizes <- SmallRawSizes
    Sizes <- SmallSizes
    MaxUpload = 2
    MaxGuestUpload = 1
    MaxNotesPerDay = 1
    MaxNoteBytes = 1
    QuotaFactor = 1
    DaySeconds = 2
    RetentionSeconds = 2
SYMMETRY GuestSymmetry
INVARIANTS
    SlotsMatchHandlers
    DailyQuota
    StorageQuota
    RejectedLeavesNothing
    AcknowledgedIsDelivered
    MessageHasNote
CHECK_DEADLOCK FALSE
