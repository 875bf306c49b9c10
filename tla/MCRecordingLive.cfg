SPECIFICATION FairSpec
CONSTANTS
    g1 = g1
    g2 = g2
    o1 = o1
    o2 = o2
    s1 = s1
    none = none
    NoUpload = none
    Requests = {g1}
    OrdinaryUploads = {o1, o2}
    Sessions <- OneSession
    PerSessionLimit = 2
    GlobalLimit = 2
    WindowSeconds = 1
    ConcurrentLimit = 2
    MaxTime = 0
    RawSizes <- SmallRawSizes
    Sizes <- SmallSizes
    MaxUpload = 2
    MaxGuestUpload = 1
    MaxNotesPerDay = 1
    MaxNoteBytes = 1
    QuotaFactor = 1
    DaySeconds = 2
    RetentionSeconds = 2
PROPERTY
    EveryUploadAnswered
CHECK_DEADLOCK FALSE
