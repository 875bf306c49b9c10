SPECIFICATION Spec
CONSTANTS
    u1 = u1
    u2 = u2
    u3 = u3
    u4 = u4
    u5 = u5
    s1 = s1
    s2 = s2
    Requests <- MCRequests
    Sessions <- MCSessions
    PerSessionLimit = 2
    GlobalLimit = 3
    WindowSeconds = 2
    ConcurrentLimit = 2
    MaxTime = 4
SYMMETRY Symmetry
PROPERTY
    ImplementsAdmission
CHECK_DEADLOCK FALSE
