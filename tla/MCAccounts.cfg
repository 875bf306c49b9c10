SPECIFICATION Spec
CONSTANTS
    a = a
    b = b
    c = c
    d = d
    m = m
    s = s
    t = t
    google = google
    microsoft = microsoft
    other = other
    ann = ann
    guest = guest
    newguest = newguest
    NoUser = NoUser
    Emails = {ann, guest, newguest}
    Identities = {google, microsoft, other}
    FirstSuffix <- SameStart
    OAuthCalls = {a, b, c}
    IdentityOf <- Persons
    AdminCalls = {m}
    StartupCalls = {}
    EmailOf <- StartupsDiffer
    Suffixes = 2
    Faults = {"crash", "disk", "locked"}
    Serial = FALSE
INVARIANTS
    LinkedAccountUsable
    SameIdentitySameAccount
    IdentitiesIsolated
    NoOrphans
PROPERTY
    ImplementsAccountService
CHECK_DEADLOCK FALSE
