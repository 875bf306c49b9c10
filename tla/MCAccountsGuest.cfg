SPECIFICATION Spec
CONSTANTS
    a = a
    b = b
    c = c
    d = d
    m = m
    s = s
    t = t
    google = google
    microsoft = microsoft
    other = other
    ann = ann
    guest = guest
    newguest = newguest
    NoUser = NoUser
    Emails = {ann, guest, newguest}
    Identities = {google, microsoft, other}
    FirstSuffix <- SameStart
    OAuthCalls = {a}
    IdentityOf <- Persons
    AdminCalls = {m}
    StartupCalls = {s, t}
    EmailOf <- EverybodyGuest
    Suffixes = 2
    Faults = {"crash", "disk", "locked"}
    Serial = FALSE
INVARIANTS
    ReturnedAccountUsable
    GuestUsable
PROPERTY
    ImplementsAccountService
CHECK_DEADLOCK FALSE
