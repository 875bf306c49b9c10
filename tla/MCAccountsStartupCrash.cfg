SPECIFICATION Spec
CONSTANTS
    a = a
    b = b
    c = c
    d = d
    m = m
    s = s
    t = t
    google = google
    microsoft = microsoft
    other = other
    ann = ann
    guest = guest
    newguest = newguest
    NoUser = NoUser
    Emails = {ann, guest, newguest}
    Identities = {google, microsoft, other}
    FirstSuffix <- SameStart
    OAuthCalls = {}
    IdentityOf <- Persons
    AdminCalls = {}
    StartupCalls = {s, t}
    EmailOf <- StartupsAgree
    Suffixes = 1
    Faults = {"crash"}
    Serial = TRUE
INVARIANT
    StartupSucceeds
CHECK_DEADLOCK FALSE
