SPECIFICATION FairSpec
CONSTANTS
    cli = cli
    oauth1 = oauth1
    oauth2 = oauth2
    oauth3 = oauth3
    Guest = Guest
    None = None
    Users <- Accounts
    Portals <- SignedIn
    Username <- Aliases
    Email <- Addresses
    Identifiers <- Typed
    MaxCalls = 3
    MaxEvents = 1
INVARIANTS
    ShownIsOfThisSession
    OldPasswordStops
    ChangedByItsOwner
    GuestPasswordReapplied
PROPERTIES
    BusyEnds
CHECK_DEADLOCK FALSE
