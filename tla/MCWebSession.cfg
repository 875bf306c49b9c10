SPECIFICATION Spec
CONSTANTS
    a = a
    b = b
    c = c
    d = d
    ann = ann
    guest = guest
    None = None
    Calls = {a, b, c, d}
    Inputs <- SomeInputs
    Users = {ann, guest}
    Guest = guest
    Supported = {"google", "microsoft"}
    Registered = {"google", "microsoft"}
    Configured = {"google"}
    AnyProvider = {"google", "microsoft", "other"}
    Paths <- TwoPages
    Home = "/record"
    AnyPath <- PagesAndOthers
    Claims <- SomeClaims
INVARIANTS
    LoginReturnsToItsPage
    SignedInByItsLogin
    LogoutIsFinal
CHECK_DEADLOCK FALSE
