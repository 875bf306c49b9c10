SPECIFICATION FairSpec
CONSTANTS
    m1 = m1
    m2 = m2
    Messages <- TwoMessages
    Linked = m1
    NoMessage = NoMessage
    MaxClicks = 3
INVARIANTS
    ListOfThisSession
    QuietTabIsCurrent
PROPERTIES
    DeletedNotShownAgain
    BusyEnds
    SessionSettles
CHECK_DEADLOCK FALSE
