SPECIFICATION Spec
CONSTANTS
    old = old
    new = new
    moved = moved
    inbox = inbox
    archive = archive
    c1 = c1
    c2 = c2
    NoReference = NoReference
    References <- Messages
    Inbox <- InInbox
    GuidOf <- Guids
    InboxGuid = inbox
    Saved <- SavedAt
    Uid <- Uids
    Malformed <- OneMalformed
    Audio <- Parts
    Limit = 1
    Calls = {c1, c2}
    Requests <- SmallRequests
INVARIANTS
    DeletedStaysDeleted
PROPERTY
    ImplementsMailService
CHECK_DEADLOCK FALSE
