SPECIFICATION SpecClients
CONSTANTS
    s1 = s1
    b1 = b1
    b2 = b2
    NoMailbox = NoMailbox
    Sessions = {s1}
    Mailboxes = {b1, b2}
    NotifyModes = {"none", "selected", "delayed"}
    PendingMax = 2
    DelayedMax = 1
    MaxUID = 3
    MaxMessages = 3
SYMMETRY Symmetric
CHECK_DEADLOCK FALSE
INVARIANTS
    
    SyncExact
    ViewInStep
PROPERTIES
    ExpungesKnown
