SPECIFICATION FairSpec
CONSTANTS
    d1 = d1
    d2 = d2
    a1 = a1
    a2 = a2
    Loop = Loop
    None = None
    Deliveries = {d1, d2}
    Accounts = {a1, a2}
    Account <- OneAccount
    MaxID = 2
    MaxTime = 1
    MaxCrashes = 1
INVARIANTS
    KeptUnlessClash
    QueuedUntilStored
PROPERTIES
    NatsSettles
CHECK_DEADLOCK FALSE
