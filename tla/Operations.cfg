SPECIFICATION SpecOperations
CONSTANTS
    m1 = m1
    m2 = m2
    m3 = m3
    d1 = d1
    d2 = d2
    NoMsg = NoMsg
    Msgs = {m1, m3}
    Domains = {d1, d2}
    Dom <- TwoDomains
    Submissions <- Apart
    MaxConcurrent = 1
    MaxAttempts = 1
    Managed = {m3}
    Droppable = {m1}
    Refusable = {m1}
    MaxSent = 1
    MaxCrashes = 0
    Shutdowns = TRUE
INVARIANTS
    QueueSound
    CtlInStep
    SessionsSound
    ImportsSound
    ConfigSound
CHECK_DEADLOCK FALSE
