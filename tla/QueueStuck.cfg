SPECIFICATION FairSpec
CONSTANTS
    m1 = m1
    m2 = m2
    m3 = m3
    d1 = d1
    d2 = d2
    NoMsg = NoMsg
    Msgs = {m1, m2}
    Domains = {d1}
    Dom <- OneDomain
    Submissions <- Apart
    MaxConcurrent = 1
    MaxAttempts = 1
    Managed = {}
    Droppable = {m1}
    Refusable = {m1}
    MaxSent = 1
    MaxCrashes = 0
    Shutdowns = FALSE
PROPERTY FirstAttempt
CHECK_DEADLOCK FALSE
