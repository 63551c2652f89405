SPECIFICATION SpecAlone
CONSTANTS
    m1 = m1
    m2 = m2
    m3 = m3
    d1 = d1
    d2 = d2
    NoMsg = NoMsg
    Msgs = {m1, m2}
    Domains = {d1}
    Dom <- OneDomain
    Submissions <- Together
    MaxConcurrent = 1
    MaxAttempts = 2
    Managed = {}
    Droppable = {m1, m2}
    Refusable = {m1}
    MaxSent = 2
    MaxCrashes = 1
    Shutdowns = TRUE
INVARIANTS
    Outcomes
    QueueSound
PROPERTIES
    FailureFinal
    OutcomeReached
CHECK_DEADLOCK FALSE
