SPECIFICATION Spec
CONSTANTS
    s1 = s1
    s2 = s2
    w1 = w1
    m1 = m1
    m2 = m2
    NoReq = NoReq
    Sessions = {s1, s2}
    WebSessions = {s2}
    NotifySessions = {s1}
    Workers = {w1}
    Msgs = {m1, m2}
    OtherSizes = {}
    CommPendingChangesMax = 3
    MaxCrashes = 1
SYMMETRY Symmetric
INVARIANTS
    ReferencesSafe
    ViewReadable
    AccountSound
    NoLostWakeup
PROPERTIES
    CloseClean
    ErasesUnreferenced
