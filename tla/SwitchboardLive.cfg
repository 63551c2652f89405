SPECIFICATION FairSpec
CONSTANTS
    s1 = s1
    s2 = s2
    m1 = m1
    NoReq = NoReq
    Sessions = {s1, s2}
    WebSessions = {}
    NotifySessions = {}
    Workers = {}
    Msgs = {m1}
    OtherSizes = {2}
    CommPendingChangesMax = 2
    MaxCrashes = 0
INVARIANTS
    RefsExact
PROPERTIES
    ExpungedErased
