SPECIFICATION FairSpec
CONSTANTS
    Nodes = {n1}
    Ids = {d1, d2}
    Requests = {r1, r2, r3}
    Keys = {k1}
    None = None
    Stores = {"memory", "postgres"}
    Operations = {"compile", "rollback", "advance"}
    MaxHandlers = 1
    MayAbort = FALSE
    MaxSamples = 0
    MaxEnds = 0
    MaxInterruptions = 0
    MaxFaults = 0
CHECK_DEADLOCK FALSE
INVARIANT OneCommandPerKey
PROPERTY
    PendingResolves
