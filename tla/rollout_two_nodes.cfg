SPECIFICATION Spec
CONSTANTS
    Nodes = {n1, n2}
    Ids = {d1, d2}
    Requests = {r1, r2, r3, r4}
    Keys = {}
    None = None
    Stores = {"memory"}
    Operations = {"compile", "rollback"}
    MaxHandlers = 1
    MayAbort = FALSE
    MaxSamples = 0
    MaxEnds = 0
    MaxInterruptions = 0
    MaxFaults = 0
CHECK_DEADLOCK FALSE
SYMMETRY Symmetry
INVARIANT
    RollbackTargetInstalled
