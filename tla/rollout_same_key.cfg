SPECIFICATION Spec
CONSTANTS
    Nodes = {n1}
    Ids = {d1, d2}
    Requests = {r1, r2}
    Keys = {k1}
    None = None
    Stores = {"memory"}
    Operations = {"compile"}
    MaxHandlers = 2
    MayAbort = FALSE
    MaxSamples = 0
    MaxEnds = 0
    MaxInterruptions = 0
    MaxFaults = 0
CHECK_DEADLOCK FALSE
SYMMETRY Symmetry
INVARIANT
    OneCommandPerKey
