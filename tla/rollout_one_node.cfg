SPECIFICATION Spec
CONSTANTS
    Nodes = {n1}
    Ids = {d1, d2}
    Requests = {r1, r2, r3}
    Keys = {}
    None = None
    Stores = {"memory", "postgres"}
    Operations = {"compile", "rollback", "advance"}
    MaxHandlers = 2
    MayAbort = TRUE
    MaxSamples = 1
    MaxEnds = 1
    MaxInterruptions = 1
    MaxFaults = 1
CHECK_DEADLOCK FALSE
SYMMETRY Symmetry
INVARIANTS
    RollbackTargetInstalled
    SucceededIsInstalled
    PromotedIsInstalled
    PointerIsOtherInPostgres
    SettledHasSnapshot
PROPERTIES
    ImplementsChannel
    NodesImplement
    DeployedCompilesAgain
