SPECIFICATION Spec
CONSTANTS
    Stores = {"memory"}
    Profiles = {p1}
    Credentials = {c1}
    Requests = {r1, r2, r3}
    None = None
    Operations = {"create", "report", "token", "fetch"}
    Quotas = {0, 1}
    Samples <- SignedSamples
    Hour = 1
    Day = 2
    Month = 4
    MaxTime = 1
    MaxHandlers = 2
    MayAbort = FALSE
CHECK_DEADLOCK FALSE
SYMMETRY Symmetry
PROPERTY
    EntitledShown
