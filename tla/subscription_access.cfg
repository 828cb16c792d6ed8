SPECIFICATION Spec
CONSTANTS
    Stores = {"memory", "postgres"}
    Profiles = {p1}
    Credentials = {c1, c2}
    Requests = {r1, r2, r3}
    None = None
    Operations = {"create", "report", "token", "fetch"}
    Quotas <- SignedQuotas
    Samples <- SignedSamples
    Hour = 1
    Day = 2
    Month = 4
    MaxTime = 1
    MaxHandlers = 2
    MayAbort = TRUE
CHECK_DEADLOCK FALSE
SYMMETRY Symmetry
INVARIANTS
    OverLimitHidden
    RotatedRefused
    CreatedHasLimits
    BucketsAgree
PROPERTY
    EntitledShownByPostgres
