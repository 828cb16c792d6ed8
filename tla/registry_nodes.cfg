SPECIFICATION FairSpec
CONSTANTS
    Nodes = {n1, n2}
    Tokens = {t0, t1}
    DefaultToken = t0
    Keys = {k1, k2}
    Requests = {r1, r2}
    None = None
    SelfRegisters = {n1}
    MaxIssuers = 2
    MaxExits = 1
    MaxRotations = 1
INVARIANTS
    OneNodePerToken
    AcceptedWasRegistered
PROPERTIES
    RegisteredRunnerPolls
