SPECIFICATION Spec
CONSTANTS
    Profiles = {p1, p2}
    Clients = {c1, c2}
    Materials <- MCMaterials
    PskBytes <- MCPskBytes
    Versions <- MCVersions
    Workers = {w1, w2}
    Stores = {"memory", "postgres"}
    None = None
    MaxCreates = 2
    MaxClients = 2
SYMMETRY Symmetry
CHECK_DEADLOCK FALSE
INVARIANTS
    ConfigIsEntitled
    RealityHasVersion
    AdmittedHasLink
    ConfigMatchesProfileInPostgres
