SPECIFICATION Spec
CONSTANTS
    Deployments = {d1, d2, d3}
    None = None
    MaxCommands = 4
    MaxFaults = 2
CHECK_DEADLOCK FALSE
SYMMETRY DeploymentSymmetry
INVARIANTS
    ActiveIsTested
    SuccessIsServing
    RestingActiveComplete
PROPERTIES
    OthersUntouched
    ImplementsNode
