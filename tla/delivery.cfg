SPECIFICATION FairSpec
CONSTANTS
    Nodes = {n1}
    Nonces = {r1, r2, r3}
    MaxHandlers = 2
    MaxExits = 1
    MaxRestarts = 1
    TTLElapses = TRUE
INVARIANTS
    TypeOK
    AtMostOnce
    SessionOrder
    OnlyExpiryRejects
    PendingDistinct
PROPERTIES
    ImplementsChannel
    QueuedIsSettled
    QueueDrains
