SPECIFICATION Spec
CONSTANTS
    MaxClients = 2
    MaxConns = 3
    Pending = 2
    InboxCap = 1
    Spoken = {"PLAY", "STOP"}
INVARIANTS
    NoLeak
    RunningMeansOpen
    BlocksOnlyAfterTakeover
    PlayFindsItsStream
PROPERTIES
    ServedInOrder
    ImplementsStreamSwitch
CHECK_DEADLOCK FALSE
