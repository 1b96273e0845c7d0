SPECIFICATION HSpec
CONSTANTS
    MaxClients = 2
    MaxConns = 2
    Pending = 1
    InboxCap = 1
    Spoken = {"PLAY"}
    MaxChunks = 1
    MaxReqs = 1
INVARIANTS
    NothingOlderThanAsked
PROPERTIES
    SentInOrder
CHECK_DEADLOCK FALSE
