SPECIFICATION HFairSpec
CONSTANTS
    MaxClients = 1
    MaxConns = 1
    Pending = 1
    InboxCap = 1
    Spoken = {"PLAY", "STOP"}
    MaxChunks = 2
    MaxReqs = 2
PROPERTIES
    RequestsTaken
    SentInOrder
    SignalEndsDaemon
CHECK_DEADLOCK FALSE
