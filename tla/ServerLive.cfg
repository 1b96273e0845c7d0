SPECIFICATION FairSpec
CONSTANTS
    MaxClients = 2
    MaxConns = 1
    Pending = 2
    InboxCap = 1
    Spoken = {"PLAY", "PLAY_NODLNA", "PLAY_DIRECT", "STOP"}
PROPERTIES
    SignalEndsServer
    StreamsAccepted
    ExitNoticed
CHECK_DEADLOCK FALSE
