SPECIFICATION SysSpec
CONSTANTS
    MaxClients = 1
    MaxConns = 2
    Pending = 2
    InboxCap = 2
    Spoken = {"PLAY", "STOP"}
    MaxFiles = 2
    Modes = {"files"}
PROPERTIES
    PlayPlaysItsStream
CHECK_DEADLOCK FALSE
