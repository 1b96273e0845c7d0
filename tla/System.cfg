SPECIFICATION SysFairSpec
CONSTANTS
    MaxClients = 1
    MaxConns = 2
    Pending = 1
    InboxCap = 1
    Spoken = {"PLAY", "STOP", "PLAY_DIRECT"}
    MaxFiles = 2
    Modes = {"files", "direct", "screen"}
INVARIANTS
    OneThread
    ThreadKeepsPipe
    NoStreamLeft
    JoinsAndFreesOnce
PROPERTIES
    ClientIsAllowed
    QuitEnds
CHECK_DEADLOCK FALSE
