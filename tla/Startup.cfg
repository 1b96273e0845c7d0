SPECIFICATION StartupSpec
CONSTANTS
    Procs = {"daemon", "user"}
    Ips = {"a", "b"}
    Sets = {"a", "b"}
    Junk = "junk"
    Hosts = {"a", "b", "junk"}
    Macs = {"a", "b"}
    Values <- MCValues
    InitialFiles <- MCInitialFiles
    Given = {"b"}
    MaxInodes = 4
    MaxDevices = 1
    MaxSeen = 2
    MaxAnswers = 2
    Endpoints = 1
    MaxTries = 1
    MaxAttempts = 2
    MaxCalls = 3
    MaxStarts = 2
    MaxUserStarts = 1
INVARIANTS
    StartupTypeOK
    UserLinesKept
    ChoiceHolds
    MacHolds
    CountsDevices
    ListsWhoAnswered
    DoneIsDone
    WakesItsHost
PROPERTIES
    ConnectEnds
CHECK_DEADLOCK FALSE
