SPECIFICATION Spec
CONSTANTS
    Durations = {0, 4, 75}
    Length = 30
    Gop = 10
    Pace = 20
    MaxSeeks = 3
    MaxPending = 30
PROPERTIES
    StaysInFile
    SeeksFromTheScreen
    JumpsBack
CHECK_DEADLOCK FALSE
