SPECIFICATION Spec
CONSTANTS
    Durations = {75}
    Length = 30
    Gop = 10
    Pace = 20
    MaxSeeks = 3
    MaxPending = 30
PROPERTIES
    ArrowsSeekFromScreen
CHECK_DEADLOCK FALSE
