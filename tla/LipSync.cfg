SPECIFICATION MediaSpec
CONSTANTS
    MaxFiles = 1
    MaxSeeks = 0
    Formats = {"matroska"}
    VideoCodecs = {"MPEG2VIDEO"}
    AudioCodecs = {"AAC"}
    ForceTranscode = FALSE
    Rates = {3}
    RateDen = 2
    SampleRate = 6
    PacketSize = 3
    FrameSize = 2
    Delay = 0
    SwrDelay = 0
    MaxPackets = 20
    MaxLost = 0
INVARIANTS
    LipSync
CHECK_DEADLOCK FALSE
