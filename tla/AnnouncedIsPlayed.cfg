SPECIFICATION MediaSpec
CONSTANTS
    MaxFiles = 1
    MaxSeeks = 0
    Formats = {"matroska", "mp3"}
    VideoCodecs = {"H264", "HEVC"}
    AudioCodecs = {"AAC", "MP3"}
    ForceTranscode = FALSE
    Rates = {3}
    RateDen = 2
    SampleRate = 6
    PacketSize = 3
    FrameSize = 2
    Delay = 0
    SwrDelay = 0
    MaxPackets = 8
    MaxLost = 0
INVARIANTS
    AnnouncedIsPlayed
CHECK_DEADLOCK FALSE
