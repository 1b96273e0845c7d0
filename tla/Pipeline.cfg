SPECIFICATION MediaSpec
CONSTANTS
    MaxFiles = 2
    MaxSeeks = 1
    Formats = {"mov", "matroska", "mpegts", "avi", "hls", "mp3", "rm"}
    VideoCodecs = {"H264", "HEVC", "AV1", "MPEG4"}
    AudioCodecs = {"AAC", "DTS"}
    ForceTranscode = FALSE
    Rates = {1, 4}
    RateDen = 2
    SampleRate = 6
    PacketSize = 3
    FrameSize = 2
    Delay = 1
    SwrDelay = 1
    MaxPackets = 4
    MaxLost = 1
INVARIANTS
    NothingLost
    NoDoubleFree
    MediaTypeOK
    UsesLive
    OwnStream
    NothingDropped
    InStep
    TvDecodesIt
CHECK_DEADLOCK FALSE
