------------------------------- MODULE Select -------------------------------
(***************************************************************************)
(* media_analyze: what the client decides about a file from its container  *)
(* and its codecs.  Containers are named by their FFmpeg demuxer; the code *)
(* looks for words in that name with strstr, so a demuxer is the set of    *)
(* the words that occur in its name.  The audio codec is that of the       *)
(* stream the audio selector picks.  The MIME type of a file is left out:  *)
(* both media_open_* functions overwrite it with video/mp2t.               *)
(***************************************************************************)
EXTENDS Naturals

None == "none"     \* AV_CODEC_ID_NONE: the file has no such stream

WordsOf ==
    [mov      |-> {"mov", "mp4", "3gp"},  matroska |-> {"matroska", "webm"},
     mpegts   |-> {"mpegts", "mpeg"},     mpeg     |-> {"mpeg"},
     avi      |-> {"avi"},                asf      |-> {"asf"},
     flv      |-> {"flv"},                hls      |-> {"hls"},
     mp3      |-> {"mp3"},                flac     |-> {"flac"},
     ogg      |-> {"ogg"},                wav      |-> {"wav"},
     rm       |-> {}]
Demuxers == DOMAIN WordsOf

Names(fmt, words) == WordsOf[fmt] \cap words # {}

Common == {"avi", "matroska", "asf", "mp4", "mov", "3gp", "flv"}
WebOnly == {"webm", "matroska"}

ContainersOf ==
    [H264  |-> Common \cup {"mpeg", "hls"},
     HEVC  |-> {"matroska", "mp4", "mov", "mpegts", "hls"},
     VP8   |-> WebOnly,   VP9   |-> WebOnly,   AV1  |-> WebOnly,
     MPEG4 |-> Common,    VC1   |-> Common,    WMV3 |-> Common,
     MJPEG |-> Common,
     MPEG2VIDEO |-> {"mpeg"},  MPEG1VIDEO |-> {"mpeg"}]

\* Theora stands for the codecs of no case.
VideoDecoders == DOMAIN ContainersOf \cup {"THEORA"}

VideoContainerOk(codec, fmt) ==
    codec \in DOMAIN ContainersOf /\ Names(fmt, ContainersOf[codec])

\* DTS stands for the codecs of no case.
SupportedAudio == {"AAC", "MP3", "MP2", "FLAC", "AC3", "EAC3", "VORBIS", "OPUS",
                   "WMAV1", "WMAV2", "PCM", "ADPCM"}
AudioDecoders == SupportedAudio \cup {"DTS"}

AudioCodecOk(codec) == codec \in SupportedAudio

ContainerOk(fmt) ==
    Names(fmt, {"mp4", "mov", "matroska", "webm", "mpegts", "avi", "asf", "flv",
                "mpeg", "vob", "mp3", "flac", "ogg", "wav"})

\* Bug variant: a file whose video needs nothing keeps its audio too.
NeedsTranscodeVideoOnly(fmt, video, audio, force) ==
    force \/ IF video # None THEN ~VideoContainerOk(video, fmt)
             ELSE ~(AudioCodecOk(audio) /\ ContainerOk(fmt))

NeedsTranscode(fmt, video, audio, force) ==
    \/ force
    \/ video # None /\ ~VideoContainerOk(video, fmt)
    \/ video # None /\ audio # None /\ ~AudioCodecOk(audio)
    \/ video = None /\ ~(AudioCodecOk(audio) /\ ContainerOk(fmt))

\* The profile of a file that is not transcoded; "" is none.
SetDlnaProfile(fmt, video) ==
    CASE video = "H264" /\ Names(fmt, {"mp4", "mov", "3gp", "avi"})
                                           -> "AVC_MP4_MP_SD_AAC"
      [] video = "H264" /\ Names(fmt, {"matroska"}) -> "AVC_MKV_MP_HD_AAC"
      [] video = "H264" /\ Names(fmt, {"mpegts"}) -> "AVC_TS_MP_SD_AAC_MULT5"
      [] video = "HEVC" /\ Names(fmt, {"mp4", "mov"}) -> "HEVC_MP4_MP_L51_AAC"
      [] video = "MPEG4"                   -> "MPEG4_P2_MP4_SP_AAC"
      [] OTHER                             -> ""

DlnaProfile(fmt, video, audio, force) ==
    IF NeedsTranscode(fmt, video, audio, force) THEN "AVC_TS_HP_HD_AAC_MULT5"
    ELSE SetDlnaProfile(fmt, video)

Profiles == {"", "AVC_MP4_MP_SD_AAC", "AVC_MKV_MP_HD_AAC",
             "AVC_TS_MP_SD_AAC_MULT5", "HEVC_MP4_MP_L51_AAC",
             "MPEG4_P2_MP4_SP_AAC", "AVC_TS_HP_HD_AAC_MULT5"}

\* The client writes "PLAY <mime> <profile>"; the server takes the line for a
\* PLAY only if it finds both words.
PlayMatches(profile) == profile # ""
=============================================================================
