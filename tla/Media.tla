------------------------------- MODULE Media -------------------------------
(***************************************************************************)
(* The media context in use: Pipeline's allocations, media_analyze's       *)
(* choice for each file, and the packet loops of media_remux_thread,       *)
(* media_transcode_thread and media_capture_thread with their helpers.     *)
(*                                                                         *)
(* Time is counted in samples, SampleRate a second; a decoded audio packet *)
(* is PacketSize samples, an encoded frame FrameSize.  The frame rate of a *)
(* film is rate / RateDen.  The main thread halts the loop and joins the   *)
(* thread before it touches the context, but for one exit (AbandonFile),   *)
(* after which the process ends; Player has the joins in detail.           *)
(***************************************************************************)
EXTENDS Pipeline, Select, Integers

CONSTANTS
    Formats, VideoCodecs, AudioCodecs,   \* the files there are
    ForceTranscode,                      \* the -t option
    Rates, RateDen,                      \* frame rates, in 1/RateDen
    SampleRate, PacketSize, FrameSize,   \* in samples
    Delay,                               \* frames a video decoder holds back
    SwrDelay,                            \* samples the resampler holds back
    MaxPackets,                          \* bound: packets a loop reads
    MaxLost                              \* bound: losses of a loop

ASSUME FilesAssumption ==
    /\ Formats \subseteq Demuxers
    /\ VideoCodecs \subseteq VideoDecoders
    /\ AudioCodecs \subseteq AudioDecoders
    /\ ForceTranscode \in BOOLEAN
    /\ Rates \subseteq Nat \ {0} /\ RateDen \in Nat \ {0}
ASSUME SamplesAssumption ==
    /\ SampleRate \in Nat \ {0}
    /\ PacketSize \in Nat \ {0} /\ FrameSize \in Nat \ {0}
    /\ Delay \in Nat /\ SwrDelay \in Nat
    /\ MaxPackets \in Nat /\ MaxLost \in Nat

VARIABLES
    source,        \* codecs of the file, and its profile
    rate,          \* frame rate of the film in 1/RateDen
    tpc,           \* the step of the media thread
    halted,        \* main has cleared media.running
    vread, aread,  \* video and audio packets read by the loop
    vheld,         \* frames in the video decoder
    rheld,         \* samples in the resampler
    vid_pts,       \* the thread's counter of video frames
    fifo,          \* samples in audio_fifo
    audio_pts,     \* the thread's counter of samples
    vlost, alost,  \* history: packets of this loop the decoders refused
    vcut, acut     \* history: frames and samples lost after decoding

file == <<source, rate>>
picture == <<vread, vheld, vid_pts, vlost, vcut>>
sound == <<aread, rheld, audio_pts, alost, acut>>
counters == <<picture, sound>>
thread == <<tpc, halted, fifo, counters>>
mediaVars == <<vars, file, thread>>

NoFile == [video |-> None, audio |-> None, profile |-> ""]
Capture == [video |-> "RAWVIDEO", audio |-> "PCM",
            profile |-> "AVC_TS_HP_HD_AAC_MULT5"]

ThreadSteps == {"none", "created", "header", "seek", "read", "video", "capture",
                "audio", "drain", "flush", "flush_drain", "flush_audio",
                "trailer", "done"}

\* Types and ranges of the choice for the file and of the packet loop.
MediaTypeOK ==
    /\ TypeOK
    /\ source \in [video : VideoDecoders \cup {None, "RAWVIDEO"},
                   audio : AudioDecoders \cup {None}, profile : Profiles]
    /\ rate \in Rates \cup {0}
    /\ tpc \in ThreadSteps
    /\ halted \in BOOLEAN
    /\ vread \in 0..MaxPackets /\ aread \in 0..MaxPackets
    /\ vheld \in 0..Delay /\ rheld \in 0..SwrDelay
    /\ vid_pts \in 0..MaxPackets
    /\ fifo \in Nat /\ audio_pts \in Nat
    /\ vlost \in 0..MaxLost /\ alost \in 0..MaxLost
    /\ vcut \in 0..MaxLost /\ acut \in Nat

ZeroCounters ==
    /\ vread' = 0 /\ vheld' = 0 /\ vid_pts' = 0 /\ vlost' = 0 /\ vcut' = 0
    /\ aread' = 0 /\ rheld' = 0 /\ audio_pts' = 0 /\ alost' = 0 /\ acut' = 0

MediaInit ==
    /\ Init
    /\ source = IF screen THEN Capture ELSE NoFile
    /\ rate = 0
    /\ tpc = "none" /\ halted = FALSE
    /\ vread = 0 /\ vheld = 0 /\ vid_pts = 0 /\ vlost = 0 /\ vcut = 0
    /\ aread = 0 /\ rheld = 0 /\ audio_pts = 0 /\ alost = 0 /\ acut = 0
    /\ fifo = 0

\* The encoder's time base is 1 / (fr.num / fr.den), in integers.
Tick == rate \div RateDen

-----------------------------------------------------------------------------
(* The main thread: Pipeline's steps with what they mean for the thread.   *)

\* media_probe with media_analyze.  The frame rate matters to an encoder only.
ProbeFile ==
    /\ Probe
    /\ IF at' = "start"
       THEN \E fmt \in Formats, v \in VideoCodecs \cup {None},
               a \in AudioCodecs \cup {None} :
              /\ video' = (v # None) /\ audio' = (a # None)
              /\ remux' = ~NeedsTranscode(fmt, v, a, ForceTranscode)
              /\ source' = [video |-> v, audio |-> a, profile |->
                              DlnaProfile(fmt, v, a, ForceTranscode)]
              /\ IF remux' \/ v = None THEN rate' = 0 ELSE rate' \in Rates
       ELSE source' = NoFile /\ rate' = 0
    /\ UNCHANGED thread

\* An encoder whose time base is 1/0 does not open; --screen's is 1/30.
OpenVideoEncoder ==
    /\ VideoEncoder
    /\ ~screen /\ Tick = 0 => at' \notin {"filters", "sw_filters"}
    /\ UNCHANGED <<file, thread>>

\* A new FIFO is empty; fifo is 0 when there is none.
OpenAudioFifo ==
    /\ AudioFifo
    /\ fifo' = 0
    /\ UNCHANGED <<file, tpc, halted, counters>>

OpenOutput ==
    /\ Output
    /\ tpc' = IF at' = "opened" THEN "created" ELSE tpc
    /\ UNCHANGED <<file, halted, fifo, counters>>

CreateThread ==
    /\ at = "opened" /\ tpc = "created"
    /\ tpc' = IF remux /\ ~screen THEN "read" ELSE "header"
    /\ halted' = FALSE
    /\ UNCHANGED <<vars, file, fifo, counters>>

SendPlay ==
    /\ Announce /\ tpc # "created"
    /\ UNCHANGED <<file, thread>>

\* Before a join.
Halt ==
    /\ at = "playing" \/ (at = "opened" /\ screen)
    /\ tpc \notin {"created", "done"} /\ ~halted
    /\ halted' = TRUE
    /\ UNCHANGED <<vars, file, tpc, fifo, counters>>

Joined == tpc = "done"
Forget == tpc' = "none" /\ halted' = FALSE /\ fifo' = 0

JoinAndSeek ==
    /\ CloseTranscodeState /\ Joined
    /\ Forget
    /\ UNCHANGED <<file, counters>>

\* pthread_create failed, or the thread was joined.
JoinAndLeave ==
    /\ Leave
    /\ \/ at = "opened" /\ tpc = "created"
       \/ (at = "playing" \/ screen) /\ Joined
    /\ Forget
    /\ UNCHANGED <<file, counters>>

\* The context is freed, whatever step of its loop the thread has reached.
AbandonFile ==
    /\ Abandon /\ tpc # "created"
    /\ UNCHANGED <<file, thread>>

Elsewhere ==
    /\ \/ OpenScreen \/ Start \/ VideoDecoder \/ AudioDecoder \/ SndioInput
       \/ SndioDecoder \/ Vaapi \/ VideoFilters \/ AudioEncoder \/ Resampler
       \/ UndoAudio \/ Reopen \/ OpenFailed \/ PlayDirect \/ MediaClose
    /\ UNCHANGED <<file, thread>>

MainStep ==
    \/ ProbeFile \/ OpenVideoEncoder \/ OpenAudioFifo \/ OpenOutput
    \/ CreateThread \/ SendPlay \/ Halt \/ JoinAndSeek \/ JoinAndLeave
    \/ AbandonFile \/ Elsewhere

-----------------------------------------------------------------------------
(* The media thread.                                                       *)

main == <<vars, file, halted>>
Remuxes == remux /\ ~screen
Step(step) == tpc' = step

\* A header that cannot be written ends the thread; after a seek the input and
\* the decoders are set to the new start.
WriteHeader ==
    /\ tpc = "header"
    /\ \/ Step("done")
       \/ Step("read")
       \/ reopening /\ Step("seek")
    /\ UNCHANGED <<main, fifo, counters>>

SeekInput ==
    /\ tpc = "seek" /\ Step("read")
    /\ UNCHANGED <<main, fifo, counters>>

\* The demuxer hands out the packets of a film in the order of their times.
VideoIsNext == audio => vread * SampleRate * RateDen <= aread * PacketSize * rate
AudioIsNext == video => aread * PacketSize * rate <= vread * SampleRate * RateDen

ReadVideo ==
    /\ tpc = "read" /\ ~halted /\ ~Remuxes
    /\ video /\ (screen \/ VideoIsNext)
    /\ vread < MaxPackets
    /\ vread' = vread + 1
    /\ Step("video")
    /\ UNCHANGED <<main, fifo, sound, vheld, vid_pts, vlost, vcut>>

ReadAudio ==
    /\ tpc = "read" /\ ~halted /\ ~Remuxes /\ ~screen
    /\ audio /\ AudioIsNext
    /\ aread < MaxPackets
    /\ aread' = aread + 1
    /\ Step(IF ptr["audio_dec"] = "null" THEN "read" ELSE "audio")
    /\ UNCHANGED <<main, fifo, picture, rheld, audio_pts, alost, acut>>

\* The remuxing thread writes a packet as it is, and stops if it cannot.
CopyPacket ==
    /\ tpc = "read" /\ ~halted /\ Remuxes
    /\ tpc' \in {"read", "trailer"}
    /\ UNCHANGED <<main, fifo, counters>>

\* The end of the input, an error, or running cleared.
EndLoop ==
    /\ tpc = "read"
    /\ Step(IF Remuxes THEN "trailer" ELSE "flush")
    /\ UNCHANGED <<main, fifo, counters>>

\* Bug variant: one frame is taken from the decoder for each packet.
ProcessVideoPacketOnce ==
    /\ tpc = "video"
    /\ IF vheld < Delay THEN vheld' = vheld + 1 /\ UNCHANGED vid_pts
       ELSE vid_pts' = vid_pts + 1 /\ vheld' = 0
    /\ Step(IF screen THEN "capture" ELSE "read")
    /\ UNCHANGED <<main, fifo, sound, vread, vlost, vcut>>

\* The bound: what the loop has lost so far allows another loss.
MayLose == vlost + vcut + alost + acut < MaxLost

\* process_video_packet with encode_video_frame: the decoder refuses the
\* packet, or takes it and gives any number n of the frames it has, each of
\* which gets the next pts, until the filters refuse one (it is lost, cut = 1).
ProcessVideoPacket ==
    /\ tpc = "video"
    /\ \/ /\ MayLose /\ vlost' = vlost + 1
          /\ UNCHANGED <<vheld, vid_pts, vcut>>
       \/ /\ \E n \in 0..(vheld + 1), cut \in {0, 1} :
             /\ n + cut <= vheld + 1 /\ vheld + 1 - n - cut <= Delay
             /\ vheld' = vheld + 1 - n - cut
             /\ vid_pts' = vid_pts + n
             /\ cut = 1 => MayLose
             /\ vcut' = vcut + cut
          /\ UNCHANGED vlost
    /\ Step(IF screen THEN "capture" ELSE "read")
    /\ UNCHANGED <<main, fifo, sound, vread>>

\* Bug variant: the capture thread looks only at the input.
ReadCapturedUnchecked ==
    /\ tpc = "capture"
    /\ \/ /\ ptr["sndio_ctx"] # "null" /\ aread < MaxPackets
          /\ aread' = aread + 1 /\ Step("audio")
       \/ UNCHANGED aread /\ Step("read")
    /\ UNCHANGED <<main, fifo, picture, rheld, audio_pts, alost, acut>>

\* At most one audio packet after each video packet of --screen.
ReadCaptured ==
    /\ tpc = "capture"
    /\ \/ /\ \A r \in {"sndio_ctx", "sndio_dec", "audio_enc", "swr_ctx"} :
                ptr[r] # "null"
          /\ aread < MaxPackets
          /\ aread' = aread + 1 /\ Step("audio")
       \/ UNCHANGED aread /\ Step("read")
    /\ UNCHANGED <<main, fifo, picture, rheld, audio_pts, alost, acut>>

\* A decoder that was never opened refuses every packet.
Decodes == screen \/ has_audio

\* process_audio_packet up to its call of drain_audio_fifo: the decoder refuses
\* the packet, the resampler refuses its frame, or the resampler takes it and
\* gives n samples of what it holds, which the FIFO takes or cannot make room
\* for: then they are lost, and the FIFO is not drained.
ProcessAudioPacket ==
    /\ tpc = "audio"
    /\ \/ /\ ~Decodes /\ Step("read")
          /\ UNCHANGED <<fifo, rheld, alost, acut>>
       \/ /\ Decodes /\ MayLose /\ alost' = alost + 1
          /\ Step("read") /\ UNCHANGED <<fifo, rheld, acut>>
       \/ /\ Decodes /\ MayLose /\ acut' = acut + PacketSize
          /\ Step("drain") /\ UNCHANGED <<fifo, rheld, alost>>
       \/ /\ Decodes
          /\ \E n \in 0..(rheld + PacketSize) :
             /\ rheld + PacketSize - n <= SwrDelay
             /\ rheld' = rheld + PacketSize - n
             /\ \/ fifo' = fifo + n /\ Step("drain") /\ UNCHANGED acut
                \/ /\ n > 0 /\ MayLose /\ acut' = acut + n
                   /\ Step("read") /\ UNCHANGED fifo
          /\ UNCHANGED alost
    /\ UNCHANGED <<main, picture, aread, audio_pts>>

\* Bug variants: a part of a frame is taken; the stamps count packets.
DrainPartial ==
    /\ tpc \in {"drain", "flush_drain"}
    /\ IF fifo > 0
       THEN /\ fifo' = fifo - FrameSize
            /\ audio_pts' = audio_pts + FrameSize
            /\ UNCHANGED tpc
       ELSE /\ Step(IF tpc = "drain" THEN "read" ELSE "flush_audio")
            /\ UNCHANGED <<fifo, audio_pts>>
    /\ UNCHANGED <<main, picture, aread, rheld, alost, acut>>
DrainStampsPackets ==
    /\ tpc \in {"drain", "flush_drain"}
    /\ IF fifo >= FrameSize
       THEN /\ fifo' = fifo - FrameSize
            /\ audio_pts' = audio_pts + PacketSize
            /\ UNCHANGED tpc
       ELSE /\ Step(IF tpc = "drain" THEN "read" ELSE "flush_audio")
            /\ UNCHANGED <<fifo, audio_pts>>
    /\ UNCHANGED <<main, picture, aread, rheld, alost, acut>>

\* drain_audio_fifo, a frame a step, with encode_audio_frame.
DrainAudioFifo ==
    /\ tpc \in {"drain", "flush_drain"}
    /\ IF fifo >= FrameSize
       THEN /\ fifo' = fifo - FrameSize
            /\ audio_pts' = audio_pts + FrameSize
            /\ UNCHANGED tpc
       ELSE /\ Step(IF tpc = "drain" THEN "read" ELSE "flush_audio")
            /\ UNCHANGED <<fifo, audio_pts>>
    /\ UNCHANGED <<main, picture, aread, rheld, alost, acut>>

\* Bug variant: audio is always the second stream.
AudioOutIdxFixed == 1
\* audio_out_idx, and the number init_output gives the audio stream.
AudioOutIdx == IF screen \/ video THEN 1 ELSE 0
AudioStream == IF ptr["video_enc"] = "live" THEN 1 ELSE 0

\* The encoders are flushed, the decoders are not.
FlushVideo ==
    /\ tpc = "flush"
    /\ Step(IF ptr["audio_enc"] = "null" THEN "trailer" ELSE "flush_drain")
    /\ UNCHANGED <<main, fifo, counters>>

FlushAudio ==
    /\ tpc = "flush_audio" /\ Step("trailer")
    /\ UNCHANGED <<main, fifo, counters>>

\* The trailer, STOP at a natural end, the close of media.pipe_wr.
EndThread ==
    /\ tpc = "trailer" /\ Step("done")
    /\ ZeroCounters
    /\ UNCHANGED <<main, fifo>>

\* What a thread does with the context AbandonFile has freed under it is
\* undefined: nothing is modelled of it, and no property speaks of it.
ThreadStep ==
    /\ at # "exited"
    /\ \/ WriteHeader \/ SeekInput \/ ReadVideo \/ ReadAudio \/ CopyPacket
       \/ EndLoop \/ ProcessVideoPacket \/ ReadCaptured \/ ProcessAudioPacket
       \/ DrainAudioFifo \/ FlushVideo \/ FlushAudio \/ EndThread

MediaNext == MainStep \/ ThreadStep

MediaSpec == MediaInit /\ [][MediaNext]_mediaVars

-----------------------------------------------------------------------------
\* The pointers of the context that the thread's next step follows.
Follows ==
    CASE tpc \in {"header", "trailer"} -> {"ofmt_ctx"}
      [] tpc = "seek" -> {"ifmt_ctx"} \cup
             {r \in {"video_dec", "audio_dec"} : ptr[r] # "null"}
      [] tpc = "read" -> {"ifmt_ctx"} \cup (IF Remuxes THEN {"ofmt_ctx"} ELSE {})
      [] tpc = "video" -> {"video_dec", "filter_graph", "video_enc", "ofmt_ctx"}
      [] tpc = "audio" -> {IF screen THEN "sndio_dec" ELSE "audio_dec"} \cup
             (IF Decodes THEN {"swr_ctx", "audio_enc", "audio_fifo"} ELSE {})
      [] tpc \in {"drain", "flush_drain", "flush_audio"}
             -> {"audio_enc", "audio_fifo", "ofmt_ctx"}
      [] tpc = "flush" -> {"ofmt_ctx"} \cup
             {r \in {"video_enc"} : ptr[r] # "null"}
      [] OTHER -> {}

\* AbandonFile has freed the context of a thread that had been created and was
\* not joined (send2tv.c:1243).
Orphaned == at = "exited"

\* The thread follows no pointer that is NULL or freed, whichever parts of the
\* pipeline could not be set up (a file without video, sound that could not be
\* captured, a decoder that did not open), before or after a seek.  The one
\* exception is the exit of send2tv.c:1243, which frees them under the thread.
UsesLive == ~Orphaned => \A r \in Follows : ptr[r] = "live"

\* The thread writes audio to the audio stream of the output, although it works
\* out its number from the input and init_output from the encoders; but for a
\* thread whose encoders were freed under it.
OwnStream ==
    tpc \in {"drain", "flush_drain", "flush_audio"} /\ ~Orphaned
        => AudioOutIdx = AudioStream

\* A packet read but not decoded yet.
InHand(step) == IF tpc = step THEN 1 ELSE 0

\* Every packet that was read is accounted for: its frame or its samples have a
\* time stamp, are in the decoder, the resampler or the FIFO, or were lost at
\* one of the calls that can fail.  (What is still held when the loop ends is
\* lost too, but for whole frames in the FIFO: no decoder and no resampler is
\* flushed.)
NothingDropped ==
    tpc \notin {"none", "created", "done"} =>
        /\ video /\ ~Remuxes =>
             vread = vid_pts + vheld + vlost + vcut + InHand("video")
        /\ Decodes /\ ~Remuxes /\ ptr["audio_enc"] = "live" =>
             PacketSize * (aread - alost - InHand("audio"))
                = audio_pts + fifo + rheld + acut

\* "Flush remaining audio from FIFO" (media.c:1749): at the end less than a
\* frame of audio is left there, whatever the sizes of packets and frames.
LessThanAFrameLeft ==
    tpc \in {"flush_audio", "trailer"} /\ ~Remuxes => fifo < FrameSize

\* What is written is stamped with the time it has in the film: the frame and
\* the sample that are written next are no further apart than what the decoder,
\* the resampler, the FIFO and the packets in hand hold back, as long as none
\* was lost.
BothEncoded ==
    /\ ~screen /\ ~Remuxes /\ video /\ audio /\ has_audio /\ ~Orphaned
    /\ vlost = 0 /\ alost = 0 /\ vcut = 0 /\ acut = 0
LipSync ==
    BothEncoded =>
        LET ahead == vid_pts * SampleRate - audio_pts * Tick
        IN /\ ahead <= SampleRate + (PacketSize + FrameSize + SwrDelay) * Tick
           /\ -ahead <= (Delay + 1) * SampleRate + PacketSize * Tick

\* Sound and picture stay together if the frame rate is a whole number and
\* nothing is lost on the way.
InStep == rate % RateDen = 0 => LipSync

\* What the server is told to play, a Samsung set decodes in MPEG-TS by the
\* code's own tables; MPEG-4 part 2 is remuxed although they leave it out.
Sent(codec, encoded) == IF Remuxes \/ codec = None THEN codec ELSE encoded
TvDecodesIt ==
    at = "playing" /\ PlayMatches(source.profile) /\ source.video # "MPEG4" =>
        /\ source.video # None =>
             VideoContainerOk(Sent(source.video, "H264"), "mpegts")
        /\ source.audio # None => AudioCodecOk(Sent(source.audio, "AAC"))

\* "Tell server to start playback" (send2tv.c:1257): the PLAY line for a file
\* the client has opened is one the server obeys.
AnnouncedIsPlayed == at = "playing" => PlayMatches(source.profile)
=============================================================================
