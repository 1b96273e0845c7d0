---------------------------- MODULE Media_proofs ----------------------------
(***************************************************************************)
(* Proofs about the media thread and the main thread together, for any     *)
(* files, packet and frame sizes, numbers of packets, files and seeks.     *)
(***************************************************************************)
EXTENDS Media, Pipeline_proofs

USE FilesAssumption, SamplesAssumption

ThreadTypes ==
    /\ tpc \in ThreadSteps /\ halted \in BOOLEAN
    /\ vread \in 0..MaxPackets /\ aread \in 0..MaxPackets
    /\ vheld \in 0..Delay /\ rheld \in 0..SwrDelay /\ vid_pts \in 0..MaxPackets
    /\ fifo \in Nat /\ audio_pts \in Nat
    /\ vlost \in 0..MaxLost /\ alost \in 0..MaxLost
    /\ vcut \in 0..MaxLost /\ acut \in Nat

FileTypes ==
    /\ source \in [video : VideoDecoders \cup {None, "RAWVIDEO"},
                   audio : AudioDecoders \cup {None}, profile : Profiles]
    /\ rate \in Rates \cup {0}

\* Nothing has been read.
Fresh ==
    /\ vread = 0 /\ vheld = 0 /\ vid_pts = 0 /\ vlost = 0 /\ vcut = 0
    /\ aread = 0 /\ rheld = 0 /\ audio_pts = 0 /\ alost = 0 /\ acut = 0

\* What the thread is doing agrees with what the pipeline has.
Agrees ==
    /\ tpc = "none" <=> at \notin {"opened", "playing"}
    /\ tpc \in {"none", "created", "done", "header", "seek"} => Fresh
    /\ tpc \in {"none", "created", "header", "seek"} => fifo = 0
    /\ Remuxes => tpc \in {"none", "created", "read", "trailer", "done"}
    /\ tpc = "video" => video
    /\ tpc = "capture" => screen
    /\ tpc = "audio" =>
         IF screen THEN \A r \in {"sndio_dec", "audio_enc", "swr_ctx"} : ptr[r] # "null"
         ELSE ptr["audio_dec"] # "null"
    /\ tpc \in {"drain", "flush_drain", "flush_audio"} => ptr["audio_enc"] # "null"
    /\ tpc = "drain" => Decodes
    /\ fifo # 0 => ptr["audio_enc"] # "null"
    /\ vid_pts # 0 => video /\ ~Remuxes
StageInv == ~Orphaned => Agrees

MInv == ThreadTypes /\ StageInv /\ NothingDropped /\ LessThanAFrameLeft

\* Every step of the two threads is a step of Pipeline, or leaves its state.
LEMMA StepRefines == [MediaNext]_mediaVars => [Next]_vars
  BY DEF MediaNext, MainStep, ThreadStep, mediaVars, Next, ProbeFile,
     OpenVideoEncoder, OpenAudioFifo, OpenOutput, CreateThread, SendPlay, Halt,
     JoinAndSeek, JoinAndLeave, AbandonFile, Elsewhere, WriteHeader, SeekInput,
     ReadVideo, ReadAudio, CopyPacket, EndLoop, ProcessVideoPacket, ReadCaptured,
     ProcessAudioPacket, DrainAudioFifo, FlushVideo, FlushAudio, EndThread, main

\* After the exit that frees the context under the thread, nothing more happens.
LEMMA ExitIsLast == [MediaNext]_mediaVars /\ Orphaned => UNCHANGED mediaVars
  BY DEF MediaNext, MainStep, ThreadStep, Orphaned, ProbeFile, Probe,
     OpenVideoEncoder, VideoEncoder, OpenAudioFifo, AudioFifo, OpenOutput, Output,
     CreateThread, SendPlay, Announce, Halt, JoinAndSeek, CloseTranscodeState,
     JoinAndLeave, Leave, AbandonFile, Abandon, Elsewhere, OpenScreen, Start,
     VideoDecoder, AudioDecoder, SndioInput, SndioDecoder, Vaapi, VideoFilters,
     AudioEncoder, Resampler, UndoAudio, Reopen, OpenFailed, PlayDirect, MediaClose

\* The media context in use is a Pipeline: what is proved of its allocations
\* holds while files are chosen, played and sought in.
THEOREM MediaIsPipeline == MediaSpec => Spec
  <1>1. MediaInit => Init
    BY DEF MediaInit
  <1> QED
    BY <1>1, StepRefines, PTL DEF MediaSpec, Spec

\* What Pipeline_proofs shows of the heap of Pipeline's specification holds in
\* this one too, which has the heap of media_open_* beside the packet loops.
THEOREM HeapOfMedia == MediaSpec => [](Inv /\ ShapeInv)
  BY MediaIsPipeline, Invariance, Shape, PTL

-----------------------------------------------------------------------------
(* The inductive invariant.                                                *)

\* Without a thread there is nothing to keep.
LEMMA NoThread ==
    ASSUME tpc = "none", at \notin {"opened", "playing"}, Fresh, fifo = 0,
           halted \in BOOLEAN
    PROVE  MInv
  BY DEF MInv, ThreadTypes, ThreadSteps, StageInv, Agrees, NothingDropped,
     LessThanAFrameLeft, Fresh

\* Initially there is no media thread.
LEMMA MInit == MediaInit => MInv
  BY NoThread DEF MediaInit, Init, Fresh

\* The steps of the main thread that leave the media thread's state alone are
\* taken when there is none.
LEMMA StillNoThread ==
    ASSUME MInv, Agrees, tpc = "none", UNCHANGED thread,
           at' \notin {"opened", "playing"}
    PROVE  MInv'
  <1>1. Fresh' /\ fifo' = 0 /\ tpc' = "none" /\ halted' \in BOOLEAN
    BY DEF MInv, Agrees, Fresh, thread, counters, picture, sound, ThreadTypes
  <1> QED
    BY <1>1 DEF MInv, ThreadTypes, ThreadSteps, StageInv, Agrees, NothingDropped,
     LessThanAFrameLeft, Fresh

\* The steps of the main thread.
LEMMA MainStepInv ==
    ASSUME MInv, Agrees, Inv, MainStep PROVE MInv'
  <1> USE DEF Go, Fails, AudioFails, AfterFilters
  <1>0. at \notin {"opened", "playing"} => tpc = "none"
    BY DEF Agrees
  <1>1. CASE ProbeFile
    BY <1>0, <1>1, StillNoThread DEF ProbeFile, Probe
  <1>2. CASE OpenVideoEncoder
    BY <1>0, <1>2, StillNoThread DEF OpenVideoEncoder, VideoEncoder
  <1>3. CASE OpenAudioFifo
    <2>1. /\ tpc = "none" /\ UNCHANGED thread
          /\ at' \notin {"opened", "playing"}
      BY <1>0, <1>3 DEF OpenAudioFifo, AudioFifo, thread, Agrees
    <2> QED
      BY <2>1, StillNoThread
  <1>4. CASE OpenOutput
    <2>1. tpc = "none" /\ Fresh /\ fifo = 0 /\ halted \in BOOLEAN
      BY <1>0, <1>4 DEF OpenOutput, Output, MInv, Agrees, ThreadTypes
    <2>2. CASE at' = "opened"
      <3>1. tpc' = "created" /\ Fresh' /\ fifo' = 0 /\ halted' \in BOOLEAN
        BY <1>4, <2>1, <2>2 DEF OpenOutput, Fresh, counters, picture, sound
      <3> QED
        BY <2>2, <3>1 DEF MInv, ThreadTypes, ThreadSteps, StageInv, Agrees,
           NothingDropped, LessThanAFrameLeft, Fresh, Remuxes
    <2>3. CASE at' # "opened"
      <3>1. at' \notin {"opened", "playing"} /\ UNCHANGED thread
        BY <1>4, <2>3 DEF OpenOutput, Output, thread
      <3> QED
        BY <2>1, <3>1, StillNoThread
    <2> QED
      BY <2>2, <2>3
  <1>5. CASE CreateThread
    <2>1. /\ Fresh' /\ fifo' = 0 /\ halted' \in BOOLEAN /\ at' = "opened"
          /\ tpc' = IF Remuxes' THEN "read" ELSE "header"
      BY <1>5 DEF CreateThread, Agrees, Fresh, counters, picture, sound, vars,
         choice, Remuxes
    <2>2. PacketSize * (aread' - alost' - 0) = audio_pts' + fifo' + rheld' + acut'
      BY <2>1 DEF Fresh
    <2>3. NothingDropped'
      BY <2>1, <2>2 DEF NothingDropped, Fresh, InHand
    <2>4. ThreadTypes' /\ StageInv' /\ LessThanAFrameLeft'
      BY <2>1 DEF ThreadTypes, ThreadSteps, StageInv, Agrees, LessThanAFrameLeft,
         Fresh
    <2> QED
      BY <2>3, <2>4 DEF MInv
  <1>6. CASE SendPlay \/ Halt
    <2>1. /\ UNCHANGED <<ptr, screen, video, audio, remux, has_audio, tpc, fifo>>
          /\ UNCHANGED counters /\ halted' \in BOOLEAN
          /\ at \in {"opened", "playing"} /\ at' \in {"opened", "playing"}
      BY <1>6 DEF SendPlay, Announce, Halt, vars, heap, choice, steps, thread, MInv,
         ThreadTypes
    <2> QED
      BY <2>1 DEF MInv, ThreadTypes, ThreadSteps, StageInv, Agrees, NothingDropped,
         LessThanAFrameLeft, Fresh, InHand, counters, picture, sound, Remuxes,
         Decodes
  <1>7. CASE JoinAndSeek \/ JoinAndLeave
    <2>1. /\ tpc' = "none" /\ fifo' = 0 /\ halted' \in BOOLEAN
          /\ Fresh' /\ at' \notin {"opened", "playing"}
      BY <1>7 DEF JoinAndSeek, JoinAndLeave, CloseTranscodeState, Leave, Joined,
         Forget, Agrees, Fresh, counters, picture, sound
    <2> QED
      BY <2>1 DEF MInv, ThreadTypes, ThreadSteps, StageInv, Agrees, NothingDropped,
         LessThanAFrameLeft, Fresh
  <1>8. CASE AbandonFile
    <2>1. /\ UNCHANGED <<screen, video, remux, has_audio, thread>>
          /\ at' = "exited" /\ ptr'["audio_enc"] # "live"
      BY <1>8 DEF AbandonFile, Abandon, FreeAll, steps, choice, Unreset, Resources,
         Transcoding, Inv, TypeOK
    <2> QED
      BY <2>1 DEF MInv, ThreadTypes, StageInv, Orphaned, NothingDropped, InHand,
         LessThanAFrameLeft, Remuxes, Decodes, thread, counters, picture, sound
  <1>9. CASE Elsewhere
    <2>1. at \notin {"opened", "playing"} /\ at' \notin {"opened", "playing"}
      BY <1>9 DEF Elsewhere, OpenScreen, Start, VideoDecoder, AudioDecoder,
         SndioInput, SndioDecoder, Vaapi, VideoFilters, AudioEncoder, Resampler,
         UndoAudio, Reopen, OpenFailed, PlayDirect, MediaClose
    <2> QED
      BY <1>0, <1>9, <2>1, StillNoThread DEF Elsewhere
  <1> QED
    BY <1>1, <1>2, <1>3, <1>4, <1>5, <1>6, <1>7, <1>8, <1>9 DEF MainStep

\* The steps of the media thread.
LEMMA ThreadStepInv ==
    ASSUME MInv, Agrees, Inv, ShapeInv, ThreadStep PROVE MInv'
  <1> USE DEF MInv, Step, main, vars, heap, choice, counters, picture, sound,
              Remuxes, Decodes, Fresh
  <1>0. at \in {"opened", "playing"} /\ UNCHANGED <<at, ptr, screen, video, audio, remux, has_audio>>
    BY DEF ThreadStep, Agrees, WriteHeader, SeekInput, ReadVideo, ReadAudio,
       CopyPacket, EndLoop, ProcessVideoPacket, ReadCaptured, ProcessAudioPacket,
       DrainAudioFifo, FlushVideo, FlushAudio, EndThread
  <1>a. has_audio /\ ~screen /\ ~remux =>
           ptr["audio_dec"] # "null" /\ ptr["audio_enc"] # "null"
    BY <1>0 DEF ShapeInv, Complete, Live
  <1>1. CASE WriteHeader
    <2>1. ThreadTypes'
      BY <1>1 DEF WriteHeader, ThreadTypes, ThreadSteps, Agrees, ZeroCounters
    <2>2. StageInv'
      BY <1>0, <1>a, <1>1 DEF StageInv, WriteHeader, ThreadTypes, Agrees, ZeroCounters
    <2>3. NothingDropped'
      BY <1>0, <1>a, <1>1 DEF WriteHeader, ThreadTypes, Agrees, NothingDropped,
         InHand, ZeroCounters
    <2>4. LessThanAFrameLeft'
      BY <1>0, <1>1 DEF WriteHeader, ThreadTypes, Agrees, LessThanAFrameLeft
    <2> QED
      BY <2>1, <2>2, <2>3, <2>4
  <1>2. CASE SeekInput
    <2>1. ThreadTypes'
      BY <1>2 DEF SeekInput, ThreadTypes, ThreadSteps, Agrees, ZeroCounters
    <2>2. StageInv'
      BY <1>0, <1>a, <1>2 DEF StageInv, SeekInput, ThreadTypes, Agrees, ZeroCounters
    <2>3. NothingDropped'
      BY <1>0, <1>a, <1>2 DEF SeekInput, ThreadTypes, Agrees, NothingDropped,
         InHand, ZeroCounters
    <2>4. LessThanAFrameLeft'
      BY <1>0, <1>2 DEF SeekInput, ThreadTypes, Agrees, LessThanAFrameLeft
    <2> QED
      BY <2>1, <2>2, <2>3, <2>4
  <1>3. CASE ReadVideo
    <2>1. ThreadTypes'
      BY <1>3 DEF ReadVideo, ThreadTypes, ThreadSteps, Agrees, ZeroCounters
    <2>2. StageInv'
      BY <1>0, <1>a, <1>3 DEF StageInv, ReadVideo, ThreadTypes, Agrees, ZeroCounters
    <2>3. NothingDropped'
      BY <1>0, <1>a, <1>3 DEF ReadVideo, ThreadTypes, Agrees, NothingDropped,
         InHand, ZeroCounters
    <2>4. LessThanAFrameLeft'
      BY <1>0, <1>3 DEF ReadVideo, ThreadTypes, Agrees, LessThanAFrameLeft
    <2> QED
      BY <2>1, <2>2, <2>3, <2>4
  <1>4. CASE ReadAudio
    <2>1. ThreadTypes'
      BY <1>4 DEF ReadAudio, ThreadTypes, ThreadSteps, Agrees, ZeroCounters
    <2>2. StageInv'
      BY <1>0, <1>a, <1>4 DEF StageInv, ReadAudio, ThreadTypes, Agrees, ZeroCounters
    <2>3. NothingDropped'
      BY <1>0, <1>a, <1>4 DEF ReadAudio, ThreadTypes, Agrees, NothingDropped,
         InHand, ZeroCounters
    <2>4. LessThanAFrameLeft'
      BY <1>0, <1>4 DEF ReadAudio, ThreadTypes, Agrees, LessThanAFrameLeft
    <2> QED
      BY <2>1, <2>2, <2>3, <2>4
  <1>5. CASE CopyPacket
    <2>1. ThreadTypes'
      BY <1>5 DEF CopyPacket, ThreadTypes, ThreadSteps, Agrees, ZeroCounters
    <2>2. StageInv'
      BY <1>0, <1>a, <1>5 DEF StageInv, CopyPacket, ThreadTypes, Agrees, ZeroCounters
    <2>3. NothingDropped'
      BY <1>0, <1>a, <1>5 DEF CopyPacket, ThreadTypes, Agrees, NothingDropped,
         InHand, ZeroCounters
    <2>4. LessThanAFrameLeft'
      BY <1>0, <1>5 DEF CopyPacket, ThreadTypes, Agrees, LessThanAFrameLeft
    <2> QED
      BY <2>1, <2>2, <2>3, <2>4
  <1>6. CASE EndLoop
    <2>1. ThreadTypes'
      BY <1>6 DEF EndLoop, ThreadTypes, ThreadSteps, Agrees, ZeroCounters
    <2>2. StageInv'
      BY <1>0, <1>a, <1>6 DEF StageInv, EndLoop, ThreadTypes, Agrees, ZeroCounters
    <2>3. NothingDropped'
      BY <1>0, <1>a, <1>6 DEF EndLoop, ThreadTypes, Agrees, NothingDropped, InHand,
         ZeroCounters
    <2>4. LessThanAFrameLeft'
      BY <1>0, <1>6 DEF EndLoop, ThreadTypes, Agrees, LessThanAFrameLeft
    <2> QED
      BY <2>1, <2>2, <2>3, <2>4
  <1>7. CASE ProcessVideoPacket
    <2>1. ThreadTypes'
      <3>1. vread = vid_pts + vheld + vlost + vcut + 1
        BY <1>7 DEF ProcessVideoPacket, Agrees, NothingDropped, InHand
      <3> QED
        BY <1>7, <3>1 DEF ProcessVideoPacket, MayLose, ThreadTypes, ThreadSteps
    <2>2. StageInv'
      BY <1>0, <1>a, <1>7 DEF StageInv, ProcessVideoPacket, MayLose, ThreadTypes, Agrees, ZeroCounters
    <2>3. NothingDropped'
      BY <1>0, <1>a, <1>7 DEF ProcessVideoPacket, MayLose, ThreadTypes, Agrees,
         NothingDropped, InHand, ZeroCounters
    <2>4. LessThanAFrameLeft'
      BY <1>0, <1>7 DEF ProcessVideoPacket, MayLose, ThreadTypes, Agrees, LessThanAFrameLeft
    <2> QED
      BY <2>1, <2>2, <2>3, <2>4
  <1>8. CASE ReadCaptured
    <2>1. ThreadTypes'
      BY <1>8 DEF ReadCaptured, ThreadTypes, ThreadSteps, Agrees, ZeroCounters
    <2>2. StageInv'
      BY <1>0, <1>a, <1>8 DEF StageInv, ReadCaptured, ThreadTypes, Agrees, ZeroCounters
    <2>3. NothingDropped'
      <3>1. /\ UNCHANGED <<picture, rheld, audio_pts, alost, acut, fifo>>
            /\ tpc = "capture" /\ tpc' \in {"read", "audio"}
            /\ tpc' = "audio" => aread' = aread + 1
            /\ tpc' = "read" => aread' = aread
        BY <1>8 DEF ReadCaptured
      <3>2. aread' - alost' - (IF tpc' = "audio" THEN 1 ELSE 0) = aread - alost - 0
        BY <3>1 DEF ThreadTypes
      <3> QED
        BY <1>0, <3>1, <3>2 DEF NothingDropped, InHand
    <2>4. LessThanAFrameLeft'
      BY <1>0, <1>8 DEF ReadCaptured, ThreadTypes, Agrees, LessThanAFrameLeft
    <2> QED
      BY <2>1, <2>2, <2>3, <2>4
  <1>9. CASE ProcessAudioPacket
    <2>1. ThreadTypes'
      BY <1>9 DEF ProcessAudioPacket, MayLose, ThreadTypes, ThreadSteps, Agrees, ZeroCounters
    <2>2. StageInv'
      BY <1>0, <1>a, <1>9 DEF StageInv, ProcessAudioPacket, ThreadTypes, Agrees, ZeroCounters
    <2>3. NothingDropped'
      <3>1. /\ video /\ ~Remuxes => vread = vid_pts + vheld + vlost + vcut
            /\ Decodes /\ ptr["audio_enc"] = "live" =>
                 PacketSize * (aread - alost - 1) = audio_pts + fifo + rheld + acut
        BY <1>9 DEF ProcessAudioPacket, Agrees, NothingDropped, InHand, ThreadTypes
      <3>2. /\ tpc' \in {"read", "drain"}
            /\ UNCHANGED <<picture, aread, audio_pts>>
        BY <1>9 DEF ProcessAudioPacket
      <3>3. CASE ~Decodes
        BY <1>0, <1>9, <3>1, <3>2, <3>3 DEF NothingDropped, InHand, ThreadTypes
      <3>4. CASE Decodes /\ ptr["audio_enc"] = "live"
        <4> DEFINE n == aread - alost - 1
        <4>1. n \in Int /\ PacketSize * n = audio_pts + fifo + rheld + acut
          BY <3>1, <3>4 DEF ThreadTypes
        <4>2. PacketSize * (n + 1) = PacketSize * n + PacketSize
          BY <4>1
        <4>3. \/ alost' = alost + 1 /\ UNCHANGED <<fifo, rheld, acut>>
              \/ /\ alost' = alost
                 /\ fifo' + rheld' + acut' = fifo + rheld + acut + PacketSize
          BY <1>9, <3>4 DEF ProcessAudioPacket, ThreadTypes
        <4>4. \/ aread - alost' - 0 = n /\ UNCHANGED <<fifo, rheld, acut>>
              \/ /\ aread - alost' - 0 = n + 1
                 /\ fifo' + rheld' + acut' = fifo + rheld + acut + PacketSize
          BY <4>3 DEF ThreadTypes
        <4>5. fifo' \in Nat /\ rheld' \in Nat /\ acut' \in Nat
          BY <2>1 DEF ThreadTypes
        <4> HIDE DEF n
        <4>6. PacketSize * (aread - alost' - 0) = audio_pts + fifo' + rheld' + acut'
          <5>1. CASE aread - alost' - 0 = n /\ UNCHANGED <<fifo, rheld, acut>>
            BY <4>1, <5>1
          <5>2. CASE /\ aread - alost' - 0 = n + 1
                     /\ fifo' + rheld' + acut' = fifo + rheld + acut + PacketSize
            <6>1. PacketSize * (aread - alost' - 0)
                     = audio_pts + (fifo + rheld + acut + PacketSize)
              BY <4>1, <4>2, <5>2 DEF ThreadTypes
            <6>2. audio_pts \in Nat
              BY DEF ThreadTypes
            <6> QED
              BY <4>5, <5>2, <6>1, <6>2
          <5> QED
            BY <4>4, <5>1, <5>2
        <4> QED
          BY <1>0, <3>1, <3>2, <4>6 DEF NothingDropped, InHand, ThreadTypes
      <3>5. CASE ptr["audio_enc"] # "live"
        BY <1>0, <1>9, <3>1, <3>2, <3>5 DEF NothingDropped, InHand, ThreadTypes
      <3> QED
        BY <3>3, <3>4, <3>5
    <2>4. LessThanAFrameLeft'
      BY <1>0, <1>9 DEF ProcessAudioPacket, ThreadTypes, Agrees, LessThanAFrameLeft
    <2> QED
      BY <2>1, <2>2, <2>3, <2>4
  <1>10. CASE DrainAudioFifo
    <2>1. ThreadTypes'
      BY <1>10 DEF DrainAudioFifo, ThreadTypes, ThreadSteps, Agrees, ZeroCounters
    <2>2. StageInv'
      BY <1>0, <1>a, <1>10 DEF StageInv, DrainAudioFifo, ThreadTypes, Agrees, ZeroCounters
    <2>3. NothingDropped'
      BY <1>0, <1>a, <1>10 DEF DrainAudioFifo, ThreadTypes, Agrees, NothingDropped,
         InHand, ZeroCounters
    <2>4. LessThanAFrameLeft'
      BY <1>0, <1>10 DEF DrainAudioFifo, ThreadTypes, Agrees, LessThanAFrameLeft
    <2> QED
      BY <2>1, <2>2, <2>3, <2>4
  <1>11. CASE FlushVideo
    <2>1. ThreadTypes'
      BY <1>11 DEF FlushVideo, ThreadTypes, ThreadSteps, Agrees, ZeroCounters
    <2>2. StageInv'
      BY <1>0, <1>a, <1>11 DEF StageInv, FlushVideo, ThreadTypes, Agrees, ZeroCounters
    <2>3. NothingDropped'
      BY <1>0, <1>a, <1>11 DEF FlushVideo, ThreadTypes, Agrees, NothingDropped,
         InHand, ZeroCounters
    <2>4. LessThanAFrameLeft'
      BY <1>0, <1>11 DEF FlushVideo, ThreadTypes, Agrees, LessThanAFrameLeft
    <2> QED
      BY <2>1, <2>2, <2>3, <2>4
  <1>12. CASE FlushAudio
    <2>1. ThreadTypes'
      BY <1>12 DEF FlushAudio, ThreadTypes, ThreadSteps, Agrees, ZeroCounters
    <2>2. StageInv'
      BY <1>0, <1>a, <1>12 DEF StageInv, FlushAudio, ThreadTypes, Agrees, ZeroCounters
    <2>3. NothingDropped'
      BY <1>0, <1>a, <1>12 DEF FlushAudio, ThreadTypes, Agrees, NothingDropped,
         InHand, ZeroCounters
    <2>4. LessThanAFrameLeft'
      BY <1>0, <1>12 DEF FlushAudio, ThreadTypes, Agrees, LessThanAFrameLeft
    <2> QED
      BY <2>1, <2>2, <2>3, <2>4
  <1>13. CASE EndThread
    <2>1. ThreadTypes'
      BY <1>13 DEF EndThread, ThreadTypes, ThreadSteps, Agrees, ZeroCounters
    <2>2. StageInv'
      BY <1>0, <1>a, <1>13 DEF StageInv, EndThread, ThreadTypes, Agrees, ZeroCounters
    <2>3. NothingDropped'
      BY <1>0, <1>a, <1>13 DEF EndThread, ThreadTypes, Agrees, NothingDropped,
         InHand, ZeroCounters
    <2>4. LessThanAFrameLeft'
      BY <1>0, <1>13 DEF EndThread, ThreadTypes, Agrees, LessThanAFrameLeft
    <2> QED
      BY <2>1, <2>2, <2>3, <2>4
  <1> QED
    BY <1>1, <1>2, <1>3, <1>4, <1>5, <1>6, <1>7, <1>8, <1>9, <1>10, <1>11, <1>12,
       <1>13 DEF ThreadStep

\* All steps together.
LEMMA MStep == MInv /\ Inv /\ ShapeInv /\ [MediaNext]_mediaVars => MInv'
  <1> SUFFICES ASSUME MInv, Inv, ShapeInv, [MediaNext]_mediaVars PROVE MInv'
    OBVIOUS
  <1>1. CASE UNCHANGED mediaVars
    BY <1>1 DEF mediaVars, vars, heap, choice, file, thread, counters, picture,
       sound, MInv, ThreadTypes, StageInv, Agrees, Orphaned, NothingDropped,
       LessThanAFrameLeft, Fresh, Remuxes, Decodes, InHand
  <1>2. CASE ~Orphaned
    BY <1>1, <1>2, MainStepInv, ThreadStepInv DEF MediaNext, MInv, StageInv
  <1> QED
    BY <1>1, <1>2, ExitIsLast

\* The invariant of the two threads.
THEOREM MediaInvariance == MediaSpec => [](Inv /\ ShapeInv /\ MInv)
  BY HeapOfMedia, MInit, MStep, PTL DEF MediaSpec

\* The profile media_analyze chooses is one of its table.
LEMMA ProfileTyping ==
    ASSUME NEW fmt, NEW v, NEW a, NEW force
    PROVE  DlnaProfile(fmt, v, a, force) \in Profiles
  BY DEF DlnaProfile, SetDlnaProfile, Profiles

\* Initially there is no file, or a screen.
LEMMA FileInit == MediaInit => FileTypes
  <1>1. NoFile \in [video : VideoDecoders \cup {None, "RAWVIDEO"},
                    audio : AudioDecoders \cup {None}, profile : Profiles]
    BY DEF NoFile, Profiles
  <1>2. Capture \in [video : VideoDecoders \cup {None, "RAWVIDEO"},
                     audio : AudioDecoders \cup {None}, profile : Profiles]
    BY DEF Capture, Profiles, AudioDecoders, SupportedAudio
  <1> QED
    BY <1>1, <1>2 DEF MediaInit, FileTypes

\* media_analyze gives a file one of the profiles; nothing else changes it.
LEMMA FileStep == FileTypes /\ [MediaNext]_mediaVars => FileTypes'
  <1> SUFFICES ASSUME FileTypes, [MediaNext]_mediaVars PROVE FileTypes'
    OBVIOUS
  <1>1. CASE ProbeFile
    <2>1. source' = NoFile /\ rate' = 0 => FileTypes'
      <3>1. NoFile \in [video : VideoDecoders \cup {None, "RAWVIDEO"},
                        audio : AudioDecoders \cup {None}, profile : Profiles]
        BY DEF NoFile, Profiles
      <3> QED
        BY <3>1 DEF FileTypes
    <2>2. ASSUME NEW fmt \in Formats, NEW v \in VideoCodecs \cup {None},
                 NEW a \in AudioCodecs \cup {None},
                 source' = [video |-> v, audio |-> a, profile |->
                              DlnaProfile(fmt, v, a, ForceTranscode)],
                 rate' \in Rates \cup {0}
          PROVE  FileTypes'
      BY <2>2, ProfileTyping DEF FileTypes
    <2> QED
      BY <1>1, <2>1, <2>2, Zenon DEF ProbeFile
  <1>2. CASE UNCHANGED file
    BY <1>2 DEF FileTypes, file
  <1> QED
    BY <1>1, <1>2 DEF MediaNext, MainStep, ThreadStep, mediaVars, OpenVideoEncoder,
     OpenAudioFifo, OpenOutput, CreateThread, SendPlay, Halt, JoinAndSeek,
     JoinAndLeave, AbandonFile, Elsewhere, WriteHeader, SeekInput, ReadVideo, ReadAudio, CopyPacket, EndLoop,
     ProcessVideoPacket, ReadCaptured, ProcessAudioPacket, DrainAudioFifo,
     FlushVideo, FlushAudio, EndThread, main

\* Types and ranges: no more frames are stamped than packets were read.
THEOREM MediaTyping == MediaSpec => []MediaTypeOK
  <1>1. MInv /\ FileTypes /\ Inv => MediaTypeOK
    BY DEF MInv, ThreadTypes, FileTypes, MediaTypeOK, Inv
  <1> QED
    BY <1>1, MediaInvariance, FileInit, FileStep, PTL DEF MediaSpec

\* Nothing that was decoded is lost between decoder, FIFO and encoder.
THEOREM DropsNothing == MediaSpec => []NothingDropped
  <1>1. MInv => NothingDropped
    BY DEF MInv
  <1> QED
    BY <1>1, MediaInvariance, PTL

\* drain_audio_fifo leaves less than a frame, for any packet and frame size.
THEOREM DrainsTheFifo == MediaSpec => []LessThanAFrameLeft
  <1>1. MInv => LessThanAFrameLeft
    BY DEF MInv
  <1> QED
    BY <1>1, MediaInvariance, PTL

\* The media thread follows no pointer that is NULL or freed, whatever part of
\* the pipeline could not be set up, until the exit that frees them under it.
THEOREM FollowsLivePointers == MediaSpec => []UsesLive
  <1>1. Inv /\ ShapeInv /\ MInv => UsesLive
    <2> SUFFICES ASSUME Inv, ShapeInv, MInv, ~Orphaned, NEW r \in Follows
                 PROVE  ptr[r] = "live"
      BY DEF UsesLive
    <2> USE DEF Resources, Transcoding, Input
    <2>0. Agrees
      BY DEF MInv, StageInv
    <2>1. at \in {"opened", "playing"} /\ tpc # "none"
      BY <2>0 DEF Follows, Agrees
    <2>2. \A x \in Resources : ptr[x] = "null" \/ ptr[x] = "live"
      BY <2>1 DEF Inv, TypeOK, HeapInv, Over
    <2>3. /\ ptr["ifmt_ctx"] = "live" /\ ptr["ofmt_ctx"] = "live"
          /\ video /\ ~remux => ptr["video_dec"] = "live"
                /\ ptr["filter_graph"] = "live" /\ ptr["video_enc"] = "live"
          /\ has_audio /\ ~screen /\ ~remux =>
                /\ ptr["audio_dec"] = "live" /\ ptr["audio_enc"] = "live"
                /\ ptr["swr_ctx"] = "live"
          /\ ptr["audio_enc"] # "null" => ptr["audio_fifo"] = "live"
          /\ screen => ~remux
      BY <2>1 DEF ShapeInv, Live, Complete, Opens, AudioOpens
    <2>4. tpc \in ThreadSteps
      BY DEF MInv, ThreadTypes
    <2>5. tpc \notin {"read", "trailer"} => tpc = "created" \/ tpc = "done" \/ ~Remuxes
      BY <2>0, <2>1 DEF Agrees
    <2>6. CASE tpc \in {"header", "trailer", "seek", "read", "flush"}
      BY <2>2, <2>3, <2>6 DEF Follows
    <2>7. CASE tpc = "video"
      BY <2>0, <2>3, <2>5, <2>7 DEF Follows, Remuxes, Agrees
    <2>8. CASE tpc = "audio"
      BY <2>0, <2>2, <2>3, <2>5, <2>8 DEF Follows, Remuxes, Decodes, Agrees
    <2>9. CASE tpc \in {"drain", "flush_drain", "flush_audio"}
      BY <2>0, <2>2, <2>3, <2>9 DEF Follows, Agrees
    <2> QED
      BY <2>4, <2>6, <2>7, <2>8, <2>9 DEF ThreadSteps, Follows
  <1> QED
    BY <1>1, MediaInvariance, PTL

\* audio_out_idx is the number init_output gave the audio stream.
THEOREM WritesItsStream == MediaSpec => []OwnStream
  <1>1. Inv /\ ShapeInv /\ MInv => OwnStream
    <2> SUFFICES ASSUME ShapeInv, MInv, ~Orphaned,
                        tpc \in {"drain", "flush_drain", "flush_audio"}
                 PROVE  AudioOutIdx = AudioStream
      BY DEF OwnStream
    <2>1. at \in {"opened", "playing"} /\ ~Remuxes
      BY DEF MInv, StageInv, Agrees
    <2>2. /\ screen => video /\ ~remux
          /\ video /\ ~remux => ptr["video_enc"] = "live"
          /\ ~video => ptr["video_enc"] = "null"
      BY <2>1 DEF ShapeInv, Live, Complete
    <2> QED
      BY <2>1, <2>2 DEF AudioOutIdx, AudioStream, Remuxes
  <1> QED
    BY <1>1, MediaInvariance, PTL

-----------------------------------------------------------------------------
(* Sound and picture: how far the two counters of the loop may diverge.     *)

\* The times of the next packets, in 1 / (SampleRate * RateDen * rate) seconds.
VideoTime == vread * SampleRate * RateDen
AudioTime == aread * PacketSize * rate

\* The packets of a film are read in the order of their times: neither stream
\* is read further ahead of the other than by one packet of its own.
SyncInv ==
    ~screen /\ video /\ audio =>
        /\ VideoTime <= AudioTime + SampleRate * RateDen
        /\ AudioTime <= VideoTime + PacketSize * rate

\* Only while a packet is being drained is there more than a frame.
FifoInv ==
    IF tpc = "drain" THEN fifo + rheld < FrameSize + SwrDelay + PacketSize
    ELSE fifo < FrameSize

\* A product of three, a packet later.
LEMMA OneMore ==
    ASSUME NEW n \in Nat, NEW a \in Nat, NEW b \in Nat
    PROVE  /\ a * b \in Nat /\ n * a * b \in Nat
           /\ (n + 1) * a * b = n * a * b + a * b
  <1>1. a * b \in Nat /\ n * a \in Nat
    OBVIOUS
  <1>2. (n + 1) * a = n * a + a
    OBVIOUS
  <1>3. (n * a + a) * b = n * a * b + a * b
    BY <1>1
  <1>4. n * a * b \in Nat
    BY <1>1
  <1> QED
    BY <1>1, <1>2, <1>3, <1>4

\* Initially both times are zero.
LEMMA SyncInit == MediaInit => SyncInv /\ FifoInv
  <1> SUFFICES ASSUME MediaInit PROVE SyncInv /\ FifoInv
    OBVIOUS
  <1>1. VideoTime = 0 /\ AudioTime = 0 /\ PacketSize * rate = 0
    BY DEF MediaInit, VideoTime, AudioTime
  <1>2. SampleRate * RateDen \in Nat
    BY OneMore
  <1> QED
    BY <1>1, <1>2 DEF MediaInit, SyncInv, FifoInv

\* All steps: the demuxer's order does it.
LEMMA SyncStep ==
    MInv /\ FileTypes /\ FileTypes' /\ SyncInv /\ [MediaNext]_mediaVars => SyncInv'
  <1> SUFFICES ASSUME MInv, FileTypes, FileTypes', SyncInv, [MediaNext]_mediaVars
               PROVE  SyncInv'
    OBVIOUS
  <1>0. /\ rate \in Nat /\ vread \in Nat /\ aread \in Nat
        /\ SampleRate \in Nat /\ RateDen \in Nat /\ PacketSize \in Nat
    BY DEF MInv, ThreadTypes, FileTypes
  <1>1. CASE ReadVideo
    <2>1. /\ video /\ (screen \/ VideoIsNext) /\ vread' = vread + 1
          /\ UNCHANGED <<aread, rate, screen, video, audio>>
      BY <1>1 DEF ReadVideo, main, vars, choice, file, sound
    <2>2. /\ VideoTime' = VideoTime + SampleRate * RateDen
          /\ AudioTime' = AudioTime /\ (PacketSize * rate)' = PacketSize * rate
      BY <1>0, <2>1, OneMore DEF VideoTime, AudioTime
    <2>3. ~screen /\ audio => VideoTime <= AudioTime
      BY <2>1 DEF VideoIsNext, VideoTime, AudioTime
    <2>4. /\ VideoTime \in Nat /\ AudioTime \in Nat
          /\ SampleRate * RateDen \in Nat /\ PacketSize * rate \in Nat
      BY <1>0, OneMore DEF VideoTime, AudioTime
    <2> HIDE DEF VideoTime, AudioTime
    <2> QED
      BY <2>1, <2>2, <2>3, <2>4 DEF SyncInv
  <1>2. CASE ReadAudio
    <2>1. /\ audio /\ AudioIsNext /\ aread' = aread + 1
          /\ UNCHANGED <<vread, rate, screen, video, audio>>
      BY <1>2 DEF ReadAudio, main, vars, choice, file, picture
    <2>2. /\ AudioTime' = AudioTime + PacketSize * rate
          /\ VideoTime' = VideoTime /\ (PacketSize * rate)' = PacketSize * rate
      BY <1>0, <2>1, OneMore DEF VideoTime, AudioTime
    <2>3. video => AudioTime <= VideoTime
      BY <2>1 DEF AudioIsNext, VideoTime, AudioTime
    <2>4. /\ VideoTime \in Nat /\ AudioTime \in Nat
          /\ SampleRate * RateDen \in Nat /\ PacketSize * rate \in Nat
      BY <1>0, OneMore DEF VideoTime, AudioTime
    <2> QED
      BY <2>1, <2>2, <2>3, <2>4 DEF SyncInv
  <1>f. Fresh' => SyncInv'
    <2>1. SampleRate * RateDen \in Nat /\ (PacketSize * rate)' \in Nat
      BY OneMore DEF FileTypes
    <2>2. 0 * SampleRate * RateDen = 0 /\ \A r \in Nat : 0 * PacketSize * r = 0
      <3>1. 0 * SampleRate = 0 /\ 0 * PacketSize = 0
        OBVIOUS
      <3>2. 0 * RateDen = 0 /\ \A r \in Nat : 0 * r = 0
        OBVIOUS
      <3> QED
        BY <3>1, <3>2
    <2>3. Fresh' => VideoTime' = 0 /\ AudioTime' = 0
      BY <2>2 DEF FileTypes, Fresh, VideoTime, AudioTime
    <2> QED
      BY <2>1, <2>3 DEF SyncInv
  <1>3. CASE EndThread
    BY <1>3, <1>f DEF EndThread, ZeroCounters, Fresh
  <1>4. CASE ProbeFile
    <2>1. Fresh'
      BY <1>4 DEF ProbeFile, Probe, MInv, StageInv, Orphaned, Agrees, Fresh, thread,
         counters, picture, sound
    <2> QED
      BY <2>1, <1>f
  <1>5. CASE ReadCaptured /\ ~Orphaned
    <2>1. screen'
      BY <1>5 DEF ReadCaptured, main, vars, choice, MInv, StageInv, Agrees
    <2> QED
      BY <2>1 DEF SyncInv
  <1>6. CASE UNCHANGED <<vread, aread, rate, screen, video, audio>>
    BY <1>6 DEF SyncInv, VideoTime, AudioTime
  <1>7. MainStep => ProbeFile \/ UNCHANGED <<vread, aread, rate, screen, video, audio>>
    BY DEF MainStep, OpenVideoEncoder, OpenAudioFifo, OpenOutput, CreateThread,
       SendPlay, Halt, JoinAndSeek, JoinAndLeave, AbandonFile, Announce, Abandon,
       Elsewhere, OpenScreen, Start, VideoDecoder,
       AudioDecoder, SndioInput, SndioDecoder, Vaapi, VideoEncoder, VideoFilters,
       AudioEncoder, AudioFifo, Resampler, UndoAudio, Output, CloseTranscodeState,
       Reopen, Leave, OpenFailed, PlayDirect, MediaClose, steps, vars, choice, file,
       thread, counters, picture, sound
  <1>8. ThreadStep => \/ ReadVideo \/ ReadAudio \/ EndThread
                      \/ ReadCaptured /\ ~Orphaned
                      \/ UNCHANGED <<vread, aread, rate, screen, video, audio>>
    BY DEF ThreadStep, WriteHeader, SeekInput, CopyPacket, EndLoop,
       ProcessVideoPacket, ProcessAudioPacket, DrainAudioFifo, FlushVideo,
       FlushAudio, main, vars, choice, file, counters, picture, sound, Orphaned
  <1>9. UNCHANGED mediaVars => UNCHANGED <<vread, aread, rate, screen, video, audio>>
    BY DEF mediaVars, vars, choice, file, thread, counters, picture, sound
  <1> QED
    BY <1>1, <1>2, <1>3, <1>4, <1>5, <1>6, <1>7, <1>8, <1>9 DEF MediaNext

\* Filling, draining and emptying the FIFO.
LEMMA FifoStep == MInv /\ FifoInv /\ [MediaNext]_mediaVars => FifoInv'
  <1> SUFFICES ASSUME MInv, FifoInv, [MediaNext]_mediaVars PROVE FifoInv'
    OBVIOUS
  <1>a. CASE Orphaned
    BY <1>a, ExitIsLast DEF mediaVars, thread, counters, sound, FifoInv
  <1>b. CASE ~Orphaned
    <2>0. /\ fifo \in Nat /\ rheld \in 0..SwrDelay
          /\ tpc \in {"none", "created"} => fifo = 0
      BY <1>b DEF MInv, ThreadTypes, StageInv, Agrees
    <2>1. CASE ProcessAudioPacket
      BY <2>0, <2>1 DEF ProcessAudioPacket, FifoInv, Step
    <2>2. CASE DrainAudioFifo
      BY <2>0, <2>2 DEF DrainAudioFifo, FifoInv, Step
    <2>3. CASE tpc # "drain" /\ tpc' # "drain" /\ fifo' \in {0, fifo}
      BY <2>0, <2>3 DEF FifoInv
    <2>4. CASE UNCHANGED <<tpc, fifo, rheld>>
      BY <2>4 DEF FifoInv
    <2>5. MainStep => \/ tpc # "drain" /\ tpc' # "drain" /\ fifo' \in {0, fifo}
                      \/ UNCHANGED <<tpc, fifo, rheld>>
      BY <1>b DEF MainStep, ProbeFile, OpenVideoEncoder, OpenAudioFifo, OpenOutput,
         CreateThread, SendPlay, Halt, JoinAndSeek, JoinAndLeave, AbandonFile,
         Elsewhere, Forget, Joined, thread, counters, sound, AudioFifo, Output, MInv,
         StageInv, Agrees
    <2>6. ThreadStep => \/ ProcessAudioPacket \/ DrainAudioFifo
                        \/ tpc # "drain" /\ tpc' # "drain" /\ fifo' \in {0, fifo}
      BY DEF ThreadStep, WriteHeader, SeekInput, ReadVideo, ReadAudio, CopyPacket,
         EndLoop, ProcessVideoPacket, ReadCaptured, FlushVideo, FlushAudio,
         EndThread, Step
    <2>7. UNCHANGED mediaVars => UNCHANGED <<tpc, fifo, rheld>>
      BY DEF mediaVars, thread, counters, sound
    <2> QED
      BY <2>1, <2>2, <2>3, <2>4, <2>5, <2>6, <2>7 DEF MediaNext
  <1> QED
    BY <1>a, <1>b

\* The arithmetic of LipSync: V and A are the times of the packets read, S and
\* D what decoder and FIFO hold back of them, all in samples times ticks.
LEMMA Ahead ==
    ASSUME NEW V \in Int, NEW A \in Int, NEW S \in Int, NEW D \in Int,
           NEW video_pts \in Int, NEW sound_pts \in Int,
           NEW frame \in Int, NEW packet \in Int, NEW maxD \in Int, NEW maxS \in Int,
           video_pts = V - S, sound_pts = A - D,
           V <= A + frame, A <= V + packet,
           0 <= S, S <= maxS, 0 <= D, D <= maxD
    PROVE  /\ video_pts - sound_pts <= frame + maxD
           /\ -(video_pts - sound_pts) <= maxS + packet
  OBVIOUS

\* Products of integers.
LEMMA Difference ==
    ASSUME NEW m \in Int, NEW n \in Int, NEW k \in Int
    PROVE  m * k \in Int /\ n * k \in Int /\ (m - n) * k = m * k - n * k
  OBVIOUS
LEMMA Regroup ==
    ASSUME NEW m \in Int, NEW n \in Int, NEW k \in Int
    PROVE  m * (n * k) = m * n * k
  OBVIOUS
LEMMA Monotone ==
    ASSUME NEW m \in Int, NEW n \in Int, NEW k \in Nat, 0 <= m, m <= n
    PROVE  0 <= m * k /\ m * k <= n * k
  OBVIOUS
LEMMA Cancel ==
    ASSUME NEW m \in Int, NEW n \in Int, NEW k \in Nat \ {0}, m * k <= n * k
    PROVE  m <= n
  OBVIOUS

\* Rounded down and multiplied again, a whole frame rate is itself.
LEMMA WholeQuotient ==
    ASSUME NEW m \in Int, NEW n \in Int, n > 0, m % n = 0
    PROVE  m = (m \div n) * n
  OBVIOUS
LEMMA WholeRate ==
    ASSUME FileTypes, rate % RateDen = 0
    PROVE  Tick \in Nat /\ rate = Tick * RateDen
  <1>1. rate \in Nat /\ RateDen \in Nat \ {0}
    BY DEF FileTypes
  <1>2. rate = Tick * RateDen /\ Tick \in Int
    BY <1>1, WholeQuotient DEF Tick
  <1>3. Tick >= 0
    BY <1>1 DEF Tick
  <1> QED
    BY <1>2, <1>3

\* The demuxer's order in the encoder's ticks.
LEMMA SyncInTicks ==
    ASSUME MInv, FileTypes, SyncInv, ~screen, video, audio, rate % RateDen = 0
    PROVE  /\ vread * SampleRate <= aread * PacketSize * Tick + SampleRate
           /\ aread * PacketSize * Tick <= vread * SampleRate + PacketSize * Tick
  <1>0. /\ vread \in Int /\ aread \in Int /\ SampleRate \in Int /\ PacketSize \in Int
        /\ RateDen \in Nat \ {0} /\ Tick \in Int /\ rate = Tick * RateDen
    BY WholeRate DEF MInv, ThreadTypes
  <1> DEFINE V == vread * SampleRate
             P == aread * PacketSize
             A == P * Tick
             Q == PacketSize * Tick
  <1>1. V \in Int /\ P \in Int /\ A \in Int /\ Q \in Int
    BY <1>0
  <1>2. VideoTime = V * RateDen
    BY DEF VideoTime
  <1>3. AudioTime = A * RateDen
    <2>1. AudioTime = P * (Tick * RateDen)
      BY <1>0 DEF AudioTime
    <2> QED
      BY <1>0, <1>1, <2>1, Regroup
  <1>4. PacketSize * rate = Q * RateDen
    BY <1>0, Regroup
  <1> HIDE DEF V, P, A, Q
  <1>5. V * RateDen <= A * RateDen + SampleRate * RateDen
    BY <1>2, <1>3 DEF SyncInv
  <1>6. A * RateDen <= V * RateDen + Q * RateDen
    BY <1>2, <1>3, <1>4 DEF SyncInv
  <1>7. /\ (A + SampleRate) * RateDen = A * RateDen + SampleRate * RateDen
        /\ (V + Q) * RateDen = V * RateDen + Q * RateDen
    BY <1>0, <1>1
  <1>8. V <= A + SampleRate
    <2>1. V * RateDen <= (A + SampleRate) * RateDen
      BY <1>5, <1>7
    <2> QED
      BY <1>0, <1>1, <2>1, Cancel
  <1>9. A <= V + Q
    <2>1. A * RateDen <= (V + Q) * RateDen
      BY <1>6, <1>7
    <2> QED
      BY <1>0, <1>1, <2>1, Cancel
  <1> QED
    BY <1>8, <1>9 DEF V, P, A, Q

\* What decoder, resampler and FIFO hold back, from NothingDropped.
LEMMA HeldBack ==
    ASSUME MInv, Inv, ShapeInv, FifoInv, BothEncoded,
           tpc \notin {"none", "created", "done"}
    PROVE  \E frames \in 0..(Delay + 1),
              samples \in 0..(PacketSize + FrameSize + SwrDelay) :
              /\ vid_pts = vread - frames
              /\ audio_pts = aread * PacketSize - samples
  <1>0. /\ at \in {"opened", "playing"}
        /\ ~screen /\ ~remux /\ video /\ has_audio
    BY DEF BothEncoded, Remuxes, MInv, StageInv, Agrees
  <1>1. ptr["audio_enc"] = "live"
    BY <1>0 DEF ShapeInv, Complete, Live
  <1>2. /\ vread = vid_pts + vheld + vlost + vcut + InHand("video")
        /\ PacketSize * (aread - alost - InHand("audio"))
              = audio_pts + fifo + rheld + acut
        /\ vlost = 0 /\ alost = 0 /\ vcut = 0 /\ acut = 0
    BY <1>0, <1>1 DEF MInv, NothingDropped, Decodes, Remuxes, BothEncoded
  <1>3. /\ vread \in Nat /\ aread \in Nat /\ vid_pts \in Nat /\ audio_pts \in Nat
        /\ vheld \in 0..Delay /\ fifo \in Nat /\ Delay \in Nat
        /\ rheld \in 0..SwrDelay /\ SwrDelay \in Nat
        /\ PacketSize \in Nat /\ FrameSize \in Nat
    BY DEF MInv, ThreadTypes
  <1> DEFINE frames == vheld + InHand("video")
             samples == PacketSize * InHand("audio") + fifo + rheld
  <1>4. frames \in 0..(Delay + 1) /\ vid_pts = vread - frames
    BY <1>2, <1>3 DEF InHand
  <1>5. samples \in 0..(PacketSize + FrameSize + SwrDelay)
    BY <1>3 DEF InHand, FifoInv
  <1>6. audio_pts = aread * PacketSize - samples
    <2>1. InHand("audio") \in Int
      BY DEF InHand
    <2>2. PacketSize * (aread - InHand("audio"))
             = aread * PacketSize - PacketSize * InHand("audio")
      BY <1>3, <2>1
    <2>3. PacketSize * InHand("audio") \in Int /\ aread * PacketSize \in Int
      BY <1>3, <2>1
    <2> QED
      BY <1>2, <1>3, <2>1, <2>2, <2>3
  <1> QED
    BY <1>4, <1>5, <1>6

\* Sound and picture are stamped with the times they have in the film, up to
\* what decoder, resampler and FIFO hold back, as long as no packet is lost, for
\* every whole frame rate, every sample rate and every packet size (the pts of encode_video_frame and
\* encode_audio_frame are counters of their own).
THEOREM StaysInStep == MediaSpec => []InStep
  <1>1. MInv /\ Inv /\ ShapeInv /\ FileTypes /\ SyncInv /\ FifoInv => InStep
    <2> SUFFICES ASSUME MInv, Inv, ShapeInv, FileTypes, SyncInv, FifoInv,
                        rate % RateDen = 0, BothEncoded
                 PROVE  LipSync
      BY DEF InStep, LipSync
    <2> DEFINE video_time == vid_pts * SampleRate
               audio_time == audio_pts * Tick
               maxD == (PacketSize + FrameSize + SwrDelay) * Tick
               maxS == (Delay + 1) * SampleRate
               packet == PacketSize * Tick
    <2>0. /\ vread \in Int /\ aread \in Int /\ aread * PacketSize \in Int
          /\ SampleRate \in Nat /\ Tick \in Nat /\ Delay + 1 \in Nat
          /\ PacketSize \in Nat /\ PacketSize + FrameSize + SwrDelay \in Nat
      BY WholeRate DEF MInv, ThreadTypes
    <2>1. maxD \in Nat /\ maxS \in Nat /\ packet \in Nat
      BY <2>0
    <2>2. /\ video_time - audio_time <= SampleRate + maxD
          /\ -(video_time - audio_time) <= maxS + packet
      <3>1. CASE tpc \in {"none", "created", "done"}
        <4>1. video_time = 0 /\ audio_time = 0
          BY <2>0, <3>1 DEF MInv, StageInv, Agrees, BothEncoded, Fresh
        <4> HIDE DEF video_time, audio_time, maxD, maxS, packet
        <4> QED
          BY <2>0, <2>1, <4>1
      <3>2. CASE tpc \notin {"none", "created", "done"}
        <4>1. PICK frames \in 0..(Delay + 1),
                   samples \in 0..(PacketSize + FrameSize + SwrDelay) :
                 /\ vid_pts = vread - frames
                 /\ audio_pts = aread * PacketSize - samples
          BY <3>2, HeldBack
        <4> DEFINE V == vread * SampleRate
                   A == aread * PacketSize * Tick
                   S == frames * SampleRate
                   D == samples * Tick
        <4>2. V \in Int /\ S \in Int /\ video_time = V - S
          BY <2>0, <4>1, Difference
        <4>3. A \in Int /\ D \in Int /\ audio_time = A - D
          BY <2>0, <4>1, Difference
        <4>4. 0 <= S /\ S <= maxS /\ 0 <= D /\ D <= maxD
          BY <2>0, <4>1, Monotone
        <4>5. V <= A + SampleRate /\ A <= V + packet
          BY SyncInTicks DEF BothEncoded
        <4> HIDE DEF video_time, audio_time, maxD, maxS, packet, V, A, S, D
        <4> QED
          BY <2>0, <2>1, <4>2, <4>3, <4>4, <4>5, Ahead
      <3> QED
        BY <3>1, <3>2
    <2> QED
      BY <2>2 DEF LipSync
  <1> QED
    BY <1>1, MediaInvariance, FileInit, FileStep, SyncInit, SyncStep, FifoStep, PTL,
       MInit, InitInv DEF MediaSpec

-----------------------------------------------------------------------------
(* What the television is sent.                                             *)

\* What the tables say of a codec inside MPEG-TS.
Fits(v, a) ==
    /\ v # None => VideoContainerOk(v, "mpegts")
    /\ a # None => AudioCodecOk(a)

\* A file that is sent as it is: its codecs fit the MPEG-TS it is remuxed to,
\* if it has a profile and its video is not MPEG-4 part 2.
RemuxInv ==
    remux /\ ~screen /\ PlayMatches(source.profile) /\ source.video # "MPEG4"
        => Fits(source.video, source.audio)

\* media_analyze looks the codecs up for the container the file comes in, and
\* only MPEG-4 has a profile there without being allowed in MPEG-TS too.
LEMMA ProfileFits ==
    ASSUME NEW fmt, NEW v, NEW a, NEW force,
           ~NeedsTranscode(fmt, v, a, force), v # "MPEG4",
           PlayMatches(DlnaProfile(fmt, v, a, force))
    PROVE  Fits(v, a)
  <1>1. v \in {"H264", "HEVC"}
    BY DEF DlnaProfile, SetDlnaProfile, PlayMatches
  <1>2. VideoContainerOk(v, "mpegts")
    BY <1>1 DEF VideoContainerOk, ContainersOf, Names, WordsOf, Common
  <1>3. v # None
    BY <1>1 DEF None
  <1>4. a # None => AudioCodecOk(a)
    BY <1>3 DEF NeedsTranscode
  <1> QED
    BY <1>2, <1>4 DEF Fits

\* A probe that succeeds establishes it, nothing else touches the choice.
LEMMA RemuxStep == RemuxInv /\ [MediaNext]_mediaVars => RemuxInv'
  <1> SUFFICES ASSUME RemuxInv, [MediaNext]_mediaVars PROVE RemuxInv'
    OBVIOUS
  <1>1. CASE ProbeFile
    <2>1. CASE source' = NoFile
      BY <2>1 DEF RemuxInv, NoFile, PlayMatches
    <2>2. ASSUME NEW fmt \in Formats, NEW v \in VideoCodecs \cup {None},
                 NEW a \in AudioCodecs \cup {None},
                 remux' = ~NeedsTranscode(fmt, v, a, ForceTranscode),
                 source' = [video |-> v, audio |-> a, profile |->
                              DlnaProfile(fmt, v, a, ForceTranscode)]
          PROVE  RemuxInv'
      <3> SUFFICES ASSUME remux', PlayMatches(source'.profile), v # "MPEG4"
                   PROVE  Fits(v, a)
        BY <2>2 DEF RemuxInv
      <3> QED
        BY <2>2, ProfileFits
    <2> QED
      BY <1>1, <2>1, <2>2 DEF ProbeFile
  <1>2. CASE UNCHANGED <<remux, screen, source>>
    BY <1>2 DEF RemuxInv
  <1>3. MainStep => ProbeFile \/ UNCHANGED <<remux, screen, source>>
    BY DEF MainStep, OpenVideoEncoder, OpenAudioFifo, OpenOutput, CreateThread,
       SendPlay, Halt, JoinAndSeek, JoinAndLeave, AbandonFile, Announce, Abandon,
       Elsewhere, OpenScreen, Start, VideoDecoder,
       AudioDecoder, SndioInput, SndioDecoder, Vaapi, VideoEncoder, VideoFilters,
       AudioEncoder, AudioFifo, Resampler, UndoAudio, Output, CloseTranscodeState,
       Reopen, Leave, OpenFailed, PlayDirect, MediaClose, steps, vars, choice, file
  <1>4. ThreadStep => UNCHANGED <<remux, screen, source>>
    BY DEF ThreadStep, WriteHeader, SeekInput, ReadVideo, ReadAudio, CopyPacket,
       EndLoop, ProcessVideoPacket, ReadCaptured, ProcessAudioPacket, DrainAudioFifo,
       FlushVideo, FlushAudio, EndThread, main, vars, choice, file
  <1>5. UNCHANGED mediaVars => UNCHANGED <<remux, screen, source>>
    BY DEF mediaVars, vars, choice, file
  <1> QED
    BY <1>1, <1>2, <1>3, <1>4, <1>5 DEF MediaNext

\* What the server is told to play is MPEG-TS with codecs the code's tables
\* allow in it, for every container, codec and option -t; MPEG-4 part 2 is the
\* exception.
THEOREM PlaysWhatFits == MediaSpec => []TvDecodesIt
  <1>1. MediaInit => RemuxInv
    BY Zenon DEF MediaInit, Init, RemuxInv
  <1>2. RemuxInv => TvDecodesIt
    <2> SUFFICES ASSUME RemuxInv, PlayMatches(source.profile), source.video # "MPEG4"
                 PROVE  /\ source.video # None =>
                             VideoContainerOk(Sent(source.video, "H264"), "mpegts")
                        /\ source.audio # None => AudioCodecOk(Sent(source.audio, "AAC"))
      BY DEF TvDecodesIt
    <2>1. VideoContainerOk("H264", "mpegts") /\ AudioCodecOk("AAC")
      BY DEF VideoContainerOk, ContainersOf, Names, WordsOf, Common, AudioCodecOk,
         SupportedAudio
    <2>2. Remuxes => Fits(source.video, source.audio)
      BY DEF RemuxInv, Remuxes
    <2> QED
      BY <2>1, <2>2 DEF Sent, Fits
  <1> QED
    BY <1>1, <1>2, RemuxStep, PTL DEF MediaSpec
=============================================================================
