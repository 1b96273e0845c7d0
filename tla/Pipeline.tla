------------------------------ MODULE Pipeline ------------------------------
(***************************************************************************)
(* The resources of a media context: what media_probe, media_open_*,       *)
(* media_close_transcode_state and media_close allocate, overwrite and     *)
(* free, with a failure possible at every step, for the sequences of calls *)
(* the client's main thread makes (send2tv.c).  The media thread allocates *)
(* nothing that outlives it.                                               *)
(*                                                                         *)
(* A resource is a pointer of media_ctx_t with the number of objects of    *)
(* its kind that exist.  init_output's AVIO context lives and dies with    *)
(* ofmt_ctx; the fields buffersrc_ctx and buffersink_ctx with              *)
(* filter_graph.                                                           *)
(***************************************************************************)
EXTENDS Naturals, FiniteSets

CONSTANTS
    MaxFiles,     \* bound: files of the run
    MaxSeeks      \* bound: seeks in the run

ASSUME BoundsAssumption == MaxFiles \in Nat /\ MaxSeeks \in Nat

\* What media_close_transcode_state frees, and the rest.
Transcoding == {"audio_fifo", "swr_ctx", "filter_graph", "video_enc",
                "audio_enc", "video_dec", "audio_dec", "ofmt_ctx"}
Input == {"ifmt_ctx", "hw_device_ctx", "sndio_ctx", "sndio_dec"}
Resources == Transcoding \cup Input

\* media_close frees these without setting the pointer to NULL.
Unreset == {"audio_fifo", "ofmt_ctx"}

VARIABLES
    screen,      \* the program runs with --screen
    at,          \* the step of the main thread
    ptr,         \* ptr[r]: "null", "live" or "dangling"
    live,        \* live[r]: objects of r that exist
    video,       \* media.video_idx >= 0
    audio,       \* media.audio_idx >= 0
    has_audio,   \* media_open_transcode's has_audio
    use_vaapi,   \* its use_vaapi
    remux,       \* the file needs no transcoding
    reopening,   \* this open is a seek's
    files,       \* files started
    seeks,       \* seeks done
    fellBack     \* history: a VAAPI encoder was given up for a software one

heap == <<ptr, live>>
choice == <<screen, video, audio, remux>>
progress == <<reopening, files, seeks>>
vars == <<at, heap, choice, progress, has_audio, use_vaapi, fellBack>>

Steps == {"file", "probe", "start", "vdec", "adec", "vaapi", "venc", "sw_venc",
          "filters", "sw_venc2", "sw_filters", "aenc", "fifo", "swr", "output",
          "sndio", "sndio_dec", "undo_audio", "opened", "playing", "reopen",
          "failed", "close", "direct", "exited"}

\* Types and ranges of the heap and of the place in main.
TypeOK ==
    /\ screen \in BOOLEAN
    /\ at \in Steps
    /\ ptr \in [Resources -> {"null", "live", "dangling"}]
    /\ live \in [Resources -> Nat]
    /\ video \in BOOLEAN /\ audio \in BOOLEAN /\ remux \in BOOLEAN
    /\ has_audio \in BOOLEAN /\ use_vaapi \in BOOLEAN
    /\ reopening \in BOOLEAN
    /\ files \in 0..MaxFiles
    /\ seeks \in 0..MaxSeeks
    /\ fellBack \in BOOLEAN

Init ==
    /\ screen \in BOOLEAN
    /\ at = IF screen THEN "probe" ELSE "file"
    /\ ptr = [r \in Resources |-> "null"]
    /\ live = [r \in Resources |-> 0]
    /\ video = screen /\ audio = FALSE /\ remux = FALSE
    /\ has_audio = FALSE /\ use_vaapi = FALSE
    /\ reopening = FALSE
    /\ files = 0
    /\ seeks = 0
    /\ fellBack = FALSE

\* A pointer is assigned a new object, whatever it held.
Alloc(r) ==
    /\ ptr' = [ptr EXCEPT ![r] = "live"]
    /\ live' = [live EXCEPT ![r] = @ + 1]

\* Free what the non-NULL pointers among rs hold.  A pointer that dangles is
\* freed a second time; the ones in kept are not set to NULL.
FreeAll(rs, kept) ==
    /\ ptr' = [r \in Resources |->
                 IF r \notin rs \/ ptr[r] = "null" THEN ptr[r]
                 ELSE IF r \in kept THEN "dangling" ELSE "null"]
    /\ live' = [r \in Resources |-> IF r \in rs /\ ptr[r] = "live"
                                    THEN live[r] - 1 ELSE live[r]]

Go(step) == at' = step
Fails == Go("failed")

-----------------------------------------------------------------------------
(* media_probe.                                                            *)

\* memset; the input is opened and analyzed, or the file is skipped.
Probe ==
    /\ at = "file" /\ files < MaxFiles
    /\ files' = files + 1
    /\ \/ /\ Go("start")
          /\ ptr' = [r \in Resources |-> IF r = "ifmt_ctx" THEN "live" ELSE "null"]
          /\ live' = [live EXCEPT !["ifmt_ctx"] = @ + 1]
          /\ video' \in BOOLEAN /\ audio' \in BOOLEAN /\ (video' \/ audio')
          /\ remux' \in BOOLEAN
          /\ UNCHANGED screen
       \/ /\ Go("file")
          /\ ptr' = [r \in Resources |-> "null"]
          /\ UNCHANGED <<live, choice>>
    /\ reopening' = FALSE
    /\ UNCHANGED <<seeks, has_audio, use_vaapi, fellBack>>

\* media_open_screen opens the display itself.
OpenScreen ==
    /\ at = "probe"
    /\ \/ Alloc("ifmt_ctx") /\ at' \in {"vdec", "failed"}
       \/ UNCHANGED heap /\ Fails
    /\ UNCHANGED <<choice, progress, has_audio, use_vaapi, fellBack>>

\* The data socket is connected and media_open_transcode or media_open_remux
\* called, or the connection fails and media_close is.
Start ==
    /\ at = "start"
    /\ \/ Go(IF remux THEN "output" ELSE IF video THEN "vdec" ELSE "adec")
       \/ Go("close")
    /\ UNCHANGED <<heap, choice, progress, has_audio, use_vaapi, fellBack>>

-----------------------------------------------------------------------------
(* media_open_transcode and media_open_screen.                             *)

steps == <<choice, progress, has_audio, use_vaapi, fellBack>>

VideoDecoder ==
    /\ at = "vdec"
    /\ \/ Alloc("video_dec") /\ (Fails \/ Go(IF screen THEN "sndio" ELSE "adec"))
       \/ UNCHANGED heap /\ Fails
    /\ UNCHANGED steps

\* An audio decoder that does not open is kept, but not used.
AudioDecoder ==
    /\ at = "adec"
    /\ \/ audio /\ Alloc("audio_dec") /\ has_audio' \in BOOLEAN
       \/ UNCHANGED heap /\ has_audio' = FALSE
    /\ Go(IF video THEN "vaapi" ELSE IF has_audio' THEN "aenc" ELSE "output")
    /\ UNCHANGED <<choice, progress, use_vaapi, fellBack>>

\* --screen goes on without sound if any of this fails.
SndioInput ==
    /\ at = "sndio"
    /\ \/ Alloc("sndio_ctx") /\ Go("sndio_dec")
       \/ UNCHANGED heap /\ Go("vaapi")
    /\ UNCHANGED steps

SndioDecoder ==
    /\ at = "sndio_dec"
    /\ \/ Alloc("sndio_dec")
       \/ UNCHANGED heap
       \/ FreeAll({"sndio_ctx"}, {})
    /\ Go("vaapi")
    /\ UNCHANGED steps

\* init_vaapi keeps a device that is there already.
Vaapi ==
    /\ at = "vaapi"
    /\ \/ ptr["hw_device_ctx"] # "null" /\ UNCHANGED heap /\ use_vaapi' = TRUE
       \/ ptr["hw_device_ctx"] = "null" /\ Alloc("hw_device_ctx")
          /\ use_vaapi' = TRUE
       \/ ptr["hw_device_ctx"] = "null" /\ UNCHANGED heap /\ use_vaapi' = FALSE
    /\ Go("venc")
    /\ UNCHANGED <<choice, progress, has_audio, fellBack>>

\* init_video_encoder: no codec, a context that cannot be opened, or success.
VideoEncoder ==
    /\ at \in {"venc", "sw_venc", "sw_venc2"}
    /\ \/ /\ Alloc("video_enc")
          /\ at' = IF at = "sw_venc2" THEN "sw_filters" ELSE "filters"
          /\ UNCHANGED <<use_vaapi, fellBack>>
       \/ /\ at # "venc" \/ ~use_vaapi
          /\ Alloc("video_enc") \/ UNCHANGED heap
          /\ Fails
          /\ UNCHANGED <<use_vaapi, fellBack>>
       \/ /\ at = "venc" /\ use_vaapi
          /\ \/ /\ ptr' = [ptr EXCEPT !["video_enc"] = "live",
                                      !["hw_device_ctx"] = "null"]
                /\ live' = [live EXCEPT !["video_enc"] = @ + 1,
                                        !["hw_device_ctx"] = @ - 1]
                /\ fellBack' = TRUE
             \/ FreeAll({"hw_device_ctx"}, {}) /\ UNCHANGED fellBack
          /\ use_vaapi' = FALSE
          /\ Go("sw_venc")
    /\ UNCHANGED <<choice, progress, has_audio>>

AfterFilters ==
    IF screen THEN IF ptr["sndio_dec"] = "live" THEN "aenc" ELSE "output"
    ELSE IF has_audio THEN "aenc" ELSE "output"

\* Bug variant: the encoder is not freed before the software one is made.
VideoFiltersKeepEncoder ==
    /\ at \in {"filters", "sw_filters"}
    /\ \/ Alloc("filter_graph") /\ Go(AfterFilters) /\ UNCHANGED use_vaapi
       \/ /\ at = "sw_filters" \/ ~use_vaapi
          /\ UNCHANGED <<heap, use_vaapi>> /\ Fails
       \/ /\ at = "filters" /\ use_vaapi
          /\ FreeAll({"hw_device_ctx"}, {})
          /\ use_vaapi' = FALSE
          /\ Go("sw_venc2")
    /\ UNCHANGED <<choice, progress, has_audio, fellBack>>

\* init_video_filters frees the graph when it fails.
VideoFilters ==
    /\ at \in {"filters", "sw_filters"}
    /\ \/ Alloc("filter_graph") /\ Go(AfterFilters) /\ UNCHANGED use_vaapi
       \/ /\ at = "sw_filters" \/ ~use_vaapi
          /\ UNCHANGED <<heap, use_vaapi>> /\ Fails
       \/ /\ at = "filters" /\ use_vaapi
          /\ FreeAll({"video_enc", "hw_device_ctx"}, {})
          /\ use_vaapi' = FALSE
          /\ Go("sw_venc2")
    /\ UNCHANGED <<choice, progress, has_audio, fellBack>>

AudioFails == IF screen THEN Go("undo_audio") ELSE Fails

AudioEncoder ==
    /\ at = "aenc"
    /\ \/ Alloc("audio_enc") /\ (Go("fifo") \/ AudioFails)
       \/ UNCHANGED heap /\ AudioFails
    /\ UNCHANGED steps

\* The end of init_audio_encoder.
AudioFifo ==
    /\ at = "fifo"
    /\ \/ Alloc("audio_fifo") /\ Go("swr")
       \/ UNCHANGED heap /\ AudioFails
    /\ UNCHANGED steps

Resampler ==
    /\ at = "swr"
    /\ \/ Alloc("swr_ctx") /\ (Go("output") \/ AudioFails)
       \/ UNCHANGED heap /\ AudioFails
    /\ UNCHANGED steps

UndoAudio ==
    /\ at = "undo_audio"
    /\ FreeAll({"swr_ctx", "audio_fifo", "audio_enc", "sndio_dec", "sndio_ctx"},
               {})
    /\ Go("output")
    /\ UNCHANGED steps

\* init_output and init_output_remux.
Output ==
    /\ at = "output"
    /\ \/ Alloc("ofmt_ctx") /\ (Go("opened") \/ Fails)
       \/ UNCHANGED heap /\ Fails
    /\ UNCHANGED steps

-----------------------------------------------------------------------------
(* What the client's main thread does with an open pipeline.               *)

\* PLAY is sent; a seek's open sends it in any case.
Announce ==
    /\ at = "opened"
    /\ Go("playing")
    /\ UNCHANGED <<heap, steps>>

\* running was cleared since the file was picked: media_close, without the
\* STOP and the join of next_file.
Abandon ==
    /\ at = "opened" /\ ~screen /\ ~reopening
    /\ FreeAll(Resources, Unreset)
    /\ Go("exited")
    /\ UNCHANGED steps

\* Bug variant: the FIFO is not set to NULL.
CloseTranscodeStateDangles ==
    /\ at = "playing" /\ ~screen
    /\ seeks < MaxSeeks
    /\ seeks' = seeks + 1
    /\ FreeAll(Transcoding, {"audio_fifo"})
    /\ reopening' = TRUE
    /\ Go("reopen")
    /\ UNCHANGED <<choice, files, has_audio, use_vaapi, fellBack>>

\* A seek, its thread joined and its new data socket connected.
CloseTranscodeState ==
    /\ at = "playing" /\ ~screen
    /\ seeks < MaxSeeks
    /\ seeks' = seeks + 1
    /\ FreeAll(Transcoding, {})
    /\ reopening' = TRUE
    /\ Go("reopen")
    /\ UNCHANGED <<choice, files, has_audio, use_vaapi, fellBack>>

Reopen ==
    /\ at = "reopen"
    /\ Go(IF remux THEN "output" ELSE IF video THEN "vdec" ELSE "adec")
    /\ UNCHANGED <<heap, steps>>

\* The end of the file, a key, a failed connect in a seek; before PLAY, a
\* thread that could not be created, or --screen interrupted.
Leave ==
    /\ at \in {"opened", "playing"}
    /\ Go("close")
    /\ UNCHANGED <<heap, steps>>

\* The caller of a failed open calls media_close; --screen just exits.
OpenFailed ==
    /\ at = "failed"
    /\ Go(IF screen THEN "exited" ELSE "close")
    /\ UNCHANGED <<heap, steps>>

\* A file played with --direct reaches media_close by next_file, with the
\* context of the file before it.
PlayDirect ==
    /\ at = "file" /\ files < MaxFiles
    /\ files' = files + 1
    /\ Go("direct")
    /\ UNCHANGED <<heap, choice, reopening, seeks, has_audio, use_vaapi,
                   fellBack>>

MediaClose ==
    /\ at \in {"close", "direct"}
    /\ FreeAll(Resources, Unreset)
    /\ Go(IF screen THEN "exited" ELSE "file")
    /\ UNCHANGED steps

Next ==
    \/ Probe \/ OpenScreen \/ Start
    \/ VideoDecoder \/ AudioDecoder \/ SndioInput \/ SndioDecoder \/ Vaapi
    \/ VideoEncoder \/ VideoFilters \/ AudioEncoder \/ AudioFifo \/ Resampler
    \/ UndoAudio \/ Output
    \/ Announce \/ Abandon \/ CloseTranscodeState \/ Reopen \/ Leave
    \/ OpenFailed \/ PlayDirect \/ MediaClose

Spec == Init /\ [][Next]_vars

-----------------------------------------------------------------------------
Held(r) == IF ptr[r] = "live" THEN 1 ELSE 0

\* Nothing a pipeline allocated is lost: every object that exists is the one
\* its pointer names, whichever step of whichever open failed, over seeks and
\* files; the encoder given up for a software one is the only exception.
NothingLost ==
    \A r \in Resources : live[r] # Held(r) => r = "video_enc" /\ fellBack

\* Between two files nothing exists any more, except that encoder.
ClosedFreesAll ==
    at = "file" => \A r \in Resources \ {"video_enc"} : live[r] = 0

\* media_close never frees what it has freed before, whatever failed and
\* whatever was played in between; after a --direct file it may.
NoDoubleFree ==
    at = "close" => \A r \in Resources : ptr[r] # "dangling"

\* A seek and a new file start from a context in which nothing is open but
\* the input and the VAAPI device, so that no open overwrites a pointer.
OpensIntoNull ==
    at \in {"start", "reopen"}
        => \A r \in Resources \ {"ifmt_ctx", "hw_device_ctx"} : ptr[r] = "null"
=============================================================================
