-------------------------- MODULE Pipeline_proofs --------------------------
(***************************************************************************)
(* Proofs about the allocations of a media context, for any number of      *)
(* files and seeks.                                                        *)
(***************************************************************************)
EXTENDS Pipeline, TLAPS

USE BoundsAssumption

Encoding == {"audio_fifo", "swr_ctx", "filter_graph", "audio_enc", "ofmt_ctx"}
Opened == {"ifmt_ctx", "hw_device_ctx"}
Over == {"file", "direct", "exited"}

\* The pointers that are NULL when a step is reached, so that the step may
\* overwrite them.
Untouched ==
    CASE at = "probe" -> Resources
      [] at \in {"start", "reopen", "vdec"} -> Resources \ Opened
      [] at \in {"adec", "sndio"} -> Resources \ (Opened \cup {"video_dec"})
      [] at = "sndio_dec" -> Resources \ (Opened \cup {"video_dec", "sndio_ctx"})
      [] at \in {"vaapi", "venc", "sw_venc2"} -> Encoding \cup {"video_enc"}
      [] at \in {"sw_venc", "filters", "sw_filters"} -> Encoding
      [] at = "aenc" -> Encoding \ {"filter_graph"}
      [] at = "fifo" -> {"audio_fifo", "swr_ctx", "ofmt_ctx"}
      [] at = "swr" -> {"swr_ctx", "ofmt_ctx"}
      [] at \in {"undo_audio", "output"} -> {"ofmt_ctx"}
      [] OTHER -> {}

\* The shape of the heap at every step.
HeapInv ==
    /\ \A r \in Untouched : ptr[r] = "null"
    /\ at \notin Over => \A r \in Resources : ptr[r] # "dangling"
    /\ at \in {"file", "direct"} => \A r \in Resources : ptr[r] # "live"
    /\ at \in {"venc", "filters"} /\ use_vaapi => ptr["hw_device_ctx"] = "live"
    /\ at \in {"sw_venc", "sw_venc2", "sw_filters"} => ~use_vaapi
    /\ at = "sw_venc" /\ ptr["video_enc"] = "live" => fellBack
    /\ ~screen => ptr["sndio_ctx"] = "null" /\ ptr["sndio_dec"] = "null"
    /\ at \in {"sndio", "sndio_dec"} => screen

\* The objects that exist, counted against the pointers.
CountInv ==
    /\ \A r \in Resources : ptr[r] = "live" => live[r] >= 1
    /\ NothingLost

Inv == TypeOK /\ HeapInv /\ CountInv

\* Initially nothing is allocated.
LEMMA InitInv == Init => Inv
  <1> SUFFICES ASSUME Init PROVE Inv
    OBVIOUS
  <1>1. TypeOK
    <2>1. at \in Steps
      BY DEF Init, Steps
    <2>2. /\ 0 \in 0..MaxFiles /\ 0 \in 0..MaxSeeks
      BY DEF Init
    <2>3. video \in BOOLEAN
      BY Zenon DEF Init
    <2> QED
      BY <2>1, <2>2, <2>3 DEF Init, TypeOK
  <1>2. HeapInv
    BY DEF Init, HeapInv, Untouched, Over, Resources, Transcoding, Input
  <1>3. CountInv
    BY DEF Init, CountInv, NothingLost, Held
  <1> QED
    BY <1>1, <1>2, <1>3 DEF Inv

\* Assigning a pointer that is NULL loses nothing.
LEMMA AllocCounts ==
    ASSUME TypeOK, CountInv, NEW r \in Resources, ptr[r] = "null", Alloc(r),
           UNCHANGED fellBack
    PROVE  /\ ptr' \in [Resources -> {"null", "live", "dangling"}]
           /\ live' \in [Resources -> Nat]
           /\ CountInv'
  BY DEF TypeOK, CountInv, NothingLost, Held, Alloc

\* Freeing loses nothing either.
LEMMA FreeCounts ==
    ASSUME TypeOK, CountInv, NEW rs, NEW kept, FreeAll(rs, kept),
           UNCHANGED fellBack
    PROVE  /\ ptr' \in [Resources -> {"null", "live", "dangling"}]
           /\ live' \in [Resources -> Nat]
           /\ CountInv'
  BY DEF TypeOK, CountInv, NothingLost, Held, FreeAll

\* A step that leaves the heap alone and remembers a fallback keeps the counts.
LEMMA SameCounts ==
    ASSUME TypeOK, CountInv, UNCHANGED heap, fellBack => fellBack'
    PROVE  /\ ptr' \in [Resources -> {"null", "live", "dangling"}]
           /\ live' \in [Resources -> Nat]
           /\ CountInv'
  BY DEF TypeOK, CountInv, NothingLost, Held, heap

USE DEF Steps

\* Every step keeps types and counts.
LEMMA StepInv == Inv /\ [Next]_vars => Inv'
  <1> SUFFICES ASSUME Inv, [Next]_vars PROVE Inv'
    OBVIOUS
  <1> USE DEF Inv
  <1>1. CASE Probe
    <2>1. TypeOK'
      <3>1. files' \in 0..MaxFiles /\ at' \in {"start", "file"}
        BY <1>1 DEF Probe, TypeOK, Go
      <3>2. /\ ptr' \in [Resources -> {"null", "live", "dangling"}]
            /\ live' \in [Resources -> Nat]
        BY <1>1 DEF Probe, TypeOK
      <3>3. /\ screen' \in BOOLEAN /\ video' \in BOOLEAN
            /\ audio' \in BOOLEAN /\ remux' \in BOOLEAN
        BY <1>1, Zenon DEF Probe, TypeOK, choice
      <3> QED
        BY <1>1, <3>1, <3>2, <3>3 DEF Probe, TypeOK
    <2>2. HeapInv'
      BY <1>1 DEF Probe, TypeOK, CountInv, HeapInv, Untouched, Encoding, Opened,
         Over, choice, progress,
         Go, Fails, Alloc, FreeAll, heap, Resources, Transcoding, Input
    <2>3. CountInv'
      BY <1>1 DEF Probe, TypeOK, CountInv, NothingLost, Held, HeapInv, Untouched,
         Encoding, Opened,
         Go, Fails, Alloc, FreeAll, heap, Resources, Transcoding, Input
    <2> QED
      BY <2>1, <2>2, <2>3
  <1>2. CASE OpenScreen
    <2>1. /\ ptr' \in [Resources -> {"null", "live", "dangling"}]
          /\ live' \in [Resources -> Nat]
          /\ CountInv'
      BY <1>2, SameCounts, AllocCounts DEF OpenScreen, steps, HeapInv, Untouched,
         Resources, Transcoding, Input, Encoding, Opened
    <2>2. TypeOK'
      BY <1>2, <2>1 DEF OpenScreen, TypeOK, steps, choice, progress, Go, Fails,
         AudioFails, AfterFilters
    <2>3. HeapInv'
      BY <1>2 DEF OpenScreen, TypeOK, HeapInv, Untouched, Resources, Transcoding,
         Input, Encoding, Opened, Over,
         steps, choice, progress, heap, Go, Fails, AudioFails, AfterFilters, Alloc,
              FreeAll, Unreset
    <2> QED
      BY <2>1, <2>2, <2>3
  <1>3. CASE Start
    <2>1. /\ ptr' \in [Resources -> {"null", "live", "dangling"}]
          /\ live' \in [Resources -> Nat]
          /\ CountInv'
      BY <1>3, SameCounts DEF Start, steps, HeapInv, Untouched, Resources,
         Transcoding, Input, Encoding, Opened
    <2>2. TypeOK'
      BY <1>3, <2>1 DEF Start, TypeOK, steps, choice, progress, Go, Fails,
         AudioFails, AfterFilters
    <2>3. HeapInv'
      BY <1>3 DEF Start, TypeOK, HeapInv, Untouched, Resources, Transcoding, Input,
         Encoding, Opened, Over,
         steps, choice, progress, heap, Go, Fails, AudioFails, AfterFilters, Alloc,
              FreeAll, Unreset
    <2> QED
      BY <2>1, <2>2, <2>3
  <1>4. CASE VideoDecoder
    <2>1. /\ ptr' \in [Resources -> {"null", "live", "dangling"}]
          /\ live' \in [Resources -> Nat]
          /\ CountInv'
      BY <1>4, SameCounts, AllocCounts DEF VideoDecoder, steps, HeapInv, Untouched,
         Resources, Transcoding, Input, Encoding, Opened
    <2>2. TypeOK'
      BY <1>4, <2>1 DEF VideoDecoder, TypeOK, steps, choice, progress, Go, Fails,
         AudioFails, AfterFilters
    <2>3. HeapInv'
      BY <1>4 DEF VideoDecoder, TypeOK, HeapInv, Untouched, Resources, Transcoding,
         Input, Encoding, Opened, Over,
         steps, choice, progress, heap, Go, Fails, AudioFails, AfterFilters, Alloc,
              FreeAll, Unreset
    <2> QED
      BY <2>1, <2>2, <2>3
  <1>5. CASE AudioDecoder
    <2>1. /\ ptr' \in [Resources -> {"null", "live", "dangling"}]
          /\ live' \in [Resources -> Nat]
          /\ CountInv'
      BY <1>5, SameCounts, AllocCounts DEF AudioDecoder, steps, HeapInv, Untouched,
         Resources, Transcoding, Input, Encoding, Opened
    <2>2. TypeOK'
      BY <1>5, <2>1 DEF AudioDecoder, TypeOK, steps, choice, progress, Go, Fails,
         AudioFails, AfterFilters
    <2>3. HeapInv'
      BY <1>5 DEF AudioDecoder, TypeOK, HeapInv, Untouched, Resources, Transcoding,
         Input, Encoding, Opened, Over,
         steps, choice, progress, heap, Go, Fails, AudioFails, AfterFilters, Alloc,
              FreeAll, Unreset
    <2> QED
      BY <2>1, <2>2, <2>3
  <1>6. CASE SndioInput
    <2>1. /\ ptr' \in [Resources -> {"null", "live", "dangling"}]
          /\ live' \in [Resources -> Nat]
          /\ CountInv'
      BY <1>6, SameCounts, AllocCounts DEF SndioInput, steps, HeapInv, Untouched,
         Resources, Transcoding, Input, Encoding, Opened
    <2>2. TypeOK'
      BY <1>6, <2>1 DEF SndioInput, TypeOK, steps, choice, progress, Go, Fails,
         AudioFails, AfterFilters
    <2>3. HeapInv'
      BY <1>6 DEF SndioInput, TypeOK, HeapInv, Untouched, Resources, Transcoding,
         Input, Encoding, Opened, Over,
         steps, choice, progress, heap, Go, Fails, AudioFails, AfterFilters, Alloc,
              FreeAll, Unreset
    <2> QED
      BY <2>1, <2>2, <2>3
  <1>7. CASE SndioDecoder
    <2>1. /\ ptr' \in [Resources -> {"null", "live", "dangling"}]
          /\ live' \in [Resources -> Nat]
          /\ CountInv'
      BY <1>7, SameCounts, AllocCounts, FreeCounts DEF SndioDecoder, steps, HeapInv,
         Untouched, Resources, Transcoding, Input, Encoding, Opened
    <2>2. TypeOK'
      BY <1>7, <2>1 DEF SndioDecoder, TypeOK, steps, choice, progress, Go, Fails,
         AudioFails, AfterFilters
    <2>3. HeapInv'
      BY <1>7 DEF SndioDecoder, TypeOK, HeapInv, Untouched, Resources, Transcoding,
         Input, Encoding, Opened, Over,
         steps, choice, progress, heap, Go, Fails, AudioFails, AfterFilters, Alloc,
              FreeAll, Unreset
    <2> QED
      BY <2>1, <2>2, <2>3
  <1>8. CASE Vaapi
    <2>1. /\ ptr' \in [Resources -> {"null", "live", "dangling"}]
          /\ live' \in [Resources -> Nat]
          /\ CountInv'
      BY <1>8, SameCounts, AllocCounts DEF Vaapi, steps, HeapInv, Untouched,
         Resources, Transcoding, Input, Encoding, Opened
    <2>2. TypeOK'
      BY <1>8, <2>1 DEF Vaapi, TypeOK, steps, choice, progress, Go, Fails,
         AudioFails, AfterFilters
    <2>3. HeapInv'
      BY <1>8 DEF Vaapi, TypeOK, HeapInv, Untouched, Resources, Transcoding, Input,
         Encoding, Opened, Over,
         steps, choice, progress, heap, Go, Fails, AudioFails, AfterFilters, Alloc,
              FreeAll, Unreset
    <2> QED
      BY <2>1, <2>2, <2>3
  <1>9. CASE VideoEncoder
    <2> DEFINE GivenUp == at = "venc" /\ use_vaapi /\ at' = "sw_venc"
    <2>1. at = "venc" /\ use_vaapi => ptr["hw_device_ctx"] = "live" /\ live["hw_device_ctx"] >= 1
      BY DEF HeapInv, CountInv, Resources, Input
    <2>2. CASE GivenUp
      <3>1. /\ ptr' \in [Resources -> {"null", "live", "dangling"}]
            /\ live' \in [Resources -> Nat]
        BY <1>9, <2>1, <2>2 DEF VideoEncoder, TypeOK, Alloc, FreeAll, Go, Fails,
           Resources, Transcoding, Input
      <3>2. use_vaapi' \in BOOLEAN /\ fellBack' \in BOOLEAN
        BY <1>9, <2>2 DEF VideoEncoder, TypeOK, Go, Fails
      <3>3. TypeOK'
        BY <1>9, <2>2, <3>1, <3>2 DEF VideoEncoder, TypeOK, choice, progress
      <3>4. HeapInv'
        BY <1>9, <2>1, <2>2 DEF VideoEncoder, choice, TypeOK, HeapInv, Untouched,
           Encoding, Over,
           Go, Fails, Alloc, FreeAll, Resources, Transcoding, Input
      <3>5. CountInv'
        BY <1>9, <2>1, <2>2 DEF VideoEncoder, TypeOK, CountInv, NothingLost, Held,
           HeapInv, Untouched, Encoding, Go, Fails, Alloc, FreeAll, Resources,
                Transcoding, Input
      <3> QED
        BY <3>3, <3>4, <3>5
    <2>3. CASE ~GivenUp
      <3>1. /\ Alloc("video_enc") \/ UNCHANGED heap
            /\ UNCHANGED <<use_vaapi, fellBack>>
            /\ at' \in {"filters", "sw_filters", "failed"}
            /\ at' = "filters" => at # "sw_venc2" /\ Alloc("video_enc")
        BY <1>9, <2>3 DEF VideoEncoder, Go, Fails
      <3>2. /\ ptr' \in [Resources -> {"null", "live", "dangling"}]
            /\ live' \in [Resources -> Nat]
        BY <3>1 DEF TypeOK, Alloc, heap, Resources, Transcoding, Input
      <3>3. TypeOK'
        BY <1>9, <3>1, <3>2 DEF VideoEncoder, TypeOK, choice, progress
      <3>4. at \in {"venc", "sw_venc", "sw_venc2"}
        BY <1>9 DEF VideoEncoder
      <3>5. use_vaapi /\ at' = "filters" => ptr["hw_device_ctx"] = "live"
        BY <2>1, <3>1, <3>4 DEF HeapInv
      <3>6. HeapInv'
        BY <1>9, <3>1, <3>4, <3>5 DEF VideoEncoder, choice, TypeOK, HeapInv, Untouched,
           Encoding, Over, Alloc, heap, Resources, Transcoding, Input
      <3>7. CountInv'
        BY <3>1, <3>4 DEF TypeOK, CountInv, NothingLost, Held,
           HeapInv, Untouched, Encoding, Alloc, heap, Resources, Transcoding, Input
      <3> QED
        BY <3>3, <3>6, <3>7
    <2> QED
      BY <2>2, <2>3
  <1>10. CASE VideoFilters
    <2>1. /\ ptr' \in [Resources -> {"null", "live", "dangling"}]
          /\ live' \in [Resources -> Nat]
          /\ CountInv'
      BY <1>10, SameCounts, AllocCounts, FreeCounts DEF VideoFilters, steps, HeapInv,
         Untouched, Resources, Transcoding, Input, Encoding, Opened
    <2>2. TypeOK'
      BY <1>10, <2>1 DEF VideoFilters, TypeOK, steps, choice, progress, Go, Fails,
         AudioFails, AfterFilters
    <2>3. HeapInv'
      BY <1>10 DEF VideoFilters, TypeOK, HeapInv, Untouched, Resources, Transcoding,
         Input, Encoding, Opened, Over,
         steps, choice, progress, heap, Go, Fails, AudioFails, AfterFilters, Alloc,
              FreeAll, Unreset
    <2> QED
      BY <2>1, <2>2, <2>3
  <1>11. CASE AudioEncoder
    <2>1. /\ ptr' \in [Resources -> {"null", "live", "dangling"}]
          /\ live' \in [Resources -> Nat]
          /\ CountInv'
      BY <1>11, SameCounts, AllocCounts DEF AudioEncoder, steps, HeapInv, Untouched,
         Resources, Transcoding, Input, Encoding, Opened
    <2>2. TypeOK'
      BY <1>11, <2>1 DEF AudioEncoder, TypeOK, steps, choice, progress, Go, Fails,
         AudioFails, AfterFilters
    <2>3. HeapInv'
      BY <1>11 DEF AudioEncoder, TypeOK, HeapInv, Untouched, Resources, Transcoding,
         Input, Encoding, Opened, Over,
         steps, choice, progress, heap, Go, Fails, AudioFails, AfterFilters, Alloc,
              FreeAll, Unreset
    <2> QED
      BY <2>1, <2>2, <2>3
  <1>12. CASE AudioFifo
    <2>1. /\ ptr' \in [Resources -> {"null", "live", "dangling"}]
          /\ live' \in [Resources -> Nat]
          /\ CountInv'
      BY <1>12, SameCounts, AllocCounts DEF AudioFifo, steps, HeapInv, Untouched,
         Resources, Transcoding, Input, Encoding, Opened
    <2>2. TypeOK'
      BY <1>12, <2>1 DEF AudioFifo, TypeOK, steps, choice, progress, Go, Fails,
         AudioFails, AfterFilters
    <2>3. HeapInv'
      BY <1>12 DEF AudioFifo, TypeOK, HeapInv, Untouched, Resources, Transcoding,
         Input, Encoding, Opened, Over,
         steps, choice, progress, heap, Go, Fails, AudioFails, AfterFilters, Alloc,
              FreeAll, Unreset
    <2> QED
      BY <2>1, <2>2, <2>3
  <1>13. CASE Resampler
    <2>1. /\ ptr' \in [Resources -> {"null", "live", "dangling"}]
          /\ live' \in [Resources -> Nat]
          /\ CountInv'
      BY <1>13, SameCounts, AllocCounts DEF Resampler, steps, HeapInv, Untouched,
         Resources, Transcoding, Input, Encoding, Opened
    <2>2. TypeOK'
      BY <1>13, <2>1 DEF Resampler, TypeOK, steps, choice, progress, Go, Fails,
         AudioFails, AfterFilters
    <2>3. HeapInv'
      BY <1>13 DEF Resampler, TypeOK, HeapInv, Untouched, Resources, Transcoding,
         Input, Encoding, Opened, Over,
         steps, choice, progress, heap, Go, Fails, AudioFails, AfterFilters, Alloc,
              FreeAll, Unreset
    <2> QED
      BY <2>1, <2>2, <2>3
  <1>14. CASE UndoAudio
    <2>1. /\ ptr' \in [Resources -> {"null", "live", "dangling"}]
          /\ live' \in [Resources -> Nat]
          /\ CountInv'
      BY <1>14, SameCounts, FreeCounts DEF UndoAudio, steps, HeapInv, Untouched,
         Resources, Transcoding, Input, Encoding, Opened
    <2>2. TypeOK'
      BY <1>14, <2>1 DEF UndoAudio, TypeOK, steps, choice, progress, Go, Fails,
         AudioFails, AfterFilters
    <2>3. HeapInv'
      BY <1>14 DEF UndoAudio, TypeOK, HeapInv, Untouched, Resources, Transcoding,
         Input, Encoding, Opened, Over,
         steps, choice, progress, heap, Go, Fails, AudioFails, AfterFilters, Alloc,
              FreeAll, Unreset
    <2> QED
      BY <2>1, <2>2, <2>3
  <1>15. CASE Output
    <2>1. /\ ptr' \in [Resources -> {"null", "live", "dangling"}]
          /\ live' \in [Resources -> Nat]
          /\ CountInv'
      BY <1>15, SameCounts, AllocCounts DEF Output, steps, HeapInv, Untouched,
         Resources, Transcoding, Input, Encoding, Opened
    <2>2. TypeOK'
      BY <1>15, <2>1 DEF Output, TypeOK, steps, choice, progress, Go, Fails,
         AudioFails, AfterFilters
    <2>3. HeapInv'
      BY <1>15 DEF Output, TypeOK, HeapInv, Untouched, Resources, Transcoding, Input,
         Encoding, Opened, Over,
         steps, choice, progress, heap, Go, Fails, AudioFails, AfterFilters, Alloc,
              FreeAll, Unreset
    <2> QED
      BY <2>1, <2>2, <2>3
  <1>16. CASE CloseTranscodeState
    <2>1. /\ ptr' \in [Resources -> {"null", "live", "dangling"}]
          /\ live' \in [Resources -> Nat]
          /\ CountInv'
      BY <1>16, SameCounts, FreeCounts DEF CloseTranscodeState, steps, HeapInv,
         Untouched, Resources, Transcoding, Input, Encoding, Opened
    <2>2. TypeOK'
      BY <1>16, <2>1 DEF CloseTranscodeState, TypeOK, steps, choice, progress, Go,
         Fails, AudioFails, AfterFilters
    <2>3. HeapInv'
      BY <1>16 DEF CloseTranscodeState, TypeOK, HeapInv, Untouched, Resources,
         Transcoding, Input, Encoding, Opened, Over,
         steps, choice, progress, heap, Go, Fails, AudioFails, AfterFilters, Alloc,
              FreeAll, Unreset
    <2> QED
      BY <2>1, <2>2, <2>3
  <1>17. CASE Reopen
    <2>1. /\ ptr' \in [Resources -> {"null", "live", "dangling"}]
          /\ live' \in [Resources -> Nat]
          /\ CountInv'
      BY <1>17, SameCounts DEF Reopen, steps, HeapInv, Untouched, Resources,
         Transcoding, Input, Encoding, Opened
    <2>2. TypeOK'
      BY <1>17, <2>1 DEF Reopen, TypeOK, steps, choice, progress, Go, Fails,
         AudioFails, AfterFilters
    <2>3. HeapInv'
      BY <1>17 DEF Reopen, TypeOK, HeapInv, Untouched, Resources, Transcoding, Input,
         Encoding, Opened, Over,
         steps, choice, progress, heap, Go, Fails, AudioFails, AfterFilters, Alloc,
              FreeAll, Unreset
    <2> QED
      BY <2>1, <2>2, <2>3
  <1>18. CASE Leave
    <2>1. /\ ptr' \in [Resources -> {"null", "live", "dangling"}]
          /\ live' \in [Resources -> Nat]
          /\ CountInv'
      BY <1>18, SameCounts DEF Leave, steps, HeapInv, Untouched, Resources,
         Transcoding, Input, Encoding, Opened
    <2>2. TypeOK'
      BY <1>18, <2>1 DEF Leave, TypeOK, steps, choice, progress, Go, Fails,
         AudioFails, AfterFilters
    <2>3. HeapInv'
      BY <1>18 DEF Leave, TypeOK, HeapInv, Untouched, Resources, Transcoding, Input,
         Encoding, Opened, Over,
         steps, choice, progress, heap, Go, Fails, AudioFails, AfterFilters, Alloc,
              FreeAll, Unreset
    <2> QED
      BY <2>1, <2>2, <2>3
  <1>19. CASE OpenFailed
    <2>1. /\ ptr' \in [Resources -> {"null", "live", "dangling"}]
          /\ live' \in [Resources -> Nat]
          /\ CountInv'
      BY <1>19, SameCounts DEF OpenFailed, steps, HeapInv, Untouched, Resources,
         Transcoding, Input, Encoding, Opened
    <2>2. TypeOK'
      BY <1>19, <2>1 DEF OpenFailed, TypeOK, steps, choice, progress, Go, Fails,
         AudioFails, AfterFilters
    <2>3. HeapInv'
      BY <1>19 DEF OpenFailed, TypeOK, HeapInv, Untouched, Resources, Transcoding,
         Input, Encoding, Opened, Over,
         steps, choice, progress, heap, Go, Fails, AudioFails, AfterFilters, Alloc,
              FreeAll, Unreset
    <2> QED
      BY <2>1, <2>2, <2>3
  <1>20. CASE PlayDirect
    <2>1. /\ ptr' \in [Resources -> {"null", "live", "dangling"}]
          /\ live' \in [Resources -> Nat]
          /\ CountInv'
      BY <1>20, SameCounts DEF PlayDirect, steps, HeapInv, Untouched, Resources,
         Transcoding, Input, Encoding, Opened
    <2>2. TypeOK'
      BY <1>20, <2>1 DEF PlayDirect, TypeOK, steps, choice, progress, Go, Fails,
         AudioFails, AfterFilters
    <2>3. HeapInv'
      BY <1>20 DEF PlayDirect, TypeOK, HeapInv, Untouched, Resources, Transcoding,
         Input, Encoding, Opened, Over,
         steps, choice, progress, heap, Go, Fails, AudioFails, AfterFilters, Alloc,
              FreeAll, Unreset
    <2> QED
      BY <2>1, <2>2, <2>3
  <1>21. CASE MediaClose
    <2>1. /\ ptr' \in [Resources -> {"null", "live", "dangling"}]
          /\ live' \in [Resources -> Nat]
          /\ CountInv'
      BY <1>21, SameCounts, FreeCounts DEF MediaClose, steps, HeapInv, Untouched,
         Resources, Transcoding, Input, Encoding, Opened
    <2>2. TypeOK'
      BY <1>21, <2>1 DEF MediaClose, TypeOK, steps, choice, progress, Go, Fails,
         AudioFails, AfterFilters
    <2>3. HeapInv'
      BY <1>21 DEF MediaClose, TypeOK, HeapInv, Untouched, Resources, Transcoding,
         Input, Encoding, Opened, Over,
         steps, choice, progress, heap, Go, Fails, AudioFails, AfterFilters, Alloc,
              FreeAll, Unreset
    <2> QED
      BY <2>1, <2>2, <2>3
  <1>23. CASE Announce
    <2>1. /\ ptr' \in [Resources -> {"null", "live", "dangling"}]
          /\ live' \in [Resources -> Nat]
          /\ CountInv'
      BY <1>23, SameCounts DEF Announce, steps, HeapInv, Untouched, Resources,
         Transcoding, Input, Encoding, Opened
    <2>2. TypeOK'
      BY <1>23, <2>1 DEF Announce, TypeOK, steps, choice, progress, Go
    <2>3. HeapInv'
      BY <1>23 DEF Announce, TypeOK, HeapInv, Untouched, Resources, Transcoding,
         Input, Encoding, Opened, Over, steps, choice, progress, heap, Go, FreeAll,
         Unreset
    <2> QED
      BY <2>1, <2>2, <2>3
  <1>24. CASE Abandon
    <2>1. /\ ptr' \in [Resources -> {"null", "live", "dangling"}]
          /\ live' \in [Resources -> Nat]
          /\ CountInv'
      BY <1>24, FreeCounts DEF Abandon, steps, HeapInv, Untouched, Resources,
         Transcoding, Input, Encoding, Opened
    <2>2. TypeOK'
      BY <1>24, <2>1 DEF Abandon, TypeOK, steps, choice, progress, Go
    <2>3. HeapInv'
      BY <1>24 DEF Abandon, TypeOK, HeapInv, Untouched, Resources, Transcoding,
         Input, Encoding, Opened, Over, steps, choice, progress, heap, Go, FreeAll,
         Unreset
    <2> QED
      BY <2>1, <2>2, <2>3
  <1>22. CASE UNCHANGED vars
    <2>1. TypeOK' /\ HeapInv'
      BY <1>22 DEF vars, heap, choice, progress, TypeOK, HeapInv, Untouched
    <2>2. CountInv'
      BY <1>22, SameCounts DEF vars, heap
    <2> QED
      BY <2>1, <2>2
  <1> QED
    BY <1>1, <1>2, <1>3, <1>4, <1>5, <1>6, <1>7, <1>8, <1>9, <1>10, <1>11, <1>12,
       <1>13, <1>14, <1>15, <1>16, <1>17, <1>18, <1>19, <1>20, <1>21, <1>22,
       <1>23, <1>24 DEF Next

\* The invariant of the heap.
THEOREM Invariance == Spec => []Inv
  BY InitInv, StepInv, PTL DEF Spec

\* Types and ranges of the pipeline's variables, with every failure.
THEOREM PipelineTyping == Spec => []TypeOK
  <1>1. Inv => TypeOK
    BY DEF Inv
  <1> QED
    BY <1>1, Invariance, PTL

\* No object of a media context is ever lost, whatever fails, but the encoder
\* that was given up for a software one (media.c:1222).
THEOREM LosesNothing == Spec => []NothingLost
  <1>1. Inv => NothingLost
    BY DEF Inv, CountInv
  <1> QED
    BY <1>1, Invariance, PTL

\* Between two files only that encoder may exist (media_close).
THEOREM FreesAll == Spec => []ClosedFreesAll
  <1>1. Inv => ClosedFreesAll
    BY DEF Inv, TypeOK, HeapInv, CountInv, NothingLost, Held, ClosedFreesAll
  <1> QED
    BY <1>1, Invariance, PTL

\* media_close frees nothing a second time, except after a --direct file.
THEOREM FreesOnce == Spec => []NoDoubleFree
  <1>1. Inv => NoDoubleFree
    BY DEF Inv, HeapInv, NoDoubleFree, Over
  <1> QED
    BY <1>1, Invariance, PTL

\* Every open of a new file or a seek assigns pointers that are NULL.
THEOREM OpensClean == Spec => []OpensIntoNull
  <1>1. Inv => OpensIntoNull
    BY DEF Inv, HeapInv, OpensIntoNull, Untouched, Opened
  <1> QED
    BY <1>1, Invariance, PTL

-----------------------------------------------------------------------------
(* What an open pipeline has: the pointers the media thread follows.        *)

Opens == {"vdec", "adec", "sndio", "sndio_dec", "vaapi", "venc", "sw_venc",
          "sw_venc2", "filters", "sw_filters", "aenc", "fifo", "swr", "undo_audio"}
Complete == {"output", "opened", "playing"}
VideoOpens == {"vdec", "vaapi", "venc", "sw_venc", "sw_venc2", "filters", "sw_filters"}
AudioOpens == {"aenc", "fifo", "swr", "undo_audio"}

Live(r) == ptr[r] = "live"

\* Which pointers a step may follow.
ShapeInv ==
    /\ screen => video /\ ~remux
    /\ ~screen /\ remux => at \notin Opens
    /\ ~video => at \notin VideoOpens
    /\ ~screen => at # "undo_audio"
    /\ screen => at \notin {"file", "start", "adec", "reopen", "direct"}
    /\ at = "probe" => screen
    /\ at \in {"start", "reopen"} \cup Opens \cup Complete => Live("ifmt_ctx")
    /\ at \in {"opened", "playing"} => Live("ofmt_ctx")
    /\ video /\ ~remux /\ at \in (Opens \ {"vdec"}) \cup Complete => Live("video_dec")
    /\ video /\ ~remux /\ at \in AudioOpens \cup Complete =>
         Live("filter_graph") /\ Live("video_enc")
    /\ at \in {"filters", "sw_filters"} => Live("video_enc")
    /\ ~video /\ at \in {"reopen", "adec"} \cup AudioOpens \cup Complete => ptr["video_enc"] = "null"
    /\ has_audio /\ ~screen /\ ~remux =>
         /\ at \in (Opens \ {"vdec", "adec"}) \cup Complete => Live("audio_dec")
         /\ at \in Complete => Live("audio_enc") /\ Live("swr_ctx")
    /\ at \in AudioOpens /\ ~screen => has_audio
    /\ at \in {"fifo", "swr"} => Live("audio_enc")
    /\ at = "swr" => Live("audio_fifo")
    /\ at \in Complete /\ ptr["audio_enc"] # "null" => Live("audio_fifo")
    /\ at \in Complete /\ screen /\ ptr["sndio_dec"] # "null" => Live("audio_enc")

\* Initially the step is one that a file or a screen begins with.
LEMMA ShapeInit == Init => ShapeInv
  <1> SUFFICES ASSUME Init PROVE ShapeInv
    OBVIOUS
  <1>1. screen => video /\ ~remux
    BY Zenon DEF Init
  <1>2. at = IF screen THEN "probe" ELSE "file"
    BY DEF Init
  <1> QED
    BY <1>1, <1>2 DEF ShapeInv, Opens, Complete, VideoOpens, AudioOpens

\* Every step leads to one whose objects are there.
LEMMA ShapeStep == Inv /\ ShapeInv /\ [Next]_vars => ShapeInv'
  <1> SUFFICES ASSUME Inv, ShapeInv, [Next]_vars PROVE ShapeInv'
    OBVIOUS
  <1> USE DEF ShapeInv, Opens, Complete, VideoOpens, AudioOpens, Live, Inv, TypeOK,
              Resources, Transcoding, Input, steps, choice, progress, heap,
              Go, Fails, AudioFails, AfterFilters, Alloc, FreeAll
  <1>1. CASE Probe
    <2>1. ~screen /\ ~screen'
      BY <1>1 DEF Probe
    <2>2. CASE at' = "file"
      BY <1>1, <2>1, <2>2 DEF Probe
    <2>3. CASE at' = "start"
      BY <1>1, <2>1, <2>3 DEF Probe
    <2> QED
      BY <1>1, <2>2, <2>3 DEF Probe
  <1>2. CASE OpenScreen
    BY <1>2 DEF OpenScreen, HeapInv, Untouched, Encoding, Opened, Over, Unreset
  <1>3. CASE Start
    BY <1>3 DEF Start, HeapInv, Untouched, Encoding, Opened, Over, Unreset
  <1>4. CASE VideoDecoder
    BY <1>4 DEF VideoDecoder, HeapInv, Untouched, Encoding, Opened, Over, Unreset
  <1>5. CASE AudioDecoder
    BY <1>5 DEF AudioDecoder, HeapInv, Untouched, Encoding, Opened, Over, Unreset
  <1>6. CASE SndioInput
    BY <1>6 DEF SndioInput, HeapInv, Untouched, Encoding, Opened, Over, Unreset
  <1>7. CASE SndioDecoder
    BY <1>7 DEF SndioDecoder, HeapInv, Untouched, Encoding, Opened, Over, Unreset
  <1>8. CASE Vaapi
    BY <1>8 DEF Vaapi, HeapInv, Untouched, Encoding, Opened, Over, Unreset
  <1>9. CASE VideoEncoder
    BY <1>9 DEF VideoEncoder, HeapInv, Untouched, Encoding, Opened, Over, Unreset
  <1>10. CASE VideoFilters
    BY <1>10 DEF VideoFilters, HeapInv, Untouched, Encoding, Opened, Over, Unreset
  <1>11. CASE AudioEncoder
    BY <1>11 DEF AudioEncoder, HeapInv, Untouched, Encoding, Opened, Over, Unreset
  <1>12. CASE AudioFifo
    BY <1>12 DEF AudioFifo, HeapInv, Untouched, Encoding, Opened, Over, Unreset
  <1>13. CASE Resampler
    BY <1>13 DEF Resampler, HeapInv, Untouched, Encoding, Opened, Over, Unreset
  <1>14. CASE UndoAudio
    BY <1>14 DEF UndoAudio, HeapInv, Untouched, Encoding, Opened, Over, Unreset
  <1>15. CASE Output
    BY <1>15 DEF Output, HeapInv, Untouched, Encoding, Opened, Over, Unreset
  <1>16. CASE CloseTranscodeState
    BY <1>16 DEF CloseTranscodeState, HeapInv, Untouched, Encoding, Opened, Over,
       Unreset
  <1>17. CASE Reopen
    BY <1>17 DEF Reopen, HeapInv, Untouched, Encoding, Opened, Over, Unreset
  <1>18. CASE Leave
    BY <1>18 DEF Leave, HeapInv, Untouched, Encoding, Opened, Over, Unreset
  <1>19. CASE OpenFailed
    BY <1>19 DEF OpenFailed, HeapInv, Untouched, Encoding, Opened, Over, Unreset
  <1>20. CASE PlayDirect
    BY <1>20 DEF PlayDirect, HeapInv, Untouched, Encoding, Opened, Over, Unreset
  <1>21. CASE MediaClose
    BY <1>21 DEF MediaClose, HeapInv, Untouched, Encoding, Opened, Over, Unreset
  <1>23. CASE Announce
    BY <1>23 DEF Announce, HeapInv, Untouched, Encoding, Opened, Over, Unreset
  <1>24. CASE Abandon
    BY <1>24 DEF Abandon, HeapInv, Untouched, Encoding, Opened, Over, Unreset
  <1>22. CASE UNCHANGED vars
    BY <1>22 DEF vars
  <1> QED
    BY <1>1, <1>2, <1>3, <1>4, <1>5, <1>6, <1>7, <1>8, <1>9, <1>10, <1>11, <1>12,
       <1>13, <1>14, <1>15, <1>16, <1>17, <1>18, <1>19, <1>20, <1>21, <1>22,
       <1>23, <1>24 DEF Next

\* A complete pipeline has what its thread needs.
THEOREM Shape == Spec => []ShapeInv
  BY InitInv, StepInv, ShapeInit, ShapeStep, PTL DEF Spec
=============================================================================
