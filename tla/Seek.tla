-------------------------------- MODULE Seek --------------------------------
(***************************************************************************)
(* Where a seek lands (send2tv.c: the key loop of main; upnp.c:            *)
(* upnp_get_position).                                                     *)
(*                                                                         *)
(* Arrow keys add to a pending offset which is applied half a second after *)
(* the last of them; e jumps to the last minute and back.  Both ask the    *)
(* television how long it has played the segment it is on, take that for   *)
(* the segment the client made last, and restart the file from a new       *)
(* second.  The television is external: it starts a segment some time      *)
(* after the client announced it, and may not answer.  A demuxer seeks to  *)
(* a key frame, at most Gop seconds before the second it was asked for.    *)
(* Player has the rest of the loop: threads, sockets and failures.         *)
(***************************************************************************)
EXTENDS Integers, Sequences

CONSTANTS
    Durations,   \* media.duration_sec of the files of a run; 0 is unknown
    Length,      \* seconds a file of unknown duration really has
    Gop,         \* seconds between two key frames
    Pace,        \* bound: seconds the television plays in one step
    MaxSeeks,    \* bound: restarts of the file
    MaxPending   \* bound: seconds of unapplied arrow keys

ASSUME DurationsAssumption == Durations \subseteq Nat /\ Length \in Nat
ASSUME BoundsAssumption == {Gop, Pace, MaxSeeks, MaxPending} \subseteq Nat

VARIABLES
    at,            \* "keys", "restart" or "left"
    duration_sec,  \* media.duration_sec
    start_sec,     \* media.start_sec
    seek_delta, seek_pending,   \* arrow keys not applied yet
    end_mode, saved_pos,        \* the memory of e
    target,        \* where the restart under way goes
    seeks,         \* restarts done
    coming,        \* the true starts of the segments announced to the
                   \* television that it has not begun, oldest first
    tvStart,       \* the true start of the segment it is on
    tvPos,         \* the seconds it has played of it
    landed,        \* history: the true start of the newest segment
    exact,         \* history: every position used so far was of the newest
                   \* segment, and every restart was inside the file
    before         \* history: what was on the screen when e jumped

clientVars == <<at, duration_sec, start_sec, seek_delta, seek_pending,
                end_mode, saved_pos, target, seeks>>
tvVars == <<coming, tvStart, tvPos>>
historyVars == <<landed, exact, before>>
vars == <<clientVars, tvVars, historyVars>>

FileEnd == IF duration_sec > 0 THEN duration_sec ELSE Length
OnScreen == tvStart + tvPos

\* Types and ranges of the seek variables and of the television.
TypeOK ==
    /\ at \in {"keys", "restart", "left"}
    /\ duration_sec \in Durations
    /\ {start_sec, saved_pos, target}
           \subseteq -5..((seeks + 2) * (FileEnd + MaxPending))
    /\ before \in 0..FileEnd
    /\ seek_delta \in -MaxPending..MaxPending
    /\ seek_pending \in BOOLEAN /\ end_mode \in BOOLEAN /\ exact \in BOOLEAN
    /\ seeks \in 0..MaxSeeks
    /\ coming \in Seq(0..FileEnd)
    /\ tvStart \in 0..FileEnd /\ landed \in 0..FileEnd
    /\ tvPos \in 0..(FileEnd - tvStart)

\* The first PLAY has been sent; a television that has not begun to play
\* answers 0, as one that has just begun.
Init ==
    /\ at = "keys"
    /\ duration_sec \in Durations
    /\ start_sec = 0
    /\ seek_delta = 0 /\ seek_pending = FALSE
    /\ end_mode = FALSE /\ saved_pos = 0
    /\ target = 0
    /\ seeks = 0
    /\ coming = <<>>
    /\ tvStart = 0 /\ tvPos = 0
    /\ landed = 0
    /\ exact = TRUE
    /\ before = 0

-----------------------------------------------------------------------------
(* The client.                                                             *)

\* upnp_get_position: the television's answer, or nothing, which leaves 0.
Query(pos) ==
    /\ pos \in {tvPos, 0}
    /\ exact' = (exact /\ coming = <<>> /\ pos = tvPos)

\* An arrow key restarts the half second.
Arrow(delta) ==
    /\ at = "keys"
    /\ seek_delta + delta \in -MaxPending..MaxPending
    /\ seek_delta' = seek_delta + delta
    /\ seek_pending' = TRUE
    /\ UNCHANGED <<at, duration_sec, start_sec, end_mode, saved_pos, target,
                   seeks, tvVars, historyVars>>

\* Bug variant: the upper bound is left out.
ClampedBelow(t) == IF t < 0 THEN 0 ELSE t

\* From the start of the file to five seconds before its end, if known.
Clamped(t) ==
    LET low == IF t < 0 THEN 0 ELSE t
    IN  IF duration_sec > 0 /\ low > duration_sec - 5
        THEN duration_sec - 5 ELSE low

\* Bug variant: the second of the last request is taken for the present one.
FireFromStart ==
    /\ at = "keys" /\ seek_pending
    /\ seeks < MaxSeeks
    /\ \E pos \in {tvPos, 0} :
         Query(pos) /\ target' = Clamped(start_sec + seek_delta)
    /\ seek_pending' = FALSE
    /\ seek_delta' = 0
    /\ at' = "restart"
    /\ UNCHANGED <<duration_sec, start_sec, end_mode, saved_pos, seeks,
                   tvVars, landed, before>>

\* Half a second after the last arrow key.
Fire ==
    /\ at = "keys" /\ seek_pending
    /\ seeks < MaxSeeks
    /\ \E pos \in {tvPos, 0} :
         Query(pos) /\ target' = Clamped(start_sec + pos + seek_delta)
    /\ seek_pending' = FALSE
    /\ seek_delta' = 0
    /\ at' = "restart"
    /\ UNCHANGED <<duration_sec, start_sec, end_mode, saved_pos, seeks,
                   tvVars, landed, before>>

\* Bug variant: the way back is kept as the television's own position.
JumpToEndForgets ==
    /\ at = "keys" /\ duration_sec > 0 /\ ~end_mode
    /\ seeks < MaxSeeks
    /\ target' = IF duration_sec < 60 THEN 0 ELSE duration_sec - 60
    /\ \E pos \in {tvPos, 0} : Query(pos) /\ saved_pos' = pos
    /\ end_mode' = TRUE
    /\ before' = OnScreen
    /\ at' = "restart"
    /\ UNCHANGED <<duration_sec, start_sec, seek_delta, seek_pending, seeks,
                   tvVars, landed>>

\* e: to the last minute; the arrow keys still pending stay pending.
JumpToEnd ==
    /\ at = "keys" /\ duration_sec > 0 /\ ~end_mode
    /\ seeks < MaxSeeks
    /\ target' = IF duration_sec < 60 THEN 0 ELSE duration_sec - 60
    /\ \E pos \in {tvPos, 0} : Query(pos) /\ saved_pos' = start_sec + pos
    /\ end_mode' = TRUE
    /\ before' = OnScreen
    /\ at' = "restart"
    /\ UNCHANGED <<duration_sec, start_sec, seek_delta, seek_pending, seeks,
                   tvVars, landed>>

\* e again: back.
JumpBack ==
    /\ at = "keys" /\ duration_sec > 0 /\ end_mode
    /\ seeks < MaxSeeks
    /\ target' = saved_pos
    /\ end_mode' = FALSE
    /\ at' = "restart"
    /\ UNCHANGED <<duration_sec, start_sec, seek_delta, seek_pending,
                   saved_pos, seeks, tvVars, historyVars>>

\* Where av_seek_frame may land.
InFile(t) == IF t < 0 THEN 0 ELSE IF t > FileEnd THEN FileEnd ELSE t
KeyFrames(t) == {InFile(t), InFile(t - Gop)}

\* The thread is joined, the pipeline opened and PLAY sent, or the loop ends.
Restart ==
    /\ at = "restart"
    /\ \/ /\ at' = "keys"
          /\ start_sec' = target
          /\ seeks' = seeks + 1
          /\ landed' \in KeyFrames(target)
          /\ exact' = (exact /\ target - landed' \in 0..Gop)
          /\ coming' = Append(coming, landed')
       \/ /\ at' = "left"
          /\ UNCHANGED <<start_sec, seeks, landed, exact, coming>>
    /\ UNCHANGED <<duration_sec, seek_delta, seek_pending, end_mode,
                   saved_pos, target, tvStart, tvPos, before>>

\* q, Q, a signal or the end of the stream.
Leave ==
    /\ at = "keys"
    /\ at' = "left"
    /\ UNCHANGED <<duration_sec, start_sec, seek_delta, seek_pending,
                   end_mode, saved_pos, target, seeks, tvVars, historyVars>>

-----------------------------------------------------------------------------
(* The television.                                                         *)

TvBegins ==
    /\ coming # <<>>
    /\ tvStart' = Head(coming)
    /\ tvPos' = 0
    /\ coming' = Tail(coming)
    /\ UNCHANGED <<clientVars, historyVars>>

TvPlays ==
    /\ OnScreen + Pace <= FileEnd
    /\ tvPos' = tvPos + Pace
    /\ UNCHANGED <<clientVars, coming, tvStart, historyVars>>

Next ==
    \/ \E delta \in {10, -10, 30, -30} : Arrow(delta)
    \/ Fire \/ JumpToEnd \/ JumpBack \/ Restart \/ Leave
    \/ TvBegins \/ TvPlays

Spec == Init /\ [][Next]_vars

-----------------------------------------------------------------------------
Near(t, place) == t - place \in 0..Gop

\* Errors do not add up: however many seeks came before, and although every
\* one of them landed on some earlier key frame, the next one goes to what
\* is on the screen plus the keys pressed, give or take one key frame.  Only
\* while exact: once a seek used the answer about an older segment, or none,
\* start_sec is wrong from then on.
SeeksFromTheScreen ==
    [][Fire /\ exact' => Near(target', Clamped(OnScreen + seek_delta))]_vars

\* e twice comes back to what was on the screen at the first e, whatever
\* arrow keys and seeks came between, give or take one key frame.  Only while
\* exact, which covers the question asked at the first e as well.
JumpsBack == [][JumpBack /\ exact => Near(target', before)]_vars

\* A file of known duration is restarted from its beginning on and at most one
\* key-frame distance behind its end, e and all.  Only while exact, that is
\* until a position used was of an older segment or missing, and for a file not
\* shorter than the five seconds kept free at its end.  The Gop is the error of
\* the way back, which is not clamped: the segment began up to that much before
\* the second asked.
StaysInFile ==
    [][exact /\ duration_sec >= 5 => start_sec' \in 0..(FileEnd + Gop)]_vars

\* "arrows    seek (left/right: 10s, up/down: 30s)" (send2tv.c:117): when
\* the television does answer, a seek goes from what is on the screen.
ArrowsSeekFromScreen ==
    [][Fire /\ target' # Clamped(start_sec + seek_delta)
         => Near(target', Clamped(OnScreen + seek_delta))]_vars
=============================================================================
