------------------------------- MODULE Player -------------------------------
(***************************************************************************)
(* The client program (send2tv.c: main from the control connection on) and *)
(* its media thread (media.c: media_remux_thread, media_transcode_thread,  *)
(* media_capture_thread).                                                  *)
(*                                                                         *)
(* The main thread goes through the files of the command line: it connects *)
(* a data socket, opens the pipeline, starts the media thread, sends PLAY  *)
(* and waits for keys, where a seek joins the thread and starts over with  *)
(* a new data socket.  The two threads share media.running, media.pipe_wr  *)
(* and the global running flag without a lock.  Failed allocations are     *)
(* left out.                                                               *)
(***************************************************************************)
EXTENDS Sockets

CONSTANTS
    MaxFiles,     \* bound: files on the command line
    Modes         \* the ways the program is started in a run

ASSUME MaxFilesAssumption == MaxFiles \in Nat \ {0}
ASSUME ModesAssumption == Modes \subseteq {"files", "direct", "screen"}

Me == 1           \* this client's place in the listen queue

VARIABLES
    mode,        \* the command line: plain files, --direct or --screen
    cpc,         \* where the main thread is
    crunning,    \* the global flag that keys and signals clear
    mrunning,    \* media.running
    pipe_wr,     \* media.pipe_wr
    thread,      \* the thread media.thread names, and where it is
    released,    \* media_close has freed this media context
    fileidx,     \* files done
    dialed,      \* history: the last data connection made
    announced,   \* history: its PLAY has been sent
    seekFailed   \* history: a seek ended in its error path

threadVars == <<mrunning, pipe_wr, thread>>
playerVars == <<cpc, crunning, threadVars, released, fileidx, dialed,
                announced, seekFailed>>

CPCs == {"connect", "file", "direct", "direct_keys", "dial", "open", "create",
         "check", "say_play", "keys", "seek", "seek_join", "redial", "reopen",
         "stop", "halt", "join", "close", "abandon", "bye", "exited"}
ThreadStates == {"none", "run", "tail", "close", "clear", "ended", "joined"}

Screen == mode = "screen"
DirectPlay == mode = "direct"

\* Types and ranges of the client.
PlayerTypeOK ==
    /\ mode \in Modes
    /\ cpc \in CPCs
    /\ crunning \in BOOLEAN
    /\ mrunning \in BOOLEAN
    /\ pipe_wr \in 0..dataConnected
    /\ thread \in ThreadStates
    /\ released \in BOOLEAN
    /\ fileidx \in 0..MaxFiles
    /\ dialed \in 0..dataConnected
    /\ announced \in BOOLEAN
    /\ seekFailed \in BOOLEAN

PlayerInit ==
    /\ mode \in Modes
    /\ cpc = "connect"
    /\ crunning = TRUE
    /\ mrunning = FALSE
    /\ pipe_wr = NoFd
    /\ thread = "none"
    /\ released = FALSE
    /\ fileidx = 0
    /\ dialed = NoFd
    /\ announced = FALSE
    /\ seekFailed = FALSE

NextFile == cpc' = (IF Screen THEN "bye" ELSE "file")
            /\ fileidx' = (IF Screen THEN fileidx ELSE fileidx + 1)

\* memset(&media, 0, sizeof(media)) and the assignments after it.
ResetMedia ==
    /\ mrunning' = TRUE
    /\ pipe_wr' = NoFd
    /\ thread' = "none"
    /\ released' = FALSE

-----------------------------------------------------------------------------
(* Connecting and the head of the file loop.                               *)

\* The control connection; with --screen the media context is ready at once.
ConnectServer ==
    /\ cpc = "connect"
    /\ ConnectCtrl(Me)
    /\ cpc' = IF Screen THEN "dial" ELSE "file"
    /\ mrunning' = Screen
    /\ UNCHANGED <<crunning, pipe_wr, thread, released, fileidx, dialed,
                   announced, seekFailed>>

NoServer ==
    /\ cpc = "connect"
    /\ cpc' = "exited"
    /\ UNCHANGED <<sockVars, crunning, threadVars, released, fileidx, dialed,
                   announced, seekFailed>>

\* yt-dlp failed: the media context is the last file's.
SkipUrl ==
    /\ cpc = "file" /\ crunning /\ fileidx < MaxFiles
    /\ NextFile
    /\ UNCHANGED <<sockVars, crunning, threadVars, released, dialed,
                   announced, seekFailed>>

\* The file is set up and probed, or the probe fails.
Probe ==
    /\ cpc = "file" /\ crunning /\ fileidx < MaxFiles
    /\ ResetMedia
    /\ \/ cpc' = "dial" /\ UNCHANGED fileidx
       \/ NextFile
    /\ UNCHANGED <<sockVars, crunning, dialed, announced, seekFailed>>

\* An HLS URL with --direct goes to the television; no memset here.
SayPlayDirect ==
    /\ cpc = "file" /\ crunning /\ fileidx < MaxFiles /\ DirectPlay
    /\ Send(Me, Cmd("PLAY_DIRECT", NoFd))
    /\ cpc' = "direct"
    /\ UNCHANGED <<crunning, threadVars, released, fileidx, dialed,
                   announced, seekFailed>>

\* Interrupted already: the first of the two STOPs is skipped.
DirectKeys ==
    /\ cpc = "direct"
    /\ cpc' = IF crunning THEN "direct_keys" ELSE "stop"
    /\ UNCHANGED <<sockVars, crunning, threadVars, released, fileidx, dialed,
                   announced, seekFailed>>

\* q, Q or the flag; then STOP, and next_file sends another.
LeaveDirect ==
    /\ cpc = "direct_keys"
    /\ crunning' \in {crunning, FALSE}
    /\ Send(Me, Cmd("STOP", NoFd))
    /\ cpc' = "stop"
    /\ UNCHANGED <<threadVars, released, fileidx, dialed, announced,
                   seekFailed>>

NoMoreFiles ==
    /\ cpc = "file"
    /\ ~crunning \/ fileidx = MaxFiles
    /\ cpc' = "bye"
    /\ UNCHANGED <<sockVars, crunning, threadVars, released, fileidx, dialed,
                   announced, seekFailed>>

-----------------------------------------------------------------------------
(* Starting a stream.                                                      *)

DialStream ==
    /\ cpc = "dial"
    /\ Screen => crunning
    /\ ConnectData
    /\ dialed' = dataConnected'
    /\ announced' = FALSE
    /\ pipe_wr' = dataConnected'
    /\ cpc' = "open"
    /\ UNCHANGED <<crunning, mrunning, thread, released, fileidx, seekFailed>>

\* connect(2) fails, or --screen was interrupted before it.
DialFails ==
    /\ cpc = "dial"
    /\ released' = TRUE
    /\ NextFile
    /\ UNCHANGED <<sockVars, crunning, threadVars, dialed, announced,
                   seekFailed>>

\* media_open_transcode, media_open_remux or media_open_screen.
Open ==
    /\ cpc = "open"
    /\ cpc' = "create"
    /\ UNCHANGED <<sockVars, crunning, threadVars, released, fileidx, dialed,
                   announced, seekFailed>>

\* pthread_create; with --screen the flag is looked at first.
Create ==
    /\ cpc = "create"
    /\ Screen => crunning
    /\ thread' = "run"
    /\ cpc' = "check"
    /\ UNCHANGED <<sockVars, crunning, mrunning, pipe_wr, released, fileidx,
                   dialed, announced, seekFailed>>

\* Bug variants: the socket is not closed; the code goes to next_file.
OpenFailsLeaks ==
    /\ cpc \in {"open", "create"}
    /\ pipe_wr' = NoFd
    /\ released' = TRUE
    /\ NextFile
    /\ UNCHANGED <<sockVars, crunning, mrunning, thread, dialed, announced,
                   seekFailed>>
OpenFailsToNext ==
    /\ cpc \in {"open", "create"}
    /\ CloseWriter(dialed)
    /\ pipe_wr' = NoFd
    /\ cpc' = "stop"
    /\ UNCHANGED <<crunning, mrunning, thread, released, fileidx, dialed,
                   announced, seekFailed>>

\* Either fails: the socket and the context are closed, the file skipped.
OpenFails ==
    /\ cpc \in {"open", "create"}
    /\ CloseWriter(dialed)
    /\ pipe_wr' = NoFd
    /\ released' = TRUE
    /\ NextFile
    /\ UNCHANGED <<crunning, mrunning, thread, dialed, announced, seekFailed>>

\* Bug variant: after an interrupt the file loop goes on.
CheckGoesOn ==
    /\ cpc = "check"
    /\ cpc' = IF crunning THEN "say_play" ELSE "close"
    /\ UNCHANGED <<sockVars, crunning, threadVars, released, fileidx, dialed,
                   announced, seekFailed>>

\* Interrupted while the stream was set up: the file loop gives the context
\* back without joining the thread, --screen goes to its shutdown.
Check ==
    /\ cpc = "check"
    /\ cpc' = IF crunning THEN "say_play" ELSE IF Screen THEN "stop"
              ELSE "abandon"
    /\ UNCHANGED <<sockVars, crunning, threadVars, released, fileidx, dialed,
                   announced, seekFailed>>

Abandon ==
    /\ cpc = "abandon"
    /\ CloseWriter(pipe_wr)
    /\ released' = TRUE
    /\ cpc' = "bye"
    /\ UNCHANGED <<crunning, threadVars, fileidx, dialed, announced,
                   seekFailed>>

\* media.dlna_profile may be the empty string.
SayPlay ==
    /\ cpc = "say_play"
    /\ \E verb \in {"PLAY", "PLAY_NODLNA"} \cap Spoken : Send(Me, Cmd(verb, dialed))
    /\ announced' = TRUE
    /\ cpc' = "keys"
    /\ UNCHANGED <<crunning, threadVars, released, fileidx, dialed, seekFailed>>

-----------------------------------------------------------------------------
(* The key loop and the seek.                                              *)

\* Bug variant: the loop looks at media.running only.
LeaveKeysLocalFlag ==
    /\ cpc = "keys"
    /\ \/ ~mrunning /\ UNCHANGED crunning
       \/ crunning /\ crunning' \in BOOLEAN
    /\ cpc' = "stop"
    /\ UNCHANGED <<sockVars, threadVars, released, fileidx, dialed,
                   announced, seekFailed>>

\* A flag is cleared, or a key is pressed: q goes to the next file, Q (and
\* q with --screen) clears the global flag.
LeaveKeys ==
    /\ cpc = "keys"
    /\ \/ (Screen => ~crunning \/ ~mrunning) /\ UNCHANGED crunning
       \/ crunning /\ mrunning /\ crunning' = FALSE
    /\ cpc' = "stop"
    /\ UNCHANGED <<sockVars, threadVars, released, fileidx, dialed,
                   announced, seekFailed>>

\* A debounced arrow key, or e.
WantSeek ==
    /\ cpc = "keys" /\ ~Screen
    /\ crunning /\ mrunning
    /\ cpc' = "seek"
    /\ UNCHANGED <<sockVars, crunning, threadVars, released, fileidx, dialed,
                   announced, seekFailed>>

\* Bug variant: a seek does not wait for the thread.
SeekHaltsOnly ==
    /\ cpc = "seek"
    /\ mrunning' = FALSE
    /\ cpc' = "redial"
    /\ UNCHANGED <<sockVars, crunning, pipe_wr, thread, released, fileidx,
                   dialed, announced, seekFailed>>

SeekHalts ==
    /\ cpc = "seek"
    /\ mrunning' = FALSE
    /\ cpc' = "seek_join"
    /\ UNCHANGED <<sockVars, crunning, pipe_wr, thread, released, fileidx,
                   dialed, announced, seekFailed>>

SeekJoins ==
    /\ cpc = "seek_join"
    /\ thread = "ended"
    /\ thread' = "joined"
    /\ cpc' = "redial"
    /\ UNCHANGED <<sockVars, crunning, mrunning, pipe_wr, released, fileidx,
                   dialed, announced, seekFailed>>

Redial ==
    /\ cpc = "redial"
    /\ ConnectData
    /\ dialed' = dataConnected'
    /\ announced' = FALSE
    /\ pipe_wr' = dataConnected'
    /\ mrunning' = TRUE
    /\ cpc' = "reopen"
    /\ UNCHANGED <<crunning, thread, released, fileidx, seekFailed>>

RedialFails ==
    /\ cpc = "redial"
    /\ crunning' = FALSE
    /\ seekFailed' = TRUE
    /\ cpc' = "stop"
    /\ UNCHANGED <<sockVars, threadVars, released, fileidx, dialed, announced>>

Reopen ==
    /\ cpc = "reopen"
    /\ thread' = "run"
    /\ cpc' = "say_play"
    /\ UNCHANGED <<sockVars, crunning, mrunning, pipe_wr, released, fileidx,
                   dialed, announced, seekFailed>>

\* The socket is closed, but media.pipe_wr keeps its number.
ReopenFails ==
    /\ cpc = "reopen"
    /\ CloseWriter(dialed)
    /\ crunning' = FALSE
    /\ seekFailed' = TRUE
    /\ cpc' = "stop"
    /\ UNCHANGED <<threadVars, released, fileidx, dialed, announced>>

-----------------------------------------------------------------------------
(* next_file, screen_shutdown and the end.                                 *)

SayStop ==
    /\ cpc = "stop"
    /\ Send(Me, Cmd("STOP", NoFd))
    /\ cpc' = "halt"
    /\ UNCHANGED <<crunning, threadVars, released, fileidx, dialed,
                   announced, seekFailed>>

Halt ==
    /\ cpc = "halt"
    /\ mrunning' = FALSE
    /\ cpc' = "join"
    /\ UNCHANGED <<sockVars, crunning, pipe_wr, thread, released, fileidx,
                   dialed, announced, seekFailed>>

\* A join of a thread that was never created or is joined already has no
\* defined result: here it returns or (Crash) ends the process.
Joinable == thread \notin {"none", "joined"}

Join ==
    /\ cpc = "join"
    /\ Joinable => thread = "ended"
    /\ thread' = IF Joinable THEN "joined" ELSE thread
    /\ cpc' = "close"
    /\ UNCHANGED <<sockVars, crunning, mrunning, pipe_wr, released, fileidx,
                   dialed, announced, seekFailed>>

\* media_close frees the context and closes pipe_wr without resetting it.
MediaClose ==
    /\ cpc = "close"
    /\ CloseWriter(pipe_wr)
    /\ released' = TRUE
    /\ NextFile
    /\ UNCHANGED <<crunning, threadVars, dialed, announced, seekFailed>>

\* The process ends and every fd with it.
Die ==
    /\ cpc' = "exited"
    /\ hungUp' = hungUp \cup {Me}
    /\ writing' = {}
    /\ dialed' = NoFd
    /\ announced' = FALSE
    /\ UNCHANGED <<listening, ctrlConnected, ctrlAccepted, dataConnected,
                   dataAccepted, inbox, dropped, crunning, threadVars,
                   released, fileidx, seekFailed>>

Bye == cpc = "bye" /\ Die

Crash ==
    /\ \/ cpc = "join" /\ ~Joinable
       \/ cpc = "close" /\ released
    /\ Die

MainThread ==
    \/ ConnectServer \/ NoServer \/ SkipUrl \/ Probe \/ NoMoreFiles
    \/ SayPlayDirect \/ DirectKeys \/ LeaveDirect
    \/ DialStream \/ DialFails \/ Open \/ Create \/ OpenFails \/ Check
    \/ Abandon \/ SayPlay \/ LeaveKeys \/ WantSeek
    \/ SeekHalts \/ SeekJoins \/ Redial \/ RedialFails \/ Reopen \/ ReopenFails
    \/ SayStop \/ Halt \/ Join \/ MediaClose \/ Bye \/ Crash

-----------------------------------------------------------------------------
(* The media thread, alive until the process ends.                         *)

mainVars == <<cpc, crunning, released, fileidx, dialed, announced, seekFailed>>
Alive == cpc # "exited"

\* The packet loop ends: end of file, a write error or a cleared flag.  The
\* capture thread sends no STOP, the others only if both flags are set.
EndLoop ==
    /\ Alive /\ thread = "run"
    /\ thread' = IF mrunning /\ crunning /\ ~Screen THEN "tail" ELSE "close"
    /\ UNCHANGED <<sockVars, mainVars, mrunning, pipe_wr>>

\* write(ctx->ctrl_fd, "STOP\n", 5)
ThreadStop ==
    /\ Alive /\ thread = "tail"
    /\ Send(Me, Cmd("STOP", IF dialed \in writing THEN dialed ELSE NoFd))
    /\ thread' = "close"
    /\ UNCHANGED <<mainVars, mrunning, pipe_wr>>

ThreadClose ==
    /\ Alive /\ thread = "close"
    /\ CloseWriter(pipe_wr)
    /\ pipe_wr' = NoFd
    /\ thread' = "clear"
    /\ UNCHANGED <<mainVars, mrunning>>

\* ctx->running = 0, except in the capture thread.
ThreadEnd ==
    /\ Alive /\ thread = "clear"
    /\ mrunning' = (Screen /\ mrunning)
    /\ thread' = "ended"
    /\ UNCHANGED <<sockVars, mainVars, pipe_wr>>

\* avformat_write_header fails in the transcoding or capture thread.
HeaderFails ==
    /\ Alive /\ thread = "run"
    /\ CloseWriter(pipe_wr)
    /\ pipe_wr' = NoFd
    /\ thread' = "ended"
    /\ UNCHANGED <<mainVars, mrunning>>

MediaThread == EndLoop \/ ThreadStop \/ ThreadClose \/ ThreadEnd \/ HeaderFails

\* SIGINT or SIGTERM; the second one ends the process.
Interrupt ==
    /\ Alive /\ crunning
    /\ crunning' = FALSE
    /\ UNCHANGED <<sockVars, cpc, threadVars, released, fileidx, dialed,
                   announced, seekFailed>>

Kill ==
    /\ Alive /\ ~crunning
    /\ cpc # "connect"
    /\ Die
=============================================================================
