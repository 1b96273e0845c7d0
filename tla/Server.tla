------------------------------- MODULE Server -------------------------------
(***************************************************************************)
(* The server daemon's main loop (server.c: server_run, read_line).        *)
(*                                                                         *)
(* One pass of the loop is a poll(2) whose result is kept in pfds, then up *)
(* to three handlers that act on that result: accept a control connection, *)
(* accept a data connection, read one command.  Other processes run while  *)
(* a handler waits for the television, so every SOAP call is a step of its *)
(* own.  The HTTP thread reads media.running and media.pipe_rd without a   *)
(* lock, so every store into one of the two, and the close(2) between      *)
(* them, is a step of its own too.  They take effect in the order of the   *)
(* source, but for the two stores of Install and SetRunning.  The module   *)
(* has only the server's actions: ServerOpen adds clients of every kind,   *)
(* System the real client, Httpd the HTTP thread.                          *)
(***************************************************************************)
EXTENDS Sockets

Direct == MaxConns + 1          \* the URL of a PLAY_DIRECT command

VARIABLES
    pc,          \* where the server's main thread is
    running,     \* the global flag the signal handler clears
    pfds,        \* the last poll(2): who was ready, and what fd pfds[2] held
    ctrl_fd,     \* the client whose commands are read
    data_fd,     \* the data connection waiting for its PLAY
    pipe_rd,     \* media.pipe_rd: the data connection being served
    mRunning,    \* media.running
    seg_id,      \* PLAYs that started a segment
    target,      \* the segment (or Direct) being sent to the television
    held,        \* data connections whose fd the server has open
    lastServed   \* history: the newest connection ever put in pipe_rd

mediaVars == <<pipe_rd, mRunning, seg_id, lastServed>>
serverVars == <<pc, running, pfds, ctrl_fd, data_fd, pipe_rd, mRunning,
                seg_id, target, held, lastServed>>

PollResult == [ctrl_listen : BOOLEAN, data_listen : BOOLEAN, ctrl : BOOLEAN,
               fd : Clients \cup {NoFd}, upto : 0..MaxConns]
NoPoll == [ctrl_listen |-> FALSE, data_listen |-> FALSE, ctrl |-> FALSE,
           fd |-> NoFd, upto |-> 0]

PCs == {"start", "first_stop", "loop", "accept_ctrl", "takeover",
        "accept_data", "command", "disconnect", "close_served",
        "forget_served", "close_ctrl", "switch", "close_old", "forget_old",
        "install", "set_running", "set_pipe", "set_uri", "play", "stop",
        "done", "stop_httpd", "join", "exited"}

\* The connections have been closed for good.
Closed == {"stop_httpd", "join", "exited"}

\* media.pipe_rd names a descriptor that was just closed.
Forgetting == {"forget_served", "forget_old"}

\* Types and ranges of the loop.
ServerTypeOK ==
    /\ pc \in PCs
    /\ running \in BOOLEAN
    /\ pfds \in PollResult
    /\ ctrl_fd \in 0..ctrlAccepted
    /\ data_fd \in 0..dataAccepted
    /\ pipe_rd \in 0..dataAccepted
    /\ mRunning \in BOOLEAN
    /\ seg_id \in 0..dataAccepted
    /\ target \in 0..Direct
    /\ held \subseteq 1..dataAccepted
    /\ lastServed \in 0..dataAccepted

ServerInit ==
    /\ pc = "start"
    /\ running = TRUE
    /\ pfds = NoPoll
    /\ ctrl_fd = NoFd
    /\ data_fd = NoFd
    /\ pipe_rd = NoFd
    /\ mRunning = FALSE
    /\ seg_id = 0
    /\ target = 0
    /\ held = {}
    /\ lastServed = 0

\* The next step of this pass; pfds is a local of the loop's body.
Goto(label) ==
    /\ pc' = label
    /\ pfds' = IF label = "loop" THEN NoPoll ELSE pfds

-----------------------------------------------------------------------------
(* Start and the poll.                                                     *)

Listen ==
    /\ pc = "start"
    /\ listening' = TRUE
    /\ Goto("first_stop")
    /\ UNCHANGED <<ctrlConnected, ctrlAccepted, dataConnected, dataAccepted,
                   inbox, hungUp, dropped, writing, running, ctrl_fd,
                   data_fd, target, held, mediaVars>>

\* unix_listen or httpd_start fails: straight to the cleanup.
ListenFails ==
    /\ pc = "start"
    /\ Goto("done")
    /\ UNCHANGED <<sockVars, running, ctrl_fd, data_fd, target, held,
                   mediaVars>>

FirstStop ==
    /\ pc = "first_stop"
    /\ Goto("loop")
    /\ UNCHANGED <<sockVars, running, ctrl_fd, data_fd, target, held,
                   mediaVars>>

\* Bug variants: a line is read although poll did not report one, or
\* although it came only after poll looked.
AfterDataUnpolled(p) == IF p.fd # NoFd THEN "command" ELSE "loop"
AfterDataLooksAgain(p) ==
    IF ctrl_fd # NoFd /\ (inbox[ctrl_fd] # <<>> \/ ctrl_fd \in hungUp)
    THEN "command" ELSE "loop"

\* The handler that runs next, given what poll reported.
AfterData(p) == IF p.ctrl THEN "command" ELSE "loop"
\* Bug variant: data connections are taken only while a client is connected.
AfterCtrlIfClient(p) ==
    IF p.data_listen /\ ctrl_fd # NoFd THEN "accept_data" ELSE AfterData(p)

AfterCtrl(p) == IF p.data_listen THEN "accept_data" ELSE AfterData(p)
AfterPoll(p) == IF p.ctrl_listen THEN "accept_ctrl" ELSE AfterCtrl(p)

\* Bug variant: POLLHUP is not looked at.
ReadableNoHup(c) == c # NoFd /\ inbox[c] # <<>>

\* A read of client c's control connection would return.
Readable(c) == c # NoFd /\ (inbox[c] # <<>> \/ c \in hungUp)

\* A poll that times out changes nothing and is not a step.
Poll ==
    /\ pc = "loop"
    /\ running
    /\ CtrlPending \/ DataPending \/ Readable(ctrl_fd)
    /\ pfds' = [ctrl_listen |-> CtrlPending, data_listen |-> DataPending,
                ctrl |-> Readable(ctrl_fd), fd |-> ctrl_fd,
                upto |-> dataConnected]
    /\ pc' = AfterPoll(pfds')
    /\ UNCHANGED <<sockVars, running, ctrl_fd, data_fd, target, held,
                   mediaVars>>

-----------------------------------------------------------------------------
(* The two accepts.                                                        *)

TakeCtrl ==
    /\ ctrlAccepted' = ctrlAccepted + 1
    /\ UNCHANGED <<listening, ctrlConnected, dataConnected, dataAccepted,
                   inbox, hungUp, writing>>

\* First client, or the previous one has disconnected.
AcceptCtrl ==
    /\ pc = "accept_ctrl"
    /\ ctrl_fd = NoFd
    /\ TakeCtrl
    /\ ctrl_fd' = ctrlAccepted + 1
    /\ Goto(AfterCtrl(pfds))
    /\ UNCHANGED <<dropped, running, data_fd, target, held, mediaVars>>

\* A client is connected: the television is stopped before it is replaced.
AcceptSecondCtrl ==
    /\ pc = "accept_ctrl"
    /\ ctrl_fd # NoFd
    /\ TakeCtrl
    /\ Goto("takeover")
    /\ UNCHANGED <<dropped, running, ctrl_fd, data_fd, target, held,
                   mediaVars>>

\* The old client loses its control connection, but its data connections
\* stay where they are and media.running stays set.
Takeover ==
    /\ pc = "takeover"
    /\ dropped' = dropped \cup {ctrl_fd}
    /\ inbox' = [inbox EXCEPT ![ctrl_fd] = <<>>]
    /\ ctrl_fd' = ctrlAccepted
    /\ Goto(AfterCtrl(pfds))
    /\ UNCHANGED <<listening, ctrlConnected, ctrlAccepted, dataConnected,
                   dataAccepted, hungUp, writing, running, data_fd,
                   target, held, mediaVars>>

\* Bug variant: the connection that was waiting is not closed.
AcceptDataLeaks ==
    /\ pc = "accept_data"
    /\ dataAccepted' = dataAccepted + 1
    /\ held' = held \cup {dataAccepted + 1}
    /\ data_fd' = dataAccepted + 1
    /\ Goto(AfterData(pfds))
    /\ UNCHANGED <<listening, ctrlConnected, ctrlAccepted, dataConnected,
                   inbox, hungUp, dropped, writing, running, ctrl_fd,
                   target, mediaVars>>

\* One connection a pass; the one that was waiting for a PLAY is closed.
AcceptData ==
    /\ pc = "accept_data"
    /\ dataAccepted' = dataAccepted + 1
    /\ held' = (held \ {data_fd}) \cup {dataAccepted + 1}
    /\ data_fd' = dataAccepted + 1
    /\ Goto(AfterData(pfds))
    /\ UNCHANGED <<listening, ctrlConnected, ctrlAccepted, dataConnected,
                   inbox, hungUp, dropped, writing, running, ctrl_fd,
                   target, mediaVars>>

\* accept(2) returns -1: the connection stays queued, the pass goes on.
AcceptFails ==
    /\ \/ pc = "accept_ctrl" /\ Goto(AfterCtrl(pfds))
       \/ pc = "accept_data" /\ Goto(AfterData(pfds))
    /\ UNCHANGED <<sockVars, running, ctrl_fd, data_fd, target, held,
                   mediaVars>>

-----------------------------------------------------------------------------
(* The command handler.  read_line waits for ctrl_fd, which need not be    *)
(* the fd poll looked at: the connection may just have been replaced.      *)

\* One line is read from the active client.
ReadLine(verb) ==
    /\ pc = "command"
    /\ inbox[ctrl_fd] # <<>>
    /\ Head(inbox[ctrl_fd]).verb = verb
    /\ inbox' = [inbox EXCEPT ![ctrl_fd] = Tail(@)]
    /\ UNCHANGED <<listening, ctrlConnected, ctrlAccepted, dataConnected,
                   dataAccepted, hungUp, dropped, writing>>

\* read_line returned 0: the client is gone.
ReadEof ==
    /\ pc = "command"
    /\ inbox[ctrl_fd] = <<>>
    /\ ctrl_fd \in hungUp
    /\ Goto("disconnect")
    /\ UNCHANGED <<sockVars, running, ctrl_fd, data_fd, target, held,
                   mediaVars>>

\* The client is gone: upnp_stop and media.running = 0 ...
Disconnect ==
    /\ pc = "disconnect"
    /\ mRunning' = FALSE
    /\ Goto(IF pipe_rd # NoFd THEN "close_served" ELSE "close_ctrl")
    /\ UNCHANGED <<sockVars, running, ctrl_fd, data_fd, pipe_rd, target,
                   held, seg_id, lastServed>>

\* close(media.pipe_rd), which media.pipe_rd still names afterwards ...
ClosePipe(label, next) ==
    /\ pc = label
    /\ held' = held \ {pipe_rd}
    /\ Goto(next)
    /\ UNCHANGED <<sockVars, running, ctrl_fd, data_fd, target, mediaVars>>

\* ... and media.pipe_rd = -1.
ForgetPipe(label, next) ==
    /\ pc = label
    /\ pipe_rd' = NoFd
    /\ Goto(next)
    /\ UNCHANGED <<sockVars, running, ctrl_fd, data_fd, mRunning, target,
                   held, seg_id, lastServed>>

CloseServed == ClosePipe("close_served", "forget_served")
ForgetServed == ForgetPipe("forget_served", "close_ctrl")

\* ... and what is left of the client, which no other thread looks at.
CloseCtrl ==
    /\ pc = "close_ctrl"
    /\ held' = held \ {data_fd}
    /\ data_fd' = NoFd
    /\ dropped' = dropped \cup {ctrl_fd}
    /\ ctrl_fd' = NoFd
    /\ Goto("loop")
    /\ UNCHANGED <<listening, ctrlConnected, ctrlAccepted, dataConnected,
                   dataAccepted, inbox, hungUp, writing, running, target,
                   mediaVars>>

\* PLAY: first the old segment is ended ...
ReadPlay ==
    /\ ReadLine("PLAY")
    /\ Goto("switch")
    /\ UNCHANGED <<running, ctrl_fd, data_fd, target, held, mediaVars>>

\* Bug variant: the test is the wrong way round.
MustCloseOldInverted == pipe_rd = data_fd

MustCloseOld == pipe_rd # NoFd /\ pipe_rd # data_fd

AfterOld == IF data_fd = NoFd THEN "loop" ELSE "install"

\* Bug variant: the flag stays set while the old segment is closed.
SwitchRunning ==
    /\ pc = "switch"
    /\ Goto(IF MustCloseOld THEN "close_old" ELSE AfterOld)
    /\ UNCHANGED <<sockVars, running, ctrl_fd, data_fd, target, held,
                   mediaVars>>

Switch ==
    /\ pc = "switch"
    /\ mRunning' = FALSE
    /\ Goto(IF MustCloseOld THEN "close_old" ELSE AfterOld)
    /\ UNCHANGED <<sockVars, running, ctrl_fd, data_fd, pipe_rd, target,
                   held, seg_id, lastServed>>

CloseOld == ClosePipe("close_old", "forget_old")
ForgetOld == ForgetPipe("forget_old", AfterOld)

\* Bug variant: the URL has the next number.
InstallWrongUrl ==
    /\ pc \in {"install", "set_pipe"}
    /\ pipe_rd' = data_fd
    /\ lastServed' = data_fd
    /\ data_fd' = NoFd
    /\ seg_id' = seg_id + 1
    /\ target' = seg_id + 2
    /\ Goto(IF pc = "install" THEN "set_running" ELSE "set_uri")
    /\ UNCHANGED <<sockVars, running, ctrl_fd, mRunning, held>>

\* ... then the waiting connection becomes the new one, and media.running is
\* set.  pipe_rd is not volatile, so nothing orders the two stores of the
\* source for another thread: gcc -O2, the Makefile's choice, stores
\* media.running first.  Either may be the first; seg_id and the URL are the
\* main thread's own.
Install ==
    /\ pc \in {"install", "set_pipe"}
    /\ pipe_rd' = data_fd
    /\ lastServed' = data_fd
    /\ data_fd' = NoFd
    /\ seg_id' = seg_id + 1
    /\ target' = seg_id + 1
    /\ Goto(IF pc = "install" THEN "set_running" ELSE "set_uri")
    /\ UNCHANGED <<sockVars, running, ctrl_fd, mRunning, held>>

SetRunning ==
    /\ pc \in {"install", "set_running"}
    /\ mRunning' = TRUE
    /\ Goto(IF pc = "install" THEN "set_pipe" ELSE "set_uri")
    /\ UNCHANGED <<sockVars, running, ctrl_fd, data_fd, pipe_rd, target,
                   held, seg_id, lastServed>>

\* ... and the television is sent its URL and told to play.  A call that
\* fails may still have reached the television.
SetUri ==
    /\ pc = "set_uri"
    /\ \/ Goto("play") /\ UNCHANGED target
       \/ Goto("loop") /\ target' = 0
    /\ UNCHANGED <<sockVars, running, ctrl_fd, data_fd, held, mediaVars>>

Play ==
    /\ pc = "play"
    /\ Goto("loop")
    /\ target' = 0
    /\ UNCHANGED <<sockVars, running, ctrl_fd, data_fd, held, mediaVars>>

\* PLAY_DIRECT leaves the served stream and media.running alone.
ReadPlayDirect ==
    /\ ReadLine("PLAY_DIRECT")
    /\ target' = Direct
    /\ Goto("set_uri")
    /\ UNCHANGED <<running, ctrl_fd, data_fd, held, mediaVars>>

ReadStop ==
    /\ ReadLine("STOP")
    /\ Goto("stop")
    /\ UNCHANGED <<running, ctrl_fd, data_fd, target, held, mediaVars>>

\* Bug variant: STOP keeps the stream for the next PLAY.
StopParks ==
    /\ pc = "stop"
    /\ data_fd = NoFd
    /\ data_fd' = pipe_rd
    /\ pipe_rd' = NoFd
    /\ mRunning' = FALSE
    /\ Goto("loop")
    /\ UNCHANGED <<sockVars, running, ctrl_fd, target, held, seg_id,
                   lastServed>>

Stop ==
    /\ pc = "stop"
    /\ Goto("loop")
    /\ UNCHANGED <<sockVars, running, ctrl_fd, data_fd, target, held,
                   mediaVars>>

\* A line no branch matches is dropped.
ReadUnknown ==
    /\ ReadLine("PLAY_NODLNA")
    /\ Goto("loop")
    /\ UNCHANGED <<running, ctrl_fd, data_fd, target, held, mediaVars>>

-----------------------------------------------------------------------------
(* The end: the flag is looked at only at the head of the loop, and a      *)
(* signal does not make read_line return.                                  *)

\* Bug variant: the loop ends only when no client is connected.
LeaveLoopWhenIdle ==
    /\ pc = "loop"
    /\ ~running
    /\ ctrl_fd = NoFd
    /\ Goto("done")
    /\ UNCHANGED <<sockVars, running, ctrl_fd, data_fd, target, held,
                   mediaVars>>

LeaveLoop ==
    /\ pc = "loop"
    /\ ~running
    /\ Goto("done")
    /\ UNCHANGED <<sockVars, running, ctrl_fd, data_fd, target, held,
                   mediaVars>>

\* Every fd is closed; the variables and media.running keep their values.
Cleanup ==
    /\ pc = "done"
    /\ listening' = FALSE
    /\ dropped' = dropped \cup (1..ctrlConnected)
    /\ held' = held \ {data_fd, pipe_rd}
    /\ Goto("stop_httpd")
    /\ UNCHANGED <<ctrlConnected, ctrlAccepted, dataConnected, dataAccepted,
                   inbox, hungUp, writing, running, ctrl_fd, data_fd,
                   target, mediaVars>>

\* httpd_stop tells the HTTP thread to end ...
StopHttpd ==
    /\ pc = "stop_httpd"
    /\ Goto("join")
    /\ UNCHANGED <<sockVars, running, ctrl_fd, data_fd, target, held,
                   mediaVars>>

\* ... and the main thread waits for it.
JoinHttpd ==
    /\ pc = "join"
    /\ Goto("exited")
    /\ UNCHANGED <<sockVars, running, ctrl_fd, data_fd, target, held,
                   mediaVars>>

ServerLoop ==
    \/ Listen \/ ListenFails \/ FirstStop \/ Poll
    \/ AcceptCtrl \/ AcceptSecondCtrl \/ Takeover \/ AcceptData \/ AcceptFails
    \/ ReadEof \/ Disconnect \/ CloseServed \/ ForgetServed \/ CloseCtrl
    \/ ReadPlay \/ Switch \/ CloseOld \/ ForgetOld \/ Install \/ SetRunning
    \/ SetUri \/ Play
    \/ ReadPlayDirect \/ ReadStop \/ Stop \/ ReadUnknown
    \/ LeaveLoop \/ Cleanup \/ StopHttpd

\* SIGINT or SIGTERM reaches the server.
Signal ==
    /\ running
    /\ running' = FALSE
    /\ UNCHANGED <<sockVars, pc, pfds, ctrl_fd, data_fd, target, held,
                   mediaVars>>

\* A second signal: the handler calls _exit, whatever the loop is doing.
SecondSignal ==
    /\ ~running
    /\ pc # "exited"
    /\ Goto("exited")
    /\ listening' = FALSE
    /\ dropped' = 1..ctrlConnected
    /\ held' = {}
    /\ UNCHANGED <<ctrlConnected, ctrlAccepted, dataConnected, dataAccepted,
                   inbox, hungUp, writing, running, ctrl_fd, data_fd,
                   target, mediaVars>>
=============================================================================
