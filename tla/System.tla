------------------------------- MODULE System -------------------------------
(***************************************************************************)
(* The server daemon and the real client program, started once: what the   *)
(* client's two threads write to its sockets meets the server's loop.      *)
(* MaxClients is 1 here; ServerOpen has the takeover by a second client.   *)
(***************************************************************************)
EXTENDS Server, Player

\* The program says STOP, and with --direct PLAY_DIRECT.
ASSUME SpeaksAssumption ==
    /\ "STOP" \in Spoken
    /\ "direct" \in Modes => "PLAY_DIRECT" \in Spoken

sysVars == <<sockVars, serverVars, playerVars, mode>>
clientSide == <<playerVars, mode>>

SysInit == SocketsInit /\ ServerInit /\ PlayerInit

ServerSide ==
    /\ ServerLoop \/ JoinHttpd \/ Signal \/ SecondSignal
    /\ UNCHANGED clientSide

ClientSide ==
    /\ MainThread \/ MediaThread \/ Interrupt \/ Kill
    /\ UNCHANGED <<serverVars, mode>>

SysNext == ServerSide \/ ClientSide

SysSpec == SysInit /\ [][SysNext]_sysVars

(***************************************************************************)
(* Fairness: the server's thread and both of the client's are scheduled.   *)
(* That the packet loop ends is only assumed once one of its flags is      *)
(* cleared (the loop, avio_write_pipe and ffmpeg_interrupt_cb look at      *)
(* them), and that the key loop ends only once the global flag is.         *)
(***************************************************************************)
SysFairness ==
    /\ WF_sysVars((ServerLoop \/ JoinHttpd) /\ UNCHANGED clientSide)
    /\ SF_sysVars((AcceptCtrl \/ AcceptSecondCtrl) /\ UNCHANGED clientSide)
    /\ SF_sysVars(AcceptData /\ UNCHANGED clientSide)
    /\ WF_sysVars((cpc \in {"keys", "direct_keys"} => ~crunning) /\ MainThread
                  /\ UNCHANGED <<serverVars, mode>>)
    /\ WF_sysVars((thread = "run" => ~crunning \/ ~mrunning) /\ MediaThread
                  /\ UNCHANGED <<serverVars, mode>>)

SysFairSpec == SysSpec /\ SysFairness

-----------------------------------------------------------------------------
\* The real client is one of the clients ServerOpen allows, so what holds of
\* the server with any of those holds with it.
Any == INSTANCE ServerOpen WITH
    dial <- [c \in Clients |-> IF c = Me THEN dialed ELSE NoFd],
    played <- [c \in Clients |-> c = Me /\ announced]
ClientIsAllowed == Any!Spec

\* A second media thread is never created while one runs or has not been
\* joined.
OneThread ==
    cpc \in {"dial", "open", "create", "redial", "reopen"}
        => thread \in {"none", "joined"}

\* While the media thread runs, the socket that media.pipe_wr names is the
\* one opened for it, however often keys, seeks and skips changed it;
\* only the exit at send2tv.c:1243 breaks this.
ThreadKeepsPipe ==
    thread \in {"run", "tail", "close"} /\ cpc \notin {"bye", "exited"}
        => pipe_wr = dialed /\ pipe_wr \in writing

\* Between two files no data socket is left open, whatever failed.
NoStreamLeft == cpc = "file" => writing = {}

\* Outside --direct and failed seeks, next_file joins a thread that exists,
\* once, and media_close frees a context that is not free.
JoinsAndFreesOnce ==
    /\ cpc = "join" /\ ~DirectPlay /\ ~seekFailed => Joinable
    /\ cpc = "close" /\ ~DirectPlay => ~released

\* PLAY tells the server to start the playback of the file just opened
\* ("Tell server to start playback", send2tv.c:1257): the connection the
\* server pairs it with is the one made for it.
PlayPlaysItsStream ==
    [][ReadPlay /\ data_fd' # NoFd => data_fd' = Head(inbox[Me]).for]_sysVars

\* Q and an interrupt end the client (usage: "Q quit"), from every wait it
\* can be in: a join, a full control socket, a connect.
QuitEnds == ~crunning ~> cpc = "exited"
=============================================================================
