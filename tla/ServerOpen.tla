----------------------------- MODULE ServerOpen -----------------------------
(***************************************************************************)
(* The server with clients of every kind: several processes, at any pace,  *)
(* each connecting data streams, announcing them with PLAY or giving them  *)
(* up, stopping, seeking and exiting in any order the client program's     *)
(* calls allow.  System shows that the real client is one of these.        *)
(***************************************************************************)
EXTENDS Server

VARIABLES
    dial,       \* dial[c]: the last data connection client c made
    played      \* played[c]: c has sent the PLAY for dial[c]

clientVars == <<dial, played>>
vars == <<sockVars, serverVars, clientVars>>

\* The types of sockets, server and clients together.
TypeOK ==
    /\ SocketsTypeOK
    /\ ServerTypeOK
    /\ dial \in [Clients -> 0..dataConnected]
    /\ played \in [Clients -> BOOLEAN]

Init ==
    /\ SocketsInit
    /\ ServerInit
    /\ dial = [c \in Clients |-> NoFd]
    /\ played = [c \in Clients |-> FALSE]

Alive(c) == c \in (1..ctrlConnected) \ hungUp

Connect(c) ==
    /\ ConnectCtrl(c)
    /\ UNCHANGED <<serverVars, clientVars>>

\* The next file, or a seek: the previous stream's thread has been joined.
Dial(c) ==
    /\ Alive(c)
    /\ dial[c] \notin writing
    /\ ConnectData
    /\ dial' = [dial EXCEPT ![c] = dataConnected + 1]
    /\ played' = [played EXCEPT ![c] = FALSE]
    /\ UNCHANGED serverVars

SayPlay(c) ==
    /\ Alive(c)
    /\ dial[c] # NoFd /\ ~played[c]
    /\ \E verb \in {"PLAY", "PLAY_NODLNA"} \cap Spoken : Send(c, Cmd(verb, dial[c]))
    /\ played' = [played EXCEPT ![c] = TRUE]
    /\ UNCHANGED <<serverVars, dial>>

SayOther(c) ==
    /\ Alive(c)
    /\ \E verb \in {"PLAY_DIRECT", "STOP"} \cap Spoken : Send(c, Cmd(verb, NoFd))
    /\ UNCHANGED <<serverVars, clientVars>>

\* The media thread has come to the end of its file.
SayEnd(c) ==
    /\ Alive(c)
    /\ dial[c] \in writing
    /\ "STOP" \in Spoken
    /\ Send(c, Cmd("STOP", dial[c]))
    /\ UNCHANGED <<serverVars, clientVars>>

\* The stream ends, or the pipeline could not be opened.
EndStream(c) ==
    /\ dial[c] \in writing
    /\ CloseWriter(dial[c])
    /\ UNCHANGED <<serverVars, clientVars>>

Exit(c) ==
    /\ Alive(c)
    /\ hungUp' = hungUp \cup {c}
    /\ writing' = writing \ {dial[c]}
    /\ dial' = [dial EXCEPT ![c] = NoFd]
    /\ played' = [played EXCEPT ![c] = FALSE]
    /\ UNCHANGED <<listening, ctrlConnected, ctrlAccepted, dataConnected,
                   dataAccepted, inbox, dropped, serverVars>>

Client(c) ==
    \/ Connect(c) \/ Dial(c) \/ SayPlay(c) \/ SayOther(c) \/ SayEnd(c)
    \/ EndStream(c) \/ Exit(c)

ServerStep == ServerLoop \/ JoinHttpd \/ Signal \/ SecondSignal

Next ==
    \/ ServerStep /\ UNCHANGED clientVars
    \/ \E c \in Clients : Client(c)

Spec == Init /\ [][Next]_vars

(***************************************************************************)
(* Fairness.  The server's thread is scheduled; accept(2) does not fail    *)
(* for ever; a connected client sends another line or exits one day, which *)
(* the server needs because read_line has no timeout.                      *)
(***************************************************************************)
Fairness ==
    /\ WF_vars((ServerLoop \/ JoinHttpd) /\ UNCHANGED clientVars)
    /\ SF_vars(AcceptData /\ UNCHANGED clientVars)
    /\ \A c \in Clients : WF_vars(SayPlay(c) \/ SayOther(c) \/ Exit(c))

FairSpec == Spec /\ Fairness

-----------------------------------------------------------------------------
OpenFds == {data_fd, pipe_rd} \ {NoFd}

\* The server has a data connection open exactly when data_fd or pipe_rd
\* names it, but for the moment between close(media.pipe_rd) and the -1: a
\* replaced, disconnected or played-over stream is never leaked (its writer
\* would block for ever) and never used after close.
NoLeak == held = CASE pc \in Closed -> {}
                   [] pc \in Forgetting -> OpenFds \ {pipe_rd}
                   [] OTHER -> OpenFds

\* data_fd and pipe_rd never name the same connection, so the test
\* "media.pipe_rd != data_fd" of the PLAY branch never keeps the old stream
\* open, and the cleanup after the loop closes no fd twice.
FdsDistinct == pipe_rd # NoFd => pipe_rd # data_fd

\* What the HTTP thread relies on when it sees media.running set: at every
\* step, between any two stores of a disconnect or a switch, media.pipe_rd
\* then names a connection that is open.  Where the build stores the flag
\* before the descriptor the latter is still -1, never an old one.  Only the
\* cleanup closes the stream and leaves the flag set.
RunningMeansOpen ==
    mRunning /\ pc \notin Closed
        => pipe_rd \in held \/ (pc = "set_pipe" /\ pipe_rd = NoFd)

\* Streams are served in the order they were made: once a stream has been
\* served no PLAY, of whichever client, brings back an earlier one.
ServedInOrder ==
    [][pipe_rd' \notin {pipe_rd, NoFd} => pipe_rd' > lastServed]_vars

\* read_line blocks the whole server only on a client that replaced another
\* one during this very pass, never on the client poll reported ready.
BlocksOnlyAfterTakeover ==
    pc = "command" /\ ~Readable(ctrl_fd) => ctrl_fd # pfds.fd

\* A PLAY finds its stream among the accepted ones, provided that the client
\* was not replaced in this pass and that the pass accepted all that was
\* queued when poll returned.  Without these provisos it need not: System
\* shows what happens when the server lags behind.
PlayFindsItsStream ==
    pc = "command" /\ ctrl_fd = pfds.fd /\ dataAccepted >= pfds.upto
                   /\ inbox[ctrl_fd] # <<>>
        => Head(inbox[ctrl_fd]).for <= dataAccepted

\* The whole loop, poll passes, takeovers and cleanup included, does to the
\* streams only what StreamSwitch allows.
fateOf == [d \in Conns |-> IF d > dataAccepted THEN "queued"
                           ELSE IF d \notin held THEN "closed"
                           ELSE IF d = data_fd THEN "waiting"
                           ELSE "current"]
Abstract == INSTANCE StreamSwitch WITH fate <- fateOf
ImplementsStreamSwitch == Abstract!Spec

\* A signal ends the server, wherever it arrives (read_line included).
SignalEndsServer == ~running ~> pc = "exited"

\* Every data connection is taken from the listen queue while the server
\* lives.
StreamsAccepted ==
    \A d \in Conns : dataConnected >= d ~> dataAccepted >= d \/ pc = "exited"

\* A client that has gone does not stay the active one: what it left in the
\* socket is read and the server goes idle or to its successor.
ExitNoticed ==
    \A c \in Clients :
        ctrl_fd = c /\ c \in hungUp ~> ctrl_fd # c \/ pc = "exited"
=============================================================================
