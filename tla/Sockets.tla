------------------------------ MODULE Sockets ------------------------------
(***************************************************************************)
(* The two Unix-domain sockets between a send2tv client and the server     *)
(* daemon (server.c: unix_listen; send2tv.c: unix_connect, ctrl_send).     *)
(*                                                                         *)
(* Connections are numbered in the order connect(2) succeeded, which is    *)
(* the order accept(2) returns them, so a listen queue is the interval     *)
(* between the last accepted and the last connected number.  Number 0 is   *)
(* the fd value -1.                                                        *)
(***************************************************************************)
EXTENDS Naturals, Sequences

CONSTANTS
    MaxClients,   \* bound: client processes that ever connect
    MaxConns,     \* bound: data connections that are ever made
    Pending,      \* connections a listen queue holds before connect(2) waits
    InboxCap,     \* bound: unread commands in one control connection
    Spoken        \* the commands the clients of a run use

ASSUME MaxClientsAssumption == MaxClients \in Nat \ {0}
ASSUME MaxConnsAssumption == MaxConns \in Nat \ {0}
ASSUME PendingAssumption == Pending \in Nat \ {0}
ASSUME InboxCapAssumption == InboxCap \in Nat \ {0}

Clients == 1..MaxClients
Conns == 1..MaxConns
NoFd == 0

(***************************************************************************)
(* The lines the client writes.  "PLAY_NODLNA" is a PLAY whose DLNA        *)
(* profile is the empty string, the form the server's sscanf does not      *)
(* match.  "for" is a history field: the data connection the client made   *)
(* for this PLAY, or whose natural end this STOP announces (NoFd in the    *)
(* other commands).                                                        *)
(***************************************************************************)
Verbs == {"PLAY", "PLAY_NODLNA", "PLAY_DIRECT", "STOP"}
ASSUME SpokenAssumption == Spoken \subseteq Verbs
Command == [verb : Verbs, for : Conns \cup {NoFd}]
Cmd(verb, d) == [verb |-> verb, for |-> d]

VARIABLES
    listening,      \* both listening sockets exist
    ctrlConnected,  \* control connections made ...
    ctrlAccepted,   \* ... and those the server has accepted
    dataConnected,  \* data connections made ...
    dataAccepted,   \* ... and those the server has accepted
    inbox,          \* inbox[c]: commands of client c the server has not read
    hungUp,         \* clients that closed their end of the control connection
    dropped,        \* clients whose control connection the server closed
    writing         \* data connections whose writing end is open

sockVars == <<listening, ctrlConnected, ctrlAccepted, dataConnected,
              dataAccepted, inbox, hungUp, dropped, writing>>

\* Types and ranges of the listen queues, the inboxes and both ends.
SocketsTypeOK ==
    /\ listening \in BOOLEAN
    /\ ctrlConnected \in 0..MaxClients
    /\ ctrlAccepted \in 0..ctrlConnected
    /\ dataConnected \in 0..MaxConns
    /\ dataAccepted \in 0..dataConnected
    /\ inbox \in [Clients -> Seq(Command)]
    /\ hungUp \subseteq 1..ctrlConnected
    /\ dropped \subseteq 1..ctrlConnected
    /\ writing \subseteq 1..dataConnected

SocketsInit ==
    /\ listening = FALSE
    /\ ctrlConnected = 0
    /\ ctrlAccepted = 0
    /\ dataConnected = 0
    /\ dataAccepted = 0
    /\ inbox = [c \in Clients |-> <<>>]
    /\ hungUp = {}
    /\ dropped = {}
    /\ writing = {}

CtrlPending == ctrlAccepted < ctrlConnected
DataPending == dataAccepted < dataConnected

-----------------------------------------------------------------------------
(* The client's system calls.                                              *)

\* unix_connect(ctrl_path) of the next client process.
ConnectCtrl(c) ==
    /\ listening
    /\ c = ctrlConnected + 1
    /\ ctrlConnected - ctrlAccepted < Pending
    /\ ctrlConnected' = c
    /\ UNCHANGED <<listening, ctrlAccepted, dataConnected, dataAccepted,
                   inbox, hungUp, dropped, writing>>

\* unix_connect(data_path); the new connection is number dataConnected'.
ConnectData ==
    /\ listening
    /\ dataConnected < MaxConns
    /\ dataConnected - dataAccepted < Pending
    /\ dataConnected' = dataConnected + 1
    /\ writing' = writing \cup {dataConnected + 1}
    /\ UNCHANGED <<listening, ctrlConnected, ctrlAccepted, dataAccepted,
                   inbox, hungUp, dropped>>

\* ctrl_send and the media threads' write(ctrl_fd, "STOP\n"): the result is
\* not looked at, so a line to a connection the server closed is just lost.
Send(c, m) ==
    /\ c \in dropped \/ Len(inbox[c]) < InboxCap
    /\ inbox' = IF c \in dropped THEN inbox
                ELSE [inbox EXCEPT ![c] = Append(@, m)]
    /\ UNCHANGED <<listening, ctrlConnected, ctrlAccepted, dataConnected,
                   dataAccepted, hungUp, dropped, writing>>

\* close(ctrl_fd) in the client, or its death.
HangUp(c) ==
    /\ hungUp' = hungUp \cup {c}
    /\ UNCHANGED <<listening, ctrlConnected, ctrlAccepted, dataConnected,
                   dataAccepted, inbox, dropped, writing>>

\* close(pipe_wr) in the client: the reader sees the end of stream d.
CloseWriter(d) ==
    /\ writing' = writing \ {d}
    /\ UNCHANGED <<listening, ctrlConnected, ctrlAccepted, dataConnected,
                   dataAccepted, inbox, hungUp, dropped>>
=============================================================================
