------------------------- MODULE ServerOpen_proofs -------------------------
(***************************************************************************)
(* Proofs about the server and any number of clients and streams.          *)
(***************************************************************************)
EXTENDS ServerOpen, TLAPS

\* What one pass of the loop knows: what poll reported is still true when
\* its handler runs, because only the server thread takes from the queues.
PassInv ==
    /\ pc \in {"accept_ctrl", "takeover"} => pfds.fd = ctrl_fd
    /\ pc = "accept_ctrl" => CtrlPending
    /\ pc = "takeover" => ctrl_fd # NoFd /\ ctrl_fd < ctrlAccepted
    /\ pc \in {"accept_ctrl", "takeover", "accept_data"} =>
         /\ pfds.data_listen => DataPending
         /\ pfds.ctrl => ctrl_fd # NoFd
    /\ pc = "accept_data" => pfds.data_listen
    /\ pc \in {"command", "disconnect", "close_served", "forget_served",
               "close_ctrl"} => ctrl_fd # NoFd
    /\ pc = "command" => pfds.ctrl

\* The order of the streams: what waits is the newest accepted one, and it
\* is newer than all that was ever served.
FdsInv ==
    /\ data_fd \in {NoFd, dataAccepted}
    /\ data_fd # NoFd => lastServed < data_fd
    /\ pipe_rd \in {NoFd, lastServed}
    /\ seg_id <= lastServed
    /\ pc \in {"install", "set_pipe"} => data_fd # NoFd /\ pipe_rd = NoFd
    /\ pc \in {"close_served", "close_old", "set_running"} \cup Forgetting
         => pipe_rd # NoFd
    /\ pc = "close_ctrl" => pipe_rd = NoFd

\* The inductive invariant that gives types, order and distinct fds.
OrderInv == TypeOK /\ PassInv /\ FdsInv

USE MaxClientsAssumption, MaxConnsAssumption, PendingAssumption,
    InboxCapAssumption

\* What the cleared and the fresh poll results are made of.
LEMMA PollTypes ==
    /\ NoPoll \in PollResult
    /\ \A p \in PollResult : p.ctrl \in BOOLEAN /\ p.data_listen \in BOOLEAN
  BY DEF PollResult, NoPoll, NoFd

\* A goto stays among the labels.
LEMMA GotoTypes ==
    ASSUME pfds \in PollResult, NEW label \in PCs, Goto(label)
    PROVE  pc' \in PCs /\ pfds' \in PollResult
  BY PollTypes DEF Goto

\* Initially nothing is connected.
LEMMA OrderInit == Init => OrderInv
  <1> SUFFICES ASSUME Init PROVE OrderInv
    OBVIOUS
  <1> USE DEF Init, SocketsInit, ServerInit
  <1>1. SocketsTypeOK
    <2>1. <<>> \in Seq(Command)
      OBVIOUS
    <2>2. inbox \in [Clients -> Seq(Command)]
      BY <2>1
    <2>3. 0 \in 0..MaxClients /\ 0 \in 0..MaxConns /\ 0 \in 0..0
      OBVIOUS
    <2>4. listening \in BOOLEAN
      OBVIOUS
    <2>5. hungUp \subseteq 1..ctrlConnected /\ dropped \subseteq 1..ctrlConnected
          /\ writing \subseteq 1..dataConnected
      OBVIOUS
    <2> QED
      BY <2>2, <2>3, <2>4, <2>5 DEF SocketsTypeOK
  <1>2. ServerTypeOK
    <2>1. pc \in PCs
      BY DEF PCs
    <2>2. pfds \in PollResult
      BY PollTypes
    <2>3. {} \subseteq 1..0 /\ 0 \in 0..0 /\ 0 \in 0..Direct
      BY DEF Direct
    <2> QED
      BY <2>1, <2>2, <2>3 DEF ServerTypeOK, NoFd
  <1>3. TypeOK
    BY <1>1, <1>2 DEF TypeOK, NoFd
  <1>4. PassInv
    BY DEF PassInv, NoFd
  <1>5. FdsInv
    BY DEF FdsInv, Forgetting, NoFd
  <1> QED
    BY <1>3, <1>4, <1>5 DEF OrderInv

\* Reading a line leaves the inboxes sequences of commands.
LEMMA ReadLineTypes ==
    ASSUME SocketsTypeOK, ctrl_fd \in Clients, NEW verb, ReadLine(verb)
    PROVE  SocketsTypeOK'
  <1>1. inbox[ctrl_fd] \in Seq(Command) /\ inbox[ctrl_fd] # <<>>
    BY DEF ReadLine, SocketsTypeOK
  <1>2. Tail(inbox[ctrl_fd]) \in Seq(Command)
    BY <1>1
  <1> QED
    BY <1>2 DEF ReadLine, SocketsTypeOK

\* Every step of the server's thread leaves a label and a poll result.
LEMMA LabelTypes ==
    ASSUME OrderInv, ServerLoop
    PROVE  pc' \in PCs /\ pfds' \in PollResult
  <1>1. pfds \in PollResult
    BY DEF OrderInv, TypeOK, ServerTypeOK
  <1>2. CASE Poll
    <2>1. pfds' \in PollResult
      BY <1>2 DEF Poll, PollResult, Readable, NoFd, OrderInv, TypeOK,
         SocketsTypeOK, ServerTypeOK, Clients, CtrlPending, DataPending
    <2>2. pc' \in PCs
      BY <1>2 DEF Poll, AfterPoll, AfterCtrl, AfterData, PCs
    <2> QED
      BY <2>1, <2>2
  <1>3. CASE ~Poll
    <2>1. PICK label \in PCs : Goto(label)
      BY <1>3 DEF ServerLoop, PCs, AfterCtrl, AfterData,
         Listen, ListenFails, FirstStop, AcceptCtrl, AcceptSecondCtrl,
         Takeover, AcceptData, AcceptFails, ReadEof, Disconnect, CloseServed,
         ForgetServed, CloseCtrl, CloseOld, ForgetOld, ClosePipe, ForgetPipe,
         AfterOld, ReadPlay, Switch, Install, SetRunning, SetUri, Play,
         ReadPlayDirect, ReadStop, Stop, ReadUnknown, LeaveLoop, Cleanup,
         StopHttpd
    <2> QED
      BY <1>1, <2>1, GotoTypes
  <1> QED
    BY <1>2, <1>3

\* The steps of the server's thread.
LEMMA OrderServer == OrderInv /\ ServerLoop /\ UNCHANGED clientVars => OrderInv'
  <1> SUFFICES ASSUME OrderInv, ServerLoop, UNCHANGED clientVars
               PROVE OrderInv'
    OBVIOUS
  <1>0. pc' \in PCs /\ pfds' \in PollResult
    BY LabelTypes
  <1> USE DEF OrderInv, TypeOK, SocketsTypeOK, ServerTypeOK, PassInv, FdsInv,
              Clients, Conns, NoFd, Direct, sockVars, mediaVars,
              clientVars, Goto, CtrlPending, DataPending, Forgetting
  <1>1. CASE Listen
    BY <1>0, <1>1 DEF Listen
  <1>2. CASE ListenFails
    BY <1>0, <1>2 DEF ListenFails
  <1>3. CASE FirstStop
    BY <1>0, <1>3 DEF FirstStop
  <1>4. CASE Poll
    <2>1. TypeOK'
      BY <1>0, <1>4 DEF Poll, AfterPoll, AfterCtrl, AfterData, Readable
    <2>2. PassInv'
      BY <1>0, <1>4 DEF Poll, AfterPoll, AfterCtrl, AfterData, Readable
    <2>3. FdsInv'
      BY <1>0, <1>4 DEF Poll, AfterPoll, AfterCtrl, AfterData, Readable
    <2> QED
      BY <2>1, <2>2, <2>3
  <1>5. CASE AcceptCtrl
    BY <1>0, <1>5 DEF AcceptCtrl, TakeCtrl, AfterCtrl, AfterData
  <1>6. CASE AcceptSecondCtrl
    BY <1>0, <1>6 DEF AcceptSecondCtrl, TakeCtrl
  <1>7. CASE Takeover
    BY <1>0, <1>7 DEF Takeover, AfterCtrl, AfterData
  <1>8. CASE AcceptData
    BY <1>0, <1>8 DEF AcceptData, AfterData
  <1>9. CASE AcceptFails
    BY <1>0, <1>9 DEF AcceptFails, AfterCtrl, AfterData
  <1>10. CASE ReadEof
    BY <1>0, <1>10 DEF ReadEof
  <1>11. CASE Disconnect
    BY <1>0, <1>11 DEF Disconnect
  <1>23. CASE CloseServed
    BY <1>0, <1>23 DEF CloseServed, ClosePipe
  <1>24. CASE ForgetServed
    BY <1>0, <1>24 DEF ForgetServed, ForgetPipe
  <1>25. CASE CloseCtrl
    <2>1. SocketsTypeOK'
      BY <1>0, <1>25 DEF CloseCtrl
    <2>2. held' \subseteq 1..dataAccepted' /\ mRunning' \in BOOLEAN
      BY <1>25 DEF CloseCtrl
    <2>3. /\ ctrl_fd' \in 0..ctrlAccepted' /\ data_fd' \in 0..dataAccepted'
          /\ pipe_rd' \in 0..dataAccepted'
      BY <1>25 DEF CloseCtrl
    <2>4. ServerTypeOK'
      BY <1>0, <1>25, <2>2, <2>3 DEF CloseCtrl
    <2>5. PassInv' /\ FdsInv'
      BY <1>0, <1>25 DEF CloseCtrl
    <2> QED
      BY <1>25, <2>1, <2>4, <2>5 DEF CloseCtrl
  <1>12. CASE ReadPlay
    <2>1. SocketsTypeOK'
      BY <1>12, ReadLineTypes DEF ReadPlay, ReadLine
    <2> QED
      BY <1>0, <1>12, <2>1 DEF ReadPlay, ReadLine
  <1>13. CASE Switch
    <2>1. TypeOK'
      <3>1. SocketsTypeOK'
        BY <1>13 DEF Switch
      <3>2. held' \subseteq 1..dataAccepted' /\ mRunning' \in BOOLEAN
        BY <1>13 DEF Switch
      <3>3. ServerTypeOK'
        BY <1>0, <1>13, <3>2 DEF Switch
      <3> QED
        BY <1>13, <3>1, <3>3 DEF Switch
    <2>2. pc' \in {"close_old", "install", "loop"}
      BY <1>13 DEF Switch, AfterOld
    <2>3. PassInv'
      BY <1>13, <2>2 DEF Switch
    <2>4. pc' = "close_old" => pipe_rd # NoFd
      BY <1>13 DEF Switch, MustCloseOld, AfterOld
    <2>5. pc' = "install" => data_fd # NoFd /\ pipe_rd = NoFd
      BY <1>13 DEF Switch, MustCloseOld, AfterOld
    <2>6. FdsInv'
      BY <1>13, <2>2, <2>4, <2>5 DEF Switch
    <2> QED
      BY <2>1, <2>3, <2>6
  <1>26. CASE CloseOld
    BY <1>0, <1>26 DEF CloseOld, ClosePipe
  <1>27. CASE ForgetOld
    BY <1>0, <1>27 DEF ForgetOld, ForgetPipe, AfterOld
  <1>14. CASE Install
    BY <1>0, <1>14 DEF Install
  <1>28. CASE SetRunning
    BY <1>0, <1>28 DEF SetRunning
  <1>15. CASE SetUri
    BY <1>0, <1>15 DEF SetUri
  <1>16. CASE Play
    BY <1>0, <1>16 DEF Play
  <1>17. CASE ReadPlayDirect
    <2>1. SocketsTypeOK'
      BY <1>17, ReadLineTypes DEF ReadPlayDirect, ReadLine
    <2> QED
      BY <1>0, <1>17, <2>1 DEF ReadPlayDirect, ReadLine
  <1>18. CASE ReadStop
    <2>1. SocketsTypeOK'
      BY <1>18, ReadLineTypes DEF ReadStop, ReadLine
    <2> QED
      BY <1>0, <1>18, <2>1 DEF ReadStop, ReadLine
  <1>19. CASE Stop
    BY <1>0, <1>19 DEF Stop
  <1>20. CASE ReadUnknown
    <2>1. SocketsTypeOK'
      BY <1>20, ReadLineTypes DEF ReadUnknown, ReadLine
    <2> QED
      BY <1>0, <1>20, <2>1 DEF ReadUnknown, ReadLine
  <1>21. CASE LeaveLoop
    BY <1>0, <1>21 DEF LeaveLoop
  <1>22. CASE Cleanup
    BY <1>0, <1>22 DEF Cleanup
  <1>29. CASE StopHttpd
    BY <1>0, <1>29 DEF StopHttpd
  <1> QED
    BY <1>1, <1>2, <1>3, <1>4, <1>5, <1>6, <1>7, <1>8, <1>9, <1>10, <1>11,
       <1>12, <1>13, <1>14, <1>15, <1>16, <1>17, <1>18, <1>19, <1>20, <1>21,
       <1>22, <1>23, <1>24, <1>25, <1>26, <1>27, <1>28, <1>29 DEF ServerLoop

\* The steps that are not the server loop's: the end of the process, and
\* everything a client does.
LEMMA OrderOther ==
    ASSUME OrderInv,
           \/ (JoinHttpd \/ Signal \/ SecondSignal) /\ UNCHANGED clientVars
           \/ \E c \in Clients : Client(c)
           \/ UNCHANGED vars
    PROVE  OrderInv'
  <1> USE DEF OrderInv, TypeOK, PassInv, FdsInv, Clients, Conns, NoFd,
              sockVars, mediaVars, serverVars, clientVars, CtrlPending,
              DataPending, Forgetting
  <1>1. CASE (JoinHttpd \/ Signal \/ SecondSignal) /\ UNCHANGED clientVars
    <2>1. pc' \in PCs /\ pfds' \in PollResult
      BY <1>1, GotoTypes DEF JoinHttpd, Signal, SecondSignal, PCs, ServerTypeOK
    <2>2. SocketsTypeOK' /\ ServerTypeOK'
      <3>1. CASE JoinHttpd
        BY <1>1, <2>1, <3>1 DEF JoinHttpd, SocketsTypeOK, ServerTypeOK
      <3>2. CASE Signal
        BY <1>1, <2>1, <3>2 DEF Signal, SocketsTypeOK, ServerTypeOK
      <3>3. CASE SecondSignal
        BY <1>1, <2>1, <3>3 DEF SecondSignal, SocketsTypeOK, ServerTypeOK
      <3> QED
        BY <1>1, <3>1, <3>2, <3>3
    <2>3. TypeOK'
      BY <1>1, <2>2 DEF JoinHttpd, Signal, SecondSignal
    <2>4. PassInv' /\ FdsInv'
      BY <1>1 DEF JoinHttpd, Signal, SecondSignal, Goto
    <2> QED
      BY <2>3, <2>4
  <1>2. ASSUME NEW c \in Clients, Connect(c) PROVE OrderInv'
    BY <1>2 DEF Connect, ConnectCtrl, SocketsTypeOK, ServerTypeOK
  <1>3. ASSUME NEW c \in Clients, Dial(c) PROVE OrderInv'
    <2>1. SocketsTypeOK' /\ dataConnected' = dataConnected + 1
      BY <1>3 DEF Dial, ConnectData, SocketsTypeOK
    <2>2. dial' \in [Clients -> 0..dataConnected']
      <3>1. dataConnected \in Nat /\ dial \in [Clients -> 0..dataConnected]
        BY DEF SocketsTypeOK
      <3>2. dial' = [dial EXCEPT ![c] = dataConnected + 1]
        BY <1>3 DEF Dial
      <3> QED
        BY <2>1, <3>1, <3>2
    <2>3. played' \in [Clients -> BOOLEAN]
      BY <1>3 DEF Dial
    <2>4. ServerTypeOK'
      BY <1>3 DEF Dial, ConnectData, ServerTypeOK
    <2>5. PassInv' /\ FdsInv'
      BY <1>3 DEF Dial, ConnectData, SocketsTypeOK
    <2> QED
      BY <2>1, <2>2, <2>3, <2>4, <2>5
  <1>4. ASSUME NEW c \in Clients, NEW m \in Command, Send(c, m)
        PROVE  SocketsTypeOK'
    <2>1. Append(inbox[c], m) \in Seq(Command)
      BY <1>4 DEF SocketsTypeOK
    <2> QED
      BY <1>4, <2>1 DEF Send, SocketsTypeOK
  <1>5. ASSUME NEW c \in Clients, SayPlay(c) PROVE OrderInv'
    <2>1. PICK verb \in {"PLAY", "PLAY_NODLNA"} \cap Spoken :
            Send(c, Cmd(verb, dial[c]))
      BY <1>5 DEF SayPlay
    <2>2. Cmd(verb, dial[c]) \in Command
      BY <1>5 DEF SayPlay, Cmd, Command, Verbs, SocketsTypeOK
    <2>3. SocketsTypeOK'
      BY <1>4, <2>1, <2>2
    <2> QED
      BY <1>5, <2>1, <2>3 DEF SayPlay, Send, ServerTypeOK
  <1>6. ASSUME NEW c \in Clients, SayOther(c) PROVE OrderInv'
    <2>1. PICK verb \in {"PLAY_DIRECT", "STOP"} \cap Spoken :
            Send(c, Cmd(verb, NoFd))
      BY <1>6 DEF SayOther
    <2>2. Cmd(verb, NoFd) \in Command
      BY DEF Cmd, Command, Verbs
    <2>3. SocketsTypeOK'
      BY <1>4, <2>1, <2>2
    <2> QED
      BY <1>6, <2>1, <2>3 DEF SayOther, Send, ServerTypeOK
  <1>10. ASSUME NEW c \in Clients, SayEnd(c) PROVE OrderInv'
    <2>1. Send(c, Cmd("STOP", dial[c])) /\ Cmd("STOP", dial[c]) \in Command
      BY <1>10 DEF SayEnd, Cmd, Command, Verbs, SocketsTypeOK
    <2>2. SocketsTypeOK'
      BY <1>4, <2>1
    <2> QED
      BY <1>10, <2>1, <2>2 DEF SayEnd, Send, ServerTypeOK
  <1>7. ASSUME NEW c \in Clients, EndStream(c) PROVE OrderInv'
    <2>1. SocketsTypeOK'
      BY <1>7 DEF EndStream, CloseWriter, SocketsTypeOK
    <2> QED
      BY <1>7, <2>1 DEF EndStream, CloseWriter, ServerTypeOK
  <1>8. ASSUME NEW c \in Clients, Exit(c) PROVE OrderInv'
    <2>1. SocketsTypeOK'
      BY <1>8 DEF Exit, Alive, SocketsTypeOK
    <2>2. dial' \in [Clients -> 0..dataConnected]
          /\ played' \in [Clients -> BOOLEAN]
      BY <1>8 DEF Exit, SocketsTypeOK
    <2> QED
      BY <1>8, <2>1, <2>2 DEF Exit, ServerTypeOK
  <1>9. CASE UNCHANGED vars
    BY <1>9 DEF vars, SocketsTypeOK, ServerTypeOK
  <1> QED
    BY <1>1, <1>2, <1>3, <1>5, <1>6, <1>7, <1>8, <1>9, <1>10
       DEF Client

\* Every step keeps the order.
LEMMA OrderNext == OrderInv /\ [Next]_vars => OrderInv'
  BY OrderServer, OrderOther DEF Next, ServerStep

\* The order holds in every reachable state.
LEMMA OrderAlways == Spec => []OrderInv
  BY OrderInit, OrderNext, PTL DEF Spec

\* The types of the server and of the sockets, for any number of clients
\* and streams.
THEOREM Typing == Spec => []TypeOK
  <1>1. OrderInv => TypeOK
    BY DEF OrderInv
  <1> QED
    BY <1>1, OrderAlways, PTL

\* data_fd and media.pipe_rd never name the same connection.
THEOREM Distinct == Spec => []FdsDistinct
  <1>1. OrderInv => FdsDistinct
    BY DEF OrderInv, TypeOK, ServerTypeOK, SocketsTypeOK, FdsInv, FdsDistinct,
           NoFd
  <1> QED
    BY <1>1, OrderAlways, PTL

-----------------------------------------------------------------------------
(* No leak, and the flag the HTTP thread looks at.                         *)

\* The flag is clear from the first store of a switch or a disconnect until
\* the next stream is there.
FlagInv ==
    pc \in {"close_served", "close_ctrl", "close_old", "install", "set_running"}
             \cup Forgetting
      => ~mRunning

LeakInv == NoLeak /\ RunningMeansOpen /\ FlagInv

\* The places of a switch, of a disconnect and of the end.
InSwitch == {"close_served", "close_ctrl", "close_old", "install",
             "set_running", "set_pipe"} \cup Forgetting \cup Closed

\* The steps that leave the served and the waiting stream alone.
Elsewhere ==
    /\ UNCHANGED <<pipe_rd, data_fd, held, mRunning, lastServed>>
    /\ pc' \notin InSwitch /\ pc \notin InSwitch

Closes == CloseServed \/ CloseOld
Forgets == ForgetServed \/ ForgetOld

\* The loop touches the streams and the flag in these actions only.
Touches ==
    \/ AcceptData \/ Disconnect \/ Closes \/ Forgets \/ CloseCtrl \/ Switch
    \/ Install \/ SetRunning \/ Cleanup \/ StopHttpd

\* All others are elsewhere.
LEMMA ElsewhereSteps ==
    ASSUME ServerLoop, ~Touches
    PROVE  Elsewhere
  BY DEF ServerLoop, Touches, Closes, Forgets, Elsewhere, InSwitch, Forgetting,
     Closed, mediaVars, Goto, AfterPoll, AfterCtrl,
     AfterData, Listen, ListenFails, FirstStop, Poll, AcceptCtrl, TakeCtrl,
       AcceptSecondCtrl, Takeover, AcceptFails, ReadEof, ReadPlay, ReadLine,
       SetUri, Play, ReadPlayDirect, ReadStop, Stop, ReadUnknown, LeaveLoop

\* The client's steps touch none of the server's variables.
LEMMA ClientSteps ==
    ASSUME NEW c \in Clients, Client(c)
    PROVE  /\ UNCHANGED serverVars
           /\ UNCHANGED <<dataAccepted, ctrlAccepted>>
  BY DEF Client, Connect, ConnectCtrl, Dial, ConnectData, SayPlay, SayOther,
     SayEnd, Send, EndStream, CloseWriter, Exit

\* Every step keeps the count of the open descriptors.
LEMMA LeakNext == OrderInv /\ LeakInv /\ [Next]_vars => LeakInv'
  <1> SUFFICES ASSUME OrderInv, LeakInv, [Next]_vars
               PROVE LeakInv'
    OBVIOUS
  <1> USE DEF LeakInv, NoLeak, RunningMeansOpen, FlagInv, OpenFds, NoFd,
              Closed, Forgetting
  <1>0. /\ dataAccepted \in Nat /\ data_fd \in {NoFd, dataAccepted}
        /\ pipe_rd <= dataAccepted /\ pipe_rd \in Nat
        /\ pipe_rd # NoFd => pipe_rd # data_fd
        /\ pc \in {"install", "set_pipe"} => data_fd # NoFd /\ pipe_rd = NoFd
        /\ pc \in {"close_served", "close_old", "set_running"} \cup Forgetting
             => pipe_rd # NoFd
        /\ pc = "close_ctrl" => pipe_rd = NoFd
        /\ pc \in PCs
    BY DEF OrderInv, TypeOK, ServerTypeOK, SocketsTypeOK, FdsInv
  <1>1. CASE AcceptData
    BY <1>0, <1>1 DEF AcceptData, Goto, AfterData, mediaVars
  <1>2. CASE Disconnect
    BY <1>0, <1>2 DEF Disconnect, Goto
  <1>3. CASE Switch
    BY <1>0, <1>3 DEF Switch, AfterOld, Goto
  <1>4. CASE Install
    BY <1>0, <1>4 DEF Install, Goto
  <1>5. CASE Cleanup
    BY <1>0, <1>5 DEF Cleanup, Goto, mediaVars
  <1>9. CASE Closes
    BY <1>0, <1>9 DEF Closes, CloseServed, CloseOld, ClosePipe, Goto, mediaVars
  <1>10. CASE Forgets
    BY <1>0, <1>10 DEF Forgets, ForgetServed, ForgetOld, ForgetPipe, AfterOld,
       Goto
  <1>11. CASE CloseCtrl
    BY <1>0, <1>11 DEF CloseCtrl, Goto, mediaVars
  <1>12. CASE SetRunning
    BY <1>0, <1>12 DEF SetRunning, Goto
  <1>13. CASE StopHttpd
    BY <1>13 DEF StopHttpd, Goto, mediaVars
  <1>6. CASE Elsewhere
    BY <1>6 DEF Elsewhere, InSwitch
  <1>7. CASE JoinHttpd \/ Signal \/ SecondSignal
    BY <1>7 DEF JoinHttpd, Signal, SecondSignal, Goto, mediaVars
  <1>8. CASE UNCHANGED serverVars
    BY <1>8 DEF serverVars
  <1> QED
    BY <1>1, <1>2, <1>3, <1>4, <1>5, <1>6, <1>7, <1>8, <1>9, <1>10, <1>11,
       <1>12, <1>13, ElsewhereSteps, ClientSteps DEF Next, ServerStep, vars,
       Touches

\* Initially nothing is open and the flag is clear.
LEMMA LeakInit == Init => LeakInv
  BY DEF Init, ServerInit, LeakInv, NoLeak, RunningMeansOpen, FlagInv, OpenFds,
     NoFd, Closed, Forgetting

\* The invariant holds in every reachable state.
LEMMA LeakAlways == Spec => []LeakInv
  BY LeakInit, LeakNext, OrderAlways, PTL DEF Spec

\* The server never leaks a data connection and never keeps using a closed
\* one: what it has open is what data_fd and pipe_rd name.
THEOREM NeverLeaks == Spec => []NoLeak
  <1>1. LeakInv => NoLeak
    BY DEF LeakInv
  <1> QED
    BY <1>1, LeakAlways, PTL

\* Whoever sees media.running set finds in media.pipe_rd an open connection,
\* or -1 where the build reorders the two stores of a PLAY.
THEOREM FlagRight == Spec => []RunningMeansOpen
  <1>1. LeakInv => RunningMeansOpen
    BY DEF LeakInv
  <1> QED
    BY <1>1, LeakAlways, PTL

\* No PLAY brings back an earlier stream than one already served.
THEOREM InOrder == Spec => ServedInOrder
  <1>1. OrderInv /\ [Next]_vars
          => [pipe_rd' \notin {pipe_rd, NoFd} => pipe_rd' > lastServed]_vars
    <2> SUFFICES ASSUME OrderInv, [Next]_vars, pipe_rd' \notin {pipe_rd, NoFd}
                 PROVE  pipe_rd' > lastServed
      OBVIOUS
    <2>1. Install
      BY ElsewhereSteps, ClientSteps
         DEF Next, ServerStep, vars, serverVars, Elsewhere, Touches,
             AcceptData, Disconnect, Closes, CloseServed, CloseOld, ClosePipe,
             Forgets, ForgetServed, ForgetOld, ForgetPipe, CloseCtrl, Switch,
             SetRunning, Cleanup, StopHttpd, mediaVars, JoinHttpd, Signal,
             SecondSignal
    <2> QED
      BY <2>1 DEF Install, OrderInv, FdsInv, TypeOK, ServerTypeOK,
         SocketsTypeOK, NoFd
  <1> QED
    BY <1>1, OrderAlways, PTL DEF Spec, ServedInOrder

-----------------------------------------------------------------------------
(* What a pass may rely on when it reads a command.                        *)

InPass == pc \in {"accept_ctrl", "takeover", "accept_data", "command"}

\* While the client poll reported ready is still the active one, its line
\* (or its end of file) is still there, and that line was sent before poll
\* looked, hence names a stream connected by then.
ReadyInv ==
    InPass /\ pfds.ctrl /\ pfds.fd = ctrl_fd =>
        /\ Readable(ctrl_fd)
        /\ inbox[ctrl_fd] # <<>> => Head(inbox[ctrl_fd]).for <= pfds.upto

\* Every line names a stream that has been connected.
InboxInv ==
    \A c \in Clients :
        \A i \in 1..Len(inbox[c]) : inbox[c][i].for <= dataConnected

CommandInv == ReadyInv /\ InboxInv

\* The next line of an inbox is for a stream that has been connected.
LEMMA HeadFor ==
    ASSUME OrderInv, InboxInv, NEW c \in Clients, inbox[c] # <<>>
    PROVE  Head(inbox[c]).for <= dataConnected
  <1>1. inbox[c] \in Seq(Command)
    BY DEF OrderInv, TypeOK, SocketsTypeOK
  <1>2. 1 \in 1..Len(inbox[c]) /\ Head(inbox[c]) = inbox[c][1]
    BY <1>1
  <1> QED
    BY <1>2 DEF InboxInv

\* Steps that leave the inboxes alone and lose no data connection.
LEMMA InboxKept ==
    ASSUME OrderInv, InboxInv, UNCHANGED inbox, dataConnected' \in Nat,
           dataConnected' >= dataConnected
    PROVE  InboxInv'
  <1>1. \A c \in Clients : \A i \in 1..Len(inbox[c]) :
            inbox[c][i] \in Command
    BY DEF OrderInv, TypeOK, SocketsTypeOK
  <1>2. \A m \in Command : m.for \in Nat
    BY DEF Command, Conns, NoFd
  <1>3. dataConnected \in Nat
    BY DEF OrderInv, TypeOK, SocketsTypeOK
  <1> QED
    BY <1>1, <1>2, <1>3 DEF InboxInv

\* Reading a line or clearing an inbox.
LEMMA InboxShrinks ==
    ASSUME OrderInv, InboxInv, NEW c \in Clients, NEW s \in {<<>>, Tail(inbox[c])},
           s = <<>> \/ inbox[c] # <<>>,
           inbox' = [inbox EXCEPT ![c] = s], UNCHANGED dataConnected
    PROVE  InboxInv'
  <1>1. inbox \in [Clients -> Seq(Command)]
    BY DEF OrderInv, TypeOK, SocketsTypeOK
  <1>2. \A i \in 1..Len(s) : s[i].for <= dataConnected
    <2>1. CASE s = <<>>
      BY <2>1
    <2>2. CASE s # <<>>
      <3>1. /\ s = Tail(inbox[c]) /\ inbox[c] \in Seq(Command)
            /\ inbox[c] # <<>>
        BY <2>2, <1>1
      <3>2. \A i \in 1..Len(s) :
              i + 1 \in 1..Len(inbox[c]) /\ s[i] = inbox[c][i + 1]
        BY <3>1
      <3> QED
        BY <3>2 DEF InboxInv
    <2> QED
      BY <2>1, <2>2
  <1> QED
    BY <1>1, <1>2 DEF InboxInv

\* A client writes a line: only a client that has not hung up does, so a
\* line that poll reported keeps its place.
LEMMA SendKeeps ==
    ASSUME OrderInv, CommandInv, NEW c \in Clients, NEW m \in Command,
           m.for <= dataConnected, Send(c, m), Alive(c), UNCHANGED serverVars
    PROVE  CommandInv'
  <1>1. inbox \in [Clients -> Seq(Command)]
    BY DEF OrderInv, TypeOK, SocketsTypeOK
  <1>2. CASE c \in dropped
    <2>1. UNCHANGED <<inbox, hungUp, dataConnected>>
      BY <1>2 DEF Send
    <2> QED
      BY <2>1 DEF CommandInv, ReadyInv, InboxInv, Readable, InPass, serverVars
  <1>3. CASE c \notin dropped
    <2>1. inbox' = [inbox EXCEPT ![c] = Append(inbox[c], m)]
      BY <1>3 DEF Send
    <2>2. UNCHANGED <<hungUp, dataConnected>>
      BY DEF Send
    <2>3. /\ Append(inbox[c], m) \in Seq(Command)
          /\ Append(inbox[c], m) # <<>>
          /\ Len(Append(inbox[c], m)) = Len(inbox[c]) + 1
          /\ \A i \in 1..Len(inbox[c]) : Append(inbox[c], m)[i] = inbox[c][i]
          /\ Append(inbox[c], m)[Len(inbox[c]) + 1] = m
      BY <1>1
    <2>4. inbox[c] # <<>> => Head(Append(inbox[c], m)) = Head(inbox[c])
      BY <1>1
    <2>5. InboxInv'
      <3>1. \A i \in 1..Len(Append(inbox[c], m)) :
              Append(inbox[c], m)[i].for <= dataConnected
        BY <1>1, <2>3 DEF CommandInv, InboxInv
      <3> QED
        BY <1>1, <2>1, <2>2, <3>1 DEF CommandInv, InboxInv
    <2>6. ReadyInv'
      <3> SUFFICES ASSUME InPass, pfds.ctrl, pfds.fd = ctrl_fd
                   PROVE  /\ Readable(ctrl_fd)'
                          /\ (inbox[ctrl_fd] # <<>>
                               => Head(inbox[ctrl_fd]).for <= pfds.upto)'
        BY DEF ReadyInv, InPass, serverVars
      <3>1. /\ Readable(ctrl_fd) /\ ctrl_fd' = ctrl_fd /\ pfds' = pfds
            /\ inbox[ctrl_fd] # <<>> => Head(inbox[ctrl_fd]).for <= pfds.upto
        BY DEF CommandInv, ReadyInv, serverVars
      <3>2. CASE ctrl_fd = c
        <4>1. inbox[c] # <<>>
          BY <3>1, <3>2 DEF Readable, Alive
        <4> QED
          BY <1>1, <2>1, <2>3, <2>4, <3>1, <3>2, <4>1 DEF Readable
      <3>3. CASE ctrl_fd # c
        <4>1. inbox'[ctrl_fd] = inbox[ctrl_fd]
          BY <1>1, <2>1, <3>3
        <4> QED
          BY <2>2, <3>1, <4>1 DEF Readable
      <3> QED
        BY <3>2, <3>3
    <2> QED
      BY <2>5, <2>6 DEF CommandInv
  <1> QED
    BY <1>2, <1>3

\* The server's steps: poll makes ReadyInv true, a handler that keeps the
\* client keeps it, one that replaces the client makes pfds[2].fd differ.
LEMMA CommandServer ==
    ASSUME OrderInv, CommandInv, ServerLoop, UNCHANGED clientVars
    PROVE  CommandInv'
  <1> USE DEF CommandInv, mediaVars, sockVars
  <1>0. dataConnected' = dataConnected /\ dataConnected \in Nat
    BY DEF OrderInv, TypeOK, SocketsTypeOK, ServerLoop, Listen, ListenFails,
       FirstStop, Poll, AcceptCtrl, TakeCtrl, AcceptSecondCtrl, Takeover,
       AcceptData, AcceptFails, ReadEof, Disconnect, CloseServed,
       ForgetServed, CloseCtrl, CloseOld, ForgetOld, ClosePipe, ForgetPipe,
       ReadPlay, ReadLine, Switch, Install, SetRunning, SetUri, Play,
       ReadPlayDirect, ReadStop, Stop, ReadUnknown, LeaveLoop, Cleanup,
       StopHttpd
  <1>1. CASE Poll
    <2>1. InboxInv'
      BY <1>0, <1>1, InboxKept DEF Poll
    <2>2. ctrl_fd # NoFd /\ inbox[ctrl_fd] # <<>>
            => Head(inbox[ctrl_fd]).for <= dataConnected
      <3>1. ctrl_fd # NoFd => ctrl_fd \in Clients
        BY DEF OrderInv, TypeOK, SocketsTypeOK, ServerTypeOK, Clients, NoFd
      <3> QED
        BY <3>1, HeadFor
    <2> QED
      BY <1>1, <2>1, <2>2 DEF Poll, ReadyInv, Readable
  <1>2. CASE Takeover
    <2>1. InboxInv'
      <3>1. ctrl_fd \in Clients
        BY <1>2 DEF Takeover, OrderInv, PassInv, TypeOK, SocketsTypeOK,
           ServerTypeOK, Clients, NoFd
      <3>2. inbox' = [inbox EXCEPT ![ctrl_fd] = <<>>]
        BY <1>2 DEF Takeover
      <3> QED
        BY <1>0, <3>1, <3>2, InboxShrinks
    <2>2. pfds' = NoPoll \/ pfds'.fd # ctrl_fd'
      BY <1>2 DEF Takeover, Goto, OrderInv, PassInv, TypeOK, SocketsTypeOK,
         ServerTypeOK
    <2> QED
      BY <2>1, <2>2 DEF ReadyInv, NoPoll
  <1>3. CASE AcceptCtrl
    <2>1. InboxInv'
      BY <1>0, <1>3, InboxKept DEF AcceptCtrl, TakeCtrl
    <2>2. pfds' = NoPoll \/ pfds'.fd # ctrl_fd'
      BY <1>3 DEF AcceptCtrl, Goto, OrderInv, PassInv, TypeOK, SocketsTypeOK,
         ServerTypeOK, NoFd
    <2> QED
      BY <2>1, <2>2 DEF ReadyInv, NoPoll
  <1>4. CASE AcceptSecondCtrl \/ AcceptData \/ AcceptFails
    <2>1. InboxInv'
      BY <1>0, <1>4, InboxKept DEF AcceptSecondCtrl, AcceptData, AcceptFails,
         TakeCtrl
    <2>2. /\ UNCHANGED <<ctrl_fd, inbox, hungUp>>
          /\ pfds' = NoPoll \/ pfds' = pfds
          /\ InPass
      BY <1>4 DEF AcceptSecondCtrl, AcceptData, AcceptFails, TakeCtrl, Goto,
         InPass
    <2> QED
      BY <2>1, <2>2 DEF ReadyInv, NoPoll, Readable
  <1>5. CASE ReadPlay \/ ReadPlayDirect \/ ReadStop \/ ReadUnknown
    <2>1. InboxInv'
      <3>1. ctrl_fd \in Clients /\ inbox[ctrl_fd] # <<>>
        <4>1. pc = "command" /\ inbox[ctrl_fd] # <<>>
          BY <1>5 DEF ReadPlay, ReadPlayDirect, ReadStop, ReadUnknown, ReadLine
        <4>2. ctrl_fd # NoFd
          BY <4>1 DEF OrderInv, PassInv
        <4>3. ctrl_fd \in 0..ctrlAccepted /\ ctrlAccepted \in 0..MaxClients
          BY DEF OrderInv, TypeOK, SocketsTypeOK, ServerTypeOK
        <4> QED
          BY <4>1, <4>2, <4>3 DEF Clients, NoFd
      <3>2. inbox' = [inbox EXCEPT ![ctrl_fd] = Tail(inbox[ctrl_fd])]
        BY <1>5 DEF ReadPlay, ReadPlayDirect, ReadStop, ReadUnknown, ReadLine
      <3> QED
        BY <1>0, <3>1, <3>2, InboxShrinks
    <2>2. ~InPass'
      BY <1>5 DEF ReadPlay, ReadPlayDirect, ReadStop, ReadUnknown, Goto, InPass
    <2> QED
      BY <2>1, <2>2 DEF ReadyInv
  <1>6. CASE \/ Listen \/ ListenFails \/ FirstStop \/ ReadEof \/ Disconnect
             \/ Closes \/ Forgets \/ CloseCtrl \/ Switch \/ Install
             \/ SetRunning \/ SetUri \/ Play \/ Stop \/ LeaveLoop \/ Cleanup
             \/ StopHttpd
    <2>1. UNCHANGED inbox /\ ~InPass'
      BY <1>6 DEF Listen, ListenFails, FirstStop, ReadEof, Disconnect, Closes,
         CloseServed, CloseOld, ClosePipe, Forgets, ForgetServed, ForgetOld,
         ForgetPipe, CloseCtrl, Switch, AfterOld, Install, SetRunning, SetUri,
         Play, Stop, LeaveLoop, Cleanup, StopHttpd, Goto, InPass
    <2> QED
      BY <1>0, <2>1, InboxKept DEF ReadyInv
  <1> QED
    BY <1>1, <1>2, <1>3, <1>4, <1>5, <1>6 DEF ServerLoop, Closes, Forgets

\* Every step keeps what is known of the unread lines.
LEMMA CommandNext == OrderInv /\ CommandInv /\ [Next]_vars => CommandInv'
  <1> SUFFICES ASSUME OrderInv, CommandInv, [Next]_vars
               PROVE  CommandInv'
    OBVIOUS
  <1>0. dataConnected \in Nat
    BY DEF OrderInv, TypeOK, SocketsTypeOK
  <1>1. CASE ServerLoop /\ UNCHANGED clientVars
    BY <1>1, CommandServer
  <1>2. CASE JoinHttpd \/ Signal \/ SecondSignal
    <2>1. InboxInv'
      BY <1>0, <1>2, InboxKept DEF JoinHttpd, Signal, SecondSignal, sockVars,
         CommandInv
    <2> QED
      BY <1>2, <2>1 DEF JoinHttpd, Signal, SecondSignal, sockVars, CommandInv,
         ReadyInv, InPass, Goto, Readable
  <1>3. ASSUME NEW c \in Clients, SayPlay(c) PROVE CommandInv'
    <2>1. PICK verb \in {"PLAY", "PLAY_NODLNA"} \cap Spoken :
            Send(c, Cmd(verb, dial[c]))
      BY <1>3 DEF SayPlay
    <2>2. /\ Cmd(verb, dial[c]) \in Command
          /\ Cmd(verb, dial[c]).for <= dataConnected
      BY <1>3 DEF SayPlay, Cmd, Command, Verbs, OrderInv, TypeOK,
         SocketsTypeOK, Conns, NoFd
    <2> QED
      BY <1>3, <2>1, <2>2, SendKeeps DEF SayPlay
  <1>4. ASSUME NEW c \in Clients, SayOther(c) PROVE CommandInv'
    <2>1. PICK verb \in {"PLAY_DIRECT", "STOP"} \cap Spoken :
            Send(c, Cmd(verb, NoFd))
      BY <1>4 DEF SayOther
    <2>2. Cmd(verb, NoFd) \in Command /\ Cmd(verb, NoFd).for <= dataConnected
      BY <1>0 DEF Cmd, Command, Verbs, NoFd
    <2> QED
      BY <1>4, <2>1, <2>2, SendKeeps DEF SayOther
  <1>7. ASSUME NEW c \in Clients, SayEnd(c) PROVE CommandInv'
    <2>1. /\ Send(c, Cmd("STOP", dial[c])) /\ Cmd("STOP", dial[c]) \in Command
          /\ Cmd("STOP", dial[c]).for <= dataConnected
      BY <1>7 DEF SayEnd, Cmd, Command, Verbs, OrderInv, TypeOK,
         SocketsTypeOK, Conns, NoFd
    <2>2. Alive(c)
      BY <1>7 DEF SayEnd, Alive
    <2> QED
      BY <1>7, <2>1, <2>2, SendKeeps DEF SayEnd
  <1>5. ASSUME NEW c \in Clients,
               Connect(c) \/ Dial(c) \/ EndStream(c) \/ Exit(c)
        PROVE  CommandInv'
    <2>1. /\ UNCHANGED <<serverVars, inbox>> /\ hungUp \subseteq hungUp'
          /\ dataConnected' \in Nat /\ dataConnected' >= dataConnected
      BY <1>0, <1>5 DEF Connect, ConnectCtrl, Dial, ConnectData, EndStream,
         CloseWriter, Exit
    <2>2. InboxInv'
      BY <2>1, InboxKept DEF CommandInv
    <2> QED
      BY <2>1, <2>2 DEF CommandInv, ReadyInv, InPass, Readable, serverVars
  <1>6. CASE UNCHANGED vars
    BY <1>6 DEF vars, sockVars, serverVars, CommandInv, ReadyInv, InboxInv,
       InPass, Readable
  <1> QED
    BY <1>1, <1>2, <1>3, <1>4, <1>5, <1>6, <1>7
       DEF Next, ServerStep, Client

\* It holds in every reachable state.
LEMMA CommandAlways == Spec => []CommandInv
  <1>1. Init => CommandInv
    BY DEF Init, SocketsInit, ServerInit, CommandInv, ReadyInv, InboxInv,
       InPass
  <1> QED
    BY <1>1, CommandNext, OrderAlways, PTL DEF Spec

\* read_line blocks the server only on a client that was accepted in the
\* pass that reads from it.
THEOREM Blocks == Spec => []BlocksOnlyAfterTakeover
  <1>1. OrderInv /\ CommandInv => BlocksOnlyAfterTakeover
    BY DEF OrderInv, PassInv, CommandInv, ReadyInv, InPass,
           BlocksOnlyAfterTakeover
  <1> QED
    BY <1>1, OrderAlways, CommandAlways, PTL

\* A PLAY of a client that was not just replaced names a stream that has
\* been accepted, once the pass has emptied the listen queue poll saw.
THEOREM Pairing == Spec => []PlayFindsItsStream
  <1>1. OrderInv /\ CommandInv => PlayFindsItsStream
    <2> SUFFICES ASSUME OrderInv, CommandInv, pc = "command",
                        ctrl_fd = pfds.fd, dataAccepted >= pfds.upto,
                        inbox[ctrl_fd] # <<>>
                 PROVE  Head(inbox[ctrl_fd]).for <= dataAccepted
      BY DEF PlayFindsItsStream
    <2>1. ctrl_fd \in Clients
      BY DEF OrderInv, PassInv, TypeOK, SocketsTypeOK, ServerTypeOK, Clients,
             NoFd
    <2>2. inbox[ctrl_fd] \in Seq(Command)
      BY <2>1 DEF OrderInv, TypeOK, SocketsTypeOK
    <2>3. Head(inbox[ctrl_fd]) \in Command
      BY <2>2
    <2>4. Head(inbox[ctrl_fd]).for \in Nat
      BY <2>3 DEF Command, Conns, NoFd
    <2>5. pfds.upto \in Nat /\ dataAccepted \in Nat
      BY DEF OrderInv, TypeOK, SocketsTypeOK, ServerTypeOK, PollResult
    <2>6. Head(inbox[ctrl_fd]).for <= pfds.upto
      BY DEF OrderInv, PassInv, CommandInv, ReadyInv, InPass
    <2> QED
      BY <2>4, <2>5, <2>6
  <1> QED
    BY <1>1, OrderAlways, CommandAlways, PTL

-----------------------------------------------------------------------------
(* The whole loop implements the life cycle of a stream.                   *)

\* Steps that leave the fate of every stream as it is.
SameFates == UNCHANGED <<dataAccepted, held, data_fd>>

\* Only six actions change the fate of a stream.
LEMMA SameFatesSteps ==
    ASSUME [Next]_vars,
           ~(AcceptData \/ Closes \/ CloseCtrl \/ Install \/ Cleanup
             \/ SecondSignal)
    PROVE  SameFates
  <1>1. CASE ServerLoop
    BY <1>1 DEF Closes, Disconnect, ForgetServed, ForgetOld, ForgetPipe,
       Switch, SetRunning, StopHttpd, mediaVars, ServerLoop, SameFates, sockVars, Listen, ListenFails, FirstStop,
       Poll, AcceptCtrl, TakeCtrl,
       AcceptSecondCtrl, Takeover, AcceptFails, ReadEof, ReadPlay, ReadLine,
       SetUri, Play, ReadPlayDirect, ReadStop, Stop, ReadUnknown, LeaveLoop
  <1>2. CASE ~ServerLoop
    BY <1>2, ClientSteps DEF Next, ServerStep, SameFates, vars, sockVars,
       serverVars, JoinHttpd, Signal
  <1> QED
    BY <1>1, <1>2

\* Initially every stream is queued.
LEMMA FatesInit == Init => Abstract!Init
  BY DEF Init, SocketsInit, ServerInit, Abstract!Init, Abstract!Streams,
         fateOf, Conns

\* Every step is one of StreamSwitch or changes no fate.
LEMMA FatesNext ==
    OrderInv /\ LeakInv /\ [Next]_vars => [Abstract!Next]_fateOf
  <1> SUFFICES ASSUME OrderInv, LeakInv, [Next]_vars
               PROVE  [Abstract!Next]_fateOf
    OBVIOUS
  <1> USE DEF Conns, NoFd, Abstract!Streams
  <1>0. /\ MaxConns \in Nat
        /\ dataAccepted \in Nat /\ data_fd \in {NoFd, dataAccepted}
        /\ pipe_rd \in Nat /\ pipe_rd <= dataAccepted
        /\ dataAccepted <= dataConnected /\ dataConnected <= MaxConns
        /\ dataConnected \in Nat
        /\ pipe_rd # NoFd => pipe_rd # data_fd
        /\ pc \in {"install", "set_pipe"} => data_fd # NoFd /\ pipe_rd = NoFd
        /\ pc \in {"close_served", "close_old"} => pipe_rd # NoFd
        /\ pc = "close_ctrl" => pipe_rd = NoFd
        /\ pc = "accept_data" => dataAccepted < dataConnected
    BY DEF OrderInv, TypeOK, ServerTypeOK, SocketsTypeOK, FdsInv, PassInv,
           DataPending
  <1>00. /\ held \subseteq {data_fd, pipe_rd} \ {NoFd}
         /\ pc \notin Closed \cup Forgetting
              => held = {data_fd, pipe_rd} \ {NoFd}
    BY DEF LeakInv, NoLeak, OpenFds, Closed, Forgetting
  <1>1. CASE AcceptData
    <2> DEFINE d == dataAccepted + 1
    <2>1. /\ dataAccepted' = d /\ data_fd' = d /\ pc = "accept_data"
          /\ held' = (held \ {data_fd}) \cup {d}
      BY <1>1 DEF AcceptData
    <2>2. d \in Conns /\ fateOf[d] = "queued"
      BY <1>0, <2>1 DEF fateOf
    <2>3. \A e \in 1..(d - 1) : fateOf[e] # "queued"
      BY <1>0 DEF fateOf
    <2>4. \A e \in Conns :
            fateOf'[e] = IF e = d THEN "waiting"
                         ELSE IF fateOf[e] = "waiting" THEN "closed"
                         ELSE fateOf[e]
      BY <1>0, <1>00, <2>1 DEF fateOf, Closed, Forgetting
    <2>5. Abstract!Arrive(d)
      BY <2>2, <2>3, <2>4 DEF Abstract!Arrive, fateOf
    <2> QED
      BY <2>2, <2>5 DEF Abstract!Next
  <1>2. CASE CloseCtrl \/ Cleanup \/ SecondSignal
    <2>1. dataAccepted' = dataAccepted /\ held' = {}
      BY <1>2, <1>0, <1>00 DEF CloseCtrl, Cleanup, SecondSignal
    <2>2. \A e \in Conns :
            fateOf'[e] = IF fateOf[e] = "queued" THEN "queued" ELSE "closed"
      BY <2>1 DEF fateOf
    <2>3. Abstract!Reset
      BY <2>2 DEF Abstract!Reset, fateOf
    <2> QED
      BY <2>3 DEF Abstract!Next
  <1>3. CASE Closes
    <2>1. /\ dataAccepted' = dataAccepted /\ data_fd' = data_fd
          /\ held' = held \ {pipe_rd} /\ pc \in {"close_served", "close_old"}
      BY <1>3 DEF Closes, CloseServed, CloseOld, ClosePipe, sockVars
    <2>2. pipe_rd \in Conns /\ fateOf[pipe_rd] = "current"
      BY <1>0, <1>00, <2>1 DEF fateOf, Closed, Forgetting
    <2>3. \A e \in Conns :
            fateOf'[e] = IF e = pipe_rd THEN "closed" ELSE fateOf[e]
      BY <1>0, <2>1 DEF fateOf
    <2>4. Abstract!End(pipe_rd)
      BY <2>2, <2>3 DEF Abstract!End, fateOf
    <2> QED
      BY <2>2, <2>4 DEF Abstract!Next
  <1>4. CASE Install
    <2>1. /\ dataAccepted' = dataAccepted /\ data_fd' = NoFd
          /\ held' = held /\ held = {data_fd}
      BY <1>4, <1>0, <1>00 DEF Install, sockVars, Closed, Forgetting
    <2>2. data_fd \in Conns /\ fateOf[data_fd] = "waiting"
      BY <1>4, <1>0, <2>1 DEF fateOf, Install
    <2>3. \A e \in Conns : fateOf[e] # "current"
      BY <2>1 DEF fateOf
    <2>4. \A e \in Conns :
            fateOf'[e] = IF e = data_fd THEN "current" ELSE fateOf[e]
      BY <1>0, <2>1, <2>2 DEF fateOf
    <2>5. Abstract!Start(data_fd)
      BY <2>2, <2>3, <2>4 DEF Abstract!Start, fateOf
    <2> QED
      BY <2>2, <2>5 DEF Abstract!Next
  <1>5. CASE SameFates
    BY <1>5 DEF SameFates, fateOf
  <1> QED
    BY <1>1, <1>2, <1>3, <1>4, <1>5, SameFatesSteps

\* The server's loop, with any clients, does to the data streams only what
\* StreamSwitch allows.
THEOREM Refinement == Spec => ImplementsStreamSwitch
  BY LeakAlways, FatesInit, FatesNext, OrderAlways, PTL
     DEF Spec, ImplementsStreamSwitch, Abstract!Spec
=============================================================================
