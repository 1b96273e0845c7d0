---------------------------- MODULE System_proofs ----------------------------
(***************************************************************************)
(* Proofs about the real client with its two threads beside the server:    *)
(* for any number of files, streams and unread commands, every mode.       *)
(***************************************************************************)
EXTENDS System, TLAPS

USE MaxClientsAssumption, MaxConnsAssumption, MaxFilesAssumption,
    ModesAssumption, SpeaksAssumption

\* The places where the thread of the last stream, if there was one, has been
\* joined, where one exists, and where no stream may be open.
NoThreadAt == {"connect", "file", "direct", "direct_keys", "dial", "open", "create",
               "close", "redial", "reopen"}
ThreadAt == {"check", "say_play", "keys", "seek", "seek_join", "abandon"}
NoStreamAt == {"connect", "file", "direct", "direct_keys", "dial", "redial", "close",
               "bye", "exited"}
OpeningAt == {"open", "create", "reopen"}

\* What the main thread knows of its connections and of itself.
MainInv ==
    /\ dataConnected \in Nat /\ ctrlConnected \in Nat
    /\ mode \in Modes
    /\ cpc \in CPCs
    /\ cpc = "connect" => hungUp = {}
    /\ cpc \notin {"connect", "exited"} => Me \in (1..ctrlConnected) \ hungUp
    /\ cpc \in {"direct", "direct_keys"} => DirectPlay
    /\ cpc \in {"open", "create", "check", "say_play", "reopen"} =>
         dialed # NoFd /\ ~announced
    /\ released /\ ~DirectPlay => cpc \in {"file", "bye", "exited"}

\* Where the media thread is, by the place the main thread is at.
JoinInv ==
    /\ thread \in ThreadStates
    /\ cpc \in NoThreadAt => thread \in {"none", "joined"}
    /\ cpc \in ThreadAt => thread \notin {"none", "joined"}
    /\ cpc \in {"stop", "halt", "join"} /\ ~DirectPlay /\ ~seekFailed =>
         thread \notin {"none", "joined"}

\* Whose the open stream is.
StreamInv ==
    /\ writing \subseteq {dialed} /\ NoFd \notin writing
    /\ cpc \in NoStreamAt => writing = {}
    /\ cpc \in OpeningAt => pipe_wr = dialed /\ dialed \in writing
    /\ thread \in {"none", "clear", "ended", "joined"} /\ cpc \notin OpeningAt =>
         writing = {}
    /\ thread \in {"run", "tail", "close"} /\ cpc \notin {"bye", "exited"} =>
         pipe_wr = dialed /\ pipe_wr \in writing

ClientInv == MainInv /\ JoinInv /\ StreamInv

\* Initially there is neither thread nor stream.
LEMMA ClientInit == SysInit => ClientInv
  BY DEF SysInit, SocketsInit, PlayerInit, ClientInv, MainInv, JoinInv, StreamInv, CPCs,
     ThreadStates, NoThreadAt, ThreadAt, NoStreamAt, OpeningAt, NoFd

\* The server never touches what the client has connected or holds open.
LEMMA ServerKeeps ==
    ASSUME ServerSide
    PROVE  /\ UNCHANGED <<playerVars, mode>>
           /\ UNCHANGED <<ctrlConnected, dataConnected, hungUp, writing>>
  <1> DEFINE Kept == UNCHANGED <<ctrlConnected, dataConnected, hungUp, writing>>
  <1>1. UNCHANGED <<playerVars, mode>>
    BY DEF ServerSide, clientSide
  <1>2. Listen \/ ListenFails \/ FirstStop \/ Poll \/ AcceptCtrl \/ AcceptSecondCtrl
        \/ Takeover \/ AcceptData \/ AcceptFails => Kept
    BY DEF Listen, ListenFails, FirstStop, Poll, AcceptCtrl, AcceptSecondCtrl,
       TakeCtrl, Takeover, AcceptData, AcceptFails, sockVars
  <1>3. ReadEof \/ Disconnect \/ ReadPlay \/ Switch \/ Install \/ SetUri \/ Play => Kept
    BY DEF ReadEof, Disconnect, ReadPlay, ReadLine, Switch, Install, SetUri, Play,
       sockVars
  <1>5. CloseServed \/ ForgetServed \/ CloseCtrl \/ CloseOld \/ ForgetOld \/ SetRunning
        \/ StopHttpd => Kept
    BY DEF CloseServed, ForgetServed, CloseCtrl, CloseOld, ForgetOld, ClosePipe,
       ForgetPipe, SetRunning, StopHttpd, sockVars
  <1>4. ReadPlayDirect \/ ReadStop \/ Stop \/ ReadUnknown \/ LeaveLoop \/ Cleanup
        \/ JoinHttpd \/ Signal \/ SecondSignal => Kept
    BY DEF ReadPlayDirect, ReadStop, ReadLine, Stop, ReadUnknown, LeaveLoop, Cleanup,
       JoinHttpd, Signal, SecondSignal, sockVars
  <1> QED
    BY <1>1, <1>2, <1>3, <1>4, <1>5 DEF ServerSide, ServerLoop

\* What the invariant depends on.
invVars == <<cpc, dataConnected, ctrlConnected, mode, hungUp, dialed, announced,
             released, thread, seekFailed, writing, pipe_wr>>

\* The invariant speaks of nothing but invVars.
LEMMA Unmoved == ClientInv /\ UNCHANGED invVars => ClientInv'
  <1> SUFFICES ASSUME ClientInv, UNCHANGED invVars PROVE ClientInv'
    OBVIOUS
  <1>1. MainInv'
    BY DEF ClientInv, MainInv, invVars, DirectPlay
  <1>2. JoinInv'
    BY DEF ClientInv, JoinInv, invVars, DirectPlay
  <1>3. StreamInv'
    BY DEF ClientInv, StreamInv, invVars
  <1> QED
    BY <1>1, <1>2, <1>3 DEF ClientInv

\* The steps of the client's main thread.
LEMMA MainStep == ASSUME ClientInv, MainThread, UNCHANGED mode PROVE ClientInv'
  <1> USE DEF NoThreadAt, ThreadAt, NoStreamAt, OpeningAt, CPCs, ThreadStates,
       ClientInv, threadVars, sockVars, mainVars, DirectPlay, Me, NoFd
  <1>1. CASE ConnectServer
    <2>1. MainInv'
      BY <1>1 DEF ConnectServer, ConnectCtrl, Screen, Clients, MainInv
    <2>2. JoinInv'
      BY <1>1 DEF ConnectServer, ConnectCtrl, Screen, Clients, MainInv, JoinInv
    <2>3. StreamInv'
      BY <1>1 DEF ConnectServer, ConnectCtrl, Screen, Clients, MainInv, JoinInv,
         StreamInv
    <2> QED
      BY <2>1, <2>2, <2>3
  <1>2. CASE NoServer
    <2>1. MainInv'
      BY <1>2 DEF NoServer, MainInv
    <2>2. JoinInv'
      BY <1>2 DEF NoServer, MainInv, JoinInv
    <2>3. StreamInv'
      BY <1>2 DEF NoServer, MainInv, JoinInv, StreamInv
    <2> QED
      BY <2>1, <2>2, <2>3
  <1>3. CASE SkipUrl
    <2>1. MainInv'
      BY <1>3 DEF SkipUrl, NextFile, Screen, MainInv
    <2>2. JoinInv'
      BY <1>3 DEF SkipUrl, NextFile, Screen, MainInv, JoinInv
    <2>3. StreamInv'
      BY <1>3 DEF SkipUrl, NextFile, Screen, MainInv, JoinInv, StreamInv
    <2> QED
      BY <2>1, <2>2, <2>3
  <1>4. CASE Probe
    <2>1. MainInv'
      BY <1>4 DEF Probe, NextFile, ResetMedia, Screen, MainInv
    <2>2. JoinInv'
      BY <1>4 DEF Probe, NextFile, ResetMedia, Screen, MainInv, JoinInv
    <2>3. StreamInv'
      BY <1>4 DEF Probe, NextFile, ResetMedia, Screen, MainInv, JoinInv, StreamInv
    <2> QED
      BY <2>1, <2>2, <2>3
  <1>5. CASE NoMoreFiles
    <2>1. MainInv'
      BY <1>5 DEF NoMoreFiles, MainInv
    <2>2. JoinInv'
      BY <1>5 DEF NoMoreFiles, MainInv, JoinInv
    <2>3. StreamInv'
      BY <1>5 DEF NoMoreFiles, MainInv, JoinInv, StreamInv
    <2> QED
      BY <2>1, <2>2, <2>3
  <1>6. CASE SayPlayDirect
    <2>1. MainInv'
      BY <1>6 DEF SayPlayDirect, Send, MainInv
    <2>2. JoinInv'
      BY <1>6 DEF SayPlayDirect, Send, MainInv, JoinInv
    <2>3. StreamInv'
      BY <1>6 DEF SayPlayDirect, Send, MainInv, JoinInv, StreamInv
    <2> QED
      BY <2>1, <2>2, <2>3
  <1>7. CASE DirectKeys
    <2>1. MainInv'
      BY <1>7 DEF DirectKeys, MainInv
    <2>2. JoinInv'
      BY <1>7 DEF DirectKeys, MainInv, JoinInv
    <2>3. StreamInv'
      BY <1>7 DEF DirectKeys, MainInv, JoinInv, StreamInv
    <2> QED
      BY <2>1, <2>2, <2>3
  <1>8. CASE LeaveDirect
    <2>1. MainInv'
      BY <1>8 DEF LeaveDirect, Send, MainInv
    <2>2. JoinInv'
      BY <1>8 DEF LeaveDirect, Send, MainInv, JoinInv
    <2>3. StreamInv'
      BY <1>8 DEF LeaveDirect, Send, MainInv, JoinInv, StreamInv
    <2> QED
      BY <2>1, <2>2, <2>3
  <1>9. CASE DialStream
    <2>1. MainInv'
      BY <1>9 DEF DialStream, ConnectData, Screen, MainInv
    <2>2. JoinInv'
      BY <1>9 DEF DialStream, ConnectData, Screen, MainInv, JoinInv
    <2>3. StreamInv'
      BY <1>9 DEF DialStream, ConnectData, Screen, MainInv, JoinInv, StreamInv
    <2> QED
      BY <2>1, <2>2, <2>3
  <1>10. CASE DialFails
    <2>1. MainInv'
      BY <1>10 DEF DialFails, NextFile, Screen, MainInv
    <2>2. JoinInv'
      BY <1>10 DEF DialFails, NextFile, Screen, MainInv, JoinInv
    <2>3. StreamInv'
      BY <1>10 DEF DialFails, NextFile, Screen, MainInv, JoinInv, StreamInv
    <2> QED
      BY <2>1, <2>2, <2>3
  <1>11. CASE Open
    <2>1. MainInv'
      BY <1>11 DEF Open, MainInv
    <2>2. JoinInv'
      BY <1>11 DEF Open, MainInv, JoinInv
    <2>3. StreamInv'
      BY <1>11 DEF Open, MainInv, JoinInv, StreamInv
    <2> QED
      BY <2>1, <2>2, <2>3
  <1>12. CASE Create
    <2>1. MainInv'
      BY <1>12 DEF Create, Screen, MainInv
    <2>2. JoinInv'
      BY <1>12 DEF Create, Screen, MainInv, JoinInv
    <2>3. StreamInv'
      BY <1>12 DEF Create, Screen, MainInv, JoinInv, StreamInv
    <2> QED
      BY <2>1, <2>2, <2>3
  <1>13. CASE OpenFails
    <2>1. MainInv'
      BY <1>13 DEF OpenFails, NextFile, CloseWriter, Screen, MainInv
    <2>2. JoinInv'
      BY <1>13 DEF OpenFails, NextFile, CloseWriter, Screen, MainInv, JoinInv
    <2>3. StreamInv'
      BY <1>13 DEF OpenFails, NextFile, CloseWriter, Screen, MainInv, JoinInv, StreamInv
    <2> QED
      BY <2>1, <2>2, <2>3
  <1>14. CASE Check
    <2>1. MainInv'
      BY <1>14 DEF Check, Screen, MainInv
    <2>2. JoinInv'
      BY <1>14 DEF Check, Screen, MainInv, JoinInv
    <2>3. StreamInv'
      BY <1>14 DEF Check, Screen, MainInv, JoinInv, StreamInv
    <2> QED
      BY <2>1, <2>2, <2>3
  <1>15. CASE Abandon
    <2>1. MainInv'
      BY <1>15 DEF Abandon, CloseWriter, MainInv
    <2>2. JoinInv'
      BY <1>15 DEF Abandon, CloseWriter, MainInv, JoinInv
    <2>3. StreamInv'
      BY <1>15 DEF Abandon, CloseWriter, MainInv, JoinInv, StreamInv
    <2> QED
      BY <2>1, <2>2, <2>3
  <1>16. CASE SayPlay
    <2>1. MainInv'
      BY <1>16 DEF SayPlay, Send, MainInv
    <2>2. JoinInv'
      BY <1>16 DEF SayPlay, Send, MainInv, JoinInv
    <2>3. StreamInv'
      BY <1>16 DEF SayPlay, Send, MainInv, JoinInv, StreamInv
    <2> QED
      BY <2>1, <2>2, <2>3
  <1>17. CASE LeaveKeys
    <2>1. MainInv'
      BY <1>17 DEF LeaveKeys, Screen, MainInv
    <2>2. JoinInv'
      BY <1>17 DEF LeaveKeys, Screen, MainInv, JoinInv
    <2>3. StreamInv'
      BY <1>17 DEF LeaveKeys, Screen, MainInv, JoinInv, StreamInv
    <2> QED
      BY <2>1, <2>2, <2>3
  <1>18. CASE WantSeek
    <2>1. MainInv'
      BY <1>18 DEF WantSeek, Screen, MainInv
    <2>2. JoinInv'
      BY <1>18 DEF WantSeek, Screen, MainInv, JoinInv
    <2>3. StreamInv'
      BY <1>18 DEF WantSeek, Screen, MainInv, JoinInv, StreamInv
    <2> QED
      BY <2>1, <2>2, <2>3
  <1>19. CASE SeekHalts
    <2>1. MainInv'
      BY <1>19 DEF SeekHalts, MainInv
    <2>2. JoinInv'
      BY <1>19 DEF SeekHalts, MainInv, JoinInv
    <2>3. StreamInv'
      BY <1>19 DEF SeekHalts, MainInv, JoinInv, StreamInv
    <2> QED
      BY <2>1, <2>2, <2>3
  <1>20. CASE SeekJoins
    <2>1. MainInv'
      BY <1>20 DEF SeekJoins, MainInv
    <2>2. JoinInv'
      BY <1>20 DEF SeekJoins, MainInv, JoinInv
    <2>3. StreamInv'
      BY <1>20 DEF SeekJoins, MainInv, JoinInv, StreamInv
    <2> QED
      BY <2>1, <2>2, <2>3
  <1>21. CASE Redial
    <2>1. MainInv'
      BY <1>21 DEF Redial, ConnectData, MainInv
    <2>2. JoinInv'
      BY <1>21 DEF Redial, ConnectData, MainInv, JoinInv
    <2>3. StreamInv'
      BY <1>21 DEF Redial, ConnectData, MainInv, JoinInv, StreamInv
    <2> QED
      BY <2>1, <2>2, <2>3
  <1>22. CASE RedialFails
    <2>1. MainInv'
      BY <1>22 DEF RedialFails, MainInv
    <2>2. JoinInv'
      BY <1>22 DEF RedialFails, MainInv, JoinInv
    <2>3. StreamInv'
      BY <1>22 DEF RedialFails, MainInv, JoinInv, StreamInv
    <2> QED
      BY <2>1, <2>2, <2>3
  <1>23. CASE Reopen
    <2>1. MainInv'
      BY <1>23 DEF Reopen, MainInv
    <2>2. JoinInv'
      BY <1>23 DEF Reopen, MainInv, JoinInv
    <2>3. StreamInv'
      BY <1>23 DEF Reopen, MainInv, JoinInv, StreamInv
    <2> QED
      BY <2>1, <2>2, <2>3
  <1>24. CASE ReopenFails
    <2>1. MainInv'
      BY <1>24 DEF ReopenFails, CloseWriter, MainInv
    <2>2. JoinInv'
      BY <1>24 DEF ReopenFails, CloseWriter, MainInv, JoinInv
    <2>3. StreamInv'
      BY <1>24 DEF ReopenFails, CloseWriter, MainInv, JoinInv, StreamInv
    <2> QED
      BY <2>1, <2>2, <2>3
  <1>25. CASE SayStop
    <2>1. MainInv'
      BY <1>25 DEF SayStop, Send, MainInv
    <2>2. JoinInv'
      BY <1>25 DEF SayStop, Send, MainInv, JoinInv
    <2>3. StreamInv'
      BY <1>25 DEF SayStop, Send, MainInv, JoinInv, StreamInv
    <2> QED
      BY <2>1, <2>2, <2>3
  <1>26. CASE Halt
    <2>1. MainInv'
      BY <1>26 DEF Halt, MainInv
    <2>2. JoinInv'
      BY <1>26 DEF Halt, MainInv, JoinInv
    <2>3. StreamInv'
      BY <1>26 DEF Halt, MainInv, JoinInv, StreamInv
    <2> QED
      BY <2>1, <2>2, <2>3
  <1>27. CASE Join
    <2>1. MainInv'
      BY <1>27 DEF Join, Joinable, MainInv
    <2>2. JoinInv'
      BY <1>27 DEF Join, Joinable, MainInv, JoinInv
    <2>3. StreamInv'
      BY <1>27 DEF Join, Joinable, MainInv, JoinInv, StreamInv
    <2> QED
      BY <2>1, <2>2, <2>3
  <1>28. CASE MediaClose
    <2>1. MainInv'
      BY <1>28 DEF MediaClose, NextFile, CloseWriter, Screen, MainInv
    <2>2. JoinInv'
      BY <1>28 DEF MediaClose, NextFile, CloseWriter, Screen, MainInv, JoinInv
    <2>3. StreamInv'
      BY <1>28 DEF MediaClose, NextFile, CloseWriter, Screen, MainInv, JoinInv,
         StreamInv
    <2> QED
      BY <2>1, <2>2, <2>3
  <1>29. CASE Bye
    <2>1. MainInv'
      BY <1>29 DEF Bye, Die, MainInv
    <2>2. JoinInv'
      BY <1>29 DEF Bye, Die, MainInv, JoinInv
    <2>3. StreamInv'
      BY <1>29 DEF Bye, Die, MainInv, JoinInv, StreamInv
    <2> QED
      BY <2>1, <2>2, <2>3
  <1>30. CASE Crash
    <2>1. MainInv'
      BY <1>30 DEF Crash, Die, Joinable, MainInv
    <2>2. JoinInv'
      BY <1>30 DEF Crash, Die, Joinable, MainInv, JoinInv
    <2>3. StreamInv'
      BY <1>30 DEF Crash, Die, Joinable, MainInv, JoinInv, StreamInv
    <2> QED
      BY <2>1, <2>2, <2>3
  <1> QED
    BY <1>1, <1>2, <1>3, <1>4, <1>5, <1>6, <1>7, <1>8, <1>9, <1>10, <1>11, <1>12,
       <1>13, <1>14, <1>15, <1>16, <1>17, <1>18, <1>19, <1>20, <1>21, <1>22, <1>23,
       <1>24, <1>25, <1>26, <1>27, <1>28, <1>29, <1>30 DEF MainThread

\* The steps of the media thread.
LEMMA ThreadStep == ASSUME ClientInv, MediaThread, UNCHANGED mode PROVE ClientInv'
  <1> USE DEF NoThreadAt, ThreadAt, NoStreamAt, OpeningAt, CPCs, ThreadStates,
       ClientInv, threadVars, sockVars, mainVars, DirectPlay, Me, NoFd
  <1>1. CASE EndLoop
    <2>1. MainInv'
      BY <1>1 DEF EndLoop, Screen, Alive, MainInv
    <2>2. JoinInv'
      BY <1>1 DEF EndLoop, Screen, Alive, MainInv, JoinInv
    <2>3. StreamInv'
      BY <1>1 DEF EndLoop, Screen, Alive, MainInv, JoinInv, StreamInv
    <2> QED
      BY <2>1, <2>2, <2>3
  <1>2. CASE ThreadStop
    <2>1. MainInv'
      BY <1>2 DEF ThreadStop, Send, Alive, MainInv
    <2>2. JoinInv'
      BY <1>2 DEF ThreadStop, Send, Alive, MainInv, JoinInv
    <2>3. StreamInv'
      BY <1>2 DEF ThreadStop, Send, Alive, MainInv, JoinInv, StreamInv
    <2> QED
      BY <2>1, <2>2, <2>3
  <1>3. CASE ThreadClose
    <2>1. MainInv'
      BY <1>3 DEF ThreadClose, CloseWriter, Alive, MainInv
    <2>2. JoinInv'
      BY <1>3 DEF ThreadClose, CloseWriter, Alive, MainInv, JoinInv
    <2>3. StreamInv'
      BY <1>3 DEF ThreadClose, CloseWriter, Alive, MainInv, JoinInv, StreamInv
    <2> QED
      BY <2>1, <2>2, <2>3
  <1>4. CASE ThreadEnd
    <2>1. MainInv'
      BY <1>4 DEF ThreadEnd, Alive, Screen, MainInv
    <2>2. JoinInv'
      BY <1>4 DEF ThreadEnd, Alive, Screen, MainInv, JoinInv
    <2>3. StreamInv'
      BY <1>4 DEF ThreadEnd, Alive, Screen, MainInv, JoinInv, StreamInv
    <2> QED
      BY <2>1, <2>2, <2>3
  <1>5. CASE HeaderFails
    <2>1. MainInv'
      BY <1>5 DEF HeaderFails, CloseWriter, Alive, MainInv
    <2>2. JoinInv'
      BY <1>5 DEF HeaderFails, CloseWriter, Alive, MainInv, JoinInv
    <2>3. StreamInv'
      BY <1>5 DEF HeaderFails, CloseWriter, Alive, MainInv, JoinInv, StreamInv
    <2> QED
      BY <2>1, <2>2, <2>3
  <1> QED
    BY <1>1, <1>2, <1>3, <1>4, <1>5 DEF MediaThread

\* The second signal, at any place.
LEMMA KillStep == ASSUME ClientInv, Kill, UNCHANGED mode PROVE ClientInv'
  <1> USE DEF NoThreadAt, ThreadAt, NoStreamAt, OpeningAt, CPCs, ThreadStates,
       ClientInv, threadVars, sockVars, mainVars, DirectPlay, Me, NoFd
  <1>1. CASE Kill
    <2>1. MainInv'
      BY <1>1 DEF Kill, Die, Alive, MainInv
    <2>2. JoinInv'
      BY <1>1 DEF Kill, Die, Alive, MainInv, JoinInv
    <2>3. StreamInv'
      BY <1>1 DEF Kill, Die, Alive, MainInv, JoinInv, StreamInv
    <2> QED
      BY <2>1, <2>2, <2>3
  <1> QED
    BY <1>1 DEF Kill

\* All steps together.
LEMMA ClientNext == ClientInv /\ [SysNext]_sysVars => ClientInv'
  <1> SUFFICES ASSUME ClientInv, [SysNext]_sysVars PROVE ClientInv'
    OBVIOUS
  <1>1. CASE UNCHANGED sysVars
    BY <1>1, Unmoved DEF sysVars, playerVars, threadVars, sockVars, invVars
  <1>2. CASE ServerSide
    BY <1>2, ServerKeeps, Unmoved DEF playerVars, threadVars, invVars
  <1>3. CASE ClientSide
    <2>1. CASE MainThread
      BY <1>3, <2>1, MainStep DEF ClientSide
    <2>2. CASE MediaThread
      BY <1>3, <2>2, ThreadStep DEF ClientSide
    <2>3. CASE Interrupt
      BY <1>3, <2>3, Unmoved DEF ClientSide, Interrupt, threadVars, sockVars, invVars
    <2>4. CASE Kill
      BY <1>3, <2>4, KillStep DEF ClientSide
    <2> QED
      BY <1>3, <2>1, <2>2, <2>3, <2>4 DEF ClientSide
  <1> QED
    BY <1>1, <1>2, <1>3 DEF SysNext

\* The invariant holds in every reachable state.
LEMMA ClientInvariance == SysSpec => []ClientInv
  BY ClientInit, ClientNext, PTL DEF SysSpec

-----------------------------------------------------------------------------
(* What follows.                                                           *)

\* The numbers of the client in their ranges: every place of the file loop is
\* reached with a file left.
RangesInv ==
    /\ pipe_wr \in 0..dataConnected
    /\ dialed \in 0..dataConnected
    /\ fileidx \in 0..MaxFiles
    /\ ~Screen /\ cpc \notin {"connect", "file", "bye", "exited"} => fileidx < MaxFiles

\* Its flags.
FlagsInv ==
    /\ crunning \in BOOLEAN /\ mrunning \in BOOLEAN /\ released \in BOOLEAN
    /\ announced \in BOOLEAN /\ seekFailed \in BOOLEAN

\* Every step of the main thread keeps the ranges.
LEMMA RangesMain ==
    ASSUME ClientInv, RangesInv, MainThread, UNCHANGED mode PROVE RangesInv'
  <1> USE DEF RangesInv, threadVars, sockVars, Screen, NoFd, NextFile
  <1>0. dataConnected \in Nat
    BY DEF ClientInv, MainInv
  <1>1. CASE ConnectServer \/ NoServer \/ SkipUrl \/ Probe \/ NoMoreFiles
    BY <1>0, <1>1 DEF ConnectServer, ConnectCtrl, NoServer, SkipUrl, Probe, ResetMedia,
       NoMoreFiles
  <1>2. CASE SayPlayDirect \/ DirectKeys \/ LeaveDirect \/ SayPlay \/ SayStop
    BY <1>0, <1>2 DEF SayPlayDirect, DirectKeys, LeaveDirect, SayPlay, SayStop, Send
  <1>3. CASE DialStream \/ DialFails \/ Open \/ Create \/ OpenFails
    BY <1>0, <1>3 DEF DialStream, ConnectData, DialFails, Open, Create, OpenFails,
       CloseWriter
  <1>4. CASE Check \/ Abandon \/ LeaveKeys \/ WantSeek \/ SeekHalts \/ SeekJoins
    BY <1>0, <1>4 DEF Check, Abandon, CloseWriter, LeaveKeys, WantSeek, SeekHalts,
       SeekJoins
  <1>5. CASE Redial \/ RedialFails \/ Reopen \/ ReopenFails
    BY <1>0, <1>5 DEF Redial, ConnectData, RedialFails, Reopen, ReopenFails, CloseWriter
  <1>6. CASE Halt \/ Join \/ MediaClose \/ Bye \/ Crash
    BY <1>0, <1>6 DEF Halt, Join, Joinable, MediaClose, CloseWriter, Bye, Crash, Die
  <1> QED
    BY <1>1, <1>2, <1>3, <1>4, <1>5, <1>6 DEF MainThread

\* So does everything else.
LEMMA RangesNext == ClientInv /\ RangesInv /\ [SysNext]_sysVars => RangesInv'
  <1> SUFFICES ASSUME ClientInv, RangesInv, [SysNext]_sysVars PROVE RangesInv'
    OBVIOUS
  <1> USE DEF RangesInv, threadVars, sockVars, mainVars, Screen, NoFd
  <1>1. CASE UNCHANGED sysVars
    BY <1>1 DEF sysVars, playerVars
  <1>2. CASE ServerSide
    BY <1>2, ServerKeeps DEF playerVars
  <1>3. CASE ClientSide
    <2>0. dataConnected \in Nat
      BY DEF ClientInv, MainInv
    <2>1. CASE MainThread
      BY <1>3, <2>1, RangesMain DEF ClientSide
    <2>2. CASE MediaThread
      BY <1>3, <2>0, <2>2 DEF ClientSide, MediaThread, EndLoop, ThreadStop, Send,
         ThreadClose, ThreadEnd, HeaderFails, CloseWriter
    <2>3. CASE Interrupt \/ Kill
      BY <1>3, <2>0, <2>3 DEF ClientSide, Interrupt, Kill, Die
    <2> QED
      BY <1>3, <2>1, <2>2, <2>3 DEF ClientSide
  <1> QED
    BY <1>1, <1>2, <1>3 DEF SysNext

\* No step gives a flag another value than true or false.
LEMMA FlagsNext == FlagsInv /\ [SysNext]_sysVars => FlagsInv'
  <1> SUFFICES ASSUME FlagsInv, [SysNext]_sysVars PROVE FlagsInv'
    OBVIOUS
  <1> USE DEF FlagsInv, threadVars, mainVars, NextFile
  <1>1. CASE UNCHANGED sysVars
    BY <1>1 DEF sysVars, playerVars
  <1>2. CASE ServerSide
    BY <1>2, ServerKeeps DEF playerVars
  <1>3. CASE ClientSide
    <2>1. CASE ConnectServer \/ NoServer \/ SkipUrl \/ Probe \/ NoMoreFiles
      BY <2>1, Zenon DEF Screen, ConnectServer, NoServer, SkipUrl, Probe, ResetMedia,
         NoMoreFiles
    <2>2. CASE SayPlayDirect \/ DirectKeys \/ LeaveDirect \/ SayPlay \/ SayStop
      BY <2>2, Zenon DEF SayPlayDirect, DirectKeys, LeaveDirect, SayPlay, SayStop
    <2>3. CASE DialStream \/ DialFails \/ Open \/ Create \/ OpenFails
      BY <2>3, Zenon DEF DialStream, DialFails, Open, Create, OpenFails
    <2>4. CASE Check \/ Abandon \/ LeaveKeys \/ WantSeek \/ SeekHalts \/ SeekJoins
      BY <2>4, Zenon DEF Check, Abandon, LeaveKeys, WantSeek, SeekHalts, SeekJoins
    <2>5. CASE Redial \/ RedialFails \/ Reopen \/ ReopenFails
      BY <2>5, Zenon DEF Redial, RedialFails, Reopen, ReopenFails
    <2>6. CASE Halt \/ Join \/ MediaClose \/ Bye \/ Crash
      BY <2>6, Zenon DEF Halt, Join, MediaClose, Bye, Crash, Die
    <2>7. CASE MediaThread
      <3>1. CASE EndLoop
        BY <3>1 DEF EndLoop
      <3>2. CASE ThreadStop \/ ThreadClose \/ HeaderFails
        BY <3>2, Zenon DEF ThreadStop, ThreadClose, HeaderFails
      <3>3. CASE ThreadEnd
        BY <3>3, Zenon DEF ThreadEnd
      <3> QED
        BY <2>7, <3>1, <3>2, <3>3 DEF MediaThread
    <2>8. CASE Interrupt \/ Kill
      BY <2>8, Zenon DEF Interrupt, Kill, Die
    <2> QED
      BY <1>3, <2>1, <2>2, <2>3, <2>4, <2>5, <2>6, <2>7, <2>8 DEF ClientSide, MainThread
  <1> QED
    BY <1>1, <1>2, <1>3 DEF SysNext

\* Every variable of the client keeps its type, and the count of files its range.
THEOREM PlayerTyping == SysSpec => []PlayerTypeOK
  <1>1. SysInit => RangesInv
    BY DEF SysInit, SocketsInit, PlayerInit, RangesInv, NoFd
  <1>2. SysInit => FlagsInv
    BY Zenon DEF SysInit, PlayerInit, FlagsInv
  <1>3. ClientInv /\ RangesInv /\ FlagsInv => PlayerTypeOK
    BY Zenon DEF RangesInv, FlagsInv, ClientInv, MainInv, JoinInv, PlayerTypeOK
  <1> QED
    BY <1>1, <1>2, <1>3, RangesNext, FlagsNext, ClientInvariance, PTL DEF SysSpec

\* pthread_create never overwrites the id of a thread that has not been
\* joined, whatever keys, signals and failures came before.
THEOREM OneThreadAtATime == SysSpec => []OneThread
  <1>1. ClientInv => OneThread
    BY DEF ClientInv, JoinInv, OneThread, NoThreadAt
  <1> QED
    BY <1>1, ClientInvariance, PTL

\* The media thread writes to the socket opened for it and no other.
THEOREM KeepsItsPipe == SysSpec => []ThreadKeepsPipe
  <1>1. ClientInv => ThreadKeepsPipe
    BY DEF ClientInv, StreamInv, ThreadKeepsPipe
  <1> QED
    BY <1>1, ClientInvariance, PTL

\* The next file starts with no data socket of an earlier one left open.
THEOREM NothingLeftOpen == SysSpec => []NoStreamLeft
  <1>1. ClientInv => NoStreamLeft
    BY DEF ClientInv, StreamInv, NoStreamLeft, NoStreamAt
  <1> QED
    BY <1>1, ClientInvariance, PTL

\* Outside --direct and failed seeks the join at next_file finds a thread and
\* media_close a context that is in use.
THEOREM JoinedAndFreedOnce == SysSpec => []JoinsAndFreesOnce
  <1>1. ClientInv => JoinsAndFreesOnce
    BY DEF ClientInv, MainInv, JoinInv, JoinsAndFreesOnce, Joinable
  <1> QED
    BY <1>1, ClientInvariance, PTL

-----------------------------------------------------------------------------
(* The real client is one of the clients ServerOpen allows.                *)

\* The client is one of those of ServerOpen.
LEMMA MeIsAClient == Me \in Clients
  BY DEF Me, Clients

\* The server's steps are the same steps there.
LEMMA ServerSame ==
    (ServerLoop \/ JoinHttpd \/ Signal \/ SecondSignal) => Any!ServerStep
  <1>1. Listen => Any!Listen
    BY DEF Listen, Any!Listen, Goto, Any!Goto, NoPoll, Any!NoPoll, NoFd, Any!NoFd,
       mediaVars, Any!mediaVars
  <1>2. ListenFails => Any!ListenFails
    BY DEF ListenFails, Any!ListenFails, Goto, Any!Goto, NoPoll, Any!NoPoll, NoFd,
       Any!NoFd, sockVars, Any!sockVars, mediaVars, Any!mediaVars
  <1>3. FirstStop => Any!FirstStop
    BY DEF FirstStop, Any!FirstStop, Goto, Any!Goto, NoPoll, Any!NoPoll, NoFd,
       Any!NoFd, sockVars, Any!sockVars, mediaVars, Any!mediaVars
  <1>4. Poll => Any!Poll
    BY DEF Poll, Any!Poll, CtrlPending, Any!CtrlPending, DataPending,
       Any!DataPending, Readable, Any!Readable, NoFd, Any!NoFd, AfterPoll,
       Any!AfterPoll, AfterCtrl, Any!AfterCtrl, AfterData, Any!AfterData, sockVars,
       Any!sockVars, mediaVars, Any!mediaVars
  <1>5. AcceptCtrl => Any!AcceptCtrl
    BY DEF AcceptCtrl, Any!AcceptCtrl, NoFd, Any!NoFd, TakeCtrl, Any!TakeCtrl, Goto,
       Any!Goto, NoPoll, Any!NoPoll, AfterCtrl, Any!AfterCtrl, AfterData,
       Any!AfterData, mediaVars, Any!mediaVars
  <1>6. AcceptSecondCtrl => Any!AcceptSecondCtrl
    BY DEF AcceptSecondCtrl, Any!AcceptSecondCtrl, NoFd, Any!NoFd, TakeCtrl,
       Any!TakeCtrl, Goto, Any!Goto, NoPoll, Any!NoPoll, mediaVars, Any!mediaVars
  <1>7. Takeover => Any!Takeover
    BY DEF Takeover, Any!Takeover, Goto, Any!Goto, NoPoll, Any!NoPoll, NoFd,
       Any!NoFd, AfterCtrl, Any!AfterCtrl, AfterData, Any!AfterData, mediaVars,
       Any!mediaVars
  <1>8. AcceptData => Any!AcceptData
    BY DEF AcceptData, Any!AcceptData, Goto, Any!Goto, NoPoll, Any!NoPoll, NoFd,
       Any!NoFd, AfterData, Any!AfterData, mediaVars, Any!mediaVars
  <1>9. AcceptFails => Any!AcceptFails
    BY DEF AcceptFails, Any!AcceptFails, Goto, Any!Goto, NoPoll, Any!NoPoll, NoFd,
       Any!NoFd, AfterCtrl, Any!AfterCtrl, AfterData, Any!AfterData, sockVars,
       Any!sockVars, mediaVars, Any!mediaVars
  <1>10. ReadEof => Any!ReadEof
    BY DEF ReadEof, Any!ReadEof, Goto, Any!Goto, NoPoll, Any!NoPoll, NoFd, Any!NoFd,
       sockVars, Any!sockVars, mediaVars, Any!mediaVars
  <1>11. Disconnect => Any!Disconnect
    BY DEF Disconnect, Any!Disconnect, NoFd, Any!NoFd, Goto, Any!Goto, NoPoll,
       Any!NoPoll, sockVars, Any!sockVars
  <1>12. ReadPlay => Any!ReadPlay
    BY DEF ReadPlay, Any!ReadPlay, ReadLine, Any!ReadLine, Goto, Any!Goto, NoPoll,
       Any!NoPoll, NoFd, Any!NoFd, mediaVars, Any!mediaVars
  <1>13. Switch => Any!Switch
    BY DEF Switch, Any!Switch, MustCloseOld, Any!MustCloseOld, AfterOld,
       Any!AfterOld, NoFd, Any!NoFd, Goto, Any!Goto, NoPoll, Any!NoPoll, sockVars,
       Any!sockVars
  <1>14. Install => Any!Install
    BY DEF Install, Any!Install, NoFd, Any!NoFd, Goto, Any!Goto, NoPoll, Any!NoPoll,
       sockVars, Any!sockVars
  <1>15. SetUri => Any!SetUri
    BY DEF SetUri, Any!SetUri, Goto, Any!Goto, NoPoll, Any!NoPoll, NoFd, Any!NoFd,
       sockVars, Any!sockVars, mediaVars, Any!mediaVars
  <1>16. Play => Any!Play
    BY DEF Play, Any!Play, Goto, Any!Goto, NoPoll, Any!NoPoll, NoFd, Any!NoFd,
       sockVars, Any!sockVars, mediaVars, Any!mediaVars
  <1>17. ReadPlayDirect => Any!ReadPlayDirect
    BY DEF ReadPlayDirect, Any!ReadPlayDirect, ReadLine, Any!ReadLine, Direct,
       Any!Direct, Goto, Any!Goto, NoPoll, Any!NoPoll, NoFd, Any!NoFd, mediaVars,
       Any!mediaVars
  <1>18. ReadStop => Any!ReadStop
    BY DEF ReadStop, Any!ReadStop, ReadLine, Any!ReadLine, Goto, Any!Goto, NoPoll,
       Any!NoPoll, NoFd, Any!NoFd, mediaVars, Any!mediaVars
  <1>19. Stop => Any!Stop
    BY DEF Stop, Any!Stop, Goto, Any!Goto, NoPoll, Any!NoPoll, NoFd, Any!NoFd,
       sockVars, Any!sockVars, mediaVars, Any!mediaVars
  <1>20. ReadUnknown => Any!ReadUnknown
    BY DEF ReadUnknown, Any!ReadUnknown, ReadLine, Any!ReadLine, Goto, Any!Goto,
       NoPoll, Any!NoPoll, NoFd, Any!NoFd, mediaVars, Any!mediaVars
  <1>21. LeaveLoop => Any!LeaveLoop
    BY DEF LeaveLoop, Any!LeaveLoop, Goto, Any!Goto, NoPoll, Any!NoPoll, NoFd,
       Any!NoFd, sockVars, Any!sockVars, mediaVars, Any!mediaVars
  <1>22. Cleanup => Any!Cleanup
    BY DEF Cleanup, Any!Cleanup, Goto, Any!Goto, NoPoll, Any!NoPoll, NoFd, Any!NoFd,
       mediaVars, Any!mediaVars
  <1>26. (CloseServed => Any!CloseServed) /\ (CloseOld => Any!CloseOld)
    BY DEF CloseServed, Any!CloseServed, CloseOld, Any!CloseOld, ClosePipe,
       Any!ClosePipe, Goto, Any!Goto, NoPoll, Any!NoPoll, NoFd, Any!NoFd, sockVars,
       Any!sockVars, mediaVars, Any!mediaVars
  <1>27. (ForgetServed => Any!ForgetServed) /\ (ForgetOld => Any!ForgetOld)
    BY DEF ForgetServed, Any!ForgetServed, ForgetOld, Any!ForgetOld, ForgetPipe,
       Any!ForgetPipe, AfterOld, Any!AfterOld, Goto, Any!Goto, NoPoll, Any!NoPoll,
       NoFd, Any!NoFd, sockVars, Any!sockVars
  <1>28. CloseCtrl => Any!CloseCtrl
    BY DEF CloseCtrl, Any!CloseCtrl, Goto, Any!Goto, NoPoll, Any!NoPoll, NoFd,
       Any!NoFd, mediaVars, Any!mediaVars
  <1>29. SetRunning => Any!SetRunning
    BY DEF SetRunning, Any!SetRunning, Goto, Any!Goto, NoPoll, Any!NoPoll, NoFd,
       Any!NoFd, sockVars, Any!sockVars
  <1>30. StopHttpd => Any!StopHttpd
    BY DEF StopHttpd, Any!StopHttpd, Goto, Any!Goto, NoPoll, Any!NoPoll, NoFd,
       Any!NoFd, sockVars, Any!sockVars, mediaVars, Any!mediaVars
  <1>23. JoinHttpd => Any!JoinHttpd
    BY DEF JoinHttpd, Any!JoinHttpd, Goto, Any!Goto, NoPoll, Any!NoPoll, NoFd,
       Any!NoFd, sockVars, Any!sockVars, mediaVars, Any!mediaVars
  <1>24. Signal => Any!Signal
    BY DEF Signal, Any!Signal, sockVars, Any!sockVars, mediaVars, Any!mediaVars
  <1>25. SecondSignal => Any!SecondSignal
    BY DEF SecondSignal, Any!SecondSignal, Goto, Any!Goto, NoPoll, Any!NoPoll, NoFd,
       Any!NoFd, mediaVars, Any!mediaVars
  <1> QED
    BY <1>1, <1>2, <1>3, <1>4, <1>5, <1>6, <1>7, <1>8, <1>9, <1>10, <1>11, <1>12,
       <1>13, <1>14, <1>15, <1>16, <1>17, <1>18, <1>19, <1>20, <1>21, <1>22, <1>23,
       <1>24, <1>25, <1>26, <1>27, <1>28, <1>29, <1>30
       DEF ServerLoop, Any!ServerLoop, Any!ServerStep

\* What the steps of a client do there, seen from here.
Still == UNCHANGED <<sockVars, dialed, announced>>
Stutters == UNCHANGED Any!vars

\* What leaves the sockets and the server alone is a stutter there.
LEMMA StillStutters == ASSUME Still, UNCHANGED serverVars PROVE Stutters
  BY DEF Still, Stutters, Any!vars, Any!sockVars, Any!serverVars, Any!clientVars,
     sockVars, serverVars

\* Most of the client's steps touch no socket.
LEMMA QuietSteps ==
    NoServer \/ SkipUrl \/ Probe \/ DirectKeys \/ NoMoreFiles \/ DialFails \/ Open
       \/ Create \/ Check \/ LeaveKeys \/ WantSeek \/ SeekHalts \/ SeekJoins \/
       RedialFails \/ Reopen \/ Halt \/ Join \/ EndLoop \/ ThreadEnd \/ Interrupt =>
       Still
  <1> USE DEF Still, threadVars, mainVars, NextFile, ResetMedia, sockVars
  <1>1. NoServer => Still
    BY DEF NoServer
  <1>2. SkipUrl => Still
    BY DEF SkipUrl
  <1>3. Probe => Still
    BY DEF Probe
  <1>4. DirectKeys => Still
    BY DEF DirectKeys
  <1>5. NoMoreFiles => Still
    BY DEF NoMoreFiles
  <1>6. DialFails => Still
    BY DEF DialFails
  <1>7. Open => Still
    BY DEF Open
  <1>8. Create => Still
    BY DEF Create
  <1>9. Check => Still
    BY DEF Check
  <1>10. LeaveKeys => Still
    BY DEF LeaveKeys
  <1>11. WantSeek => Still
    BY DEF WantSeek
  <1>12. SeekHalts => Still
    BY DEF SeekHalts
  <1>13. SeekJoins => Still
    BY DEF SeekJoins
  <1>14. RedialFails => Still
    BY DEF RedialFails
  <1>15. Reopen => Still
    BY DEF Reopen
  <1>16. Halt => Still
    BY DEF Halt
  <1>17. Join => Still
    BY DEF Join
  <1>18. EndLoop => Still
    BY DEF EndLoop
  <1>19. ThreadEnd => Still
    BY DEF ThreadEnd
  <1>20. Interrupt => Still
    BY DEF Interrupt
  <1> QED
    BY <1>1, <1>2, <1>3, <1>4, <1>5, <1>6, <1>7, <1>8, <1>9, <1>10, <1>11, <1>12,
       <1>13, <1>14, <1>15, <1>16, <1>17, <1>18, <1>19, <1>20

\* The end of a stream, or the close of a number that names none.
LEMMA CloseEnds ==
    ASSUME ClientInv, NEW d, CloseWriter(d), UNCHANGED <<serverVars, dialed, announced>>,
           d = dialed \/ d \notin writing
    PROVE  Any!EndStream(Me) \/ Stutters
  <1>1. CASE d = dialed /\ dialed \in writing
    BY <1>1, MeIsAClient DEF CloseWriter, Any!EndStream, Any!CloseWriter,
       Any!serverVars,
       Any!clientVars, serverVars
  <1>2. CASE d \notin writing
    <2>1. writing' = writing
      BY <1>2 DEF CloseWriter
    <2>2. Still
      BY <2>1 DEF CloseWriter, Still, sockVars
    <2> QED
      BY <2>2, StillStutters
  <1> QED
    BY <1>1, <1>2

\* A line written by the main thread or by the media thread.
LEMMA LineIsAllowed ==
    ASSUME ClientInv, cpc \notin {"connect", "exited"},
           NEW verb \in {"PLAY_DIRECT", "STOP"} \cap Spoken, Send(Me, Cmd(verb, NoFd)),
           UNCHANGED <<serverVars, dialed, announced>>
    PROVE  Any!SayOther(Me)
  <1>1. Any!Alive(Me)
    BY DEF ClientInv, MainInv, Any!Alive
  <1> QED
    BY <1>1 DEF Any!SayOther, Any!Send, Send, Any!Cmd, Cmd, Any!NoFd, NoFd,
       Any!serverVars,
       Any!clientVars, serverVars

\* Dialling, for a file or after a seek, is Dial there.
LEMMA DialIsAllowed ==
    ASSUME ClientInv, cpc \in {"dial", "redial"}, ConnectData, UNCHANGED serverVars,
           dialed' = dataConnected', announced' = FALSE
    PROVE  Any!Dial(Me)
  <1>1. Any!Alive(Me) /\ writing = {}
    BY DEF ClientInv, MainInv, StreamInv, NoStreamAt, Any!Alive
  <1>2. dataConnected' = dataConnected + 1
    BY DEF ConnectData
  <1>3. [c \in Clients |-> IF c = Me THEN dialed' ELSE NoFd]
          = [[c \in Clients |-> IF c = Me THEN dialed ELSE NoFd]
                EXCEPT ![Me] = dataConnected + 1]
    BY <1>2, MeIsAClient
  <1>4. [c \in Clients |-> c = Me /\ announced']
          = [[c \in Clients |-> c = Me /\ announced] EXCEPT ![Me] = FALSE]
    BY MeIsAClient
  <1>5. Any!ConnectData
    BY DEF ConnectData, Any!ConnectData
  <1> QED
    BY <1>1, <1>3, <1>4, <1>5 DEF Any!Dial, Any!serverVars, serverVars

\* The process's end is Exit there.
LEMMA DeathIsAllowed ==
    ASSUME ClientInv, cpc \notin {"connect", "exited"}, Die, UNCHANGED serverVars
    PROVE  Any!Exit(Me)
  <1>1. Any!Alive(Me) /\ writing \subseteq {dialed}
    BY DEF ClientInv, MainInv, StreamInv, Any!Alive
  <1>2. writing' = writing \ {[c \in Clients |-> IF c = Me THEN dialed ELSE NoFd][Me]}
    BY <1>1, MeIsAClient DEF Die
  <1>3. [c \in Clients |-> IF c = Me THEN dialed' ELSE NoFd]
          = [[c \in Clients |-> IF c = Me THEN dialed ELSE NoFd] EXCEPT ![Me] = NoFd]
    BY MeIsAClient DEF Die
  <1>4. [c \in Clients |-> c = Me /\ announced']
          = [[c \in Clients |-> c = Me /\ announced] EXCEPT ![Me] = FALSE]
    BY MeIsAClient DEF Die
  <1> QED
    BY <1>1, <1>2, <1>3, <1>4 DEF Die, Any!Exit, Any!NoFd, NoFd, Any!serverVars,
       serverVars

\* SayPlay is SayPlay there.
LEMMA PlayIsAllowed ==
    ASSUME ClientInv, SayPlay, UNCHANGED serverVars PROVE Any!SayPlay(Me)
  <1>1. Any!Alive(Me) /\ dialed # NoFd /\ ~announced
    BY DEF ClientInv, MainInv, SayPlay, Any!Alive
  <1>2. PICK verb \in {"PLAY", "PLAY_NODLNA"} \cap Spoken : Send(Me, Cmd(verb, dialed))
    BY DEF SayPlay
  <1>3. [c \in Clients |-> c = Me /\ announced']
          = [[c \in Clients |-> c = Me /\ announced] EXCEPT ![Me] = TRUE]
    BY MeIsAClient DEF SayPlay
  <1>4. Any!Send(Me, Any!Cmd(verb,
       [c \in Clients |-> IF c = Me THEN dialed ELSE NoFd][Me]))
    BY <1>2, MeIsAClient DEF Any!Send, Send, Any!Cmd, Cmd
  <1>5. dialed' = dialed
    BY DEF SayPlay
  <1> QED
    BY <1>1, <1>3, <1>4, <1>5, MeIsAClient DEF Any!SayPlay, Any!NoFd, NoFd,
       Any!serverVars,
       serverVars

\* The thread's STOP is the end of a stream there, or a STOP of its own.
LEMMA EndIsAllowed ==
    ASSUME ClientInv, ThreadStop, UNCHANGED serverVars
    PROVE  Any!SayEnd(Me) \/ Any!SayOther(Me)
  <1>1. UNCHANGED <<dialed, announced>> /\ cpc # "exited"
    BY DEF ThreadStop, mainVars, Alive
  <1>2. cpc \notin {"connect", "exited"}
    BY <1>1 DEF ThreadStop, ClientInv, JoinInv, NoThreadAt
  <1>3. CASE dialed \in writing
    <2>1. Any!Alive(Me)
      BY <1>2 DEF ClientInv, MainInv, Any!Alive
    <2>2. Send(Me, Cmd("STOP", dialed))
      BY <1>3 DEF ThreadStop
    <2> QED
      BY <1>1, <1>3, <2>1, <2>2, MeIsAClient DEF Any!SayEnd, Any!Send, Send, Any!Cmd,
         Cmd,
         Any!serverVars, Any!clientVars, serverVars
  <1>4. CASE dialed \notin writing
    BY <1>1, <1>2, <1>4, LineIsAllowed DEF ThreadStop
  <1> QED
    BY <1>3, <1>4

\* Every step of the client is one that ServerOpen allows.
LEMMA ClientIsAny ==
    ASSUME ClientInv, ClientSide PROVE Any!Client(Me) \/ Stutters
  <1> USE DEF Any!Client
  <1>0. UNCHANGED serverVars /\ UNCHANGED mode
    BY DEF ClientSide
  <1>1. CASE NoServer \/ SkipUrl \/ Probe \/ DirectKeys \/ NoMoreFiles \/ DialFails
                \/ Open \/ Create \/ Check \/ LeaveKeys \/ WantSeek \/ SeekHalts \/
                SeekJoins \/ RedialFails \/ Reopen \/ Halt \/ Join \/ EndLoop \/
                ThreadEnd \/ Interrupt
    BY <1>0, <1>1, QuietSteps, StillStutters
  <1>2. CASE ConnectServer
    BY <1>0, <1>2 DEF ConnectServer, ConnectCtrl, Any!Connect, Any!ConnectCtrl,
       Any!serverVars, Any!clientVars, serverVars
  <1>3. CASE DialStream \/ Redial
    BY <1>0, <1>3, DialIsAllowed DEF DialStream, Redial
  <1>4. CASE SayPlayDirect
    <2>1. "PLAY_DIRECT" \in Spoken
      BY <1>4 DEF SayPlayDirect, DirectPlay, ClientInv, MainInv
    <2> QED
      BY <1>0, <1>4, <2>1, LineIsAllowed DEF SayPlayDirect
  <1>5. CASE LeaveDirect \/ SayStop
    BY <1>0, <1>5, LineIsAllowed DEF LeaveDirect, SayStop
  <1>6. CASE OpenFails \/ ReopenFails
    BY <1>0, <1>6, CloseEnds DEF OpenFails, ReopenFails
  <1>7. CASE Abandon \/ MediaClose \/ ThreadClose \/ HeaderFails
    <2>1. pipe_wr = dialed \/ pipe_wr \notin writing
      BY DEF ClientInv, StreamInv
    <2>2. CloseWriter(pipe_wr) /\ UNCHANGED <<dialed, announced>>
      BY <1>7 DEF Abandon, MediaClose, ThreadClose, HeaderFails, mainVars
    <2> QED
      BY <1>0, <2>1, <2>2, CloseEnds
  <1>8. CASE SayPlay
    BY <1>0, <1>8, PlayIsAllowed
  <1>9. CASE ThreadStop
    BY <1>0, <1>9, EndIsAllowed
  <1>10. CASE Bye \/ Crash \/ Kill
    BY <1>0, <1>10, DeathIsAllowed DEF Bye, Crash, Kill, Alive
  <1> QED
    BY <1>1, <1>2, <1>3, <1>4, <1>5, <1>6, <1>7, <1>8, <1>9, <1>10
       DEF ClientSide, MainThread, MediaThread

\* The initial states are those of ServerOpen.
LEMMA InitIsAny == SysInit => Any!Init
  BY DEF SysInit, SocketsInit, ServerInit, PlayerInit, Any!Init, Any!SocketsInit,
     Any!ServerInit, Any!NoPoll, NoPoll, Any!NoFd, NoFd, Any!Clients, Clients

\* Every step is one of ServerOpen or a stutter.
LEMMA NextIsAny == ClientInv /\ [SysNext]_sysVars => [Any!Next]_(Any!vars)
  <1> SUFFICES ASSUME ClientInv, [SysNext]_sysVars PROVE Any!Next \/ Stutters
    BY DEF Stutters
  <1>1. CASE UNCHANGED sysVars
    BY <1>1, StillStutters DEF sysVars, playerVars, Still
  <1>2. CASE ServerSide
    <2>1. UNCHANGED Any!clientVars
      BY <1>2, ServerKeeps DEF playerVars, Any!clientVars
    <2> QED
      BY <1>2, <2>1, ServerSame DEF ServerSide, Any!Next
  <1>3. CASE ClientSide
    BY <1>3, ClientIsAny, MeIsAClient DEF Any!Next, Any!Clients, Clients
  <1> QED
    BY <1>1, <1>2, <1>3 DEF SysNext

\* Every behaviour of the server with the real client is one of the server with
\* the clients of ServerOpen, so what is proved of it there holds here.
THEOREM RealClientAllowed == SysSpec => ClientIsAllowed
  BY InitIsAny, NextIsAny, ClientInvariance, PTL DEF SysSpec, ClientIsAllowed, Any!Spec
=============================================================================
