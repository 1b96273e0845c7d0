----------------------------- MODULE Httpd_proofs -----------------------------
(***************************************************************************)
(* Proofs about the HTTP thread beside the server's main thread, for any   *)
(* number of clients, streams, chunks and connections of the television.   *)
(***************************************************************************)
EXTENDS Httpd, ServerOpen_proofs

USE MaxChunksAssumption, MaxReqsAssumption, MaxConnsAssumption,
    MaxClientsAssumption

\* The thread has read lines that were meant for the server.
Stolen ==
    /\ \E c \in Clients : inbox' = [inbox EXCEPT ![c] = <<>>]
    /\ UNCHANGED <<notInbox, serverVars, clientVars>>
    /\ raced'

\* Every step but that one is a step of the server with clients of every
\* kind, or leaves its state alone.
LEMMA HStepRefines == [HNext]_hvars => [Next]_vars \/ Stolen
  <1>1. ASSUME Main PROVE ServerStep /\ UNCHANGED clientVars
    BY <1>1 DEF Main, MainSetsUri, MainCalls, MainStarts, MainInstalls, MainOther,
       MainStops, MainJoins, ServerStep, ServerLoop
  <1>2. ASSUME NEW c \in Clients, ReadCommands(c) PROVE UNCHANGED vars \/ Stolen
    BY <1>2 DEF ReadCommands, GetsForeign, Stolen, notInbox, vars, sockVars
  <1>3. ASSUME NEW d \in Conns, ReadStream(d) PROVE UNCHANGED vars
    BY <1>3 DEF ReadStream, hOthers
  <1>4. CASE Thread
    BY <1>2, <1>3, <1>4 DEF Thread, Accept, Return, Request, Check, Load, ReadElse,
       SendChunk, Close, hOthers
  <1> QED
    BY <1>1, <1>4 DEF HNext, hvars, Next, ServerStep, MainSignal, ClientStep,
       WriteChunk, Fetch, Leave, SayMore

\* What is proved of the server holds with the HTTP thread beside it, up to
\* the read of a number that names another file: that read may take the
\* server's lines away.
THEOREM HttpdIsServer == HSpec /\ []~raced => Spec
  <1>1. HInit => Init
    BY DEF HInit
  <1>2. [HNext]_hvars /\ ~raced' => [Next]_vars
    BY HStepRefines DEF Stolen
  <1> QED
    BY <1>1, <1>2, PTL DEF HSpec, Spec

\* Lines read by the wrong reader leave the rest of the server as it was.
LEMMA StolenOrder == OrderInv /\ Stolen => OrderInv'
  <1> SUFFICES ASSUME OrderInv, Stolen PROVE OrderInv'
    OBVIOUS
  <1>1. PICK c \in Clients : inbox' = [inbox EXCEPT ![c] = <<>>]
    BY DEF Stolen
  <1>2. <<>> \in Seq(Command) /\ inbox \in [Clients -> Seq(Command)]
    BY DEF OrderInv, TypeOK, SocketsTypeOK
  <1>3. inbox' \in [Clients -> Seq(Command)]
    BY <1>1, <1>2
  <1>4. UNCHANGED <<notInbox, serverVars, clientVars>>
    BY DEF Stolen
  <1>5. SocketsTypeOK'
    BY <1>3, <1>4 DEF OrderInv, TypeOK, SocketsTypeOK, notInbox
  <1>6. ServerTypeOK'
    BY <1>4 DEF OrderInv, TypeOK, ServerTypeOK, notInbox, serverVars, mediaVars
  <1>7. TypeOK'
    BY <1>4, <1>5, <1>6 DEF OrderInv, TypeOK, notInbox, clientVars
  <1>8. PassInv' /\ FdsInv'
    BY <1>4 DEF OrderInv, PassInv, FdsInv, CtrlPending, DataPending, notInbox,
       serverVars, mediaVars
  <1> QED
    BY <1>7, <1>8 DEF OrderInv

\* The order of the streams and the fds is the same with the thread beside,
\* whatever it reads.
LEMMA OrderOfHttpd == HSpec => []OrderInv
  <1>1. HInit => OrderInv
    BY OrderInit DEF HInit
  <1>2. OrderInv /\ [HNext]_hvars => OrderInv'
    BY HStepRefines, OrderNext, StolenOrder
  <1> QED
    BY <1>1, <1>2, PTL DEF HSpec

-----------------------------------------------------------------------------
(* The inductive invariant.                                                *)

Serving == {"request", "check", "load", "read", "blocked", "send", "close"}

FlowInv ==
    /\ written \in [Conns -> 0..MaxChunks]
    /\ taken \in [Conns -> 0..MaxChunks]
    /\ \A d \in Conns : taken[d] <= written[d]

Asking == {"queued", "open", "gone"}

\* No URL names a segment that was not made, and no segment a stream that was
\* not served.
UrlInv ==
    /\ segOf \in [Conns -> Conns \cup {NoFd}]
    /\ \A k \in Conns : segOf[k] <= lastServed
    /\ target \in {0, Direct} \cup 1..seg_id
    /\ tvUri \in {0, Direct} \cup 1..seg_id
    /\ reqs \in [Reqs -> [uri : 0..MaxConns, state : ReqStates]]
    /\ \A r \in Reqs : reqs[r].state \in Asking => reqs[r].uri \in 1..seg_id

\* What the thread has in hand is no older than the segment asked for, even
\* if the number it fetched has been given to another stream.
ThreadInv ==
    /\ httpdRunning \in BOOLEAN /\ raced \in BOOLEAN
    /\ hpc \in HPCs
    /\ hreq \in Reqs \cup {0}
    /\ hfd \in Conns \cup {NoFd}
    /\ hfile \in File
    /\ \A d \in Conns : hfile = Data(d) => d >= hfd
    /\ hpc \notin {"read", "blocked"} => hfile \in {Free, OwnSocket}
    /\ hbuf \in Chunk \cup {NoChunk, Foreign}
    /\ sent \in Chunk \cup {NoChunk}
    /\ hpc \in Serving => hreq \in Reqs /\ reqs[hreq].state \in {"open", "gone"}
    /\ hpc \in {"read", "blocked"} =>
         hfd \in Conns /\ hfd <= lastServed /\ hfd >= segOf[reqs[hreq].uri]
    /\ hpc = "send" =>
         hbuf = Foreign \/ (hbuf \in Chunk /\ hbuf[1] >= segOf[reqs[hreq].uri])

\* As long as no read used a number given to another file, the thread goes
\* through the chunks of the streams upwards.
SentInv ==
    ~raced =>
        /\ sent # NoChunk =>
             sent \in Chunk /\ sent[1] <= lastServed /\ sent[2] <= taken[sent[1]]
        /\ hpc \in {"read", "blocked"} => hfd >= sent[1]
        /\ hpc = "send" => /\ hbuf \in Chunk /\ hbuf[1] <= lastServed
                           /\ hbuf[2] <= taken[hbuf[1]]
                           /\ Later(hbuf, sent)

HInv == FlowInv /\ UrlInv /\ ThreadInv /\ SentInv

\* A chunk is a pair of its stream and its number, and the two special values
\* are no such pair of a stream.
LEMMA ChunkParts ==
    /\ \A d \in Conns, n \in 1..MaxChunks :
         <<d, n>> \in Chunk /\ <<d, n>>[1] = d /\ <<d, n>>[2] = n
    /\ \A b \in Chunk : b[1] \in Conns /\ b[2] \in 1..MaxChunks
    /\ NoChunk[1] = 0 /\ NoChunk[2] = 0
    /\ Foreign \notin Chunk /\ NoChunk \notin Chunk /\ Foreign # NoChunk
  <1>1. \A b \in Chunk : b[1] \in Conns /\ b[2] \in 1..MaxChunks
    BY DEF Chunk
  <1>2. \A d \in Conns, n \in 1..MaxChunks :
          <<d, n>> \in Chunk /\ <<d, n>>[1] = d /\ <<d, n>>[2] = n
    BY DEF Chunk
  <1>3. NoChunk[1] = 0 /\ NoChunk[2] = 0 /\ Foreign[2] = 0 /\ Foreign[1] = MaxConns + 1
    BY DEF NoChunk, NoFd, Foreign, Direct
  <1>4. 0 \notin 1..MaxChunks /\ MaxConns + 1 # 0
    OBVIOUS
  <1> QED
    BY <1>1, <1>2, <1>3, <1>4

\* What the numbers may name are different things.
LEMMA FileParts ==
    /\ \A d \in Conns : /\ Data(d) \in File
                       /\ Data(d) \notin {Free, OwnSocket, SoapSocket}
                       /\ \A e \in Conns : Data(d) = Data(e) => d = e
                       /\ \A c \in Clients : Data(d) # Ctrl(c)
    /\ \A c \in Clients : Ctrl(c) \in File
    /\ {Free, OwnSocket, SoapSocket} \subseteq File
  BY DEF File, Data, Ctrl, Free, OwnSocket, SoapSocket

\* What the proofs need of the server's types.
LEMMA ServerFacts ==
    ASSUME OrderInv
    PROVE  /\ lastServed \in 0..MaxConns /\ seg_id \in 0..MaxConns
           /\ seg_id <= lastServed /\ MaxConns \in Nat
           /\ pipe_rd \in {NoFd, lastServed}
           /\ data_fd \in 0..MaxConns /\ (data_fd # NoFd => lastServed < data_fd)
           /\ dataAccepted \in 0..MaxConns /\ lastServed <= dataAccepted
  <1>1. /\ dataConnected \in 0..MaxConns /\ dataAccepted \in 0..dataConnected
        /\ lastServed \in 0..dataAccepted /\ seg_id \in 0..dataAccepted
        /\ data_fd \in 0..dataAccepted
    BY DEF OrderInv, TypeOK, SocketsTypeOK, ServerTypeOK
  <1>2. /\ seg_id <= lastServed /\ pipe_rd \in {NoFd, lastServed}
        /\ data_fd # NoFd => lastServed < data_fd
    BY DEF OrderInv, FdsInv
  <1> QED
    BY <1>1, <1>2

\* Initially nothing has been written, asked for or sent.
LEMMA HInitInv == HInit => HInv
  <1> SUFFICES ASSUME HInit PROVE HInv
    OBVIOUS
  <1>1. FlowInv
    BY DEF HInit, FlowInv
  <1>2. UrlInv
    <2>1. \A k \in Conns : segOf[k] = 0
      BY DEF HInit, NoFd
    <2>4. [uri |-> 0, state |-> "unused"] \in [uri : 0..MaxConns, state : ReqStates]
      BY DEF ReqStates
    <2>2. /\ target = 0 /\ tvUri = 0 /\ lastServed = 0
          /\ segOf \in [Conns -> Conns \cup {NoFd}]
      BY DEF HInit, Init, ServerInit
    <2>3. /\ reqs \in [Reqs -> [uri : 0..MaxConns, state : ReqStates]]
          /\ \A r \in Reqs : reqs[r].state = "unused"
      BY <2>4 DEF HInit
    <2> QED
      BY <2>1, <2>2, <2>3 DEF UrlInv, Asking
  <1>3. ThreadInv /\ SentInv
    BY FileParts DEF HInit, ThreadInv, SentInv, HPCs, Serving, NoFd
  <1> QED
    BY <1>1, <1>2, <1>3 DEF HInv

\* The main thread closes and accepts: the number the thread fetched keeps its
\* file, names nothing, or names a stream newer than all that were served.
LEMMA Renumbered ==
    ASSUME OrderInv, OrderInv', ThreadInv, Renumber
    PROVE  /\ hfile' \in File
           /\ hpc # "read" => hfile' = hfile
           /\ \A d \in Conns :
                hfile' = Data(d) => hfile = Data(d) \/ d > lastServed
  <1>1. dataAccepted' \in 0..MaxConns /\ dataAccepted \in Nat
        /\ lastServed <= dataAccepted /\ lastServed \in Nat
    BY ServerFacts DEF OrderInv, TypeOK, SocketsTypeOK, ServerTypeOK
  <1>2. ctrlAccepted' \in 0..MaxClients /\ ctrlAccepted \in Nat
    BY DEF OrderInv, TypeOK, SocketsTypeOK
  <1>3. ASSUME NEW f \in Accepted
        PROVE  /\ f \in File
               /\ \A d \in Conns : f = Data(d) => d > lastServed
    <2>1. ASSUME NEW e \in (dataAccepted + 1)..dataAccepted', f = Data(e)
          PROVE  f \in File /\ \A d \in Conns : f = Data(d) => d > lastServed
      <3>1. e \in Conns /\ e > lastServed
        BY <1>1 DEF Conns
      <3> QED
        BY <2>1, <3>1, FileParts
    <2>2. ASSUME NEW c \in (ctrlAccepted + 1)..ctrlAccepted', f = Ctrl(c)
          PROVE  f \in File /\ \A d \in Conns : f # Data(d)
      <3>1. c \in Clients
        BY <1>2 DEF Clients
      <3> QED
        BY <2>2, <3>1, FileParts
    <2> QED
      BY <1>3, <2>1, <2>2 DEF Accepted
  <1>4. hfile' = hfile \/ hfile' = Free \/ hfile' \in Accepted
    BY DEF Renumber
  <1>5. hpc # "read" => hfile' = hfile
    BY DEF Renumber
  <1> QED
    BY <1>3, <1>4, <1>5, FileParts DEF ThreadInv

\* A step that leaves the thread and the flow alone, while segments may be
\* added and the television be given one of them.
LEMMA Beside ==
    ASSUME HInv, OrderInv, OrderInv',
           UNCHANGED <<hpc, hreq, hfd, hbuf, sent, raced, segOf, flowVars, reqs>>,
           hfile' = hfile \/ Renumber,
           httpdRunning' \in BOOLEAN,
           seg_id' = seg_id, lastServed' = lastServed,
           target' \in {0, Direct} \cup 1..seg_id,
           tvUri' \in {0, Direct} \cup 1..seg_id
    PROVE  HInv'
  <1>1. FlowInv'
    BY DEF HInv, FlowInv, flowVars
  <1>2. UrlInv'
    BY DEF HInv, UrlInv
  <1>3. /\ hfile' \in File
        /\ hpc # "read" => hfile' = hfile
        /\ \A d \in Conns :
             hfile' = Data(d) => hfile = Data(d) \/ d > lastServed
    BY Renumbered DEF HInv, ThreadInv
  <1>4. \A d \in Conns : hfile' = Data(d) => d >= hfd
    <2>1. hpc = "read" => hfd \in Conns /\ hfd <= lastServed
      BY DEF HInv, ThreadInv
    <2> QED
      BY <1>3, <2>1, ServerFacts DEF HInv, ThreadInv, Conns
  <1>5. ThreadInv'
    BY <1>3, <1>4 DEF HInv, ThreadInv
  <1>6. SentInv'
    BY DEF HInv, SentInv, flowVars, Later
  <1> QED
    BY <1>1, <1>2, <1>5, <1>6 DEF HInv

\* The steps of the loop: only Install makes a URL and only a SOAP call tells
\* the television of one.
LEMMA MainInv ==
    ASSUME HInv, OrderInv, OrderInv', Main PROVE HInv'
  <1> USE DEF Goto
  <1>0. /\ httpdRunning \in BOOLEAN
        /\ target \in {0, Direct} \cup 1..seg_id
        /\ tvUri \in {0, Direct} \cup 1..seg_id
    BY DEF HInv, ThreadInv, UrlInv
  <1>1. CASE MainSetsUri
    <2>1. /\ UNCHANGED <<hpc, hreq, hfd, hbuf, sent, raced, segOf, flowVars, reqs>>
          /\ UNCHANGED <<httpdRunning, hfile, seg_id, lastServed>>
          /\ tvUri' \in {tvUri, target} /\ target' \in {target, 0}
      BY <1>1 DEF MainSetsUri, SetUri, httpdVars, mediaVars
    <2> QED
      BY <1>0, <2>1, Beside
  <1>2. CASE MainCalls \/ MainOther
    <2>1. /\ UNCHANGED <<hpc, hreq, hfd, hbuf, sent, raced, segOf, flowVars, reqs>>
          /\ UNCHANGED <<httpdRunning, tvUri>> /\ Renumber
      BY <1>2 DEF MainCalls, MainOther, otherHttpdVars
    <2>2. UNCHANGED <<seg_id, lastServed>> /\ target' \in {target, 0, Direct}
      <3>1. CASE MainCalls
        BY <3>1 DEF MainCalls, FirstStop, Takeover, Disconnect, Stop, Play,
           mediaVars
      <3>2. CASE MainOther
        BY <3>2 DEF MainOther, ListenFails, Poll, AcceptCtrl, AcceptSecondCtrl,
           AcceptData, AcceptFails, ReadEof, CloseServed, ForgetServed, CloseCtrl,
           ClosePipe, ForgetPipe, ReadPlay, Switch, CloseOld, ForgetOld,
           SetRunning, ReadPlayDirect, ReadStop, ReadUnknown, LeaveLoop, Cleanup,
           mediaVars
      <3> QED
        BY <1>2, <3>1, <3>2
    <2> QED
      BY <1>0, <2>1, <2>2, Beside
  <1>3. CASE MainJoins
    <2>1. /\ UNCHANGED <<hpc, hreq, hfd, hbuf, sent, raced, segOf, flowVars, reqs>>
          /\ UNCHANGED <<httpdRunning, hfile, seg_id, lastServed, tvUri, target>>
      BY <1>3 DEF MainJoins, JoinHttpd, httpdVars, mediaVars
    <2> QED
      BY <1>0, <2>1, Beside
  <1>4. CASE MainStarts
    <2>1. /\ UNCHANGED <<hreq, hfd, hbuf, sent, raced, segOf, written, taken, reqs>>
          /\ UNCHANGED <<seg_id, lastServed, tvUri, target>>
          /\ hpc' = "poll" /\ hfile' = Free /\ httpdRunning' \in BOOLEAN
      BY <1>4 DEF MainStarts, Listen, flowVars, mediaVars
    <2>2. FlowInv' /\ UrlInv'
      BY <2>1 DEF HInv, FlowInv, UrlInv
    <2>3. ThreadInv'
      BY <2>1, FileParts DEF HInv, ThreadInv, Serving, HPCs
    <2>4. SentInv'
      BY <2>1 DEF HInv, SentInv
    <2> QED
      BY <2>2, <2>3, <2>4 DEF HInv
  <1>5. CASE MainStops
    <2>1. /\ UNCHANGED <<hpc, hreq, hfd, hfile, hbuf, sent, raced, segOf, written>>
          /\ UNCHANGED <<taken, seg_id, lastServed, tvUri, target>>
          /\ httpdRunning' \in BOOLEAN
          /\ reqs' = [r \in Reqs |-> IF reqs[r].state = "queued" THEN Over
                                     ELSE reqs[r]]
      BY <1>5 DEF MainStops, StopHttpd, flowVars, mediaVars
    <2>2. /\ reqs' \in [Reqs -> [uri : 0..MaxConns, state : ReqStates]]
          /\ \A r \in Reqs : /\ reqs'[r].state \in Asking => reqs'[r] = reqs[r]
                             /\ reqs[r].state \in {"open", "gone"}
                                  => reqs'[r] = reqs[r]
      BY <2>1 DEF HInv, UrlInv, ReqStates, Over, Asking
    <2>3. FlowInv' /\ UrlInv'
      BY <2>1, <2>2 DEF HInv, FlowInv, UrlInv
    <2>4. ThreadInv'
      BY <2>1, <2>2 DEF HInv, ThreadInv, Serving
    <2>5. SentInv'
      BY <2>1 DEF HInv, SentInv, Later
    <2> QED
      BY <2>3, <2>4, <2>5 DEF HInv
  <1>6. CASE MainInstalls
    <2>1. /\ UNCHANGED <<hpc, hreq, hfd, hfile, hbuf, sent, raced, written, taken>>
          /\ UNCHANGED <<reqs, tvUri, httpdRunning>>
          /\ seg_id' = seg_id + 1 /\ target' = seg_id + 1
          /\ lastServed' = data_fd /\ pc \in {"install", "set_pipe"}
          /\ segOf' = [segOf EXCEPT ![seg_id + 1] = data_fd]
      BY <1>6 DEF MainInstalls, Install, flowVars, httpdVars
    <2>2. /\ data_fd \in Conns /\ lastServed < data_fd /\ seg_id \in Nat
          /\ lastServed \in Nat /\ seg_id <= lastServed
      BY <2>1, ServerFacts DEF OrderInv, FdsInv, NoFd, Conns
    <2>3. /\ segOf' \in [Conns -> Conns \cup {NoFd}]
          /\ \A k \in Conns : segOf'[k] = IF k = seg_id + 1 THEN data_fd ELSE segOf[k]
      BY <2>1, <2>2 DEF HInv, UrlInv
    <2>4. FlowInv'
      BY <2>1 DEF HInv, FlowInv
    <2>5. UrlInv'
      BY <2>1, <2>2, <2>3 DEF HInv, UrlInv, NoFd, Conns
    <2>6. hpc \in Serving => segOf'[reqs[hreq].uri] = segOf[reqs[hreq].uri]
      <3>1. hpc \in Serving => reqs[hreq].uri \in 1..seg_id
        BY DEF HInv, ThreadInv, UrlInv, Asking
      <3>2. 1..seg_id \subseteq Conns /\ \A k \in 1..seg_id : k # seg_id + 1
        BY <2>2, ServerFacts DEF Conns
      <3> QED
        BY <2>3, <3>1, <3>2
    <2>7. ThreadInv'
      BY <2>1, <2>2, <2>6 DEF HInv, ThreadInv, Serving, Conns
    <2>8. SentInv'
      BY <2>1, <2>2, ChunkParts DEF HInv, SentInv, Later, Conns
    <2> QED
      BY <2>4, <2>5, <2>7, <2>8 DEF HInv
  <1> QED
    BY <1>1, <1>2, <1>3, <1>4, <1>5, <1>6 DEF Main

\* A read has returned without a chunk of a stream.
LEMMA Returned ==
    ASSUME HInv, OrderInv, hpc \in {"read", "blocked"},
           UNCHANGED <<vars, reqs, segOf, tvUri, httpdRunning, hreq, sent, flowVars>>,
           Fails \/ GetsForeign
    PROVE  HInv'
  <1>1. /\ hfd' = NoFd /\ hfile' \in {Free, OwnSocket}
        /\ \/ hpc' = "close" /\ UNCHANGED <<hbuf, raced>>
           \/ hpc' = "send" /\ hbuf' = Foreign /\ raced' = TRUE
    BY DEF Fails, GetsForeign, ReadReturns
  <1>2. hreq \in Reqs /\ reqs[hreq].state \in {"open", "gone"}
    BY DEF HInv, ThreadInv, Serving
  <1>3. FlowInv' /\ UrlInv'
    BY DEF HInv, FlowInv, UrlInv, flowVars, vars, serverVars, mediaVars
  <1>4. ThreadInv'
    <2>1. hfile' \in File /\ \A d \in Conns : hfile' # Data(d)
      BY <1>1, FileParts
    <2>2. raced' \in BOOLEAN /\ hbuf' \in Chunk \cup {NoChunk, Foreign}
      BY <1>1 DEF HInv, ThreadInv
    <2> QED
      BY <1>1, <1>2, <2>1, <2>2 DEF HInv, ThreadInv, Serving, HPCs
  <1>5. SentInv'
    BY <1>1 DEF HInv, SentInv, flowVars, vars, serverVars, mediaVars
  <1> QED
    BY <1>3, <1>4, <1>5 DEF HInv

\* A read waits: the number and its file stay.
LEMMA Waiting ==
    ASSUME HInv, OrderInv, hpc = "read", hpc' = "blocked",
           UNCHANGED <<vars, reqs, segOf, tvUri, httpdRunning, hreq, sent, flowVars,
                       hfd, hbuf, raced>>,
           hfile' \in {hfile, SoapSocket}
    PROVE  HInv'
  <1>1. FlowInv' /\ UrlInv'
    BY DEF HInv, FlowInv, UrlInv, flowVars, vars, serverVars, mediaVars
  <1>2. ThreadInv'
    BY FileParts DEF HInv, ThreadInv, Serving, HPCs, vars, serverVars, mediaVars
  <1>3. SentInv'
    BY DEF HInv, SentInv, flowVars, vars, serverVars, mediaVars
  <1> QED
    BY <1>1, <1>2, <1>3 DEF HInv

\* A chunk of a stream is read: of the one the number named when it was
\* fetched, or of a newer one.
LEMMA ChunkRead ==
    ASSUME HInv, OrderInv, NEW d \in Conns, Reading, hfile = Data(d), ~Empty(d),
           taken' = [taken EXCEPT ![d] = taken[d] + 1],
           ReadReturns("send", <<d, taken'[d]>>),
           raced' = (raced \/ d # hfd),
           UNCHANGED <<vars, reqs, segOf, tvUri, httpdRunning, hreq, sent, written>>
    PROVE  HInv'
  <1>1. /\ hpc \in {"read", "blocked"} /\ hpc' = "send" /\ hbuf' = <<d, taken'[d]>>
        /\ hfd' = NoFd /\ hfile' = Free
    BY FileParts DEF Reading, ReadReturns
  <1>2. /\ hfd \in Conns /\ hfd <= lastServed /\ hfd >= segOf[reqs[hreq].uri]
        /\ hreq \in Reqs /\ reqs[hreq].state \in {"open", "gone"} /\ d >= hfd
    BY <1>1 DEF HInv, ThreadInv, Serving
  <1>3. UrlInv'
    BY DEF HInv, UrlInv, vars, serverVars, mediaVars
  <1>4. taken[d] \in 0..MaxChunks /\ written[d] \in 0..MaxChunks
        /\ taken[d] < written[d]
    BY DEF HInv, FlowInv, Empty
  <1>5. taken[d] + 1 \in 1..MaxChunks
    BY <1>4
  <1>6. /\ taken'[d] = taken[d] + 1
        /\ \A e \in Conns : e # d => taken'[e] = taken[e]
        /\ taken' \in [Conns -> 0..MaxChunks]
    BY <1>5 DEF HInv, FlowInv
  <1>7. hbuf' \in Chunk /\ hbuf'[1] = d /\ hbuf'[2] = taken[d] + 1
    BY <1>1, <1>5, <1>6, ChunkParts
  <1>8. FlowInv'
    BY <1>4, <1>6 DEF HInv, FlowInv
  <1>9. d >= segOf[reqs[hreq].uri]
    <2>1. reqs[hreq].uri \in Conns
      BY <1>2, ServerFacts DEF HInv, UrlInv, Asking, Conns
    <2>2. segOf[reqs[hreq].uri] \in Nat
      <3>1. segOf \in [Conns -> Conns \cup {NoFd}]
        BY DEF HInv, UrlInv
      <3>2. segOf[reqs[hreq].uri] \in Conns \cup {NoFd}
        BY <2>1, <3>1, Zenon
      <3>3. Conns \cup {NoFd} \subseteq Nat
        BY DEF Conns, NoFd
      <3> QED
        BY <3>2, <3>3, Zenon
    <2> QED
      BY <1>2, <2>2 DEF Conns
  <1>10. ThreadInv'
    BY <1>1, <1>2, <1>7, <1>9, FileParts DEF HInv, ThreadInv, Serving, HPCs, NoFd
  <1>11. ASSUME ~raced'
         PROVE  /\ Later(hbuf', sent) /\ d <= lastServed
                /\ sent # NoChunk => sent \in Chunk /\ sent[1] <= lastServed
                                      /\ sent[2] <= taken'[sent[1]]
    <2>1. ~raced /\ d = hfd /\ d <= lastServed
      BY <1>2, <1>11
    <2>2. CASE sent = NoChunk
      BY <1>7, <2>1, <2>2, ChunkParts DEF Later, Conns
    <2>3. CASE sent # NoChunk
      <3>1. /\ sent \in Chunk /\ sent[1] \in Conns /\ sent[2] \in 1..MaxChunks
            /\ d >= sent[1] /\ sent[1] <= lastServed /\ sent[2] <= taken[sent[1]]
        BY <1>1, <2>1, <2>3, ChunkParts DEF HInv, SentInv
      <3>2. taken[sent[1]] \in 0..MaxChunks
        BY <3>1 DEF HInv, FlowInv
      <3>3. CASE sent[1] = d
        BY <1>4, <1>6, <1>7, <2>1, <3>1, <3>2, <3>3 DEF Later
      <3>4. CASE sent[1] # d
        BY <1>6, <1>7, <2>1, <3>1, <3>2, <3>4 DEF Later, Conns
      <3> QED
        BY <3>3, <3>4
    <2> QED
      BY <2>1, <2>2, <2>3
  <1>12. lastServed' = lastServed /\ sent' = sent
    BY DEF vars, serverVars, mediaVars
  <1>13. hbuf'[2] <= taken'[hbuf'[1]]
    BY <1>5, <1>6, <1>7
  <1>14. ASSUME ~raced'
         PROVE  /\ hbuf'[1] <= lastServed' /\ Later(hbuf', sent')
                /\ sent' # NoChunk => sent' \in Chunk /\ sent'[1] <= lastServed'
                                       /\ sent'[2] <= taken'[sent'[1]]
    BY <1>7, <1>11, <1>12, <1>14
  <1>15. SentInv'
    BY <1>1, <1>7, <1>13, <1>14 DEF SentInv
  <1> QED
    BY <1>3, <1>8, <1>10, <1>15 DEF HInv

\* Lines taken from a client's inbox change nothing the invariant speaks of.
LEMMA CommandsRead ==
    ASSUME HInv, OrderInv, NEW c \in Clients, ReadCommands(c) PROVE HInv'
  <1>1. /\ UNCHANGED <<serverVars, reqs, segOf, tvUri, httpdRunning, hreq, sent>>
        /\ UNCHANGED flowVars /\ hpc \in {"read", "blocked"} /\ hfile = Ctrl(c)
    BY DEF ReadCommands, Reading
  <1>2. FlowInv' /\ UrlInv'
    BY <1>1 DEF HInv, FlowInv, UrlInv, flowVars, serverVars, mediaVars
  <1>3. hreq \in Reqs /\ reqs[hreq].state \in {"open", "gone"}
    BY <1>1 DEF HInv, ThreadInv, Serving
  <1>4. \/ hpc' = "close" /\ UNCHANGED <<hbuf, raced>> /\ hfd' = NoFd
           /\ hfile' \in {Free, OwnSocket}
        \/ hpc' = "send" /\ hbuf' = Foreign /\ raced' = TRUE /\ hfd' = NoFd
           /\ hfile' \in {Free, OwnSocket}
        \/ hpc = "read" /\ hpc' = "blocked" /\ UNCHANGED <<hfd, hfile, hbuf, raced>>
    BY DEF ReadCommands, Fails, GetsForeign, ReadReturns, Waits
  <1>5. ThreadInv'
    <2>1. CASE /\ hpc' \in {"close", "send"} /\ hfd' = NoFd
               /\ hfile' \in {Free, OwnSocket}
      <3>1. hfile' \in File /\ \A d \in Conns : hfile' # Data(d)
        BY <2>1, FileParts
      <3>2. raced' \in BOOLEAN /\ hbuf' \in Chunk \cup {NoChunk, Foreign}
        BY <1>4 DEF HInv, ThreadInv
      <3>3. hpc' = "send" => hbuf' = Foreign
        BY <1>4
      <3> QED
        BY <1>1, <1>3, <2>1, <3>1, <3>2, <3>3 DEF HInv, ThreadInv, Serving, HPCs
    <2>2. CASE hpc = "read" /\ hpc' = "blocked" /\ UNCHANGED <<hfd, hfile, hbuf, raced>>
      BY <1>1, <1>3, <2>2 DEF HInv, ThreadInv, Serving, HPCs, serverVars, mediaVars
    <2> QED
      BY <1>4, <2>1, <2>2
  <1>6. SentInv'
    BY <1>1, <1>4 DEF HInv, SentInv, flowVars, serverVars, mediaVars
  <1> QED
    BY <1>2, <1>5, <1>6 DEF HInv

\* The steps of the HTTP thread: only SendChunk adds to what was sent.
LEMMA ThreadStep ==
    ASSUME HInv, OrderInv, Thread PROVE HInv'
  <1> DEFINE uri == reqs[hreq].uri
  <1>0. /\ reqs \in [Reqs -> [uri : 0..MaxConns, state : ReqStates]]
        /\ \A r \in Reqs : reqs[r].state \in Asking => reqs[r].uri \in 1..seg_id
    BY DEF HInv, UrlInv
  <1>u. 1..seg_id \subseteq Conns
    BY ServerFacts DEF Conns
  <1>1. ASSUME NEW r \in Reqs, Accept(r) PROVE HInv'
    <2>1. /\ UNCHANGED <<vars, httpdRunning, hfd, hbuf, sent, raced, segOf, tvUri,
                         flowVars>>
          /\ hreq' = r /\ hpc' = "request" /\ reqs[r].state = "queued"
          /\ reqs' = [reqs EXCEPT ![r].state = "open"]
          /\ hfile' \in {Free, OwnSocket}
      BY <1>1 DEF Accept, NumberTaken
    <2>2. /\ reqs' \in [Reqs -> [uri : 0..MaxConns, state : ReqStates]]
          /\ \A q \in Reqs : reqs'[q].uri = reqs[q].uri
          /\ \A q \in Reqs : reqs'[q].state \in Asking => reqs[q].state \in Asking
          /\ reqs'[r].state = "open"
      BY <1>0, <2>1 DEF ReqStates, Asking
    <2>3. FlowInv' /\ UrlInv'
      BY <1>0, <2>1, <2>2
         DEF HInv, FlowInv, UrlInv, flowVars, vars, serverVars, mediaVars
    <2>4. ThreadInv'
      BY <2>1, <2>2, FileParts DEF HInv, ThreadInv, Serving, HPCs, vars,
         serverVars, mediaVars
    <2>5. SentInv'
      BY <2>1 DEF HInv, SentInv, flowVars, vars, serverVars, mediaVars
    <2> QED
      BY <2>3, <2>4, <2>5 DEF HInv
  <1>2. ASSUME Return \/ Request \/ Check PROVE HInv'
    <2>1. /\ UNCHANGED <<vars, reqs, segOf, tvUri, flowVars, httpdRunning, hreq, hfd,
                         hfile, hbuf, sent, raced>>
          /\ \/ hpc = "poll" /\ hpc' = "returned"
             \/ hpc \in {"request", "check"} /\ hpc' \in {"check", "load", "close"}
      <3>1. CASE Return
        BY <3>1 DEF Return, hOthers
      <3>2. CASE Request
        BY <3>2 DEF Request, hOthers
      <3>3. CASE Check
        BY <3>3 DEF Check, hOthers
      <3> QED
        BY <1>2, <3>1, <3>2, <3>3
    <2>2. FlowInv' /\ UrlInv'
      BY <2>1 DEF HInv, FlowInv, UrlInv, flowVars, vars, serverVars, mediaVars
    <2>3. ThreadInv' /\ SentInv'
      BY <2>1 DEF HInv, ThreadInv, SentInv, Serving, HPCs, flowVars, vars,
         serverVars, mediaVars
    <2> QED
      BY <2>2, <2>3 DEF HInv
  <1>3. ASSUME Load PROVE HInv'
    <2>1. /\ UNCHANGED <<vars, reqs, segOf, tvUri, flowVars, httpdRunning, hreq,
                         hbuf, sent, raced>>
          /\ hpc = "load" /\ hfd' = pipe_rd
          /\ hfile' = IF pipe_rd \in held THEN Data(pipe_rd) ELSE hfile
          /\ hpc' = IF pipe_rd = NoFd THEN "close" ELSE "read"
      BY <1>3 DEF Load, hOthers
    <2>2. FlowInv' /\ UrlInv'
      BY <2>1 DEF HInv, FlowInv, UrlInv, flowVars, vars, serverVars, mediaVars
    <2>3. hfd' \in Conns \cup {NoFd}
          /\ (pipe_rd # NoFd => hfd' \in Conns /\ hfd' = lastServed)
      BY <2>1, ServerFacts DEF NoFd, Conns
    <2>4. segOf[uri] <= lastServed
      BY <1>0, <1>u, <2>1 DEF HInv, ThreadInv, UrlInv, Serving, Asking
    <2>5. held \subseteq Conns
      BY ServerFacts DEF OrderInv, TypeOK, ServerTypeOK, Conns
    <2>6. hfile \in {Free, OwnSocket}
      BY <2>1 DEF HInv, ThreadInv
    <2>7. /\ hfile' \in File
          /\ \A d \in Conns : hfile' = Data(d) => d = pipe_rd
          /\ pipe_rd = NoFd => hfile' \in {Free, OwnSocket}
      <3>1. NoFd \notin held
        BY <2>5 DEF Conns, NoFd
      <3>2. CASE pipe_rd \in held
        BY <2>1, <2>5, <3>1, <3>2, FileParts
      <3>3. CASE pipe_rd \notin held
        BY <2>1, <2>6, <3>3, FileParts
      <3> QED
        BY <3>2, <3>3
    <2>8. \A d \in Conns : hfile' = Data(d) => d >= hfd'
      BY <2>1, <2>7 DEF Conns
    <2>9. ThreadInv'
      BY <2>1, <2>3, <2>4, <2>7, <2>8, ServerFacts DEF HInv, ThreadInv, Serving,
         HPCs, vars, serverVars, mediaVars
    <2>10. ~raced => sent[1] <= lastServed
      BY ServerFacts, ChunkParts DEF HInv, ThreadInv, SentInv
    <2>11. SentInv'
      BY <2>1, <2>3, <2>10 DEF HInv, SentInv, flowVars, vars, serverVars, mediaVars
    <2> QED
      BY <2>2, <2>9, <2>11 DEF HInv
  <1>4. ASSUME NEW d \in Conns, ReadStream(d) PROVE HInv'
    <2>1. /\ UNCHANGED <<vars, reqs, segOf, tvUri, httpdRunning, hreq, sent, written>>
          /\ Reading /\ hfile = Data(d) /\ hpc \in {"read", "blocked"}
      BY <1>4 DEF ReadStream, hOthers, Reading
    <2>2. CASE /\ ~Empty(d) /\ taken' = [taken EXCEPT ![d] = taken[d] + 1]
               /\ ReadReturns("send", <<d, taken'[d]>>)
               /\ raced' = (raced \/ d # hfd)
      BY <2>1, <2>2, ChunkRead
    <2>3. CASE Fails /\ UNCHANGED taken
      BY <2>1, <2>3, Returned DEF flowVars
    <2>4. CASE Waits /\ UNCHANGED taken
      BY <2>1, <2>4, Waiting DEF Waits, flowVars
    <2> QED
      BY <1>4, <2>2, <2>3, <2>4 DEF ReadStream
  <1>5. ASSUME ReadElse PROVE HInv'
    <2>1. /\ UNCHANGED <<vars, reqs, segOf, tvUri, httpdRunning, hreq, sent>>
          /\ UNCHANGED flowVars /\ hpc \in {"read", "blocked"}
      BY <1>5 DEF ReadElse, hOthers
    <2>2. \/ Fails \/ GetsForeign
          \/ /\ hpc = "read" /\ hpc' = "blocked" /\ UNCHANGED <<hfd, hbuf, raced>>
             /\ hfile' \in {hfile, SoapSocket}
      BY <1>5 DEF ReadElse, Waits
    <2> QED
      BY <2>1, <2>2, Returned, Waiting
  <1>6. ASSUME SendChunk PROVE HInv'
    <2>1. /\ UNCHANGED <<vars, reqs, segOf, tvUri, flowVars, httpdRunning, hreq, hfd,
                         hfile, raced>>
          /\ hpc = "send" /\ hpc' \in {"check", "close"} /\ hbuf' = NoChunk
          /\ sent' = sent \/ (sent' = hbuf /\ hbuf # Foreign)
      BY <1>6 DEF SendChunk, hOthers
    <2>2. FlowInv' /\ UrlInv'
      BY <2>1 DEF HInv, FlowInv, UrlInv, flowVars, vars, serverVars, mediaVars
    <2>3. ThreadInv'
      BY <2>1 DEF HInv, ThreadInv, Serving, HPCs, vars, serverVars, mediaVars
    <2>4. SentInv'
      BY <2>1 DEF HInv, SentInv, flowVars, vars, serverVars, mediaVars
    <2> QED
      BY <2>2, <2>3, <2>4 DEF HInv
  <1>7. ASSUME Close PROVE HInv'
    <2>1. /\ UNCHANGED <<vars, httpdRunning, hfd, hbuf, sent, raced, segOf, tvUri,
                         flowVars>>
          /\ hpc = "close" /\ hpc' = "poll" /\ hreq' = 0 /\ hfile' = Free
          /\ reqs' = [reqs EXCEPT ![hreq] = Over]
      BY <1>7 DEF Close
    <2>2. hreq \in Reqs /\ reqs[hreq].state \in {"open", "gone"}
      BY <2>1 DEF HInv, ThreadInv, Serving
    <2>3. Over \in [uri : 0..MaxConns, state : ReqStates] /\ Over.state \notin Asking
      BY DEF Over, ReqStates, Asking
    <2>4. /\ reqs' \in [Reqs -> [uri : 0..MaxConns, state : ReqStates]]
          /\ \A q \in Reqs : reqs'[q].state \in Asking => reqs'[q] = reqs[q]
      BY <1>0, <2>1, <2>2, <2>3
    <2>5. FlowInv' /\ UrlInv'
      BY <2>1, <2>4
         DEF HInv, FlowInv, UrlInv, flowVars, vars, serverVars, mediaVars
    <2>6. ThreadInv'
      BY <2>1, FileParts DEF HInv, ThreadInv, Serving, HPCs, vars, serverVars,
         mediaVars
    <2>7. SentInv'
      BY <2>1 DEF HInv, SentInv, flowVars, vars, serverVars, mediaVars
    <2> QED
      BY <2>5, <2>6, <2>7 DEF HInv
  <1> QED
    BY <1>1, <1>2, <1>3, <1>4, <1>5, <1>6, <1>7, CommandsRead DEF Thread

\* A signal touches nothing the invariant speaks of.
LEMMA SignalStep == ASSUME HInv, OrderInv, OrderInv', MainSignal PROVE HInv'
  <1>1. /\ UNCHANGED <<hpc, hreq, hfd, hbuf, sent, raced, segOf, flowVars, reqs>>
        /\ UNCHANGED <<httpdRunning, hfile, seg_id, lastServed, tvUri, target>>
    BY DEF MainSignal, Signal, httpdVars, mediaVars
  <1> QED
    BY <1>1, Beside DEF HInv, ThreadInv, UrlInv

\* Nor does a client, apart from what it writes.
LEMMA ClientInv ==
    ASSUME HInv, OrderInv, OrderInv', NEW c \in Clients, ClientStep(c) PROVE HInv'
  <1>1. /\ UNCHANGED <<hpc, hreq, hfd, hbuf, sent, raced, segOf, flowVars, reqs>>
        /\ UNCHANGED <<httpdRunning, hfile, seg_id, lastServed, tvUri, target>>
    BY DEF ClientStep, httpSide, httpdVars, Client, Connect, Dial, SayPlay,
       SayOther, SayEnd, EndStream, Exit, serverVars, mediaVars
  <1> QED
    BY <1>1, Beside DEF HInv, ThreadInv, UrlInv

\* A chunk written is a new one.
LEMMA WriteStep == ASSUME HInv, OrderInv, NEW d \in Conns, WriteChunk(d) PROVE HInv'
  <1>1. /\ UNCHANGED <<vars, taken, httpdVars, reqs, segOf, tvUri>>
        /\ written[d] < MaxChunks /\ written' = [written EXCEPT ![d] = written[d] + 1]
    BY DEF WriteChunk
  <1>2. FlowInv'
    BY <1>1 DEF HInv, FlowInv
  <1>3. UrlInv' /\ ThreadInv' /\ SentInv'
    BY <1>1 DEF HInv, UrlInv, ThreadInv, SentInv, httpdVars, vars, serverVars,
       mediaVars
  <1> QED
    BY <1>2, <1>3 DEF HInv

\* The television asks for the URI it was told last.
LEMMA FetchStep == ASSUME HInv, OrderInv, NEW r \in Reqs, Fetch(r) PROVE HInv'
  <1>1. /\ UNCHANGED <<vars, httpdVars, segOf, tvUri, flowVars>>
        /\ tvUri \in Conns /\ reqs[r].state = "unused"
        /\ reqs' = [reqs EXCEPT ![r] = [uri |-> tvUri, state |-> "queued"]]
    BY DEF Fetch
  <1>2. tvUri \in 1..seg_id
    BY <1>1 DEF HInv, UrlInv, Conns, Direct
  <1>3. [uri |-> tvUri, state |-> "queued"] \in [uri : 0..MaxConns, state : ReqStates]
    BY <1>1 DEF Conns, ReqStates
  <1>4. /\ reqs' \in [Reqs -> [uri : 0..MaxConns, state : ReqStates]]
        /\ reqs'[r].uri = tvUri /\ \A q \in Reqs : q # r => reqs'[q] = reqs[q]
    BY <1>1, <1>3 DEF HInv, UrlInv
  <1>5. UrlInv'
    BY <1>1, <1>2, <1>4 DEF HInv, UrlInv, Asking, vars, serverVars, mediaVars
  <1>6. hpc \in Serving => hreq # r
    BY <1>1 DEF HInv, ThreadInv
  <1>7. ThreadInv'
    BY <1>1, <1>4, <1>6 DEF HInv, ThreadInv, Serving, httpdVars, vars, serverVars,
       mediaVars
  <1>8. FlowInv' /\ SentInv'
    BY <1>1 DEF HInv, FlowInv, SentInv, httpdVars, flowVars, vars, serverVars, mediaVars
  <1> QED
    BY <1>5, <1>7, <1>8 DEF HInv

\* The television gives up a connection.
LEMMA LeaveStep == ASSUME HInv, OrderInv, NEW r \in Reqs, Leave(r) PROVE HInv'
  <1>1. /\ UNCHANGED <<vars, httpdVars, segOf, tvUri, flowVars>>
        /\ \/ reqs[r].state = "queued" /\ reqs' = [reqs EXCEPT ![r] = Over]
           \/ reqs[r].state = "open" /\ reqs' = [reqs EXCEPT ![r].state = "gone"]
    BY DEF Leave
  <1>2. /\ reqs' \in [Reqs -> [uri : 0..MaxConns, state : ReqStates]]
        /\ \A q \in Reqs :
             /\ reqs'[q].state \in Asking
                  => reqs'[q].uri = reqs[q].uri /\ reqs[q].state \in Asking
             /\ reqs[q].state \in {"open", "gone"}
                  => reqs'[q].state \in {"open", "gone"} /\ reqs'[q].uri = reqs[q].uri
    <2>1. reqs \in [Reqs -> [uri : 0..MaxConns, state : ReqStates]]
      BY DEF HInv, UrlInv
    <2>2. CASE reqs[r].state = "queued"
      BY <1>1, <2>1, <2>2 DEF Over, Asking, ReqStates
    <2>3. CASE reqs[r].state = "open"
      BY <1>1, <2>1, <2>3 DEF Asking, ReqStates
    <2> QED
      BY <1>1, <2>2, <2>3
  <1>3. UrlInv'
    BY <1>1, <1>2 DEF HInv, UrlInv, vars, serverVars, mediaVars
  <1>4. ThreadInv'
    BY <1>1, <1>2 DEF HInv, ThreadInv, Serving, httpdVars, vars, serverVars, mediaVars
  <1>5. FlowInv' /\ SentInv'
    BY <1>1 DEF HInv, FlowInv, SentInv, httpdVars, flowVars, vars, serverVars, mediaVars
  <1> QED
    BY <1>3, <1>4, <1>5 DEF HInv

\* The television's further bytes, read from its own connection by mistake.
LEMMA SayMoreStep == ASSUME HInv, OrderInv, SayMore PROVE HInv'
  BY Returned DEF SayMore

\* All steps together.
LEMMA HNextInv == HInv /\ OrderInv /\ OrderInv' /\ [HNext]_hvars => HInv'
  <1> SUFFICES ASSUME HInv, OrderInv, OrderInv', [HNext]_hvars PROVE HInv'
    OBVIOUS
  <1>1. CASE UNCHANGED hvars
    <2>1. FlowInv' /\ UrlInv'
      BY <1>1 DEF hvars, HInv, FlowInv, UrlInv, flowVars, vars, serverVars,
         mediaVars
    <2>2. ThreadInv' /\ SentInv'
      BY <1>1 DEF hvars, HInv, ThreadInv, SentInv, httpdVars, flowVars, vars,
         serverVars, mediaVars
    <2> QED
      BY <2>1, <2>2 DEF HInv
  <1> QED
    BY <1>1, MainInv, SignalStep, ThreadStep, ClientInv, WriteStep, FetchStep,
       LeaveStep, SayMoreStep DEF HNext

\* The invariant holds in every reachable state.
LEMMA HInvariance == HSpec => []HInv
  BY HInitInv, HNextInv, OrderOfHttpd, PTL DEF HSpec

-----------------------------------------------------------------------------
(* What follows.                                                           *)

\* Every variable of the server, of the HTTP thread and of the television keeps
\* its type: no segment, stream or connection number outside its range.
THEOREM HttpdTyping == HSpec => []HTypeOK
  <1>1. HInv /\ OrderInv => HTypeOK
    <2> SUFFICES ASSUME HInv, OrderInv PROVE HTypeOK
      OBVIOUS
    <2>1. tvUri \in 0..Direct
      BY ServerFacts DEF HInv, UrlInv, Direct
    <2> QED
      BY <2>1 DEF HTypeOK, HInv, FlowInv, UrlInv, ThreadInv, OrderInv
  <1> QED
    BY <1>1, HInvariance, OrderOfHttpd, PTL

\* The response to a URL carries nothing older than the stream its segment was
\* made from, whatever the main thread does while the HTTP thread reads, and
\* even if the number it reads from has been given to another stream.
THEOREM AsNewAsAsked == HSpec => []NothingOlderThanAsked
  <1>1. HInv => NothingOlderThanAsked
    BY DEF HInv, ThreadInv, NothingOlderThanAsked
  <1> QED
    BY <1>1, HInvariance, PTL

\* The television is sent the chunks of the streams in order and none twice,
\* as long as no read used a number that names another file.
THEOREM InOrderToTheTv == HSpec => SentInOrder
  <1>1. HInv /\ [HNext]_hvars
          => [SendChunk /\ hbuf # Foreign /\ ~raced => Later(hbuf, sent)]_hvars
    BY DEF SendChunk, HInv, SentInv
  <1> QED
    BY <1>1, HInvariance, PTL DEF HSpec, SentInOrder
=============================================================================
