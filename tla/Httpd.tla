------------------------------- MODULE Httpd -------------------------------
(***************************************************************************)
(* The HTTP thread of the server daemon (httpd.c: httpd_thread,            *)
(* handle_request, serve_pipe) beside the server's main thread, which      *)
(* switches media.pipe_rd and media.running under it without a lock, and   *)
(* the television, which fetches the URL it was sent.                      *)
(*                                                                         *)
(* A stream is a sequence of chunks, a read(2) returns one.  What a        *)
(* descriptor number names is kept apart from the number: the thread       *)
(* fetches a number (hfd), and by the time of its read(2) that may name    *)
(* another file (hfile).  The television is external: it is modelled from  *)
(* the calls the code makes to it, and it may stop, reconnect or close a   *)
(* connection whenever it likes.                                           *)
(***************************************************************************)
EXTENDS ServerOpen

CONSTANTS
    MaxChunks,    \* bound: chunks in a stream
    MaxReqs       \* bound: HTTP connections the television makes

ASSUME MaxChunksAssumption == MaxChunks \in Nat \ {0}
ASSUME MaxReqsAssumption == MaxReqs \in Nat \ {0}

Reqs == 1..MaxReqs
Chunk == Conns \X (1..MaxChunks)
NoChunk == <<NoFd, 0>>
Foreign == <<Direct, 0>>      \* bytes of a socket that is no data stream

(***************************************************************************)
(* What a descriptor number names: a data or a control connection, the     *)
(* socket of a SOAP call in progress, the HTTP connection the thread       *)
(* itself serves, or nothing.                                              *)
(***************************************************************************)
Data(d) == <<"data", d>>
Ctrl(c) == <<"ctrl", c>>
SoapSocket == <<"soap", 0>>
OwnSocket == <<"own", 0>>
Free == <<"free", 0>>
File == ({"data"} \X Conns) \cup ({"ctrl"} \X Clients)
          \cup {SoapSocket, OwnSocket, Free}

VARIABLES
    written,       \* written[d]: chunks the client wrote to stream d
    taken,         \* taken[d]: chunks the HTTP thread read from d
    httpdRunning,  \* httpd_ctx_t.running
    hpc,           \* where the HTTP thread is
    hreq,          \* the connection it is serving
    hfd,           \* the value of media.pipe_rd it loaded
    hfile,         \* what that number names now
    hbuf,          \* the chunk in its buffer
    reqs,          \* reqs[r]: the television's HTTP connections
    segOf,         \* history: segOf[k] is the stream segment k was made from
    sent,          \* history: the last chunk sent to the television
    raced,         \* history: a read used an fd number given to another file
    tvUri          \* the URI the television has: 0, a segment or Direct

httpdVars == <<httpdRunning, hpc, hreq, hfd, hfile, hbuf, sent, raced>>
flowVars == <<written, taken>>
httpSide == <<httpdVars, reqs, segOf, tvUri, flowVars>>
hvars == <<vars, httpdVars, reqs, segOf, tvUri, flowVars>>

HPCs == {"none", "poll", "request", "check", "load", "read", "blocked",
         "send", "close", "returned"}
ReqStates == {"unused", "queued", "open", "gone", "closed"}
Over == [uri |-> 0, state |-> "closed"]

\* Types and ranges of the HTTP thread's variables, the television's and the history.
HTypeOK ==
    /\ TypeOK
    /\ written \in [Conns -> 0..MaxChunks]
    /\ taken \in [Conns -> 0..MaxChunks]
    /\ httpdRunning \in BOOLEAN
    /\ hpc \in HPCs
    /\ hreq \in Reqs \cup {0}
    /\ hfd \in Conns \cup {NoFd}
    /\ hfile \in File
    /\ hbuf \in Chunk \cup {NoChunk, Foreign}
    /\ reqs \in [Reqs -> [uri : 0..MaxConns, state : ReqStates]]
    /\ segOf \in [Conns -> Conns \cup {NoFd}]
    /\ sent \in Chunk \cup {NoChunk}
    /\ raced \in BOOLEAN
    /\ tvUri \in 0..Direct

HInit ==
    /\ Init
    /\ written = [d \in Conns |-> 0]
    /\ taken = [d \in Conns |-> 0]
    /\ httpdRunning = FALSE
    /\ hpc = "none"
    /\ hreq = 0
    /\ hfd = NoFd
    /\ hfile = Free
    /\ hbuf = NoChunk
    /\ reqs = [r \in Reqs |-> [uri |-> 0, state |-> "unused"]]
    /\ segOf = [k \in Conns |-> NoFd]
    /\ sent = NoChunk
    /\ raced = FALSE
    /\ tvUri = 0

-----------------------------------------------------------------------------
(* The server's main thread, with what its SOAP calls do to the television *)
(* and with the start and the stop of the HTTP thread.                     *)

\* The number the thread is about to read from, after a step of the main
\* thread: the file may have been closed, and a number that was free before
\* the step given to the connection accepted in it.  A read(2) in progress
\* keeps its file.
StillOpen(f) ==
    \/ f[1] = "data" /\ f[2] \in held'
    \/ f[1] = "ctrl" /\ f[2] \notin dropped'
    \/ f[1] = "own"

Accepted == {Data(d) : d \in (dataAccepted + 1)..dataAccepted'}
              \cup {Ctrl(c) : c \in (ctrlAccepted + 1)..ctrlAccepted'}

Renumber ==
    hfile' \in IF hpc # "read" THEN {hfile}
               ELSE IF hfile = Free THEN {Free} \cup Accepted
               ELSE IF StillOpen(hfile) THEN {hfile}
               ELSE {Free}

\* The main thread is in a SOAP call, which opens a socket of its own.
InSoapCall == pc \in {"takeover", "disconnect", "set_uri", "play", "stop"}

otherHttpdVars == <<httpdRunning, hpc, hreq, hfd, hbuf, sent, raced>>

\* upnp_set_uri: a call that fails may still have reached the television.
\* The other calls, Stop and Play, change nothing here, the television may
\* fetch and leave at any time anyway.
MainSetsUri ==
    /\ SetUri
    /\ tvUri' \in IF pc' = "play" THEN {target} ELSE {tvUri, target}
    /\ UNCHANGED <<httpdVars, reqs, segOf, flowVars>>

MainCalls ==
    /\ FirstStop \/ Takeover \/ Disconnect \/ Stop \/ Play
    /\ Renumber
    /\ UNCHANGED <<otherHttpdVars, reqs, segOf, flowVars, tvUri>>

\* httpd_start creates the thread.
MainStarts ==
    /\ Listen
    /\ httpdRunning' = TRUE
    /\ hpc' = "poll"
    /\ hfile' = Free
    /\ UNCHANGED <<hreq, hfd, hbuf, sent, raced, reqs, segOf, flowVars, tvUri>>

MainInstalls ==
    /\ Install
    /\ segOf' = [segOf EXCEPT ![seg_id'] = data_fd]
    /\ UNCHANGED <<httpdVars, reqs, flowVars, tvUri>>

MainOther ==
    /\ \/ ListenFails \/ Poll \/ AcceptCtrl \/ AcceptSecondCtrl \/ AcceptData
       \/ AcceptFails \/ ReadEof \/ CloseServed \/ ForgetServed \/ CloseCtrl
       \/ ReadPlay \/ Switch \/ CloseOld \/ ForgetOld \/ SetRunning
       \/ ReadPlayDirect \/ ReadStop \/ ReadUnknown \/ LeaveLoop \/ Cleanup
    /\ Renumber
    /\ UNCHANGED <<otherHttpdVars, reqs, segOf, flowVars, tvUri>>

\* Bug variant: httpd_stop does not clear the flag.
MainStopsFlagless ==
    /\ StopHttpd
    /\ reqs' = [r \in Reqs |-> IF reqs[r].state = "queued" THEN Over ELSE reqs[r]]
    /\ UNCHANGED <<httpdVars, segOf, flowVars, tvUri>>

\* httpd_stop: the flag is cleared, the listening socket closed (queued
\* connections are reset) ...
MainStops ==
    /\ StopHttpd
    /\ httpdRunning' = FALSE
    /\ reqs' = [r \in Reqs |-> IF reqs[r].state = "queued" THEN Over ELSE reqs[r]]
    /\ UNCHANGED <<hpc, hreq, hfd, hfile, hbuf, sent, raced, segOf, flowVars,
                   tvUri>>

\* ... and the thread is waited for.
MainJoins ==
    /\ hpc = "returned"
    /\ JoinHttpd
    /\ UNCHANGED <<httpdVars, reqs, segOf, flowVars, tvUri>>

Main ==
    /\ MainSetsUri \/ MainCalls \/ MainStarts \/ MainInstalls \/ MainOther
       \/ MainStops \/ MainJoins
    /\ UNCHANGED clientVars

\* The first signal; a second one ends the process at any moment and adds
\* nothing here.
MainSignal ==
    /\ Signal
    /\ UNCHANGED <<clientVars, httpdVars, reqs, segOf, flowVars, tvUri>>
-----------------------------------------------------------------------------
(* The clients.                                                            *)

\* The stream's other end: in the listen queue, open, or closed by the
\* server while the HTTP thread is inside read(2).
Reachable(d) ==
    d > dataAccepted \/ d \in held \/ (hpc = "blocked" /\ hfile = Data(d))

WriteChunk(d) ==
    /\ d \in writing
    /\ Reachable(d)
    /\ written[d] < MaxChunks
    /\ written' = [written EXCEPT ![d] = @ + 1]
    /\ UNCHANGED <<vars, taken, httpdVars, reqs, segOf, tvUri>>

ClientStep(c) ==
    /\ Client(c)
    /\ UNCHANGED httpSide

-----------------------------------------------------------------------------
(* The HTTP thread.                                                        *)

hOthers == <<vars, reqs, segOf, tvUri>>

\* The number media.pipe_rd names is free after the cleanup, so the HTTP
\* connection accepted then may get it.
NumberTaken ==
    hfile' \in IF pc \in Closed /\ pipe_rd # NoFd THEN {Free, OwnSocket}
               ELSE {Free}

\* A connection is accepted, or the flag is cleared and the thread returns.
Accept(r) ==
    /\ hpc = "poll" /\ httpdRunning
    /\ reqs[r].state = "queued"
    /\ \A q \in Reqs : reqs[q].state = "queued" => r <= q
    /\ reqs' = [reqs EXCEPT ![r].state = "open"]
    /\ hreq' = r
    /\ hpc' = "request"
    /\ NumberTaken
    /\ UNCHANGED <<vars, httpdRunning, hfd, hbuf, sent, raced, segOf, tvUri,
                   flowVars>>

Return ==
    /\ hpc = "poll" /\ ~httpdRunning
    /\ hpc' = "returned"
    /\ UNCHANGED <<hOthers, httpdRunning, hreq, hfd, hfile, hbuf, sent, raced,
                   flowVars>>

\* handle_request: GET /media goes to serve_pipe (the server's media.mode is
\* MODE_SINK from the start); HEAD, other methods and paths, and a
\* connection closed before its request are answered without a body.  The
\* id in the URL is not looked at.
Request ==
    /\ hpc = "request"
    /\ \/ reqs[hreq].state = "open" /\ hpc' \in {"check", "close"}
       \/ reqs[hreq].state = "gone" /\ hpc' = "close"
    /\ UNCHANGED <<hOthers, httpdRunning, hreq, hfd, hfile, hbuf, sent, raced,
                   flowVars>>

\* while (media->running)
Check ==
    /\ hpc = "check"
    /\ hpc' = IF mRunning THEN "load" ELSE "close"
    /\ UNCHANGED <<hOthers, httpdRunning, hreq, hfd, hfile, hbuf, sent, raced,
                   flowVars>>

\* The argument of read(media->pipe_rd, ...) is fetched; read(-1) fails.
Load ==
    /\ hpc = "load"
    /\ hfd' = pipe_rd
    /\ hfile' = IF pipe_rd \in held THEN Data(pipe_rd) ELSE hfile
    /\ hpc' = IF pipe_rd = NoFd THEN "close" ELSE "read"
    /\ UNCHANGED <<hOthers, httpdRunning, hreq, hbuf, sent, raced, flowVars>>

(***************************************************************************)
(* read(2).  Between the fetch of the number and the call the main thread  *)
(* may have closed the file and the number may have been given to another: *)
(* the call then takes bytes that are not the stream's, or waits for them. *)
(* A read that waits goes on even if the file is closed meanwhile.         *)
(***************************************************************************)
Reading == hpc \in {"read", "blocked"}
Waits == hpc = "read" /\ hpc' = "blocked" /\ UNCHANGED <<hfd, hfile, hbuf, raced>>

\* The call has returned: the number does not matter any more, unless it is
\* the one of the thread's own connection, which is there to the end.
ReadReturns(label, chunk) ==
    /\ hpc' = label
    /\ hbuf' = chunk
    /\ hfd' = NoFd
    /\ hfile' = IF hfile = OwnSocket THEN OwnSocket ELSE Free

Fails == ReadReturns("close", hbuf) /\ UNCHANGED raced
GetsForeign == ReadReturns("send", Foreign) /\ raced' = TRUE

Empty(d) == taken[d] = written[d]

\* Bug variant: the end of a stream is taken for a read to be repeated.
ReadStreamRetries(d) ==
    /\ Reading /\ hfile = Data(d)
    /\ \/ /\ ~Empty(d)
          /\ taken' = [taken EXCEPT ![d] = @ + 1]
          /\ ReadReturns("send", <<d, taken'[d]>>)
          /\ raced' = (raced \/ d # hfd)
       \/ /\ Empty(d) /\ d \notin writing /\ UNCHANGED taken
          /\ ReadReturns("check", hbuf) /\ UNCHANGED raced
       \/ Empty(d) /\ d \in writing /\ Waits /\ UNCHANGED taken
    /\ UNCHANGED <<hOthers, httpdRunning, hreq, sent, written>>

\* A data connection: a chunk, the end of the stream, or a wait.
ReadStream(d) ==
    /\ Reading /\ hfile = Data(d)
    /\ \/ /\ ~Empty(d)
          /\ taken' = [taken EXCEPT ![d] = @ + 1]
          /\ ReadReturns("send", <<d, taken'[d]>>)
          /\ raced' = (raced \/ d # hfd)
       \/ Empty(d) /\ d \notin writing /\ Fails /\ UNCHANGED taken
       \/ Empty(d) /\ d \in writing /\ Waits /\ UNCHANGED taken
    /\ UNCHANGED <<hOthers, httpdRunning, hreq, sent, written>>

notInbox == <<listening, ctrlConnected, ctrlAccepted, dataConnected,
              dataAccepted, hungUp, dropped, writing>>

\* A control connection: the lines that are there, which the server will then
\* not read, the end of the client, or a wait.  A client the server dropped
\* meanwhile does not know, and writes on.
ReadCommands(c) ==
    /\ Reading /\ hfile = Ctrl(c)
    /\ \/ /\ inbox[c] # <<>> /\ GetsForeign
          /\ inbox' = [inbox EXCEPT ![c] = <<>>]
       \/ inbox[c] = <<>> /\ c \in hungUp /\ Fails /\ UNCHANGED inbox
       \/ inbox[c] = <<>> /\ c \notin hungUp /\ Waits /\ UNCHANGED inbox
       \/ hpc = "blocked" /\ c \in dropped /\ GetsForeign /\ UNCHANGED inbox
    /\ UNCHANGED <<notInbox, serverVars, clientVars, reqs, segOf, tvUri,
                   httpdRunning, hreq, sent, flowVars>>

\* A number nothing has: EBADF.  During a SOAP call it may be the socket's,
\* which gives the television's answer or its end.
ReadElse ==
    /\ \/ hpc = "read" /\ hfile = Free /\ Fails
       \/ /\ hpc = "read" /\ hfile = Free /\ InSoapCall
          /\ hpc' = "blocked" /\ hfile' = SoapSocket
          /\ UNCHANGED <<hfd, hbuf, raced>>
       \/ hpc = "blocked" /\ hfile = SoapSocket /\ (GetsForeign \/ Fails)
       \/ hpc = "read" /\ hfile = OwnSocket /\ Waits
       \/ hpc = "blocked" /\ hfile = OwnSocket /\ reqs[hreq].state = "gone" /\ Fails
    /\ UNCHANGED <<hOthers, httpdRunning, hreq, sent, flowVars>>

\* Bug variant: send_all starts the chunk over after a part was sent.
SendChunkAgain ==
    /\ hpc = "send"
    /\ \/ reqs[hreq].state = "open" /\ hpc' \in {"check", "send"}
          /\ sent' = IF hbuf = Foreign THEN sent ELSE hbuf
       \/ reqs[hreq].state = "gone" /\ hpc' = "close" /\ UNCHANGED sent
    /\ hbuf' = IF hpc' = "send" THEN hbuf ELSE NoChunk
    /\ UNCHANGED <<hOthers, httpdRunning, hreq, hfd, hfile, raced, flowVars>>

\* send_all: it fails, and the chunk is lost, when the television is gone.
SendChunk ==
    /\ hpc = "send"
    /\ \/ reqs[hreq].state = "open" /\ hpc' = "check"
          /\ sent' = IF hbuf = Foreign THEN sent ELSE hbuf
       \/ reqs[hreq].state = "gone" /\ hpc' = "close" /\ UNCHANGED sent
    /\ hbuf' = NoChunk
    /\ UNCHANGED <<hOthers, httpdRunning, hreq, hfd, hfile, raced, flowVars>>

Close ==
    /\ hpc = "close"
    /\ reqs' = [reqs EXCEPT ![hreq] = Over]
    /\ hreq' = 0
    /\ hfile' = Free
    /\ hpc' = "poll"
    /\ UNCHANGED <<vars, httpdRunning, hfd, hbuf, sent, raced, segOf, tvUri,
                   flowVars>>

Thread ==
    \/ \E r \in Reqs : Accept(r)
    \/ Return \/ Request \/ Check \/ Load
    \/ \E d \in Conns : ReadStream(d)
    \/ \E c \in Clients : ReadCommands(c)
    \/ ReadElse \/ SendChunk \/ Close

-----------------------------------------------------------------------------
(* The television.                                                         *)

\* It fetches the URI it was given.
Fetch(r) ==
    /\ tvUri \in Conns
    /\ httpdRunning
    /\ reqs[r].state = "unused"
    /\ \A q \in 1..(r - 1) : reqs[q].state # "unused"
    /\ reqs' = [reqs EXCEPT ![r] = [uri |-> tvUri, state |-> "queued"]]
    /\ UNCHANGED <<vars, httpdVars, segOf, tvUri, flowVars>>

\* It closes a connection: playback stopped, a new URI, a lost network.
Leave(r) ==
    /\ \/ reqs[r].state = "queued" /\ reqs' = [reqs EXCEPT ![r] = Over]
       \/ reqs[r].state = "open" /\ reqs' = [reqs EXCEPT ![r].state = "gone"]
    /\ UNCHANGED <<vars, httpdVars, segOf, tvUri, flowVars>>

\* It sends more on the connection of which the thread reads by mistake.
SayMore ==
    /\ hpc = "blocked" /\ hfile = OwnSocket
    /\ reqs[hreq].state = "open"
    /\ GetsForeign
    /\ UNCHANGED <<vars, reqs, segOf, tvUri, httpdRunning, hreq, sent, flowVars>>

HNext ==
    \/ Main \/ MainSignal \/ Thread
    \/ \E c \in Clients : ClientStep(c)
    \/ \E d \in Conns : WriteChunk(d)
    \/ \E r \in Reqs : Fetch(r) \/ Leave(r)
    \/ SayMore

HSpec == HInit /\ [][HNext]_hvars

(***************************************************************************)
(* Fairness: both threads are scheduled, accept(2) does not fail for ever, *)
(* a client sends a line or exits one day, writes its stream or ends it,   *)
(* and the television reads a connection or leaves it (the send of a       *)
(* chunk waits for that) and ends the connection of a SOAP call.  Nothing  *)
(* says that it ends an HTTP connection on which it hears nothing.         *)
(***************************************************************************)
HFairness ==
    /\ WF_hvars(Main)
    /\ SF_hvars(Main /\ AcceptData)
    /\ WF_hvars(Thread)
    /\ \A c \in Clients :
         /\ WF_hvars((SayPlay(c) \/ SayOther(c) \/ Exit(c)) /\ UNCHANGED httpSide)
         /\ WF_hvars(EndStream(c) /\ UNCHANGED httpSide)

HFairSpec == HSpec /\ HFairness

-----------------------------------------------------------------------------
Later(a, b) == a[1] > b[1] \/ (a[1] = b[1] /\ a[2] > b[2])

\* The television is sent the chunks of the streams in order, none twice,
\* none of an older stream after a newer one, through every switch, seek,
\* reconnection and lost send; only the reuse of an fd number between the
\* fetch of media.pipe_rd and the read could break this.
SentInOrder ==
    [][SendChunk /\ hbuf # Foreign /\ ~raced => Later(hbuf, sent)]_hvars

\* The response to "/media?id=k" carries nothing older than the stream that
\* segment k was made from, although the server does not look at the id.
NothingOlderThanAsked ==
    hpc = "send" /\ hbuf # Foreign => hbuf[1] >= segOf[reqs[hreq].uri]

\* Every connection of the television is taken up, or given up by it, unless
\* the thread waits for the commands of a client: the server then reads every
\* line before it may.
RequestsTaken ==
    \A r \in Reqs :
        reqs[r].state = "queued"
            ~> \/ reqs[r].state # "queued"
               \/ hpc = "blocked" /\ \E c \in Clients : hfile = Ctrl(c)

\* A signal ends the daemon, the HTTP thread included, with two exceptions.
\* When a socket could not be opened there is no such thread, and httpd_stop
\* joins one that was never created.  And as the cleanup leaves media.running
\* set and media.pipe_rd at the closed number, a request that comes while it
\* runs may be given that number and be read from instead of the stream.
SignalEndsDaemon ==
    ~running ~> \/ pc = "exited" \/ hpc = "none"
                \/ hpc = "blocked" /\ hfile = OwnSocket
=============================================================================
