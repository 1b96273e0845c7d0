# send2tv: models, model checks and proofs

send2tv plays files, URLs and the screen on a Samsung television. A **server
daemon** (`send2tv --server`) talks UPnP/SOAP to the television and serves
media over HTTP; a **client** (`send2tv file...`) transcodes or remuxes on its
side and pushes the bytes to the server. The two meet at two Unix-domain
sockets: a control socket that carries lines (`PLAY mime profile`,
`PLAY_DIRECT url mime`, `STOP`) and a data socket, one connection per stream.

## 1. Inventory

| part | code | state | operations | what is hard |
|---|---|---|---|---|
| sockets | `unix_listen`, `unix_connect`, `ctrl_send` | listen queues, unread lines, open ends | connect, send, close | a connection exists before it is accepted; a line can be read before the stream it is about |
| server loop | `server.c` | `ctrl_fd`, `data_fd`, `media.pipe_rd`, `media.running`, `seg_id` | one poll, then accept control, accept data, read one command | the three handlers act on one poll's answer although the first may replace the client; SOAP calls take seconds |
| HTTP server | `httpd.c` | `running`, the connection in service | accept, answer, stream a data connection | second thread, reads `media.pipe_rd` and `media.running` without a lock; fd numbers are reused |
| client main thread | `send2tv.c` `main` | file index, `media`, the global `running` | dial, open, create thread, PLAY, keys, seek, STOP, join, close | every step may fail or be interrupted; a seek redoes half of it |
| media threads | `media.c` `media_*_thread` | `media.running`, `media.pipe_wr` (shared) | packet loop, STOP, close | end at the same moment as a seek, a key or a signal |
| media context | `media.c` `media_open_*`, `media_close*` | a dozen FFmpeg objects | open, close for a seek, close | some twenty failing allocations and a VAAPI-to-software fallback |
| SOAP control | `upnp.c` `soap_action` ... | none | Stop, SetAVTransportURI, Play, three attempts | a request without an answer may have been executed, now or later |
| seek arithmetic | `send2tv.c` 1277-1532 | `start_sec`, pending delta, `end_mode`, `saved_pos` | arrows, `e`, debounced firing | boundaries, position of another segment |
| packet processing | `media.c` `process_*`, `encode_*`, `drain_audio_fifo` | counters, decoder delay, `audio_fifo` | read, decode, stamp, flush | packets and frames of different sizes, parts of the pipeline missing, packets that do not decode |
| media selection | `media_analyze` and its tables | profile, remux or not | one pass over the streams | tables of three functions that must agree with each other and with the server's parser |
| discovery | `upnp_discover`, `discover_and_select` | seen addresses, devices, a counter | one answer at a time | two different limits and one counter |
| configuration | `load_config`, `update_config_host`, `save_mac_to_config` | the file and its `.tmp` | load, append, rewrite and rename | crash, two writers, a missing last newline |
| wake-up and connection | `connect_to_tv`, `upnp_find_transport`, `upnp_get_mac`, `upnp_wake` | address, MAC address | look, wake, look again | a retry loop that must end, an address of another set |
| the rest | `dlna.c`, `http_request`, `xml_*`, app list, capability query, yt-dlp, options, terminal | none that outlives a call | | I/O and formatting |

What makes each part correct: the *server loop* neither leaks nor mixes up
streams and commands, whatever its clients do, and ends when it is told to; the
*HTTP server* sends the television the right bytes in the right order; the
*client* never has two threads, closes every socket, joins and frees once, and
always lets the user quit; the *media context* loses nothing and frees nothing
twice; the *packet loops* follow only live pointers, drop nothing they decoded
and keep sound and picture together; *selection* sends what the set decodes;
*discovery* lists everyone once; the *configuration* keeps the user's lines and
his choices through crashes and second writers; the *connection* wakes the right
set and ends; a *SOAP call* reported as done is done. `PROJECT.json` lists the hazards
behind these, each at its line.

## 2. Modules

| module | models | state and actions |
|---|---|---|
| `Sockets` | the two sockets and the client's system calls | Connections are numbered in the order they are made, so a listen queue is an interval (`dataAccepted`, `dataConnected`). `inbox[c]` holds the lines the server has not read. |
| `Server` (on `Sockets`) | `server_run`, `read_line`, the signal handler | `pc` is the place in the loop; `pfds` keeps the answer of the last poll for the handlers that act on it. One action per handler, but a SOAP call splits its handler, because clients and the HTTP thread run meanwhile, and so do the unlocked stores into `media.running` and `media.pipe_rd` with the `close` between them (server.c:175-179, 191-195, 203-205), because the HTTP thread can look in between: `Disconnect .. CloseCtrl`, `Switch .. ForgetOld`, `Install`/`SetRunning`. `held` is the set of data connections whose fd is open, kept apart from the two variables that name them. |
| `ServerOpen` (on `Server`) | the server with several clients of every kind | A client dials, announces, gives up, stops, and exits in any order the program's calls allow. The server's properties are stated here. |
| `StreamSwitch` | abstract: what the server promises about streams | each stream is queued, waiting, current, closed, in this order |
| `Httpd` (on `ServerOpen`) | the HTTP thread, the main thread's part in it, the television | `hpc` is the place in `httpd_thread`/`serve_pipe`; `Load` fetches the number in `media.pipe_rd` (`hfd`), a later step is the `read(2)`; `hfile` is what the number names by then, which `Renumber` follows through the main thread's closes and accepts. `ReadStream` reads a data connection, the fetched one or another, `ReadCommands` a control connection, `ReadElse` a SOAP call's socket, the thread's own connection or nothing; each may wait, and a read that waits keeps its file. |
| `Player` (on `Sockets`) | the client: main from the control connection to the exit, and the media thread | `cpc` is the place in `main`, `thread` the place in the thread, `mode` the command line. A seek is `WantSeek .. Reopen`, `next_file` is `SayStop .. MediaClose`. A join or close that the C library leaves undefined either returns or ends the process (`Crash`). |
| `System` | `Server` and `Player` together | the real client with the real server; `Any` is the instance of `ServerOpen` it implements |
| `Pipeline` | allocations of a media context | `ptr[r]` is the pointer (null, live, dangling), `live[r]` the objects that exist; one action per `init_*` call or block of `media_open_*`, each of which may fail |
| `Seek` | the arrow keys and `e` of the key loop, `upnp_get_position` | `start_sec`, `seek_delta`, `end_mode` and `saved_pos` are the code's. `Fire` is the end of the half second, `Restart` the rest of a seek, which `Player` has in detail. `tvStart`, `tvPos` and `coming` are the television, `exact` the history of what it has answered. |
| `Select` | `media_analyze` with its tables | operators: a demuxer is the set of the words in its name, as `strstr` finds them |
| `Media` (on `Pipeline`, `Select`) | the media context in use: `media_analyze` per file, the three threads' packet loops | `tpc` is the place in the thread. `vread`, `aread` are the packets read, `vheld` what the decoder holds, `fifo` the samples in `audio_fifo`, `vid_pts` and `audio_pts` the thread's own counters. `rheld` is what the resampler holds, `vcut` and `acut` count what is lost after decoding. Every step is a step of `Pipeline` or leaves its state alone. `AbandonFile` is the exit of send2tv.c:1243-1246, which frees the context while the thread runs; from then on (`Orphaned`) the thread takes no steps in the model, what it does being undefined. |
| `Config` | the configuration file | names are separate from inodes, because a rename moves the one and an open file keeps the other; one action per system call others can observe; `buffer[p]` is what the library writes at `fclose`. A dropped line leaves a gap in the sequence |
| `Discover` | `upnp_discover`, the selection | `seen`, `devices` and `found` are the code's; one action per kind of answer |
| `Connect` | `connect_to_tv` and what it calls | `phase` is the place in it, `endpoint` the entry of `dmr_endpoints`, `looks` the turns of the loop after a wake-up |
| `Soap` | `soap_action`, the server's calls, the transport | `log` is the calls made, `attempts` those that failed; `late[n]` the requests of call `n` that the television has not executed yet |
| `Startup` (on `Config`, `Discover`, `Connect`, `Soap`) | `main` with `--server`, with or without `-h`, and a user's `send2tv -d` beside it | `pc[p]` is the place of a process; `typed` and `picked` are the histories of the hosts given with `-h` against the file and chosen from a list; what a step leaves open stays open until the process ends |
| `MCStartup` | `Startup` for TLC | what the user's file may hold at first, each kind of trouble once |
| `*_proofs` | theorems about the module of that name | see section 5 |

Operators marked "Bug variant" in a module are alternatives of the action below
them, the way a plausible bug would change it. They occur in no next-state
relation; replacing the action by its variant makes the property they are paired
with in `PROJECT.json` fail.

### Abstractions

* A line on the control socket is its verb and a history field `for`, the data
  connection it was sent for, which the server never reads. `PLAY_NODLNA` is a
  `PLAY` with an empty profile, which the server's `sscanf` does not match.
* A stream is a sequence of at most `MaxChunks` chunks in `Httpd`, and only open
  or closed elsewhere.
* The server's stores take effect in the order of the source, with one exception.
  `media.pipe_rd` is not volatile, so nothing orders it against `media.running`
  for another thread; `gcc -O2`, the Makefile's choice, stores the flag before the
  descriptor at server.c:203-205. `Install` and `SetRunning` come in either order.
* A `read(2)` of a control connection by the HTTP thread takes all lines that are
  there. The HTTP thread's number is followed from the fetch to the call; which
  of the free numbers an `open` or `accept` gets is a choice.
* A poll that times out, and a poll that fails, change nothing and are no steps.
* The two listening sockets and the HTTP port are opened in one step.
* In `Player` a failed allocation of a packet or a thread-local object is left
  out, and a file is a transcoded one or a remuxed one by choice (a header
  failure is possible for both, although the remuxing thread writes its header
  before it starts).
* The media thread keeps running until the process ends, also through `Abandon`.
* In `Httpd` only the first signal is modelled: a second one ends the process at
  any moment and changes nothing the properties speak about. `ServerOpen` has both.
* In `Seek` time is counted in seconds of the film and passes in steps of `Pace`.
  The television begins a segment some time after it was announced and may leave
  a query unanswered; a demuxer lands on a key frame at most `Gop` seconds early.
* In `Media` time is counted in samples and frames, which are numbered and not
  decoded. A decoder holds back at most `Delay` frames and gives any number of
  those it has, a resampler at most `SwrDelay` samples. At most `MaxLost` times a
  loop a decoder refuses a packet, the filters a frame, the resampler a frame, or
  the FIFO cannot make room for samples; each is counted apart. A demuxer delivers
  sound and picture in the order of their times. The history
  variables start anew with every thread.
* In `Select` the MIME type is left out: both `media_open_*` overwrite it with
  `video/mp2t`. One codec stands for all that a table does not name.
* In `Config` a text is a sequence of lines with keys, and whether its last line
  lacks a newline; what is then written joins that line and garbles it. A line
  `host = x` (`spaced`) is one that `load_config` takes and `update_config_host`
  does not. Where `update_config_host` drops a line the model leaves a gap, which
  nothing reads, so that the lines of all texts can be compared by their positions.
  A write never fails. Files are shorter than the library's buffer, so
  one call reads and one writes them.
* In `Connect` a set's IP address, its MAC address and the set have one name. A
  set may be off, on, or answer uselessly at any look.
* In `Startup` the file and the SOAP calls share no state: a behaviour has the
  second process or the calls (`calling`). `-h` names one of the hosts in `Given`, and is
  given only where there are no calls, on which it has no influence. Two searches
  share nothing either, so
  there is one at a time. A process may end at every step, by a return, a signal
  or a crash, and what it had not written is lost.
* The television is external. It fetches the URI it was given, reconnects and
  closes connections whenever it likes; a SOAP call reported as failed may have
  been executed.

## 3. Runs

| run | instance | states | shows |
|---|---|---|---|
| `ServerTakeover` | 2 clients, 3 data connections, queue 2, inbox 1, PLAY and STOP | 1.5 M | `NoLeak`, `RunningMeansOpen`, `BlocksOnlyAfterTakeover`, `PlayFindsItsStream`, `ServedInOrder`, and that the loop implements `StreamSwitch` |
| `ServerLive` | 2 clients, 1 data connection, every command | 60 k | `SignalEndsServer`, `StreamsAccepted`, `ExitNoticed` |
| `HttpdStreams` | 2 clients, 2 streams of 1 chunk, 1 HTTP connection | 1.6 M | `SentInOrder`, `NothingOlderThanAsked` |
| `HttpdLive` | 1 client, 1 stream of 2 chunks, 2 HTTP connections | 57 k | `RequestsTaken`, `SignalEndsDaemon`, `SentInOrder` within a stream |
| `System` | the client with 2 files, 2 data connections, in the modes files, direct and screen | 408 k | `OneThread`, `ThreadKeepsPipe`, `NoStreamLeft`, `JoinsAndFreesOnce`, `ClientIsAllowed`, `QuitEnds` |
| `Pipeline` | `Media` with 2 files of every kind in the tables' sense and a seek, or a screen capture, 4 packets a stream | 2.5 M | types, `NothingLost`, `NoDoubleFree`, `UsesLive`, `OwnStream`, `NothingDropped`, `InStep`, `TvDecodesIt` |
| `Seek` | files of unknown length, 4 s and 75 s, 3 restarts, at most 30 s of pending keys | 1.5 M | `SeeksFromTheScreen`, `JumpsBack`, `StaysInFile` |
| `Startup` | `MCStartup`: 2 sets, 5 initial files, the daemon started twice, with or without `-h`, beside one `send2tv -d`, or 3 SOAP calls of 2 attempts | 0.9 M | types, `UserLinesKept`, `ChoiceHolds`, `MacHolds`, `CountsDevices`, `ListsWhoAnswered`, `DoneIsDone`, `WakesItsHost`, `ConnectEnds` |

Why these bounds are enough to be interesting. Three data connections are the
least that has one served, one waiting and one queued; two clients the least for
a takeover, and while the second is active the first still acts. An inbox of one
line is the least that lets a line outrun the connection it speaks of, and makes
a control socket that is full. Two streams are the least for a chunk to be put
after a newer stream's, two chunks in one for a chunk to be lost or repeated
(`HttpdStreams` has the one, `HttpdLive` the other, and `Httpd_proofs` both at
once); two clients let a descriptor number go to a control connection as well as
to a data connection; two HTTP connections let one wait behind the other. Two data
connections let the client dial a file, and
then a seek or a second file, against a queue the server may leave full. The
bounds are `MaxClients`, `MaxConns`, `Pending`, `InboxCap`, `MaxChunks`,
`MaxReqs`, `MaxFiles` and `MaxSeeks`, all constants and all in guards. In `Seek`
the three lengths are the three cases of the clamping: no upper bound, less than
the five seconds kept free at the end, and more than the minute `e` jumps to;
three restarts are the least for an `e`, a seek and an `e` back; `Pace` is larger
than a `Gop`, so a position taken for another segment's shows, and `MaxPending`
is one press of the longer arrow or three of the shorter.

In `Media` a packet is three samples and a frame two, so that the FIFO is left
with a part of a frame and a packet sometimes gives two; the frame rates are a
half (a time base of 1/0) and two, and in `LipSync` one and a half, which the integer
division cuts and for which `InStep` says nothing; `Delay`, `SwrDelay` and `MaxLost` are
one; the formats, codecs and their absence give
every line of `set_dlna_profile` and every branch of `media_analyze`; AV1 stands for
the codecs that some container of the set has and no profile. A second
file is the least for what the first left behind, a seek the least for a reopened
pipeline.

In `Startup` the tables hold one device and two addresses and two answers come, so
the list overflows; the table of addresses is filled but not overrun, which
`Startup_proofs` covers for every size. One look after a wake-up (`MaxTries`) and
one endpoint are the least for the loop to turn. The two starts are the least for
a MAC address saved by one to be used by the next, and the second process the
least for two writers. `MaxInodes` is four: the old file and three new ones. The five
files are none, one with two host= lines, one without its last newline, one with a
line `host = x` and a MAC address, and one that has such a line between two host=
lines. `-h` is given for one of the two sets, which is the file's in one file and not
in the others; a file with a MAC address and no host= comes about where a host is
picked and not saved.
Three calls are a Stop, a SetAVTransportURI and its Play, and two attempts are the
least for a call that is executed twice. `MaxAnswers`, `MaxCalls`, `MaxStarts`,
`MaxUserStarts`, `MaxInodes`, `MaxPackets` and `MaxLost` are bounds of the runs;
`MaxDevices`, `MaxSeen`, `Endpoints`, `MaxTries` and `MaxAttempts` scale constants
of the code down (16, 32, 5, 12 and 3).

Deadlock is not checked: the daemon ends on a signal, the client at the end of
its files, and then nothing is left to do.

### Runs that show a disagreement

| run | what TLC finds |
|---|---|
| `PlayPlaysItsStream` | The server accepts one data connection and reads one command per pass. A client that has made a second connection while the server waited for the television gets its first, dead stream played for the PLAY of the second ("Switch to new segment", server.c:190). `PlayFindsItsStream` and `ServedInOrder` say what still holds. |
| `ArrowsSeekFromScreen` | An arrow key adds the position the television reports to the second of the last restart (send2tv.c:1312). A second arrow key, pressed before the television has begun the segment of the first, adds the old segment's position to the new start: 20 s played, right, right lands at 60 s. The usage text promises 10 s a key (send2tv.c:117). |
| `LipSync` | The encoder's time base is `1 / (fr.num / fr.den)` in integers (media.c:1217) while the frames are numbered 0, 1, 2, ...; at 29.97 frames a second the picture is stamped 3.3 % too slow, and sound and picture part without bound. "For fixed-fps content, timebase should be 1/framerate" (avcodec.h:520). `InStep` shows that whole frame rates stay together. |
| `AnnouncedIsPlayed` | "Tell server to start playback" (send2tv.c:1257): for a remuxed file without a DLNA profile (HEVC in Matroska, AV1, MPEG-2, audio alone) the line is `PLAY video/mp2t ` with nothing after it, and the server's `sscanf` wants two words (server.c:188). Nothing is played. |

Some passing properties name an exception instead of hiding it:

* `ThreadKeepsPipe`: after "data_fd is now owned by media.pipe_wr / thread"
  (send2tv.c:1240) an interrupt makes `main` close that socket and free the
  context under the running thread, and leave (send2tv.c:1243).
* `NothingLost`: the VAAPI encoder that could not be opened is overwritten by the
  software one (media.c:1222) and never freed. It is the only object ever lost.
* `JoinsAndFreesOnce`: a failed seek leads to a second join, a `--direct` file to
  a second close of the last file's context.
* `NoDoubleFree`: the same `--direct` file, where `media_close` has left
  `audio_fifo` and `ofmt_ctx` dangling.
* `NoLeak`: between `close(media.pipe_rd)` and the `-1` the number is still there;
  `RunningMeansOpen`: the cleanup closes the stream and leaves `media.running` set,
  and a build that stores the flag before the descriptor shows it with `-1`, never
  with an old number. The converse does not hold at every step: a stream is there
  without the flag until the second of the two stores.
* `SentInOrder` stops once `raced` is set and `NothingOlderThanAsked` leaves out
  foreign bytes: `serve_pipe` may read from an fd number that was closed and
  reused since it fetched `media.pipe_rd` (httpd.c:154), by another stream, a
  client's control connection or a SOAP call. `raced` is that read.
* `RequestsTaken`: by such a read the HTTP thread may wait for the commands of a
  client, and serves nobody until the client sends one, which the server never
  sees.
* `SignalEndsDaemon`: `httpd_stop` joins a thread that was never created when a
  socket could not be opened; and in the cleanup, where `media.running` stays set
  and `media.pipe_rd` keeps the closed number, an HTTP connection may be given
  that number and the thread waits for the television on it.
* `UsesLive`, `OwnStream`, `InStep`: they end with the exit of send2tv.c:1243-1246,
  which frees the context under the thread (`Orphaned`).
* `StaysInFile`: a file shorter than five seconds restarts at a second below 0,
  since the upper bound is applied last.
  The restart may lie up to a `Gop` behind the end: the way back of `e` is not
  clamped, and the segment it left began up to that much before the second asked.
* The three properties of `Seek` hold while `exact` is set, that is, while every
  position used was about the newest segment; `ArrowsSeekFromScreen` is what
  happens otherwise.
* `InStep`: a frame rate that is not a whole number (`LipSync`), and a film of which
  a packet did not decode or something was lost after decoding: the later stamps are
  all too early.
* `TvDecodesIt`: MPEG-4 part 2 is remuxed, although the code's own table leaves it
  out of MPEG-TS.
* `UserLinesKept`: two updates that share the `.tmp` file; and the user's last
  line, if it had no newline, is joined with what is written next.
* `ChoiceHolds`, `MacHolds`: a file damaged in those ways, or overwritten by an
  update that had read an older one; and a line `host = x`, which is read but not
  replaced.
* `CountsDevices`, `ListsWhoAnswered`: beyond the tables' sizes the count runs on,
  and the user may choose an entry that was never written.
* `WakesItsHost`: a host picked from a list although the file has the `mac=` of
  another set, which nothing removes; a host given with `-h` that is not the file's
  (send2tv.c:656), for which the file's `mac=` is used all the same, and whose MAC
  address is appended to a file that has none, so that later starts without `-h` wake
  that set; a file that spoke of two sets from the start;
  and one where a line `host = x` stands between two host= lines (`OneSet`). There
  an update drops the last host= line, which was the one that counted, and
  `host = x` counts from then on, also if the user picked another set: a later start
  looks for x and wakes the set of the `mac=` line. `NoneHidden` in
  `Startup_proofs` is the condition the proof needs, and the fifth initial file has
  such lines.
* `DoneIsDone`: a request of an attempt that timed out and is executed afterwards,
  the viewer's remote control, and an HTTP page without the word Fault.

## 4. Fairness

* `ServerOpen`: the server's thread is scheduled (weak fairness of the loop),
  and `accept(2)` on the data socket does not fail for ever (strong fairness,
  since the loop may turn to other clients between two attempts). `read_line`
  has no timeout, so the server's progress also depends on the active client: a
  connected client sends another line or exits one day. Nothing is assumed about
  takeovers, about clients that have gone, or that SOAP calls succeed.
* `Httpd` adds the HTTP thread's scheduling and that a client writes its stream
  or ends it: `serve_pipe` waits in `read(2)` without a timeout. The television ends
  the connection of a SOAP call, but not one on which it hears nothing.
* `System`: the server's thread and both client threads are scheduled; accepts
  do not fail for ever. The packet loop is assumed to end only once one of its
  flags is cleared (the loop, `avio_write_pipe` and `ffmpeg_interrupt_cb` test
  them) and the key loop only once the global flag is: a user who presses
  nothing is allowed.

* `Startup`: the daemon is scheduled while it connects, up to the appending of the
  MAC address: `http_request` and `sleep` return. A set that is off, refuses or falls
  silent cannot prevent that, since `connect` and each `recv` have a timeout. None of
  the whole request has one: a set that sends a few bytes every few seconds for ever,
  and never closes, would hold `http_request` (upnp.c:207-217) and is assumed away.
  Nothing else is assumed of the television, of signals or of the other process.

## 5. Proofs

Eight modules prove theorems for every value of the constants: any number of
clients, connections, files, seeks, packets, answers and calls, any queue length,
table, packet and frame size. They rest on the assumptions the modules state about
their constants, which say no more than that a bound is a number, a set of files or
commands one of those there are, a table of addresses no shorter than that of
devices, and an unset entry no address (`SpeaksAssumption`: the commands a client
speaks in its mode are among those modelled). For `Startup` the daemon is one of the
processes, what a list offers and what is saved are values a line may have and not
the empty one, and an initial file is any sequence of lines, which is not empty if
its last line lacks a newline.

| module | theorems | property |
|---|---|---|
| `ServerOpen_proofs` | `Typing`, `Distinct`, `NeverLeaks`, `FlagRight`, `InOrder`, `Blocks`, `Pairing`, `Refinement` | `TypeOK`, `FdsDistinct`, `NoLeak`, `RunningMeansOpen`, `ServedInOrder`, `BlocksOnlyAfterTakeover`, `PlayFindsItsStream`, `ImplementsStreamSwitch` |
| `Httpd_proofs` | `HttpdIsServer`, `HttpdTyping`, `AsNewAsAsked`, `InOrderToTheTv` | (the server's specification, up to `raced`), `HTypeOK`, `NothingOlderThanAsked`, `SentInOrder` |
| `System_proofs` | `PlayerTyping`, `OneThreadAtATime`, `KeepsItsPipe`, `NothingLeftOpen`, `JoinedAndFreedOnce`, `RealClientAllowed` | `PlayerTypeOK`, `OneThread`, `ThreadKeepsPipe`, `NoStreamLeft`, `JoinsAndFreesOnce`, `ClientIsAllowed` |
| `Pipeline_proofs` | `PipelineTyping`, `LosesNothing`, `FreesAll`, `FreesOnce`, `OpensClean` | `TypeOK`, `NothingLost`, `ClosedFreesAll`, `NoDoubleFree`, `OpensIntoNull` |
| `Media_proofs` | `MediaTyping`, `DropsNothing`, `DrainsTheFifo`, `FollowsLivePointers`, `WritesItsStream`, `StaysInStep`, `PlaysWhatFits` | `MediaTypeOK`, `NothingDropped`, `LessThanAFrameLeft`, `UsesLive`, `OwnStream`, `InStep`, `TvDecodesIt` |
| `Seek_proofs` | `SeekTyping`, `ErrorsDoNotAddUp`, `ComesBack`, `RestartsInFile` | `TypeOK`, `SeeksFromTheScreen`, `JumpsBack`, `StaysInFile` |
| `Startup_proofs` (the search) | `NoDeviceTwice`, `CountIsRight`, `ListIsRight` | `ListedOnce`, `CountsDevices`, `ListsWhoAnswered` |
| `Startup_proofs` (the whole) | `StartupTyping`, `UserLinesSurvive`, `ChoiceIsFound`, `MacIsFound`, `WakesTheHost` | `StartupTypeOK`, `UserLinesKept`, `ChoiceHolds`, `MacHolds`, `WakesItsHost` |
| `Soap_proofs` | `NeverMoreOften`, `ReportsAreTrue` | `AtMostThrice`, `DoneIsDone` |

Those about parts of a composition are carried over to it: `HSpec /\ []~raced =>
Spec` (`HttpdIsServer`) and `SysSpec => Any!Spec` (`RealClientAllowed`) bring the
theorems about the server to the daemon with its HTTP thread, as long as the thread
has not read a reused number (it may take the server's lines away), and to the real
client; `HInv` needs no such condition,
`MediaSpec => Spec` (`MediaIsPipeline`) those about the heap to the packet loops,
`StartupSpec => DiscoverSpec` (`StartupDiscovers`) and `StartupSpec => SoapSpec`
(`StartupCalls`) those about the search and the calls to the daemon that makes them.

**`ServerOpen_proofs`** has three layers.

1. `OrderInv == TypeOK /\ PassInv /\ FdsInv` is the inductive core. `PassInv`
   says that what poll reported about the listening sockets still holds when its
   handler runs, since only the server takes from the queues, and that each place
   of the loop has the descriptor it works on. `FdsInv` orders the streams:
   `data_fd` is none or the connection accepted last and then newer than
   `lastServed`; `pipe_rd` is none or `lastServed`; `install` has a waiting stream
   and no served one. `FdsDistinct` alone is not inductive: that a new connection
   differs from the served one is known only because connections are numbered in
   the order they are accepted. `ServedInOrder` follows from
   `lastServed < data_fd` at `install`.
2. `LeakInv == NoLeak /\ RunningMeansOpen /\ FlagInv` is inductive given `OrderInv`:
   the connection just accepted is not held yet, and the two that a handler closes
   are different ones. `FlagInv` says the flag is clear at every place from its
   first store in a handler to the last: without it nothing is known of the flag
   when the stream is closed.
3. `CommandInv == ReadyInv /\ InboxInv` adds the commands. `InboxInv`: every line
   in an inbox names a stream already connected. `ReadyInv`: while the client that
   poll reported ready is still the active one, its line is still there and names
   a stream that was connected when poll looked. `Blocks` and `Pairing` follow.

`Refinement` maps a stream to its fate by where it stands (beyond
`dataAccepted`: queued; not held: closed; `data_fd`: waiting; else current) and
shows by `OrderInv` and `LeakInv` that every step of the loop is a step of
`StreamSwitch` or changes no fate.

**`Httpd_proofs`**: `HInv == FlowInv /\ UrlInv /\ ThreadInv /\ SentInv`, beside
`OrderInv`, which also survives a read that takes the server's lines away. That a
response is as new as its URL needs `UrlInv` (no URL names a
segment newer than the last one served) at the moment `serve_pipe` fetches
`media.pipe_rd`, and `ThreadInv` from there to `send(2)`. `SentInv` says that what
the thread holds comes after what was sent, until a reused descriptor is read.

**`System_proofs`**: `ClientInv == MainInv /\ JoinInv /\ StreamInv`. `OneThread`
is not inductive: that no thread exists at `dial` follows from the places `main`
came through. `JoinInv` says for every place in `main` whether a thread exists, has
ended or was joined, `StreamInv` whose the open stream is, and the two need each
other where the thread closes the socket. `RealClientAllowed` is a refinement: each
of the client's steps, with its seeks, failures and signals, is a step of a client
of `ServerOpen` or moves neither sockets nor server. That a client hangs up only as
it exits, and writes nothing between two files, comes from `ClientInv`.

**`Pipeline_proofs`**: `HeapInv` names the pointers that are NULL at each step
(`Untouched`), which is why no allocation overwrites an object; `CountInv` is
`NothingLost` with a lower bound. `ShapeInv` says which objects are there once a
pipeline is complete, for each kind of input.

**`Media_proofs`**: `StageInv` ties the thread's place to the pipeline's (`Agrees`) until
the context is freed under the thread, where the model ends; `UsesLive` follows from it
with `ShapeInv` and `HeapInv`: no test of a pointer that
the three loops make is one too few. `NothingDropped` and `LessThanAFrameLeft` are
inductive with `StageInv`. `StaysInStep`: `SyncInv` bounds how far the packets of one
stream are read ahead of the other's, by the order in which the demuxer delivers them;
`FifoInv` bounds the samples that are decoded and not encoded yet (the resampler's are
bounded by `SwrDelay`); `NothingDropped`
ties the stamps to the packets. At a whole frame rate the tick of the encoder's time
base is a frame, so the stamps differ by no more than those two and the decoder's
delay. The provers know no products of variables: each is a lemma of its own
(`OneMore`). `PlaysWhatFits`: a codec that has a profile in the container it comes in,
and is not transcoded, is one the tables allow in MPEG-TS (`ProfileFits`), MPEG-4
excepted; `RemuxInv` carries that from the analysis to the playing.

**`Seek_proofs`**: `ExactInv` says the client's `start_sec` is within one key frame
of where the newest segment began (`NewestInv`), however many seeks came before.
`Clamped` brings two targets no further apart (`ClampedNear`), so the error does not
grow. The types need their own form (`Types`): with an unknown length only the
number of seeks bounds `start_sec`.

**`Startup_proofs`** has three parts.

1. The search: `TablesInv` says both tables are prefixes of the order in which devices
   first answered, cut at their sizes; `NamedInv` counts who answered.
2. The file, written by any number of processes of which each may end at any step.
   `StepKinds` sorts the steps of the whole system by the call on the file they make
   (`FileStep`), and the rest of the part speaks only of those. `UserLinesKept` is not
   inductive: the file is replaced by a text that was read some steps ago. `KeptInv`
   therefore says that the user's lines are in the file, in every text that an update
   has read or is about to read, and in every file held open for an append. It needs
   `UpdateInv` (what is renamed is `Rewritten` of what was read), `AloneInv` (who writes
   the `.tmp` file has it to himself, until two updates meet there), `TmpInv` (the
   `.tmp` file is not the file, and nobody reads or appends to it) and `OpenInv`
   (who has what open; `out[p]` names an inode exactly while `p` writes, and inodes
   not made yet are empty). `SaysInv` is `ChoiceHolds` and `MacHolds` with what makes
   them inductive: after an update one host= line is left, and no append can be joined
   to another line. Both use what `ContentStep` says of the file's content: a step
   leaves it, puts a host in it or adds a MAC address, in an undamaged run.
3. The wake-up: `WakeFileInv` says the file's host is the user's or one that was
   picked, and its MAC address that host's unless the host was picked or the address
   is that of a host
   given with `-h`; `WakeMainInv`
   the same of `main`'s variables and of `connect_to_tv`'s. They need each other: the
   daemon appends the MAC address of the host it was given, which another process may
   have replaced in the file since. `LinkInv` ties `main`'s place to `connect_to_tv`'s.

What a text says is a matter of the last line with a key, and what an update does of
the first (`UpdatedHost`, `AppendedMac`). That a set of positions has a first and a
last (`FirstAndLast`) follows for finite sets from the well-foundedness of strict
inclusion, which the library states without an operator parameter.

**`Soap_proofs`**: `RequestsInv` bounds executions by the attempts of the call in
progress, and no later call has been heard of; `TransportInv` is `DoneIsDone` with
what holds between a SetAVTransportURI and its Play, which `server.c:220` sends only
after the first was accepted.

Only model-checked: liveness (`SignalEndsServer`, `StreamsAccepted`, `ExitNoticed`,
`RequestsTaken`, `SignalEndsDaemon`, `QuitEnds`, `ConnectEnds`), which is out of the
prover's reach. Every other property of the passing runs is a theorem.

The other way round, what a theorem states of every instance no run repeats: the
type invariants of `ServerOpen`, `Httpd`, `Seek` and `Player` (the one of
`Pipeline` is part of `MediaTypeOK`), and `FdsDistinct`, `OpensIntoNull`, `ClosedFreesAll`,
`LessThanAFrameLeft`, `ListedOnce` and `AtMostThrice`.

## 6. Not modelled

`serve_file` (the server runs only in sink mode), packet processing inside FFmpeg
calls, the formatting and parsing of HTTP, XML and DLNA strings, the capability
query, the app list, yt-dlp, the option parser and the terminal, the choice of an
audio stream by its selector, the codec option, writes that fail on a full disk, the
vendored FFmpeg, which is nearly all of the repository's lines and none of its logic.
The components list in `PROJECT.json` gives a reason for each.

## 7. Plan

In the order of what matters most; all of it is done.

1. `Sockets`, `Server`, `ServerOpen`: the loop and any clients.
2. `StreamSwitch` as its abstract specification.
3. `Httpd`: the second thread of the daemon.
4. `Player`, `System`: the real client.
5. `Pipeline`: the resources of a media context.
6. `ServerOpen_proofs`.
7. `Seek`: the arithmetic of the arrow keys and `e`.
8. `Select`, `Media`: what is decided about a file, and the packet loops on it.
9. `Config`, `Discover`, `Connect`, `Soap`, `Startup`: the daemon's way to its
   television and its calls.
10. Proofs about `Pipeline`, `Media`, `Seek`, `Discover`, `Soap`, `Httpd` and
    `System`, and that the real client is one of those `ServerOpen` assumes.
11. Proofs about `Config`, `Connect` and `Startup`, and of `InStep` and `TvDecodesIt`.

What would come next: the capability query, whose answer the client only prints.
