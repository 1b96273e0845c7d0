------------------------------ MODULE Startup -------------------------------
(***************************************************************************)
(* How the daemon gets to its television (send2tv.c: main with --server):  *)
(* the configuration is read, a set is discovered if it names none and may *)
(* be saved, the set is connected or woken, its MAC address is appended to *)
(* the configuration, and the SOAP calls begin.  Beside it the user may    *)
(* run send2tv -d, which writes the same file.  Either may end at any step *)
(* and be started again.                                                   *)
(*                                                                         *)
(* The file and the SOAP calls share no state, so a behaviour of the model *)
(* has the second process or the calls, not both.                          *)
(***************************************************************************)
EXTENDS Config, Discover, Connect, Soap

CONSTANTS
    InitialFiles,     \* what the user may have written
    Given,            \* the hosts he may give with -h
    MaxStarts,        \* bound: starts of the daemon
    MaxUserStarts     \* bound: starts of each send2tv -d

Daemon == "daemon"

ASSUME StartsAssumption == MaxStarts \in Nat /\ MaxUserStarts \in Nat
ASSUME ProcsAssumption == Daemon \in Procs
\* A host is picked from a list or typed, a MAC address that is saved is a set's.
ASSUME NamesAssumption ==
    /\ Ips \cup {Junk} \subseteq Hosts \ {None}
    /\ Given \subseteq Hosts \ {None}
    /\ Sets \subseteq Macs \ {None}
ASSUME InitialFilesAssumption ==
    \A file \in InitialFiles :
        /\ file \in Texts
        /\ \A i \in DOMAIN file.lines : file.lines[i].key \in Keys
        /\ file.ragged => file.lines # <<>>

MaxRuns == [p \in Procs |-> IF p = Daemon THEN MaxStarts ELSE MaxUserStarts]

VARIABLES
    pc,
    host, mac,    \* main's variables
    runs,         \* starts so far
    picked,       \* history: the hosts chosen from a list
    typed,        \* history: the hosts given with -h against the file
    calling       \* this behaviour has the SOAP calls

mainVars == <<pc, host, mac, runs, picked, typed, calling>>
startupVars == <<configVars, discoverVars, connectVars, soapVars, mainVars>>

PCs == {"off", "search", "collect", "ask", "open_in", "open_out", "copy",
        "close", "rename", "connect", "link", "append"}

\* The types of all parts, and that a process not at work on the file has
\* nothing open in it.
StartupTypeOK ==
    /\ ConfigTypeOK /\ DiscoverTypeOK /\ ConnectTypeOK /\ SoapTypeOK
    /\ pc \in [Procs -> PCs]
    /\ \A p \in Procs : runs[p] \in 0..MaxRuns[p]
    /\ \A p \in Procs :
          /\ in[p] # 0 => pc[p] \in {"open_out", "copy"}
          /\ out[p] # 0 => pc[p] \in {"copy", "close", "rename", "append"}

StartupInit ==
    /\ \E file \in InitialFiles : ConfigInit(file)
    /\ calling \in {FALSE} \cup {LoadedHost # None /\ LoadedMac # None}
    /\ DiscoverInit /\ ConnectInit /\ SoapInit
    /\ pc = [p \in Procs |-> "off"]
    /\ host = [p \in Procs |-> None] /\ mac = None
    /\ runs = [p \in Procs |-> 0]
    /\ picked = {} /\ typed = {}

Goto(p, label) == pc' = [pc EXCEPT ![p] = label]

-----------------------------------------------------------------------------
(* The way to a host.                                                      *)

\* The file's host or the one given with -h, with the file's MAC address.
StartDaemon ==
    \E h \in {LoadedHost} \cup (IF calling THEN {} ELSE Given) :
        /\ host' = [host EXCEPT ![Daemon] = h] /\ mac' = LoadedMac
        /\ typed' = typed \cup ({h} \ {LoadedHost})
        /\ Goto(Daemon, IF h = None THEN "search" ELSE "connect")

\* send2tv --server and send2tv -d.
Start(p) ==
    /\ pc[p] = "off" /\ runs[p] < MaxRuns[p]
    /\ p = Daemon \/ ~calling
    /\ runs' = [runs EXCEPT ![p] = @ + 1]
    /\ IF p = Daemon THEN StartDaemon
       ELSE Goto(p, "search") /\ UNCHANGED <<host, mac, typed>>
    /\ UNCHANGED <<configVars, discoverVars, connectVars, soapVars, picked, calling>>

\* The searches of two processes share nothing: one at a time is modelled.
StartSearch(p) ==
    /\ pc[p] = "search" /\ \A q \in Procs : pc[q] # "collect"
    /\ Search
    /\ Goto(p, "collect")
    /\ UNCHANGED <<configVars, connectVars, soapVars, host, mac, runs, picked, typed, calling>>

CollectAnswer(p) ==
    /\ pc[p] = "collect"
    /\ Collect
    /\ UNCHANGED <<configVars, connectVars, soapVars, mainVars>>

\* Four seconds without an answer; the user types one of the numbers printed.
Choose(p) ==
    /\ pc[p] = "collect"
    /\ \E sel \in 1..found :
          /\ host' = [host EXCEPT ![p] = Selection(sel)]
          /\ picked' = picked \cup {Selection(sel)}
    /\ Search
    /\ Goto(p, "ask")
    /\ UNCHANGED <<configVars, connectVars, soapVars, mac, runs, typed, calling>>

AfterChoice(p) == IF p = Daemon THEN "connect" ELSE "off"

\* "Save as default? [y/N]"
Answer(p) ==
    /\ pc[p] = "ask"
    /\ \/ Goto(p, "open_in") \/ Goto(p, AfterChoice(p))
    /\ UNCHANGED <<configVars, discoverVars, connectVars, soapVars,
                   host, mac, runs, picked, typed, calling>>

SearchStep(p) == StartSearch(p) \/ CollectAnswer(p) \/ Choose(p) \/ Answer(p)

-----------------------------------------------------------------------------
(* The way to the television.                                              *)

\* update_config_host, a call at a time; the second may fail.
UpdateStep(p) ==
    \/ pc[p] = "open_in" /\ OpenIn(p) /\ Goto(p, "open_out")
    \/ pc[p] = "open_out" /\ OpenOut(p) /\ Goto(p, "copy")
    \/ pc[p] = "open_out" /\ Drop(p) /\ Goto(p, AfterChoice(p))
    \/ pc[p] = "copy" /\ Copy(p, host[p]) /\ Goto(p, "close")
    \/ pc[p] = "close" /\ CloseOut(p) /\ Goto(p, "rename")
    \/ pc[p] = "rename" /\ Rename(p, host[p])
       /\ Goto(p, IF out'[p] = 0 THEN AfterChoice(p) ELSE "rename")

Update(p) ==
    /\ UpdateStep(p)
    /\ UNCHANGED <<discoverVars, connectVars, soapVars,
                   host, mac, runs, picked, typed, calling>>

StartConnect ==
    /\ pc[Daemon] = "connect"
    /\ Connect(host[Daemon], mac)
    /\ Goto(Daemon, "link")
    /\ UNCHANGED <<configVars, discoverVars, soapVars, host, mac, runs, picked, typed, calling>>

Link ==
    /\ pc[Daemon] = "link"
    /\ ConnectStep
    /\ UNCHANGED <<configVars, discoverVars, soapVars, mainVars>>

\* fopen(path, "a"), which may fail.
OpenToAppend ==
    /\ pc[Daemon] = "link" /\ phase = "save"
    /\ \/ OpenAppend(Daemon) /\ Goto(Daemon, "append") /\ UNCHANGED connectVars
       \/ Saved /\ UNCHANGED <<pc, configVars>>
    /\ UNCHANGED <<discoverVars, soapVars, host, mac, runs, picked, typed, calling>>

AppendMac ==
    /\ pc[Daemon] = "append"
    /\ CloseAppend(Daemon, tv_mac)
    /\ Saved
    /\ Goto(Daemon, "link")
    /\ UNCHANGED <<discoverVars, soapVars, host, mac, runs, picked, typed, calling>>

ServerCommand ==
    /\ pc[Daemon] = "link" /\ phase = "up" /\ calling
    /\ Commands
    /\ UNCHANGED <<configVars, discoverVars, connectVars, mainVars>>

\* result is "none" only while the daemon makes a call.
ServerAttempt ==
    /\ SoapAction
    /\ UNCHANGED <<configVars, discoverVars, connectVars, mainVars>>

\* A process ends: its last return, a signal, a crash.
End(p) ==
    /\ pc[p] # "off"
    /\ Drop(p)
    /\ IF pc[p] = "collect" THEN Search ELSE UNCHANGED discoverVars
    /\ IF p = Daemon THEN Exit /\ Abandon ELSE UNCHANGED <<connectVars, soapVars>>
    /\ Goto(p, "off")
    /\ host' = [host EXCEPT ![p] = None]
    /\ mac' = IF p = Daemon THEN None ELSE mac
    /\ UNCHANGED <<runs, picked, typed, calling>>

Signal ==
    /\ Stop
    /\ UNCHANGED <<configVars, discoverVars, soapVars, mainVars>>

Transport ==
    /\ calling /\ Television
    /\ UNCHANGED <<configVars, discoverVars, connectVars, mainVars>>

StartupNext ==
    \/ \E p \in Procs : Start(p) \/ SearchStep(p) \/ Update(p) \/ End(p)
    \/ StartConnect \/ Link \/ OpenToAppend \/ AppendMac \/ ServerCommand
    \/ ServerAttempt \/ Signal \/ Transport

(***************************************************************************)
(* Fairness: the daemon is scheduled, and sleep and http_request return.   *)
(* A set that is off, refuses or falls silent cannot prevent that, since   *)
(* connect and each recv have a timeout.  The timeout is not one of the    *)
(* whole request: a set that sends a few bytes every few seconds for ever, *)
(* and never closes, would hold http_request (upnp.c:207-217) and is       *)
(* assumed away.                                                           *)
(***************************************************************************)
StartupFairness ==
    WF_startupVars(Link \/ OpenToAppend \/ AppendMac)

StartupSpec == StartupInit /\ [][StartupNext]_startupVars /\ StartupFairness

-----------------------------------------------------------------------------
\* The user's host and mac= are of one set, and no line "host = ..." stands
\* between two host= lines, where dropping the last of them would uncover it.
OneSet(t) ==
    /\ LastValue(t, {"mac"}) \in {LastValue(t, HostKeys), None}
       \/ LastValue(t, HostKeys) = None
    /\ \A i, j, k \in DOMAIN t.lines :
          i < j /\ j < k /\ t.lines[i].key = "host" /\ t.lines[j].key = "spaced"
              => t.lines[k].key # "host"

\* Whatever was started, changed, saved and cut short before: the set a packet
\* wakes is the one the daemon is to connect to (send2tv.c:428-431), in a file
\* that is undamaged and spoke of one set from the start.  Exceptions, for the
\* mac= line is the file's whatever the host: a host picked from a list, and one
\* given with -h that is not the file's.  The second lasts: if the file has no
\* mac= line yet, that set's is appended to it, and later starts without -h wake
\* that set instead of the file's.
WakesItsHost ==
    Undamaged /\ OneSet(original) =>
        \A w \in woken :
            w.mac = w.ip \/ w.ip \in picked \/ {w.ip, w.mac} \cap typed # {}

\* connect_to_tv ends, with a television that is off, silent or useless too.
ConnectEnds == phase = "find" ~> phase \in {"up", "down", "idle"}
=============================================================================
