------------------------------ MODULE Discover ------------------------------
(***************************************************************************)
(* Discovery of television sets (upnp.c: upnp_discover) and the user's     *)
(* choice among them (send2tv.c: discover_and_select).                     *)
(*                                                                         *)
(* M-SEARCH asks for ssdp:all, so a device answers once for each of its    *)
(* services.  Two tables of different sizes and a counter that stops at    *)
(* neither keep what was found.                                            *)
(***************************************************************************)
EXTENDS Naturals, Sequences, FiniteSets

CONSTANTS
    Ips,          \* addresses that may answer
    MaxDevices,   \* UPNP_MAX_DEVICES, 16 in the code
    MaxSeen,      \* MAX_SEEN, 32 in the code
    MaxAnswers,   \* bound: answers to one M-SEARCH
    Junk          \* what an entry of the stack array holds before it is set

ASSUME DevicesAssumption == MaxDevices \in Nat
ASSUME SeenAssumption == MaxSeen \in Nat /\ MaxDevices <= MaxSeen
ASSUME AnswersAssumption == MaxAnswers \in Nat
ASSUME JunkAssumption == Junk \notin Ips

VARIABLES
    seen,         \* seen_ips[0 .. seen_count - 1]
    devices,      \* devices[0 .. ], as far as it has been written
    found,
    answers,      \* answers received
    named         \* history: who has answered with a usable description

discoverVars == <<seen, devices, found, answers, named>>

Entries(s) == {s[i] : i \in 1..Len(s)}

\* Types and ranges of the tables and the counter.
DiscoverTypeOK ==
    /\ seen \in Seq(Ips) /\ Len(seen) <= MaxSeen
    /\ devices \in Seq(Ips) /\ Len(devices) <= MaxDevices
    /\ found \in 0..answers
    /\ answers \in 0..MaxAnswers
    /\ named \subseteq Ips

DiscoverInit ==
    /\ seen = <<>> /\ devices = <<>>
    /\ found = 0 /\ answers = 0
    /\ named = {}

\* The socket, the M-SEARCH and the empty tables.
Search ==
    /\ seen' = <<>> /\ devices' = <<>>
    /\ found' = 0 /\ answers' = 0
    /\ named' = {}

\* No LOCATION, no description, or no name in it: the address is not noted,
\* so its next answer is tried again.
AnswerUnusable ==
    /\ answers < MaxAnswers
    /\ answers' = answers + 1
    /\ UNCHANGED <<seen, devices, found, named>>

AlreadySeen(ip) == \E k \in 1..Len(seen) : seen[k] = ip

AnswerAgain(ip) ==
    /\ answers < MaxAnswers
    /\ AlreadySeen(ip)
    /\ answers' = answers + 1
    /\ UNCHANGED <<seen, devices, found, named>>

\* Bug variant: the counter stops with the list.
NoteDeviceNoMore(ip) ==
    /\ seen' = IF Len(seen) < MaxSeen THEN Append(seen, ip) ELSE seen
    /\ devices' = IF found < MaxDevices THEN Append(devices, ip) ELSE devices
    /\ found' = IF found < MaxDevices THEN found + 1 ELSE found

\* Bug variant: the last entry of the array is not used.
NoteDeviceOneLess(ip) ==
    /\ seen' = IF Len(seen) < MaxSeen THEN Append(seen, ip) ELSE seen
    /\ devices' = IF found + 1 < MaxDevices THEN Append(devices, ip) ELSE devices
    /\ found' = found + 1

\* The address goes to the one table and the device to the other, each while
\* there is room, and the counter counts on.
NoteDevice(ip) ==
    /\ seen' = IF Len(seen) < MaxSeen THEN Append(seen, ip) ELSE seen
    /\ devices' = IF found < MaxDevices THEN Append(devices, ip) ELSE devices
    /\ found' = found + 1

AnswerNew(ip) ==
    /\ answers < MaxAnswers
    /\ ~AlreadySeen(ip)
    /\ NoteDevice(ip)
    /\ answers' = answers + 1
    /\ named' = named \cup {ip}

Collect ==
    \/ AnswerUnusable
    \/ \E ip \in Ips : AnswerAgain(ip) \/ AnswerNew(ip)

DiscoverSpec == DiscoverInit /\ [][Search \/ Collect]_discoverVars

\* devices[sel - 1].ip, for a number that passed the test against count.
Selection(sel) == IF sel <= Len(devices) THEN devices[sel] ELSE Junk

-----------------------------------------------------------------------------
\* No device is noted twice, nor listed twice for the user to choose from,
\* although each answers once for every service it has and its first answers
\* may be useless.
ListedOnce ==
    /\ \A i, j \in 1..Len(seen) : seen[i] = seen[j] => i = j
    /\ \A i, j \in 1..Len(devices) : devices[i] = devices[j] => i = j

\* "Returns number of unique devices found" (upnp.c:275): the count is that
\* number until the table of addresses is full; from then on a device that is
\* not in it is counted at every answer.
CountsDevices ==
    IF Len(seen) < MaxSeen THEN found = Cardinality(named)
    ELSE found >= Cardinality(named)

\* A device that answered usably is in the list, unless the list is full, and
\* what the user can choose has answered, unless more were counted than the
\* list holds.
ListsWhoAnswered ==
    /\ Entries(devices) \subseteq named
    /\ Len(devices) < MaxDevices => Entries(devices) = named
    /\ found <= MaxDevices => Len(devices) = found
=============================================================================
