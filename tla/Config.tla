------------------------------- MODULE Config -------------------------------
(***************************************************************************)
(* ~/.send2tv.conf and the three functions that touch it: load_config,     *)
(* save_mac_to_config and update_config_host.  Several processes run them  *)
(* and any of them may end between two system calls.                       *)
(*                                                                         *)
(* A text is its lines and whether the last one lacks its newline          *)
(* (ragged), in which case whatever is written next joins that line.  The  *)
(* library buffers what a function writes until fclose, and the files are  *)
(* shorter than its buffer, so a file is read and written by one call.     *)
(* That a write fails, which the code never looks at, is left out.  Where  *)
(* a line is dropped the model leaves a gap that nothing reads, so that    *)
(* the lines of all texts can be compared by their positions.              *)
(***************************************************************************)
EXTENDS Naturals, Sequences

CONSTANTS
    Procs,       \* the processes
    Hosts,       \* addresses of television sets
    Macs,        \* their MAC addresses
    Values,      \* what a line may say
    MaxInodes    \* bound: files created in the run

None == "none"
Garbled == "garbled"    \* the value of a line something else was joined to

ASSUME InodesAssumption == MaxInodes \in Nat \ {0}
ASSUME ValuesAssumption == Hosts \cup Macs \cup {None, Garbled} \subseteq Values

\* "spaced" is a line such as "host = x", "user" any other line.
Line(key, val) == [key |-> key, val |-> val]
Keys == {"host", "spaced", "mac", "user"}
HostKeys == {"host", "spaced"}
Gap == Line("gap", None)
Lines == [key : Keys \cup {"gap"}, val : Values]
Texts == [lines : Seq(Lines), ragged : BOOLEAN]
Text(lines) == [lines |-> lines, ragged |-> FALSE]
NoText == Text(<<>>)

VARIABLES
    conf, tmp,   \* the inodes of the two names, 0 if there is none
    text,        \* text[i]: the text of inode i
    made,        \* inodes made so far
    in, out,     \* the inodes process p works on
    buffer,      \* what it will write when it closes out[p]
    read,        \* the text its update started from
    original,    \* history: the text before the run
    chosen,      \* history: the host saved last
    saved,       \* history: the MAC address saved last
    spoilt       \* history: the ways in which the file was damaged

names == <<conf, tmp, made>>
history == <<original, chosen, saved>>
configVars == <<names, text, in, out, buffer, read, history, spoilt>>

\* shared: two updates had the same .tmp file.
\* overwritten: an update replaced a text other than the one it had read, or
\* a line was appended to a file that had lost its name.
Damages == {"shared", "overwritten"}

\* Types and ranges of the two names, the inodes, their texts and the open files.
ConfigTypeOK ==
    /\ conf \in 0..made /\ tmp \in 0..made
    /\ made \in 0..MaxInodes
    /\ text \in [1..MaxInodes -> Texts]
    /\ buffer \in [Procs -> Texts] /\ read \in [Procs -> Texts]
    /\ in \in [Procs -> 0..made] /\ out \in [Procs -> 0..made]
    /\ chosen \in Hosts \cup {None} /\ saved \in Macs \cup {None}
    /\ spoilt \subseteq Damages

ConfigInit(initial) ==
    /\ conf = (IF initial = NoText THEN 0 ELSE 1) /\ made = conf
    /\ tmp = 0
    /\ text = [i \in 1..MaxInodes |-> IF i = conf THEN initial ELSE NoText]
    /\ in = [p \in Procs |-> 0] /\ out = [p \in Procs |-> 0]
    /\ buffer = [p \in Procs |-> NoText] /\ read = [p \in Procs |-> NoText]
    /\ original = initial /\ chosen = None /\ saved = None
    /\ spoilt = {}

-----------------------------------------------------------------------------
(* load_config: the last line with a key counts.                           *)

LastValue(t, keys) ==
    LET hits == {i \in DOMAIN t.lines : t.lines[i].key \in keys}
        last == {i \in hits : \A j \in hits : j <= i}
    IN IF last = {} THEN None ELSE t.lines[CHOOSE i \in last : TRUE].val

Content(inode) == IF inode = 0 THEN NoText ELSE text[inode]
LoadedHost == LastValue(Content(conf), HostKeys)
LoadedMac == LastValue(Content(conf), {"mac"})

-----------------------------------------------------------------------------
(* Writing.                                                                *)

\* fprintf of a line at the end of a text.
Joined(t, line) ==
    IF t.ragged /\ t.lines # <<>>
    THEN Text([t.lines EXCEPT ![Len(t.lines)].val = Garbled])
    ELSE Text(Append(t.lines, line))

\* Bug variant: only the lines up to the replaced one are copied.
RewrittenUpTo(t, host) ==
    LET IsHost(i) == t.lines[i].key = "host"
        firsts == {i \in DOMAIN t.lines :
                     IsHost(i) /\ \A j \in 1..(i - 1) : ~IsHost(j)}
    IN IF firsts # {}
       THEN Text(SubSeq(t.lines, 1, (CHOOSE i \in firsts : TRUE) - 1)
                 \o <<Line("host", host)>>)
       ELSE Joined(t, Line("host", host))

\* Bug variant: further host= lines stay.
RewrittenFirst(t, host) ==
    LET hits == {i \in DOMAIN t.lines : t.lines[i].key = "host"}
        IsFirst(i) == i \in hits /\ \A j \in hits : i <= j
    IN IF hits = {} THEN Joined(t, Line("host", host))
       ELSE Text([i \in DOMAIN t.lines |->
                    IF IsFirst(i) THEN Line("host", host) ELSE t.lines[i]])

\* update_config_host's loop: the first host= line is replaced, the others are
\* dropped, and without one a line is added.
Rewritten(t, host) ==
    LET hits == {i \in DOMAIN t.lines : t.lines[i].key = "host"}
    IN IF hits = {} THEN Joined(t, Line("host", host))
       ELSE [lines |-> [i \in DOMAIN t.lines |->
                          IF i \notin hits THEN t.lines[i]
                          ELSE IF \E j \in hits : j < i THEN Gap
                          ELSE Line("host", host)],
             ragged |-> t.ragged /\ Len(t.lines) \notin hits]

-----------------------------------------------------------------------------
(* update_config_host, one action for each call that others can observe.   *)

OpenIn(p) ==
    /\ in' = [in EXCEPT ![p] = conf]
    /\ UNCHANGED <<names, text, out, buffer, read, history, spoilt>>

\* fopen of the .tmp file truncates the one another process may be at.
OpenOut(p) ==
    /\ \/ tmp # 0 /\ UNCHANGED <<tmp, made>>
       \/ tmp = 0 /\ made < MaxInodes /\ made' = made + 1 /\ tmp' = made'
    /\ out' = [out EXCEPT ![p] = tmp']
    /\ text' = [text EXCEPT ![tmp'] = NoText]
    /\ spoilt' = IF \E q \in Procs \ {p} : out[q] = tmp'
                 THEN spoilt \cup {"shared"} ELSE spoilt
    /\ UNCHANGED <<conf, in, buffer, read, history>>

\* Bug variant: the old file is left open.
CopyLeavesOpen(p, host) ==
    /\ read' = [read EXCEPT ![p] = Content(in[p])]
    /\ buffer' = [buffer EXCEPT ![p] = Rewritten(Content(in[p]), host)]
    /\ UNCHANGED <<names, text, in, out, history, spoilt>>

\* The loop over the old lines; what it writes stays in the buffer.
Copy(p, host) ==
    /\ read' = [read EXCEPT ![p] = Content(in[p])]
    /\ buffer' = [buffer EXCEPT ![p] = Rewritten(Content(in[p]), host)]
    /\ in' = [in EXCEPT ![p] = 0]
    /\ UNCHANGED <<names, text, out, history, spoilt>>

CloseOut(p) ==
    /\ text' = [text EXCEPT ![out[p]] = buffer[p]]
    /\ buffer' = [buffer EXCEPT ![p] = NoText]
    /\ UNCHANGED <<names, in, out, read, history, spoilt>>

\* Bug variant: the old file is removed first, in a call of its own.
RenameGap(p, host) ==
    /\ IF conf # 0 /\ tmp # 0 THEN conf' = 0 /\ UNCHANGED <<tmp, out, chosen>>
       ELSE conf' = tmp /\ tmp' = 0 /\ out' = [out EXCEPT ![p] = 0] /\ chosen' = host
    /\ UNCHANGED <<made, text, in, buffer, read, original, saved, spoilt>>

\* rename(2) fails if another process has renamed the .tmp file already.
Rename(p, host) ==
    /\ \/ tmp = 0 /\ UNCHANGED <<conf, tmp, chosen, spoilt>>
       \/ /\ tmp # 0 /\ conf' = tmp /\ tmp' = 0
          /\ chosen' = host
          /\ spoilt' = IF Content(conf) # read[p] THEN spoilt \cup {"overwritten"}
                       ELSE spoilt
    /\ out' = [out EXCEPT ![p] = 0]
    /\ read' = [read EXCEPT ![p] = NoText]
    /\ UNCHANGED <<made, text, in, buffer, original, saved>>

-----------------------------------------------------------------------------
(* save_mac_to_config.                                                     *)

OpenAppend(p) ==
    /\ \/ conf # 0 /\ UNCHANGED <<conf, made>>
       \/ conf = 0 /\ made < MaxInodes /\ made' = made + 1 /\ conf' = made'
    /\ out' = [out EXCEPT ![p] = conf']
    /\ UNCHANGED <<tmp, text, in, buffer, read, history, spoilt>>

\* The line goes to the end of the file that was opened, whatever its name now.
CloseAppend(p, mac) ==
    /\ text' = [text EXCEPT ![out[p]] = Joined(@, Line("mac", mac))]
    /\ spoilt' = IF out[p] # conf THEN spoilt \cup {"overwritten"} ELSE spoilt
    /\ saved' = mac
    /\ out' = [out EXCEPT ![p] = 0]
    /\ UNCHANGED <<names, in, buffer, read, original, chosen>>

\* A process that ends drops what it had open and not written.
Drop(p) ==
    /\ in' = [in EXCEPT ![p] = 0] /\ out' = [out EXCEPT ![p] = 0]
    /\ buffer' = [buffer EXCEPT ![p] = NoText] /\ read' = [read EXCEPT ![p] = NoText]
    /\ UNCHANGED <<names, text, history, spoilt>>

-----------------------------------------------------------------------------
UserLines(t) == {i \in DOMAIN t.lines : t.lines[i].key = "user"}

\* The user's own lines survive: whoever reads the file finds all of them, in
\* their order, and no others, at any moment of an update and after any crash,
\* although the updates of two processes and an append interleave.  Only a last
\* line without its newline is damaged (the next line is written onto it), and
\* a .tmp file shared by two updates may take more.
UserLinesKept ==
    "shared" \notin spoilt =>
        LET now == Content(conf)
        IN /\ UserLines(now) = UserLines(original)
           /\ \A i \in UserLines(original) :
                 \/ now.lines[i] = original.lines[i]
                 \/ original.ragged /\ i = Len(original.lines)

Undamaged == spoilt = {} /\ ~original.ragged

\* The host saved last is the one the next start finds, unless the file also
\* has a line "host = ...", which load_config reads and update_config_host does
\* not replace.
ChoiceHolds ==
    Undamaged /\ chosen # None =>
        \/ LoadedHost = chosen
        \/ \E i \in DOMAIN Content(conf).lines : Content(conf).lines[i].key = "spaced"

\* "so future cold-start invocations can send a Wake-on-LAN packet"
\* (send2tv.c:298): a MAC address once saved is found by every later start.
MacHolds == Undamaged /\ saved # None => LoadedMac = saved
=============================================================================
