--------------------------- MODULE Startup_proofs ---------------------------
(***************************************************************************)
(* Proofs about how the daemon gets to its television: the two tables and  *)
(* the counter of upnp_discover, then the composition of discovery,        *)
(* connection, SOAP calls and configuration file, with any number of       *)
(* processes, restarts, sets and files, for any file of the user's.        *)
(***************************************************************************)
EXTENDS Startup, Soap_proofs, FiniteSetTheorems

-----------------------------------------------------------------------------
(* upnp_discover by itself.                                                 *)

USE DevicesAssumption, SeenAssumption, AnswersAssumption

\* What the tables are to the counter and to those who answered: seen holds the
\* first answers as long as there is room, devices a prefix of it.
TablesInv ==
    /\ Len(seen) = IF found <= MaxSeen THEN found ELSE MaxSeen
    /\ Len(devices) = IF found <= MaxDevices THEN found ELSE MaxDevices
    /\ \A i \in 1..Len(devices) : devices[i] = seen[i]
    /\ \A i, j \in 1..Len(seen) : seen[i] = seen[j] => i = j
    /\ \A i \in 1..Len(seen) : seen[i] \in named
    /\ Len(seen) < MaxSeen => \A ip \in named : \E i \in 1..Len(seen) : seen[i] = ip

NamedInv ==
    /\ IsFiniteSet(named)
    /\ Cardinality(named) <= found
    /\ Len(seen) < MaxSeen => found = Cardinality(named)

DInv == DiscoverTypeOK /\ TablesInv /\ NamedInv

\* Empty tables satisfy the invariant.
LEMMA EmptyTables ==
    ASSUME seen = <<>>, devices = <<>>, found = 0, answers = 0, named = {}
    PROVE  DInv
  <1>1. /\ Len(seen) = 0 /\ Len(devices) = 0
        /\ seen \in Seq(Ips) /\ devices \in Seq(Ips)
    OBVIOUS
  <1>2. IsFiniteSet(named) /\ Cardinality(named) = 0
    BY FS_EmptySet
  <1> QED
    BY <1>1, <1>2 DEF DInv, DiscoverTypeOK, TablesInv, NamedInv

\* A new answer puts its address behind the others, in each table with room.
LEMMA NewAnswer ==
    ASSUME DInv, NEW ip \in Ips, AnswerNew(ip)
    PROVE  DInv'
  <1> USE DEF DInv
  <1>1. /\ seen \in Seq(Ips) /\ devices \in Seq(Ips)
        /\ Len(seen) \in Nat /\ Len(devices) \in Nat /\ found \in Nat
        /\ answers \in 0..MaxAnswers /\ found <= answers
    BY DEF DiscoverTypeOK
  <1>2. /\ answers < MaxAnswers /\ answers' = answers + 1 /\ found' = found + 1
        /\ named' = named \cup {ip}
        /\ \A k \in 1..Len(seen) : seen[k] # ip
    BY DEF AnswerNew, NoteDevice, AlreadySeen
  <1>3. /\ Append(seen, ip) \in Seq(Ips) /\ Len(Append(seen, ip)) = Len(seen) + 1
        /\ \A i \in 1..Len(seen) : Append(seen, ip)[i] = seen[i]
        /\ Append(seen, ip)[Len(seen) + 1] = ip
    BY <1>1, AppendProperties
  <1>4. /\ Append(devices, ip) \in Seq(Ips) /\ Len(Append(devices, ip)) = Len(devices) + 1
        /\ \A i \in 1..Len(devices) : Append(devices, ip)[i] = devices[i]
        /\ Append(devices, ip)[Len(devices) + 1] = ip
    BY <1>1, AppendProperties
  <1>5. /\ seen' \in Seq(Ips) /\ devices' \in Seq(Ips)
        /\ Len(seen') = IF Len(seen) < MaxSeen THEN Len(seen) + 1 ELSE Len(seen)
        /\ Len(devices') = IF found < MaxDevices THEN Len(devices) + 1 ELSE Len(devices)
        /\ \A i \in 1..Len(seen) : seen'[i] = seen[i]
        /\ \A i \in 1..Len(devices) : devices'[i] = devices[i]
        /\ Len(seen) < MaxSeen => seen'[Len(seen) + 1] = ip
        /\ found < MaxDevices => devices'[Len(devices) + 1] = ip
    BY <1>1, <1>3, <1>4 DEF AnswerNew, NoteDevice
  <1>6. /\ Len(seen) = IF found <= MaxSeen THEN found ELSE MaxSeen
        /\ Len(devices) = IF found <= MaxDevices THEN found ELSE MaxDevices
        /\ MaxDevices <= MaxSeen /\ MaxDevices \in Nat /\ MaxSeen \in Nat
    BY DEF TablesInv
  <1>7. /\ Len(seen') = IF found' <= MaxSeen THEN found' ELSE MaxSeen
        /\ Len(devices') = IF found' <= MaxDevices THEN found' ELSE MaxDevices
    BY <1>1, <1>2, <1>5, <1>6
  <1>8. DiscoverTypeOK'
    BY <1>1, <1>2, <1>5, <1>6, <1>7 DEF DiscoverTypeOK
  <1>9. TablesInv'
    <2>1. ASSUME NEW i \in 1..Len(devices')
          PROVE  devices'[i] = seen'[i]
      <3>1. CASE i \in 1..Len(devices)
        BY <1>1, <1>5, <1>6, <3>1 DEF TablesInv
      <3>2. CASE i = Len(devices) + 1 /\ found < MaxDevices
        BY <1>1, <1>5, <1>6, <3>2
      <3> QED
        BY <1>1, <1>5, <3>1, <3>2
    <2>2. ASSUME NEW i \in 1..Len(seen'), NEW j \in 1..Len(seen'), seen'[i] = seen'[j]
          PROVE  i = j
      <3>1. \A k \in 1..Len(seen') :
               \/ k \in 1..Len(seen) /\ seen'[k] = seen[k] /\ seen'[k] # ip
               \/ k = Len(seen) + 1 /\ seen'[k] = ip
        <4>1. ASSUME NEW k \in 1..Len(seen)
              PROVE  seen'[k] = seen[k] /\ seen'[k] # ip
          BY <1>2, <1>5, <4>1
        <4>2. \A k \in 1..Len(seen') :
                 \/ k \in 1..Len(seen)
                 \/ k = Len(seen) + 1 /\ Len(seen) < MaxSeen
          BY <1>1, <1>5
        <4> QED
          BY <1>5, <4>1, <4>2
      <3> QED
        BY <2>2, <3>1 DEF TablesInv
    <2>3. ASSUME NEW i \in 1..Len(seen')
          PROVE  seen'[i] \in named'
      <3>1. CASE i \in 1..Len(seen)
        BY <1>2, <1>5, <3>1 DEF TablesInv
      <3>2. CASE i = Len(seen) + 1 /\ Len(seen) < MaxSeen
        BY <1>2, <1>5, <3>2
      <3> QED
        BY <1>1, <1>5, <3>1, <3>2
    <2>4. ASSUME Len(seen') < MaxSeen, NEW x \in named'
          PROVE  \E i \in 1..Len(seen') : seen'[i] = x
      <3>1. Len(seen) < MaxSeen /\ Len(seen') = Len(seen) + 1
        BY <1>1, <1>5, <1>6, <2>4
      <3>2. CASE x = ip
        BY <1>1, <1>5, <3>1, <3>2
      <3>3. CASE x \in named
        <4>1. PICK i \in 1..Len(seen) : seen[i] = x
          BY <3>1, <3>3 DEF TablesInv
        <4> QED
          BY <1>1, <1>5, <3>1, <4>1
      <3> QED
        BY <1>2, <3>2, <3>3
    <2> QED
      BY <1>7, <2>1, <2>2, <2>3, <2>4 DEF TablesInv
  <1>10. NamedInv'
    <2>1. /\ IsFiniteSet(named') /\ Cardinality(named) \in Nat
          /\ Cardinality(named') = IF ip \in named THEN Cardinality(named)
                                   ELSE Cardinality(named) + 1
      BY <1>2, FS_AddElement, FS_CardinalityType DEF NamedInv
    <2>2. Len(seen') < MaxSeen => Len(seen) < MaxSeen
      BY <1>1, <1>5
    <2>3. Len(seen) < MaxSeen => ip \notin named
      BY <1>2 DEF TablesInv
    <2> QED
      BY <1>1, <1>2, <2>1, <2>2, <2>3 DEF NamedInv
  <1> QED
    BY <1>8, <1>9, <1>10

\* Initially the tables are empty.
LEMMA DInit == DiscoverInit => DInv
  BY EmptyTables DEF DiscoverInit

\* A new search empties the tables; an answer keeps the invariant.
LEMMA DStep == DInv /\ [Search \/ Collect]_discoverVars => DInv'
  <1> SUFFICES ASSUME DInv, [Search \/ Collect]_discoverVars PROVE DInv'
    OBVIOUS
  <1>1. CASE Search
    <2>1. /\ Len(seen') = 0 /\ Len(devices') = 0
          /\ seen' \in Seq(Ips) /\ devices' \in Seq(Ips)
          /\ found' = 0 /\ answers' = 0 /\ named' = {}
      BY <1>1 DEF Search
    <2>2. IsFiniteSet(named') /\ Cardinality(named') = 0
      BY <2>1, FS_EmptySet
    <2> QED
      BY <2>1, <2>2 DEF DInv, DiscoverTypeOK, TablesInv, NamedInv
  <1>2. ASSUME AnswerUnusable \/ \E ip \in Ips : AnswerAgain(ip)
        PROVE  DInv'
    <2>1. /\ answers' = answers + 1 /\ answers < MaxAnswers
          /\ UNCHANGED <<seen, devices, found, named>>
      BY <1>2 DEF AnswerUnusable, AnswerAgain
    <2> QED
      BY <2>1 DEF DInv, DiscoverTypeOK, TablesInv, NamedInv
  <1>3. CASE UNCHANGED discoverVars
    BY <1>3 DEF discoverVars, DInv, DiscoverTypeOK, TablesInv, NamedInv
  <1> QED
    BY <1>1, <1>2, <1>3, NewAnswer DEF Collect

\* The invariant of the tables.
THEOREM DiscoverInvariance == DiscoverSpec => []DInv
  BY DInit, DStep, PTL DEF DiscoverSpec

\* Types and ranges: neither table grows beyond its array.
THEOREM DiscoverTyping == DiscoverSpec => []DiscoverTypeOK
  <1>1. DInv => DiscoverTypeOK
    BY DEF DInv
  <1> QED
    BY <1>1, DiscoverInvariance, PTL

\* A device is listed once, however often it answers (upnp.c: upnp_discover).
THEOREM NoDeviceTwice == DiscoverSpec => []ListedOnce
  <1>1. DInv => ListedOnce
    <2> SUFFICES ASSUME DInv PROVE ListedOnce
      OBVIOUS
    <2>1. Len(devices) \in Nat /\ Len(seen) \in Nat /\ Len(devices) <= Len(seen)
      BY DEF DInv, DiscoverTypeOK, TablesInv
    <2> QED
      BY <2>1 DEF DInv, TablesInv, ListedOnce
  <1> QED
    BY <1>1, DiscoverInvariance, PTL

\* The count is that of the devices until the table of addresses is full.
THEOREM CountIsRight == DiscoverSpec => []CountsDevices
  <1>1. DInv => CountsDevices
    <2> SUFFICES ASSUME DInv PROVE CountsDevices
      OBVIOUS
    <2>1. Cardinality(named) \in Nat /\ found \in Nat
      BY FS_CardinalityType DEF DInv, NamedInv, DiscoverTypeOK
    <2> QED
      BY <2>1 DEF DInv, NamedInv, CountsDevices
  <1> QED
    BY <1>1, DiscoverInvariance, PTL

\* The list has those who answered, and only those, as far as it reaches.
THEOREM ListIsRight == DiscoverSpec => []ListsWhoAnswered
  <1>1. DInv => ListsWhoAnswered
    <2> SUFFICES ASSUME DInv PROVE ListsWhoAnswered
      OBVIOUS
    <2>1. /\ Len(devices) \in Nat /\ Len(seen) \in Nat /\ found \in Nat
          /\ Len(seen) = IF found <= MaxSeen THEN found ELSE MaxSeen
          /\ Len(devices) = IF found <= MaxDevices THEN found ELSE MaxDevices
          /\ \A i \in 1..Len(devices) : devices[i] = seen[i]
          /\ \A i \in 1..Len(seen) : seen[i] \in named
          /\ Len(seen) < MaxSeen => \A ip \in named : \E i \in 1..Len(seen) : seen[i] = ip
      BY DEF DInv, DiscoverTypeOK, TablesInv
    <2>2. Len(devices) <= Len(seen)
      BY <2>1
    <2>3. Entries(devices) \subseteq named
      BY <2>1, <2>2 DEF Entries
    <2>4. ASSUME Len(devices) < MaxDevices, NEW ip \in named
          PROVE  ip \in Entries(devices)
      <3>1. Len(seen) = Len(devices) /\ Len(seen) < MaxSeen
        <4>1. found <= MaxDevices /\ Len(devices) = found
          BY <2>1, <2>4
        <4>2. found < MaxSeen
          BY <2>1, <2>4, <4>1
        <4> QED
          BY <2>1, <4>1, <4>2
      <3>2. PICK i \in 1..Len(seen) : seen[i] = ip
        BY <2>1, <3>1
      <3> QED
        BY <2>1, <3>1, <3>2 DEF Entries
    <2> QED
      BY <2>1, <2>3, <2>4 DEF ListsWhoAnswered
  <1> QED
    BY <1>1, DiscoverInvariance, PTL

-----------------------------------------------------------------------------
(* The parts in the composition.                                            *)

\* Every step of the daemon or of send2tv -d is a step of upnp_discover, or
\* leaves its tables alone.
LEMMA StepDiscovers ==
    [StartupNext]_startupVars => [Search \/ Collect]_discoverVars
  BY DEF StartupNext, startupVars, Start, SearchStep, StartSearch, CollectAnswer,
     Choose, Answer, Update, End, StartConnect, Link, OpenToAppend, AppendMac,
     ServerCommand, ServerAttempt, Signal, Transport

\* Likewise of the SOAP calls.
LEMMA StepCalls ==
    [StartupNext]_startupVars
        => [Commands \/ SoapAction \/ Abandon \/ Television]_soapVars
  BY DEF StartupNext, startupVars, Start, SearchStep, StartSearch, CollectAnswer,
     Choose, Answer, Update, End, StartConnect, Link, OpenToAppend, AppendMac,
     ServerCommand, ServerAttempt, Signal, Transport

\* What is proved of the tables of upnp_discover holds in the daemon and in
\* send2tv -d, killed and started again at any step.
THEOREM StartupDiscovers == StartupSpec => DiscoverSpec
  <1>1. StartupInit => DiscoverInit
    BY DEF StartupInit
  <1> QED
    BY <1>1, StepDiscovers, PTL DEF StartupSpec, DiscoverSpec

\* What is proved of soap_action holds of the calls of a daemon that is killed
\* and started again.
THEOREM StartupCalls == StartupSpec => SoapSpec
  <1>1. StartupInit => SoapInit
    BY DEF StartupInit
  <1> QED
    BY <1>1, StepCalls, PTL DEF StartupSpec, SoapSpec

\* The counter is right and the list holds who answered, in the composition.
THEOREM StartupFinds == StartupSpec => [](CountsDevices /\ ListsWhoAnswered)
  BY StartupDiscovers, CountIsRight, ListIsRight, PTL

\* No call reaches the television more than three times, and one reported as
\* done was done, in the composition.
THEOREM StartupReports == StartupSpec => [](AtMostThrice /\ DoneIsDone)
  BY StartupCalls, NeverMoreOften, ReportsAreTrue, PTL

-----------------------------------------------------------------------------
(* Texts: what fprintf and the loop of update_config_host make of them.     *)

\* The parts of a text.
LEMMA TextParts ==
    ASSUME NEW t \in Texts
    PROVE  /\ t = [lines |-> t.lines, ragged |-> t.ragged]
           /\ t.lines \in Seq(Lines) /\ Len(t.lines) \in Nat
           /\ DOMAIN t.lines = 1..Len(t.lines)
           /\ \A i \in DOMAIN t.lines : t.lines[i] \in Lines
           /\ t.ragged \in BOOLEAN
  BY DEF Texts

\* A host= or mac= line is a line, and so is a gap.
LEMMA LineTyping ==
    ASSUME NEW key \in Keys, NEW val \in Values
    PROVE  Line(key, val) \in Lines /\ Gap \in Lines
  BY ValuesAssumption DEF Line, Lines, Gap

\* Any lines without a ragged end are a text.
LEMMA TextTyping ==
    ASSUME NEW s \in Seq(Lines)
    PROVE  Text(s) \in Texts /\ Text(s).lines = s /\ ~Text(s).ragged
  BY DEF Text, Texts

\* A file that is not there counts as one without lines.
LEMMA NoTextTyping == NoText \in Texts /\ NoText.lines = <<>> /\ ~NoText.ragged
  <1>1. <<>> \in Seq(Lines)
    OBVIOUS
  <1> QED
    BY <1>1, TextTyping DEF NoText

\* A line written to a text whose last line is complete stands behind the others.
LEMMA JoinedAppends ==
    ASSUME NEW t \in Texts, NEW line \in Lines, ~t.ragged
    PROVE  /\ Joined(t, line) \in Texts /\ ~Joined(t, line).ragged
           /\ Len(Joined(t, line).lines) = Len(t.lines) + 1
           /\ \A i \in 1..Len(t.lines) : Joined(t, line).lines[i] = t.lines[i]
           /\ Joined(t, line).lines[Len(t.lines) + 1] = line
  <1> DEFINE s == Append(t.lines, line)
  <1>1. /\ s \in Seq(Lines) /\ Len(s) = Len(t.lines) + 1
        /\ \A i \in 1..Len(t.lines) : s[i] = t.lines[i]
        /\ s[Len(t.lines) + 1] = line
    BY TextParts, AppendProperties
  <1>2. Joined(t, line) = Text(s)
    BY DEF Joined
  <1> HIDE DEF s
  <1> QED
    BY <1>1, <1>2, TextTyping

\* A line written behind an incomplete one changes what that one says.
LEMMA JoinedGarbles ==
    ASSUME NEW t \in Texts, NEW line \in Lines, t.ragged, t.lines # <<>>
    PROVE  /\ Joined(t, line) \in Texts /\ ~Joined(t, line).ragged
           /\ Len(Joined(t, line).lines) = Len(t.lines)
           /\ \A i \in 1..Len(t.lines) :
                 /\ Joined(t, line).lines[i].key = t.lines[i].key
                 /\ i # Len(t.lines) => Joined(t, line).lines[i] = t.lines[i]
  <1> DEFINE n == Len(t.lines)
             s == [t.lines EXCEPT ![n].val = Garbled]
  <1>0. t.lines \in Seq(Lines) /\ n \in Nat /\ DOMAIN t.lines = 1..n
    BY TextParts
  <1>1. n \in 1..n
    BY <1>0
  <1>2. \A i \in 1..n : t.lines[i] \in Lines
    BY <1>0
  <1>3. \A i \in 1..n : s[i] = IF i = n THEN [t.lines[i] EXCEPT !.val = Garbled] ELSE t.lines[i]
    BY <1>0, <1>1
  <1>4. \A i \in 1..n : s[i] \in Lines /\ s[i].key = t.lines[i].key
    BY <1>2, <1>3, ValuesAssumption DEF Lines
  <1>5. DOMAIN s = 1..n
    BY <1>0
  <1>6. s \in [1..n -> Lines]
    <2>1. s = [i \in 1..n |-> s[i]]
      BY <1>0
    <2> HIDE DEF s
    <2> QED
      BY <1>4, <2>1
  <1>7. Joined(t, line) = Text(s)
    BY DEF Joined
  <1> HIDE DEF s, n
  <1>8. s \in Seq(Lines) /\ Len(s) = n
    BY <1>0, <1>6
  <1> QED
    BY <1>3, <1>4, <1>7, <1>8, TextTyping DEF n

\* The lines of host=.
Hits(t) == {i \in DOMAIN t.lines : t.lines[i].key = "host"}
First(i, t) == i \in Hits(t) /\ \A j \in Hits(t) : i <= j

\* An update of a text with a host= line: every line keeps its place.
LEMMA RewrittenReplaces ==
    ASSUME NEW t \in Texts, NEW h \in Values, Hits(t) # {}
    PROVE  /\ Rewritten(t, h) \in Texts
           /\ Len(Rewritten(t, h).lines) = Len(t.lines)
           /\ \A i \in 1..Len(t.lines) :
                 Rewritten(t, h).lines[i] =
                     IF i \notin Hits(t) THEN t.lines[i]
                     ELSE IF \E j \in Hits(t) : j < i THEN Gap
                     ELSE Line("host", h)
           /\ Rewritten(t, h).ragged => t.ragged
  <1> DEFINE Place(i) == IF i \notin Hits(t) THEN t.lines[i]
                         ELSE IF \E j \in Hits(t) : j < i THEN Gap
                         ELSE Line("host", h)
             n == Len(t.lines)
             s == [i \in 1..n |-> Place(i)]
             r == t.ragged /\ Len(t.lines) \notin Hits(t)
  <1>0. /\ n \in Nat /\ DOMAIN t.lines = 1..n
        /\ \A i \in 1..n : t.lines[i] \in Lines
    BY TextParts
  <1>1. Rewritten(t, h) = [lines |-> s, ragged |-> r]
    BY <1>0 DEF Rewritten, Hits
  <1>2. \A i \in 1..n : Place(i) \in Lines
    BY <1>0, LineTyping DEF Keys
  <1>3. \A i \in 1..n : s[i] = Place(i)
    OBVIOUS
  <1> HIDE DEF Place
  <1>4. s \in [1..n -> Lines]
    BY <1>2
  <1> HIDE DEF s, n
  <1>5. s \in Seq(Lines) /\ Len(s) = n
    BY <1>0, <1>4
  <1>6. r \in BOOLEAN /\ (r => t.ragged)
    OBVIOUS
  <1> HIDE DEF r
  <1>7. Rewritten(t, h) \in Texts
    BY <1>1, <1>5, <1>6 DEF Texts
  <1>8. Rewritten(t, h).lines = s /\ Rewritten(t, h).ragged = r
    BY <1>1
  <1> QED
    BY <1>3, <1>5, <1>6, <1>7, <1>8 DEF n, Place

\* Without a host= line one is written at the end.
LEMMA RewrittenAdds ==
    ASSUME NEW t, NEW h, Hits(t) = {}
    PROVE  Rewritten(t, h) = Joined(t, Line("host", h))
  BY DEF Rewritten, Hits

\* A text that has the user's lines of o, where they are in o and as they are
\* there, except for an incomplete last one.
Kept(o, t) ==
    /\ t \in Texts
    /\ UserLines(t) = UserLines(o)
    /\ \A i \in UserLines(o) :
          \/ t.lines[i] = o.lines[i]
          \/ o.ragged /\ i = Len(o.lines)
    /\ t.ragged => /\ o.ragged /\ t.lines # <<>>
                   /\ Len(t.lines) = Len(o.lines)

\* Neither an update nor an append touches a line of the user's.
LEMMA JoinedKeeps ==
    ASSUME NEW o, NEW t, Kept(o, t), NEW key \in Keys \ {"user"}, NEW val \in Values
    PROVE  Kept(o, Joined(t, Line(key, val)))
  <1> DEFINE line == Line(key, val)
             new == Joined(t, line)
  <1>0. /\ t \in Texts /\ Len(t.lines) \in Nat /\ DOMAIN t.lines = 1..Len(t.lines)
        /\ line \in Lines /\ line.key # "user"
    BY TextParts, LineTyping DEF Kept, Line
  <1>1. CASE ~t.ragged
    <2>1. /\ new \in Texts /\ ~new.ragged
          /\ Len(new.lines) = Len(t.lines) + 1
          /\ \A i \in 1..Len(t.lines) : new.lines[i] = t.lines[i]
          /\ new.lines[Len(t.lines) + 1] = line
      BY <1>0, <1>1, JoinedAppends
    <2>2. DOMAIN new.lines = 1..(Len(t.lines) + 1)
      BY <2>1, TextParts
    <2> HIDE DEF new, line
    <2>3. UserLines(new) = UserLines(t)
      BY <1>0, <2>1, <2>2 DEF UserLines
    <2>4. \A i \in UserLines(t) : new.lines[i] = t.lines[i]
      BY <1>0, <2>1 DEF UserLines
    <2> QED
      BY <2>1, <2>3, <2>4 DEF Kept, new, line
  <1>2. CASE t.ragged
    <2>1. /\ new \in Texts /\ ~new.ragged
          /\ Len(new.lines) = Len(t.lines)
          /\ \A i \in 1..Len(t.lines) :
                /\ new.lines[i].key = t.lines[i].key
                /\ i # Len(t.lines) => new.lines[i] = t.lines[i]
      BY <1>0, <1>2, JoinedGarbles DEF Kept
    <2>2. DOMAIN new.lines = 1..Len(t.lines)
      BY <2>1, TextParts
    <2>3. o.ragged /\ Len(t.lines) = Len(o.lines)
      BY <1>2 DEF Kept
    <2> HIDE DEF new, line
    <2>4. UserLines(new) = UserLines(t)
      BY <1>0, <2>1, <2>2 DEF UserLines
    <2>5. \A i \in UserLines(t) : i # Len(t.lines) => new.lines[i] = t.lines[i]
      BY <1>0, <2>1 DEF UserLines
    <2> QED
      BY <2>1, <2>3, <2>4, <2>5 DEF Kept, new, line
  <1> QED
    BY <1>1, <1>2

\* An update touches no line of the user's: it replaces and drops host= lines.
LEMMA RewrittenKeeps ==
    ASSUME NEW o, NEW t, Kept(o, t), NEW h \in Values
    PROVE  Kept(o, Rewritten(t, h))
  <1>1. CASE Hits(t) = {}
    <2>1. Rewritten(t, h) = Joined(t, Line("host", h))
      BY <1>1, RewrittenAdds
    <2>2. "host" \in Keys \ {"user"}
      BY DEF Keys
    <2> QED
      BY <2>1, <2>2, JoinedKeeps
  <1>2. CASE Hits(t) # {}
    <2> DEFINE new == Rewritten(t, h)
    <2>0. /\ t \in Texts /\ Len(t.lines) \in Nat /\ DOMAIN t.lines = 1..Len(t.lines)
      BY TextParts DEF Kept
    <2>1. /\ new \in Texts
          /\ Len(new.lines) = Len(t.lines)
          /\ \A i \in 1..Len(t.lines) :
                new.lines[i] = IF i \notin Hits(t) THEN t.lines[i]
                               ELSE IF \E j \in Hits(t) : j < i THEN Gap
                               ELSE Line("host", h)
          /\ new.ragged => t.ragged
      BY <1>2, <2>0, RewrittenReplaces
    <2>2. DOMAIN new.lines = 1..Len(t.lines)
      BY <2>1, TextParts
    <2> HIDE DEF new
    <2>3. \A i \in 1..Len(t.lines) :
             \/ new.lines[i] = t.lines[i]
             \/ t.lines[i].key = "host" /\ new.lines[i].key \in {"gap", "host"}
      BY <2>0, <2>1 DEF Hits, Gap, Line
    <2>4. UserLines(new) = UserLines(t)
      BY <2>0, <2>2, <2>3 DEF UserLines
    <2>5. \A i \in UserLines(t) : new.lines[i] = t.lines[i]
      BY <2>0, <2>3 DEF UserLines
    <2>6. new.ragged => new.lines # <<>>
      <3>1. SUFFICES ASSUME new.lines = <<>>, t.ragged PROVE FALSE
        BY <2>1
      <3>2. Len(t.lines) = 0 /\ t.lines # <<>> /\ t.lines \in Seq(Lines)
        BY <2>0, <2>1, <3>1, TextParts DEF Kept
      <3> QED
        BY <3>2, EmptySeq
    <2> QED
      BY <2>1, <2>4, <2>5, <2>6 DEF Kept, new
  <1> QED
    BY <1>1, <1>2

-----------------------------------------------------------------------------
(* What load_config finds in a text.                                        *)

KeyLines(t, keys) == {i \in DOMAIN t.lines : t.lines[i].key \in keys}
LastLines(t, keys) == {i \in KeyLines(t, keys) : \A j \in KeyLines(t, keys) : j <= i}

\* load_config's value, by the set of the lines that could give it.
LEMMA LastLine ==
    ASSUME NEW t, NEW keys
    PROVE  LastValue(t, keys) = IF LastLines(t, keys) = {} THEN None
                                ELSE t.lines[CHOOSE i \in LastLines(t, keys) : TRUE].val
  BY DEF LastValue, LastLines, KeyLines

\* The value of a line behind which there is no other with these keys.
LEMMA LastIs ==
    ASSUME NEW t \in Texts, NEW keys, NEW i \in LastLines(t, keys)
    PROVE  LastValue(t, keys) = t.lines[i].val
  <1>1. \A j \in LastLines(t, keys) : j = i
    BY TextParts DEF LastLines, KeyLines
  <1>2. (CHOOSE j \in LastLines(t, keys) : TRUE) = i
    BY <1>1
  <1> QED
    BY <1>2, LastLine

\* Texts that agree on these last lines say the same.
LEMMA SameLast ==
    ASSUME NEW t, NEW u, NEW keys, LastLines(u, keys) = LastLines(t, keys),
           \A i \in LastLines(t, keys) : u.lines[i] = t.lines[i]
    PROVE  LastValue(u, keys) = LastValue(t, keys)
  <1>1. CASE LastLines(t, keys) = {}
    BY <1>1, LastLine
  <1>2. CASE LastLines(t, keys) # {}
    <2> DEFINE i == CHOOSE i \in LastLines(t, keys) : TRUE
    <2>1. i \in LastLines(t, keys)
      BY <1>2
    <2> HIDE DEF i
    <2>2. LastValue(u, keys) = u.lines[i].val /\ LastValue(t, keys) = t.lines[i].val
      BY <1>2, LastLine DEF i
    <2> QED
      BY <2>1, <2>2
  <1> QED
    BY <1>1, <1>2

\* Every value found is one a line may have.
LEMMA LastTyping ==
    ASSUME NEW t \in Texts, NEW keys
    PROVE  LastValue(t, keys) \in Values
  <1>1. CASE LastLines(t, keys) = {}
    BY <1>1, LastLine, ValuesAssumption
  <1>2. CASE LastLines(t, keys) # {}
    <2>1. PICK i \in LastLines(t, keys) : TRUE
      BY <1>2
    <2>2. LastValue(t, keys) = t.lines[i].val
      BY <2>1, LastIs
    <2> QED
      BY <2>1, <2>2, TextParts DEF LastLines, KeyLines, Lines
  <1> QED
    BY <1>1, <1>2

\* A set of places in a text has a first one and a last one.
LEMMA FirstAndLast ==
    ASSUME NEW n \in Nat, NEW K, K \subseteq 1..n, K # {}
    PROVE  /\ \E i \in K : \A j \in K : i <= j
           /\ \E i \in K : \A j \in K : j <= i
  <1> DEFINE R == StrictSubsetOrdering(1..n)
             Upto(i) == {j \in K : j <= i}
             From(i) == {j \in K : i <= j}
  <1>1. IsFiniteSet(1..n) /\ K \in SUBSET (1..n)
    BY FS_Interval
  <1>2. IsWellFoundedOn(R, SUBSET (1..n))
    BY <1>1, FS_StrictSubsetOrderingWellFounded, FS_FiniteSubsetsOfFinite
  <1>3. \E x \in {Upto(i) : i \in K} : \A y \in {Upto(i) : i \in K} : <<y, x>> \notin R
    <2>1. {Upto(i) : i \in K} \subseteq SUBSET (1..n) /\ {Upto(i) : i \in K} # {}
      BY <1>1
    <2> HIDE DEF R, Upto
    <2> QED
      BY <1>2, <2>1, WFMin
  <1>4. \E x \in {From(i) : i \in K} : \A y \in {From(i) : i \in K} : <<y, x>> \notin R
    <2>1. {From(i) : i \in K} \subseteq SUBSET (1..n) /\ {From(i) : i \in K} # {}
      BY <1>1
    <2> HIDE DEF R, From
    <2> QED
      BY <1>2, <2>1, WFMin
  <1>5. ASSUME NEW x, NEW y, x \in SUBSET (1..n), y \in SUBSET x, y # x
        PROVE  <<y, x>> \in R
    BY <1>5 DEF StrictSubsetOrdering
  <1>6. \E i \in K : \A j \in K : i <= j
    <2>1. PICK i \in K : \A k \in K : <<Upto(k), Upto(i)>> \notin R
      BY <1>3
    <2>2. SUFFICES ASSUME NEW j \in K, ~(i <= j) PROVE FALSE
      BY <2>1
    <2>3. Upto(j) \in SUBSET Upto(i) /\ i \in Upto(i) /\ i \notin Upto(j)
      <3>1. i \in Int /\ j \in Int /\ \A k \in K : k \in Int
        BY <1>1
      <3>2. i \in Upto(i) /\ i \notin Upto(j)
        BY <2>2, <3>1
      <3>3. ASSUME NEW k \in Upto(j) PROVE k \in Upto(i)
        BY <2>2, <3>1, <3>3
      <3> HIDE DEF Upto
      <3> QED
        BY <3>2, <3>3
    <2>4. Upto(i) \in SUBSET (1..n)
      BY <1>1
    <2> HIDE DEF R, Upto
    <2> QED
      BY <1>5, <2>1, <2>3, <2>4
  <1>7. \E i \in K : \A j \in K : j <= i
    <2>1. PICK i \in K : \A k \in K : <<From(k), From(i)>> \notin R
      BY <1>4
    <2>2. SUFFICES ASSUME NEW j \in K, ~(j <= i) PROVE FALSE
      BY <2>1
    <2>3. From(j) \in SUBSET From(i) /\ i \in From(i) /\ i \notin From(j)
      <3>1. i \in Int /\ j \in Int /\ \A k \in K : k \in Int
        BY <1>1
      <3>2. i \in From(i) /\ i \notin From(j)
        BY <2>2, <3>1
      <3>3. ASSUME NEW k \in From(j) PROVE k \in From(i)
        BY <2>2, <3>1, <3>3
      <3> HIDE DEF From
      <3> QED
        BY <3>2, <3>3
    <2>4. From(i) \in SUBSET (1..n)
      BY <1>1
    <2> HIDE DEF R, From
    <2> QED
      BY <1>5, <2>1, <2>3, <2>4
  <1> QED
    BY <1>6, <1>7

\* One host= line, and it says h.
HostIs(t, h) == \E i \in DOMAIN t.lines : Hits(t) = {i} /\ t.lines[i].val = h

\* No line "host = ..." stands between two host= lines.
NoneHidden(t) ==
    \A i, j, k \in DOMAIN t.lines :
        i < j /\ j < k /\ t.lines[i].key = "host" /\ t.lines[j].key = "spaced"
            => t.lines[k].key # "host"

\* With one host= line there are no two for another to stand between.
LEMMA OneHidesNone ==
    ASSUME NEW t \in Texts, NEW h, HostIs(t, h)
    PROVE  NoneHidden(t)
  <1>1. DOMAIN t.lines \subseteq Int
    BY TextParts
  <1> QED
    BY <1>1 DEF HostIs, NoneHidden, Hits

\* A mac= line appended to a complete text is the one found, and the host lines
\* are what they were.
LEMMA AppendedMac ==
    ASSUME NEW t \in Texts, NEW m \in Values, ~t.ragged,
           NEW new, new = Joined(t, Line("mac", m))
    PROVE  /\ new \in Texts /\ ~new.ragged
           /\ LastValue(new, {"mac"}) = m
           /\ LastValue(new, HostKeys) = LastValue(t, HostKeys)
           /\ \A h : HostIs(t, h) => HostIs(new, h)
           /\ NoneHidden(t) => NoneHidden(new)
  <1> DEFINE n == Len(t.lines)
             line == Line("mac", m)
  <1>0. n \in Nat /\ DOMAIN t.lines = 1..n
    BY TextParts
  <1>1. line \in Lines /\ line.key = "mac" /\ line.val = m
    BY LineTyping DEF Line, Keys
  <1>2. /\ new \in Texts /\ ~new.ragged /\ Len(new.lines) = n + 1
        /\ \A i \in 1..n : new.lines[i] = t.lines[i]
        /\ new.lines[n + 1] = line
    BY <1>1, JoinedAppends
  <1>3. DOMAIN new.lines = 1..(n + 1)
    BY <1>2, TextParts
  <1> HIDE DEF line, n
  <1>4. LastValue(new, {"mac"}) = m
    <2>1. n + 1 \in LastLines(new, {"mac"})
      BY <1>0, <1>1, <1>2, <1>3 DEF LastLines, KeyLines
    <2> QED
      BY <1>1, <1>2, <2>1, LastIs
  <1>5. KeyLines(new, HostKeys) = KeyLines(t, HostKeys)
    BY <1>0, <1>1, <1>2, <1>3 DEF KeyLines, HostKeys
  <1>6. LastValue(new, HostKeys) = LastValue(t, HostKeys)
    <2>1. LastLines(new, HostKeys) = LastLines(t, HostKeys)
      BY <1>5 DEF LastLines
    <2>2. \A i \in LastLines(t, HostKeys) : new.lines[i] = t.lines[i]
      BY <1>0, <1>2 DEF LastLines, KeyLines
    <2> QED
      BY <2>1, <2>2, SameLast
  <1>7. Hits(new) = Hits(t)
    BY <1>0, <1>1, <1>2, <1>3 DEF Hits
  <1>8. ASSUME NEW h, HostIs(t, h) PROVE HostIs(new, h)
    <2>1. PICK i \in DOMAIN t.lines : Hits(t) = {i} /\ t.lines[i].val = h
      BY <1>8 DEF HostIs
    <2>2. i \in DOMAIN new.lines /\ new.lines[i].val = h
      BY <1>0, <1>2, <1>3, <2>1
    <2> QED
      BY <1>7, <2>1, <2>2 DEF HostIs
  <1>9. ASSUME NoneHidden(t) PROVE NoneHidden(new)
    <2>1. SUFFICES \A i, j, k \in DOMAIN new.lines :
                      i < j /\ j < k /\ new.lines[i].key = "host"
                         /\ new.lines[j].key = "spaced"
                             => new.lines[k].key # "host"
      BY DEF NoneHidden
    <2>2. TAKE i, j, k \in DOMAIN new.lines
    <2>3. HAVE i < j /\ j < k /\ new.lines[i].key = "host" /\ new.lines[j].key = "spaced"
    <2>4. SUFFICES ASSUME new.lines[k].key = "host" PROVE FALSE
      OBVIOUS
    <2>5. i \in 1..n /\ j \in 1..n /\ k \in 1..n
      BY <1>0, <1>1, <1>2, <1>3, <2>3, <2>4
    <2> QED
      BY <1>0, <1>2, <1>9, <2>3, <2>4, <2>5 DEF NoneHidden
  <1> QED
    BY <1>2, <1>4, <1>6, <1>8, <1>9

\* After an update of a complete text there is one host= line, the host found is
\* that one unless a line "host = ..." stands behind it, which was found before,
\* and the MAC address is what it was.
LEMMA UpdatedHost ==
    ASSUME NEW t \in Texts, NEW h \in Values, ~t.ragged,
           NEW new, new = Rewritten(t, h)
    PROVE  /\ new \in Texts /\ ~new.ragged
           /\ HostIs(new, h)
           /\ LastValue(new, {"mac"}) = LastValue(t, {"mac"})
           /\ NoneHidden(t) => LastValue(new, HostKeys) \in {h, LastValue(t, HostKeys)}
  <1> DEFINE n == Len(t.lines)
             line == Line("host", h)
  <1>0. n \in Nat /\ DOMAIN t.lines = 1..n
    BY TextParts
  <1>1. line \in Lines /\ line.key = "host" /\ line.val = h
    BY LineTyping DEF Line, Keys
  <1>2. CASE Hits(t) = {}
    <2>1. /\ new \in Texts /\ ~new.ragged /\ Len(new.lines) = n + 1
          /\ \A i \in 1..n : new.lines[i] = t.lines[i]
          /\ new.lines[n + 1] = line
      BY <1>1, <1>2, RewrittenAdds, JoinedAppends
    <2>2. DOMAIN new.lines = 1..(n + 1)
      BY <2>1, TextParts
    <2> HIDE DEF line, n
    <2>3. Hits(new) = {n + 1}
      <3>1. \A i \in 1..(n + 1) : new.lines[i].key = "host" <=> i = n + 1
        BY <1>0, <1>1, <1>2, <2>1 DEF Hits
      <3>2. n + 1 \in 1..(n + 1)
        BY <1>0
      <3> QED
        BY <2>2, <3>1, <3>2 DEF Hits
    <2>4. HostIs(new, h)
      BY <1>0, <1>1, <2>1, <2>2, <2>3 DEF HostIs
    <2>5. LastValue(new, HostKeys) = h
      <3>1. n + 1 \in LastLines(new, HostKeys)
        BY <1>0, <1>1, <2>1, <2>2 DEF LastLines, KeyLines, HostKeys
      <3> QED
        BY <1>1, <2>1, <3>1, LastIs
    <2>6. LastValue(new, {"mac"}) = LastValue(t, {"mac"})
      <3>1. KeyLines(new, {"mac"}) = KeyLines(t, {"mac"})
        BY <1>0, <1>1, <2>1, <2>2 DEF KeyLines
      <3>2. LastLines(new, {"mac"}) = LastLines(t, {"mac"})
        BY <3>1 DEF LastLines
      <3>3. \A i \in LastLines(t, {"mac"}) : new.lines[i] = t.lines[i]
        BY <1>0, <2>1 DEF LastLines, KeyLines
      <3> QED
        BY <3>2, <3>3, SameLast
    <2> QED
      BY <2>1, <2>4, <2>5, <2>6
  <1>3. CASE Hits(t) # {}
    <2>1. /\ new \in Texts /\ Len(new.lines) = n /\ ~new.ragged
          /\ \A i \in 1..n :
                new.lines[i] = IF i \notin Hits(t) THEN t.lines[i]
                               ELSE IF \E j \in Hits(t) : j < i THEN Gap
                               ELSE line
      BY <1>3, RewrittenReplaces
    <2>2. DOMAIN new.lines = 1..n
      BY <2>1, TextParts
    <2>3. Hits(t) \subseteq 1..n
      BY <1>0 DEF Hits
    <2>4. PICK f \in Hits(t) : \A j \in Hits(t) : f <= j
      BY <1>0, <1>3, <2>3, FirstAndLast
    <2>5. \A i \in 1..n : /\ i \notin Hits(t) => new.lines[i] = t.lines[i]
                          /\ i \in Hits(t) /\ i # f => new.lines[i] = Gap
                          /\ i = f => new.lines[i] = line
      BY <2>1, <2>3, <2>4
    <2> HIDE DEF line, n
    <2>6. f \in 1..n /\ Gap.key = "gap" /\ \A i \in Hits(t) : t.lines[i].key = "host"
      BY <2>3, <2>4 DEF Gap, Line, Hits
    <2>7. \A i \in 1..n : t.lines[i].key = "host" => i \in Hits(t)
      BY <1>0 DEF Hits
    <2>8. Hits(new) = {f}
      <3>1. \A i \in 1..n : new.lines[i].key = "host" <=> i = f
        BY <1>1, <2>5, <2>6, <2>7
      <3> QED
        BY <2>2, <2>6, <3>1 DEF Hits
    <2>9. HostIs(new, h)
      BY <1>1, <2>2, <2>5, <2>6, <2>8 DEF HostIs
    <2>10. LastValue(new, {"mac"}) = LastValue(t, {"mac"})
      <3>0. \A i \in 1..n : new.lines[i].key = "mac" <=> t.lines[i].key = "mac"
        BY <1>1, <2>5, <2>6
      <3>1. KeyLines(new, {"mac"}) = KeyLines(t, {"mac"})
        BY <1>0, <2>2, <3>0 DEF KeyLines
      <3>2. LastLines(new, {"mac"}) = LastLines(t, {"mac"})
        BY <3>1 DEF LastLines
      <3>3. \A i \in LastLines(t, {"mac"}) : t.lines[i].key = "mac" /\ i \in 1..n
        BY <1>0 DEF LastLines, KeyLines
      <3>4. \A i \in LastLines(t, {"mac"}) : new.lines[i] = t.lines[i]
        BY <2>5, <2>6, <3>3
      <3> QED
        BY <3>2, <3>4, SameLast
    <2>11. ASSUME NoneHidden(t)
           PROVE  LastValue(new, HostKeys) \in {h, LastValue(t, HostKeys)}
      <3>0. \A i \in 1..n : /\ new.lines[i].key \in HostKeys => t.lines[i].key \in HostKeys
                            /\ new.lines[i].key \in HostKeys /\ i # f
                                  => new.lines[i].key = "spaced" /\ new.lines[i] = t.lines[i]
                            /\ t.lines[i].key = "spaced" => new.lines[i] = t.lines[i]
        BY <1>1, <2>5, <2>6, <2>7 DEF HostKeys
      <3>1. KeyLines(t, HostKeys) \subseteq 1..n /\ f \in KeyLines(t, HostKeys)
        BY <1>0, <2>6, <2>4 DEF KeyLines, HostKeys
      <3>2. PICK l \in KeyLines(t, HostKeys) : \A j \in KeyLines(t, HostKeys) : j <= l
        BY <1>0, <3>1, FirstAndLast
      <3>3. l \in LastLines(t, HostKeys) /\ l \in 1..n /\ t.lines[l].key \in HostKeys
        BY <1>0, <3>2 DEF LastLines, KeyLines
      <3>4. CASE t.lines[l].key = "spaced"
        <4>1. l \in LastLines(new, HostKeys)
          BY <1>0, <2>2, <3>0, <3>2, <3>3, <3>4 DEF LastLines, KeyLines, HostKeys
        <4>2. new.lines[l] = t.lines[l]
          BY <3>0, <3>3, <3>4
        <4> QED
          BY <2>1, <3>3, <4>1, <4>2, LastIs
      <3>5. CASE t.lines[l].key = "host"
        <4>1. ASSUME NEW j \in 1..n, new.lines[j].key \in HostKeys, ~(j <= f)
              PROVE  FALSE
          <5>1. t.lines[j].key = "spaced"
            BY <3>0, <4>1
          <5>2. j \in KeyLines(t, HostKeys)
            BY <1>0, <5>1 DEF KeyLines, HostKeys
          <5>3. j <= l /\ j # l /\ f < j
            BY <2>6, <3>2, <3>3, <3>5, <4>1, <5>1, <5>2
          <5>4. t.lines[f].key = "host" /\ j < l
            BY <2>4, <2>6, <3>3, <5>3
          <5> QED
            BY <1>0, <2>6, <2>11, <3>3, <3>5, <5>1, <5>3, <5>4 DEF NoneHidden
        <4>2. f \in LastLines(new, HostKeys)
          BY <1>1, <2>2, <2>5, <2>6, <4>1 DEF LastLines, KeyLines, HostKeys
        <4>3. new.lines[f].val = h
          BY <1>1, <2>5, <2>6
        <4> QED
          BY <2>1, <4>2, <4>3, LastIs
      <3> QED
        BY <3>3, <3>4, <3>5 DEF HostKeys
    <2> QED
      BY <2>1, <2>9, <2>10, <2>11
  <1> QED
    BY <1>2, <1>3

-----------------------------------------------------------------------------
(* The inductive invariant of the configuration file.                       *)

Updating == {"open_in", "open_out", "copy", "close", "rename"}
Writing == {"copy", "close", "rename"}

\* main's variables: who is about to save a host has picked it from a list.
MainInv ==
    /\ pc \in [Procs -> PCs] /\ host \in [Procs -> Values] /\ mac \in Values
    /\ picked \subseteq Hosts \ {None}
    /\ original \in InitialFiles
    /\ \A p \in Procs : pc[p] \in Updating \cup {"ask"} => host[p] \in picked

RunsInv == runs \in [Procs -> Nat] /\ \A p \in Procs : runs[p] <= MaxRuns[p]

\* Where connect_to_tv is, to main: only the daemon calls it, and what it saves
\* is the MAC address of the host it was given.
LinkInv ==
    /\ phase # "idle" <=> pc[Daemon] \in {"link", "append"}
    /\ pc[Daemon] = "append" => phase = "save"
    /\ phase = "save" => tv_mac = tv_ip /\ tv_ip \in Sets
    /\ phase # "idle" => tv_ip = host[Daemon]
    /\ \A p \in Procs \ {Daemon} : pc[p] \notin {"connect", "link", "append"}

\* What a process has open, and that an inode that was never made is empty.
OpenInv ==
    /\ \A p \in Procs : in[p] # 0 => pc[p] \in {"open_out", "copy"}
    /\ \A p \in Procs : out[p] # 0 <=> pc[p] \in Writing \cup {"append"}
    /\ \A i \in 1..MaxInodes : i > made => text[i] = NoText

\* The .tmp file is not the file, and nobody reads it or appends to it.
TmpInv ==
    tmp # 0 =>
        /\ tmp # conf
        /\ \A p \in Procs : in[p] # tmp
        /\ \A p \in Procs : pc[p] = "append" => out[p] # tmp

\* As long as no two updates met in one .tmp file, the one that is writing has
\* it for itself.
AloneInv ==
    "shared" \notin spoilt =>
        /\ \A p \in Procs : pc[p] \in Writing => out[p] = tmp
        /\ \A p, q \in Procs : pc[p] \in Writing /\ pc[q] \in Writing => p = q

\* What an update is about to write, and has written, is the text it read with
\* the host in it.
UpdateInv ==
    \A p \in Procs :
        /\ pc[p] = "close" => buffer[p] = Rewritten(read[p], host[p])
        /\ "shared" \notin spoilt /\ pc[p] = "rename"
              => text[out[p]] = Rewritten(read[p], host[p])

\* The user's lines are in the file, in every text that an update has read or
\* is reading, and in every file that is being appended to.
KeptInv ==
    "shared" \notin spoilt =>
        /\ Kept(original, Content(conf))
        /\ \A p \in Procs :
              /\ pc[p] \in {"open_out", "copy"} => Kept(original, Content(in[p]))
              /\ pc[p] \in {"close", "rename"} => Kept(original, read[p])
              /\ pc[p] = "append" => Kept(original, text[out[p]])

\* What the file of an undamaged run says.
SaysInv ==
    Undamaged =>
        /\ ~Content(conf).ragged
        /\ chosen # None => HostIs(Content(conf), chosen)
        /\ saved # None => LoadedMac = saved

\* What the file says of the host and its MAC address: the host is the user's
\* or one that was picked, and the MAC address is the host's unless the host was
\* picked or the address is that of a set that was typed.
TheirHost == LastValue(original, HostKeys)
WakeFileInv ==
    /\ NoneHidden(Content(conf))
    /\ LoadedHost \in picked \cup {TheirHost}
    /\ LoadedHost \in picked \cup {None} \/ LoadedMac \in {None, LoadedHost} \cup typed

\* What the daemon has from there, unless it was typed: it looks for a host only
\* if the user had none, and when it picks one although the file names another,
\* that one was picked.
WakeMainInv ==
    /\ pc[Daemon] \in {"search", "collect"} => TheirHost = None
    /\ pc[Daemon] # "off" =>
          \/ host[Daemon] = TheirHost
          \/ host[Daemon] \in picked /\ (LoadedHost \in picked \/ TheirHost = None)
          \/ host[Daemon] \in typed
    /\ pc[Daemon] \in {"connect", "link", "append"} =>
          host[Daemon] \in picked \cup typed \/ mac \in {None, host[Daemon]} \cup typed
    /\ tv_ip \in picked \cup typed \/ tv_mac \in {None, tv_ip} \cup typed
    /\ \A w \in woken : w.ip \in picked \cup typed \/ w.mac \in {w.ip} \cup typed

\* Why a wake-up goes to the host.
WakeInv == Undamaged /\ OneSet(original) => WakeFileInv /\ WakeMainInv

\* The types of all that is not a part of its own.
TypeInv == ConfigTypeOK /\ ConnectTypeOK /\ MainInv /\ RunsInv /\ LinkInv

-----------------------------------------------------------------------------
(* Every step, as the configuration file sees it.                           *)

Busy == Writing \cup {"open_out", "append"}

Others(p) == \A q \in Procs \ {p} : pc'[q] = pc[q] /\ host'[q] = host[q]
Moves(p, from, to) ==
    pc[p] = from /\ pc'[p] = to /\ host'[p] = host[p] /\ Others(p)

\* A step of a process that is not at work on the file.
ElsewhereStep ==
    /\ UNCHANGED configVars
    /\ \A q \in Procs : \/ pc'[q] = pc[q] /\ host'[q] = host[q]
                        \/ pc[q] \notin Busy /\ pc'[q] \notin Busy
OpenInStep(p) == OpenIn(p) /\ Moves(p, "open_in", "open_out")
OpenOutStep(p) == OpenOut(p) /\ Moves(p, "open_out", "copy")
DropStep(p) == Drop(p) /\ pc'[p] \notin Busy /\ Others(p)
CopyStep(p) == Copy(p, host[p]) /\ Moves(p, "copy", "close")
CloseStep(p) == CloseOut(p) /\ Moves(p, "close", "rename")
RenameStep(p) ==
    Rename(p, host[p]) /\ pc[p] = "rename" /\ pc'[p] \notin Busy /\ Others(p)
AppendStep(p) == OpenAppend(p) /\ Moves(p, "link", "append")
MacStep(p) ==
    CloseAppend(p, tv_mac) /\ Moves(p, "append", "link") /\ tv_mac \in Sets

FileStep ==
    \/ ElsewhereStep
    \/ \E p \in Procs :
          \/ OpenInStep(p) \/ OpenOutStep(p) \/ DropStep(p) \/ CopyStep(p)
          \/ CloseStep(p) \/ RenameStep(p) \/ AppendStep(p) \/ MacStep(p)

\* A step that leaves the file alone and moves one process p, not from nor to
\* a place where it works on the file.
LEMMA Elsewhere ==
    ASSUME NEW p \in Procs, pc \in [Procs -> PCs], host \in [Procs -> Values],
           UNCHANGED configVars, pc[p] \notin Busy,
           NEW to, to \notin Busy, pc' = [pc EXCEPT ![p] = to],
           \A q \in Procs \ {p} : host'[q] = host[q]
    PROVE  ElsewhereStep
  <1>1. pc'[p] = to /\ \A q \in Procs \ {p} : pc'[q] = pc[q]
    OBVIOUS
  <1> QED
    BY <1>1 DEF ElsewhereStep

\* Every step is of one of these kinds.
LEMMA StepKinds == TypeInv /\ [StartupNext]_startupVars => FileStep
  <1> SUFFICES ASSUME TypeInv, [StartupNext]_startupVars PROVE FileStep
    OBVIOUS
  <1>0. /\ pc \in [Procs -> PCs] /\ host \in [Procs -> Values]
        /\ out \in [Procs -> 0..made] /\ Daemon \in Procs
    BY ProcsAssumption DEF TypeInv, MainInv, ConfigTypeOK
  <1> DEFINE B == {"copy", "close", "rename", "open_out", "append"}
  <1>b. Busy = B
    BY DEF Busy, Writing
  <1>1. CASE UNCHANGED startupVars
    BY <1>1 DEF startupVars, mainVars, FileStep, ElsewhereStep
  <1>2. ASSUME NEW p \in Procs, Start(p) PROVE FileStep
    <2>1. PICK to \in {"search", "connect"} : pc' = [pc EXCEPT ![p] = to]
      BY <1>2 DEF Start, StartDaemon, Goto
    <2>2. UNCHANGED configVars /\ pc[p] = "off"
      BY <1>2 DEF Start
    <2>3. \A q \in Procs \ {p} : host'[q] = host[q]
      BY <1>0, <1>2 DEF Start, StartDaemon
    <2> QED
      BY <1>0, <1>b, <2>1, <2>2, <2>3, Elsewhere DEF FileStep
  <1>3. ASSUME NEW p \in Procs, SearchStep(p) PROVE FileStep
    <2>1. CASE CollectAnswer(p)
      BY <2>1 DEF CollectAnswer, mainVars, FileStep, ElsewhereStep
    <2>2. CASE StartSearch(p)
      BY <1>0, <1>b, <2>2, Elsewhere DEF StartSearch, Goto, FileStep
    <2>3. CASE Choose(p)
      <3>1. /\ pc[p] = "collect" /\ pc' = [pc EXCEPT ![p] = "ask"]
            /\ UNCHANGED configVars
        BY <2>3 DEF Choose, Goto
      <3>2. \A q \in Procs \ {p} : host'[q] = host[q]
        BY <1>0, <2>3 DEF Choose
      <3> QED
        BY <1>0, <1>b, <3>1, <3>2, Elsewhere DEF FileStep
    <2>4. CASE Answer(p)
      <3>1. PICK to \in {"open_in", "connect", "off"} : pc' = [pc EXCEPT ![p] = to]
        BY <2>4 DEF Answer, AfterChoice, Goto
      <3>2. pc[p] = "ask" /\ UNCHANGED configVars /\ UNCHANGED host
        BY <2>4 DEF Answer
      <3> QED
        BY <1>0, <1>b, <3>1, <3>2, Elsewhere DEF FileStep
    <2> QED
      BY <1>3, <2>1, <2>2, <2>3, <2>4 DEF SearchStep
  <1>4. ASSUME NEW p \in Procs, Update(p) PROVE FileStep
    <2>0. UpdateStep(p) /\ host' = host
      BY <1>4 DEF Update
    <2>m. ASSUME NEW from, NEW to, pc[p] = from, Goto(p, to) PROVE Moves(p, from, to)
      BY <1>0, <2>0, <2>m DEF Goto, Moves, Others
    <2>1. CASE pc[p] = "open_in" /\ OpenIn(p) /\ Goto(p, "open_out")
      BY <2>1, <2>m DEF OpenInStep, FileStep
    <2>2. CASE pc[p] = "open_out" /\ OpenOut(p) /\ Goto(p, "copy")
      BY <2>2, <2>m DEF OpenOutStep, FileStep
    <2>3. CASE pc[p] = "open_out" /\ Drop(p) /\ Goto(p, AfterChoice(p))
      <3>1. Moves(p, "open_out", AfterChoice(p)) /\ AfterChoice(p) \notin Busy
        BY <1>b, <2>3, <2>m DEF AfterChoice
      <3> QED
        BY <2>3, <3>1 DEF DropStep, FileStep, Moves
    <2>4. CASE pc[p] = "copy" /\ Copy(p, host[p]) /\ Goto(p, "close")
      BY <2>4, <2>m DEF CopyStep, FileStep
    <2>5. CASE pc[p] = "close" /\ CloseOut(p) /\ Goto(p, "rename")
      BY <2>5, <2>m DEF CloseStep, FileStep
    <2>6. CASE /\ pc[p] = "rename" /\ Rename(p, host[p])
               /\ Goto(p, IF out'[p] = 0 THEN AfterChoice(p) ELSE "rename")
      <3>1. out'[p] = 0
        BY <1>0, <2>6 DEF Rename
      <3>2. Moves(p, "rename", AfterChoice(p)) /\ AfterChoice(p) \notin Busy
        BY <1>b, <2>6, <2>m, <3>1 DEF AfterChoice
      <3> QED
        BY <2>6, <3>2 DEF RenameStep, FileStep, Moves
    <2> QED
      BY <2>0, <2>1, <2>2, <2>3, <2>4, <2>5, <2>6 DEF UpdateStep
  <1>5. ASSUME NEW p \in Procs, End(p) PROVE FileStep
    <2>1. pc'[p] = "off" /\ Others(p) /\ Drop(p)
      BY <1>0, <1>5 DEF End, Goto, Others
    <2> QED
      BY <1>b, <2>1 DEF FileStep, DropStep
  <1>6. CASE StartConnect
    BY <1>0, <1>b, <1>6, Elsewhere DEF StartConnect, Goto, FileStep
  <1>7. CASE Link \/ ServerCommand \/ ServerAttempt \/ Signal \/ Transport
    BY <1>7 DEF Link, ServerCommand, ServerAttempt, Signal, Transport, mainVars,
       FileStep, ElsewhereStep
  <1>8. CASE OpenToAppend
    <2>1. CASE OpenAppend(Daemon) /\ Goto(Daemon, "append")
      <3>1. Moves(Daemon, "link", "append")
        BY <1>0, <1>8, <2>1 DEF OpenToAppend, Goto, Moves, Others
      <3> QED
        BY <1>0, <2>1, <3>1 DEF FileStep, AppendStep
    <2>2. CASE Saved /\ UNCHANGED <<pc, configVars>>
      BY <1>8, <2>2 DEF OpenToAppend, FileStep, ElsewhereStep
    <2> QED
      BY <1>8, <2>1, <2>2 DEF OpenToAppend
  <1>9. CASE AppendMac
    <2>1. Moves(Daemon, "append", "link") /\ CloseAppend(Daemon, tv_mac)
      BY <1>0, <1>9 DEF AppendMac, Goto, Moves, Others
    <2>2. tv_mac \in Sets
      BY <1>9 DEF AppendMac, TypeInv, LinkInv
    <2> QED
      BY <1>0, <2>1, <2>2 DEF FileStep, MacStep
  <1> QED
    BY <1>1, <1>2, <1>3, <1>4, <1>5, <1>6, <1>7, <1>8, <1>9 DEF StartupNext

-----------------------------------------------------------------------------
(* Types.                                                                   *)

\* What fprintf and an update make of a text is a text.
LEMMA JoinedTyping ==
    ASSUME NEW t \in Texts, NEW line \in Lines
    PROVE  Joined(t, line) \in Texts
  <1>1. CASE t.ragged /\ t.lines # <<>>
    BY <1>1, JoinedGarbles
  <1>2. CASE ~(t.ragged /\ t.lines # <<>>)
    <2>1. Append(t.lines, line) \in Seq(Lines)
      BY TextParts, AppendProperties
    <2> QED
      BY <1>2, <2>1, TextTyping DEF Joined
  <1> QED
    BY <1>1, <1>2

\* An update, likewise.
LEMMA RewrittenTyping ==
    ASSUME NEW t \in Texts, NEW h \in Values
    PROVE  Rewritten(t, h) \in Texts
  <1>1. Line("host", h) \in Lines
    BY LineTyping DEF Keys
  <1> QED
    BY <1>1, RewrittenAdds, RewrittenReplaces, JoinedTyping

\* Any file that is read has a text.
LEMMA ContentTyping ==
    ASSUME ConfigTypeOK, NEW i \in 0..made
    PROVE  Content(i) \in Texts
  <1>1. made \in Nat /\ made <= MaxInodes /\ MaxInodes \in Nat
    BY InodesAssumption DEF ConfigTypeOK
  <1>2. CASE i = 0
    BY <1>2, NoTextTyping DEF Content
  <1>3. CASE i # 0
    <2>1. i \in 1..MaxInodes
      BY <1>1, <1>3
    <2> QED
      BY <1>3, <2>1 DEF Content, ConfigTypeOK
  <1> QED
    BY <1>2, <1>3

\* The configuration file keeps its types.
LEMMA ConfigTyped == TypeInv /\ FileStep => ConfigTypeOK'
  <1> SUFFICES ASSUME TypeInv, FileStep PROVE ConfigTypeOK'
    OBVIOUS
  <1>0. /\ ConfigTypeOK /\ made \in 0..MaxInodes /\ MaxInodes \in Nat
        /\ conf \in 0..made /\ tmp \in 0..made
        /\ text \in [1..MaxInodes -> Texts]
        /\ buffer \in [Procs -> Texts] /\ read \in [Procs -> Texts]
        /\ in \in [Procs -> 0..made] /\ out \in [Procs -> 0..made]
        /\ chosen \in Hosts \cup {None} /\ saved \in Macs \cup {None}
        /\ spoilt \subseteq Damages
    BY InodesAssumption DEF TypeInv, ConfigTypeOK
  <1>v. /\ Hosts \subseteq Values /\ Macs \subseteq Values /\ Sets \subseteq Macs
        /\ NoText \in Texts
    BY ValuesAssumption, NamesAssumption, NoTextTyping
  <1>h. \A p \in Procs : host[p] \in Values /\ (pc[p] = "rename" => host[p] \in Hosts)
    BY DEF TypeInv, MainInv, Updating
  <1>d. "shared" \in Damages /\ "overwritten" \in Damages
    BY DEF Damages
  <1>1. CASE ElsewhereStep
    BY <1>0, <1>1 DEF ElsewhereStep, configVars, names, history, ConfigTypeOK
  <1>2. ASSUME NEW p \in Procs, OpenIn(p) PROVE ConfigTypeOK'
    BY <1>0, <1>2 DEF OpenIn, names, history, ConfigTypeOK
  <1>3. ASSUME NEW p \in Procs, OpenOut(p) PROVE ConfigTypeOK'
    <2>1. /\ made' \in 0..MaxInodes /\ made <= made' /\ tmp' \in 0..made'
          /\ out' = [out EXCEPT ![p] = tmp'] /\ text' = [text EXCEPT ![tmp'] = NoText]
          /\ UNCHANGED <<conf, in, buffer, read, original, chosen, saved>>
      BY <1>0, <1>3 DEF OpenOut, history
    <2>2. spoilt' \subseteq Damages
      BY <1>0, <1>3, <1>d DEF OpenOut
    <2>3. /\ conf' \in 0..made' /\ in' \in [Procs -> 0..made']
          /\ out' \in [Procs -> 0..made']
      <3>1. 0..made \subseteq 0..made'
        BY <1>0, <2>1
      <3> QED
        BY <1>0, <2>1, <3>1
    <2>4. text' \in [1..MaxInodes -> Texts]
      BY <1>0, <1>v, <2>1
    <2> QED
      BY <1>0, <2>1, <2>2, <2>3, <2>4 DEF ConfigTypeOK
  <1>4. ASSUME NEW p \in Procs, Drop(p) PROVE ConfigTypeOK'
    <2>1. 0 \in 0..made
      BY <1>0
    <2>2. in' \in [Procs -> 0..made] /\ out' \in [Procs -> 0..made]
      BY <1>0, <1>4, <2>1 DEF Drop
    <2>3. buffer' \in [Procs -> Texts] /\ read' \in [Procs -> Texts]
      BY <1>0, <1>v, <1>4 DEF Drop
    <2> QED
      BY <1>0, <1>4, <2>2, <2>3 DEF Drop, names, history, ConfigTypeOK
  <1>5. ASSUME NEW p \in Procs, Copy(p, host[p]) PROVE ConfigTypeOK'
    <2>1. 0 \in 0..made /\ in[p] \in 0..made
      BY <1>0
    <2>2. Content(in[p]) \in Texts /\ Rewritten(Content(in[p]), host[p]) \in Texts
      BY <1>0, <1>h, <2>1, ContentTyping, RewrittenTyping
    <2>3. /\ in' \in [Procs -> 0..made] /\ buffer' \in [Procs -> Texts]
          /\ read' \in [Procs -> Texts]
      BY <1>0, <1>5, <2>1, <2>2 DEF Copy
    <2> QED
      BY <1>0, <1>5, <2>3 DEF Copy, names, history, ConfigTypeOK
  <1>6. ASSUME NEW p \in Procs, CloseOut(p) PROVE ConfigTypeOK'
    <2>1. buffer' \in [Procs -> Texts] /\ text' \in [1..MaxInodes -> Texts]
      BY <1>0, <1>v, <1>6 DEF CloseOut
    <2> QED
      BY <1>0, <1>6, <2>1 DEF CloseOut, names, history, ConfigTypeOK
  <1>7. ASSUME NEW p \in Procs, Rename(p, host[p]), pc[p] = "rename" PROVE ConfigTypeOK'
    <2>1. 0 \in 0..made
      BY <1>0
    <2>2. conf' \in 0..made /\ tmp' \in 0..made /\ made' = made
      BY <1>0, <1>7, <2>1 DEF Rename
    <2>3. out' \in [Procs -> 0..made] /\ read' \in [Procs -> Texts]
      BY <1>0, <1>v, <1>7, <2>1 DEF Rename
    <2>4. chosen' \in Hosts \cup {None} /\ spoilt' \subseteq Damages
      BY <1>0, <1>h, <1>d, <1>7 DEF Rename
    <2> QED
      BY <1>0, <1>7, <2>2, <2>3, <2>4 DEF Rename, ConfigTypeOK
  <1>8. ASSUME NEW p \in Procs, OpenAppend(p) PROVE ConfigTypeOK'
    <2>1. /\ made' \in 0..MaxInodes /\ made <= made' /\ conf' \in 0..made'
          /\ out' = [out EXCEPT ![p] = conf']
          /\ UNCHANGED <<tmp, text, in, buffer, read, original, chosen, saved, spoilt>>
      BY <1>0, <1>8 DEF OpenAppend, history
    <2>3. /\ tmp' \in 0..made' /\ in' \in [Procs -> 0..made']
          /\ out' \in [Procs -> 0..made']
      <3>1. 0..made \subseteq 0..made'
        BY <1>0, <2>1
      <3> QED
        BY <1>0, <2>1, <3>1
    <2> QED
      BY <1>0, <2>1, <2>3 DEF ConfigTypeOK
  <1>9. ASSUME NEW p \in Procs, CloseAppend(p, tv_mac), tv_mac \in Sets PROVE ConfigTypeOK'
    <2>1. 0 \in 0..made /\ Line("mac", tv_mac) \in Lines
      BY <1>0, <1>v, <1>9, LineTyping DEF Keys
    <2>2. \A i \in 1..MaxInodes : Joined(text[i], Line("mac", tv_mac)) \in Texts
      BY <1>0, <2>1, JoinedTyping
    <2>3. text' \in [1..MaxInodes -> Texts]
      BY <1>0, <1>9, <2>2 DEF CloseAppend
    <2>4. out' \in [Procs -> 0..made]
      BY <1>0, <1>9, <2>1 DEF CloseAppend
    <2>5. spoilt' \subseteq Damages /\ saved' \in Macs \cup {None}
      BY <1>0, <1>v, <1>d, <1>9 DEF CloseAppend
    <2> QED
      BY <1>0, <1>9, <2>3, <2>4, <2>5 DEF CloseAppend, names, ConfigTypeOK
  <1> QED
    BY <1>1, <1>2, <1>3, <1>4, <1>5, <1>6, <1>7, <1>8, <1>9
       DEF FileStep, OpenInStep, OpenOutStep, DropStep, CopyStep, CloseStep,
           RenameStep, AppendStep, MacStep

\* What a process has open, step by step.
LEMMA OpenStep == TypeInv /\ OpenInv /\ FileStep => OpenInv'
  <1> SUFFICES ASSUME TypeInv, OpenInv, FileStep PROVE OpenInv'
    OBVIOUS
  <1>0. /\ made \in 0..MaxInodes /\ MaxInodes \in Nat
        /\ conf \in 0..made /\ tmp \in 0..made
        /\ text \in [1..MaxInodes -> Texts]
        /\ in \in [Procs -> 0..made] /\ out \in [Procs -> 0..made]
    BY InodesAssumption DEF TypeInv, ConfigTypeOK
  <1>i. /\ \A p \in Procs : in[p] # 0 => pc[p] \in {"open_out", "copy"}
        /\ \A p \in Procs : out[p] # 0 <=> pc[p] \in {"copy", "close", "rename", "append"}
        /\ \A i \in 1..MaxInodes : i > made => text[i] = NoText
    BY DEF OpenInv, Writing
  <1>b. Busy = {"copy", "close", "rename", "open_out", "append"}
        /\ Writing \cup {"append"} = {"copy", "close", "rename", "append"}
    BY DEF Busy, Writing
  <1> DEFINE InOk == \A q \in Procs : in'[q] # 0 => pc'[q] \in {"open_out", "copy"}
             OutOk == \A q \in Procs : out'[q] # 0
                          <=> pc'[q] \in {"copy", "close", "rename", "append"}
             NewOk == \A i \in 1..MaxInodes : i > made' => text'[i] = NoText
  <1>g. InOk /\ OutOk /\ NewOk => OpenInv'
    BY <1>b DEF OpenInv
  <1>1. CASE ElsewhereStep
    BY <1>1, <1>b, <1>g, <1>i DEF ElsewhereStep, configVars, names, history
  <1>2. ASSUME NEW p \in Procs, OpenInStep(p) PROVE InOk /\ OutOk /\ NewOk
    BY <1>0, <1>2, <1>i DEF OpenInStep, OpenIn, Moves, Others, names
  <1>3. ASSUME NEW p \in Procs, OpenOutStep(p) PROVE InOk /\ OutOk /\ NewOk
    <2>1. /\ tmp' # 0 /\ out' = [out EXCEPT ![p] = tmp'] /\ in' = in
          /\ made <= made' /\ made' \in Nat
          /\ text' = [text EXCEPT ![tmp'] = NoText]
      BY <1>0, <1>3 DEF OpenOutStep, OpenOut
    <2>2. InOk
      BY <1>3, <1>i, <2>1 DEF OpenOutStep, Moves, Others
    <2>3. OutOk
      BY <1>0, <1>3, <1>i, <2>1 DEF OpenOutStep, Moves, Others
    <2>4. NewOk
      BY <1>0, <1>i, <2>1
    <2> QED
      BY <2>2, <2>3, <2>4
  <1>4. ASSUME NEW p \in Procs, DropStep(p) PROVE InOk /\ OutOk /\ NewOk
    BY <1>0, <1>4, <1>b, <1>i DEF DropStep, Drop, Others, names
  <1>5. ASSUME NEW p \in Procs, CopyStep(p) PROVE InOk /\ OutOk /\ NewOk
    BY <1>0, <1>5, <1>i DEF CopyStep, Copy, Moves, Others, names
  <1>6. ASSUME NEW p \in Procs, CloseStep(p) PROVE InOk /\ OutOk /\ NewOk
    <2>1. InOk /\ OutOk
      BY <1>0, <1>6, <1>i DEF CloseStep, CloseOut, Moves, Others
    <2>2. NewOk
      <3>1. out[p] \in 0..made /\ made' = made /\ text' = [text EXCEPT ![out[p]] = buffer[p]]
        BY <1>0, <1>6 DEF CloseStep, CloseOut, names
      <3> QED
        BY <1>0, <1>i, <3>1
    <2> QED
      BY <2>1, <2>2
  <1>7. ASSUME NEW p \in Procs, RenameStep(p) PROVE InOk /\ OutOk /\ NewOk
    BY <1>0, <1>7, <1>b, <1>i DEF RenameStep, Rename, Others
  <1>8. ASSUME NEW p \in Procs, AppendStep(p) PROVE InOk /\ OutOk /\ NewOk
    <2>1. /\ conf' # 0 /\ out' = [out EXCEPT ![p] = conf'] /\ in' = in
          /\ made <= made' /\ made' \in Nat /\ text' = text
      BY <1>0, <1>8 DEF AppendStep, OpenAppend
    <2>2. InOk
      BY <1>8, <1>i, <2>1 DEF AppendStep, Moves, Others
    <2>3. OutOk
      BY <1>0, <1>8, <1>i, <2>1 DEF AppendStep, Moves, Others
    <2>4. NewOk
      BY <1>0, <1>i, <2>1
    <2> QED
      BY <2>2, <2>3, <2>4
  <1>9. ASSUME NEW p \in Procs, MacStep(p) PROVE InOk /\ OutOk /\ NewOk
    <2>1. InOk /\ OutOk
      BY <1>0, <1>9, <1>i DEF MacStep, CloseAppend, Moves, Others
    <2>2. NewOk
      <3>1. /\ out[p] \in 0..made /\ made' = made
            /\ \A i \in 1..MaxInodes : i # out[p] => text'[i] = text[i]
        BY <1>0, <1>9 DEF MacStep, CloseAppend, names
      <3> QED
        BY <1>0, <1>i, <3>1
    <2> QED
      BY <2>1, <2>2
  <1> QED
    BY <1>1, <1>2, <1>3, <1>4, <1>5, <1>6, <1>7, <1>8, <1>9, <1>g DEF FileStep

\* The connection keeps its types.
LEMMA ConnectTyped == ConnectTypeOK /\ [StartupNext]_startupVars => ConnectTypeOK'
  <1> SUFFICES ASSUME ConnectTypeOK, [StartupNext]_startupVars PROVE ConnectTypeOK'
    OBVIOUS
  <1> USE EndpointsAssumption, TriesAssumption DEF ConnectTypeOK, Phases, connectVars
  <1>1. CASE UNCHANGED connectVars
    BY <1>1
  <1>2. CASE StartConnect
    BY <1>2 DEF StartConnect, Connect
  <1>3. CASE Link
    <2>0. ConnectStep
      BY <1>3 DEF Link
    <2>1. CASE NextEndpoint
      BY <2>1 DEF NextEndpoint, NotFound, Loop
    <2>2. CASE NoControlUrl
      BY <2>2 DEF NoControlUrl, NotFound, Loop
    <2>3. CASE Found \/ GetMac \/ WakeFails \/ Sleep
      BY <2>3 DEF Found, GetMac, WakeFails, Sleep
    <2>4. CASE Wake
      <3>1. \A w \in woken' : w.mac \in Sets
        BY <2>4 DEF Wake
      <3> QED
        BY <2>4, <3>1 DEF Wake, Loop
    <2> QED
      BY <2>0, <2>1, <2>2, <2>3, <2>4 DEF ConnectStep
  <1>4. CASE OpenToAppend \/ AppendMac \/ Signal
    BY <1>4 DEF OpenToAppend, AppendMac, Signal, Saved, Stop
  <1>5. ASSUME NEW p \in Procs, End(p) PROVE ConnectTypeOK'
    <2>1. CASE p = Daemon
      <3>1. /\ phase' = "idle" /\ running' = TRUE /\ endpoint' = 1 /\ looks' = 0
            /\ woken' = woken
        BY <1>5, <2>1 DEF End, Exit
      <3> QED
        BY <3>1
    <2>2. CASE p # Daemon
      BY <1>1, <1>5, <2>2 DEF End
    <2> QED
      BY <2>1, <2>2
  <1>6. CASE \E p \in Procs : Start(p) \/ SearchStep(p) \/ Update(p)
    BY <1>1, <1>6 DEF Start, SearchStep, StartSearch, CollectAnswer, Choose, Answer, Update
  <1>7. CASE ServerCommand \/ ServerAttempt \/ Transport
    BY <1>1, <1>7 DEF ServerCommand, ServerAttempt, Transport
  <1> QED
    BY <1>1, <1>2, <1>3, <1>4, <1>5, <1>6, <1>7 DEF StartupNext, startupVars

\* What the user can choose has the name of a host.
LEMMA SelectionTyping ==
    ASSUME DiscoverTypeOK, NEW sel \in 1..found
    PROVE  Selection(sel) \in Hosts \ {None}
  <1>1. /\ found \in Nat /\ devices \in Seq(Ips) /\ Len(devices) \in Nat
        /\ Ips \subseteq Hosts \ {None} /\ Junk \in Hosts \ {None}
    BY NamesAssumption DEF DiscoverTypeOK
  <1>2. CASE sel <= Len(devices)
    <2>1. devices[sel] \in Ips
      BY <1>1, <1>2
    <2> QED
      BY <1>1, <1>2, <2>1 DEF Selection
  <1>3. CASE ~(sel <= Len(devices))
    BY <1>1, <1>3 DEF Selection
  <1> QED
    BY <1>2, <1>3

\* main's variables keep their types, and a host about to be saved was picked.
LEMMA MainStep ==
    TypeInv /\ DiscoverTypeOK /\ [StartupNext]_startupVars => MainInv'
  <1> SUFFICES ASSUME TypeInv, DiscoverTypeOK, [StartupNext]_startupVars PROVE MainInv'
    OBVIOUS
  <1>0. /\ pc \in [Procs -> PCs] /\ host \in [Procs -> Values] /\ mac \in Values
        /\ picked \subseteq Hosts \ {None} /\ original \in InitialFiles
        /\ \A p \in Procs : pc[p] \in Updating \cup {"ask"} => host[p] \in picked
        /\ Daemon \in Procs
    BY ProcsAssumption DEF TypeInv, MainInv
  <1>v. Hosts \subseteq Values /\ None \in Values /\ Given \subseteq Values
    BY ValuesAssumption, NamesAssumption
  <1>u. Updating \cup {"ask"} = {"open_in", "open_out", "copy", "close", "rename", "ask"}
    BY DEF Updating
  <1>l. LoadedHost \in Values /\ LoadedMac \in Values
    <2>1. Content(conf) \in Texts
      BY ContentTyping DEF TypeInv, ConfigTypeOK
    <2> QED
      BY <2>1, LastTyping DEF LoadedHost, LoadedMac
  <1> DEFINE PickedOk == \A q \in Procs : pc'[q] \in Updating \cup {"ask"}
                                              => host'[q] \in picked'
  <1>g. ASSUME pc' \in [Procs -> PCs], host' \in [Procs -> Values], mac' \in Values,
               picked' \subseteq Hosts \ {None}, original' = original, PickedOk
        PROVE  MainInv'
    BY <1>0, <1>g DEF MainInv
  <1>h. UNCHANGED configVars => original' = original
    BY DEF configVars, history
  <1>1. CASE UNCHANGED startupVars
    BY <1>0, <1>1, <1>g, <1>h DEF startupVars, mainVars
  <1>2. ASSUME NEW p \in Procs, Start(p) PROVE MainInv'
    <2>1. pc' \in [Procs -> PCs] /\ pc'[p] \notin Updating \cup {"ask"}
          /\ \A q \in Procs \ {p} : pc'[q] = pc[q]
      <3>1. PICK to \in {"search", "connect"} : pc' = [pc EXCEPT ![p] = to]
        BY <1>2 DEF Start, StartDaemon, Goto
      <3> QED
        BY <1>0, <1>u, <3>1 DEF PCs
    <2>2. host' \in [Procs -> Values] /\ \A q \in Procs \ {p} : host'[q] = host[q]
      BY <1>0, <1>l, <1>v, <1>2 DEF Start, StartDaemon
    <2>3. mac' \in Values /\ picked' = picked /\ UNCHANGED configVars
      BY <1>0, <1>l, <1>2 DEF Start, StartDaemon
    <2>4. PickedOk
      BY <1>0, <2>1, <2>2, <2>3
    <2> QED
      BY <1>0, <1>g, <1>h, <2>1, <2>2, <2>3, <2>4
  <1>3. ASSUME NEW p \in Procs, SearchStep(p) PROVE MainInv'
    <2>1. CASE CollectAnswer(p)
      BY <1>0, <1>g, <1>h, <2>1 DEF CollectAnswer, mainVars
    <2>2. CASE StartSearch(p)
      <3>1. pc' = [pc EXCEPT ![p] = "collect"] /\ UNCHANGED <<configVars, host, mac, picked>>
        BY <2>2 DEF StartSearch, Goto
      <3>2. pc' \in [Procs -> PCs] /\ PickedOk
        BY <1>0, <1>u, <3>1 DEF PCs
      <3> QED
        BY <1>0, <1>g, <1>h, <3>1, <3>2
    <2>3. CASE Choose(p)
      <3>1. PICK sel \in 1..found : /\ host' = [host EXCEPT ![p] = Selection(sel)]
                                    /\ picked' = picked \cup {Selection(sel)}
        BY <2>3 DEF Choose
      <3>2. pc' = [pc EXCEPT ![p] = "ask"] /\ UNCHANGED <<configVars, mac>>
        BY <2>3 DEF Choose, Goto
      <3>3. Selection(sel) \in Hosts \ {None}
        BY SelectionTyping
      <3>4. pc' \in [Procs -> PCs] /\ host' \in [Procs -> Values]
        BY <1>0, <1>v, <3>1, <3>2, <3>3 DEF PCs
      <3>5. PickedOk
        BY <1>0, <3>1, <3>2
      <3> QED
        BY <1>0, <1>g, <1>h, <3>1, <3>2, <3>3, <3>4, <3>5
    <2>4. CASE Answer(p)
      <3>1. PICK to \in {"open_in", "connect", "off"} : pc' = [pc EXCEPT ![p] = to]
        BY <2>4 DEF Answer, AfterChoice, Goto
      <3>2. pc[p] = "ask" /\ UNCHANGED <<configVars, host, mac, picked>>
        BY <2>4 DEF Answer
      <3>3. pc' \in [Procs -> PCs] /\ PickedOk
        BY <1>0, <1>u, <3>1, <3>2 DEF PCs
      <3> QED
        BY <1>0, <1>g, <1>h, <3>2, <3>3
    <2> QED
      BY <1>3, <2>1, <2>2, <2>3, <2>4 DEF SearchStep
  <1>4. ASSUME NEW p \in Procs, Update(p) PROVE MainInv'
    <2>1. UpdateStep(p) /\ UNCHANGED <<host, mac, picked>>
      BY <1>4 DEF Update
    <2>2. original' = original
      BY <2>1 DEF UpdateStep, OpenIn, OpenOut, Drop, Copy, CloseOut, Rename, history
    <2>3. PICK to \in PCs : pc' = [pc EXCEPT ![p] = to]
      <3>1. AfterChoice(p) \in PCs
        BY DEF AfterChoice, PCs
      <3> QED
        BY <2>1, <3>1 DEF UpdateStep, Goto, PCs
    <2>4. pc[p] \in Updating \cup {"ask"}
      BY <1>u, <2>1 DEF UpdateStep
    <2>5. pc' \in [Procs -> PCs] /\ PickedOk
      BY <1>0, <2>1, <2>3, <2>4
    <2> QED
      BY <1>0, <1>g, <2>1, <2>2, <2>5
  <1>5. ASSUME NEW p \in Procs, End(p) PROVE MainInv'
    <2>1. /\ pc' = [pc EXCEPT ![p] = "off"] /\ host' = [host EXCEPT ![p] = None]
          /\ mac' \in Values /\ picked' = picked /\ original' = original
      BY <1>0, <1>v, <1>5 DEF End, Goto, Drop, history
    <2>2. pc' \in [Procs -> PCs] /\ host' \in [Procs -> Values] /\ PickedOk
      BY <1>0, <1>u, <1>v, <2>1 DEF PCs
    <2> QED
      BY <1>0, <1>g, <2>1, <2>2
  <1>6. CASE StartConnect \/ OpenToAppend \/ AppendMac
    <2>1. /\ UNCHANGED <<host, mac, picked>> /\ original' = original
          /\ \E to \in {"link", "append", pc[Daemon]} : pc' = [pc EXCEPT ![Daemon] = to]
      BY <1>0, <1>6 DEF StartConnect, OpenToAppend, AppendMac, Goto, OpenAppend,
         CloseAppend, configVars, history
    <2>2. PICK to \in {"link", "append", pc[Daemon]} : pc' = [pc EXCEPT ![Daemon] = to]
      BY <2>1
    <2>3. pc' \in [Procs -> PCs] /\ PickedOk
      BY <1>0, <1>u, <2>1, <2>2 DEF PCs
    <2> QED
      BY <1>0, <1>g, <2>1, <2>3
  <1>7. CASE Link \/ ServerCommand \/ ServerAttempt \/ Signal \/ Transport
    BY <1>0, <1>7, <1>g, <1>h DEF Link, ServerCommand, ServerAttempt, Signal, Transport,
       mainVars
  <1> QED
    BY <1>1, <1>2, <1>3, <1>4, <1>5, <1>6, <1>7 DEF StartupNext

\* The starts are counted.
LEMMA RunsStep == RunsInv /\ [StartupNext]_startupVars => RunsInv'
  <1> SUFFICES ASSUME RunsInv, [StartupNext]_startupVars PROVE RunsInv'
    OBVIOUS
  <1>1. CASE UNCHANGED runs
    BY <1>1 DEF RunsInv
  <1>2. ASSUME NEW p \in Procs, Start(p) PROVE RunsInv'
    <2>1. MaxRuns \in [Procs -> Nat]
      BY StartsAssumption DEF MaxRuns
    <2>2. runs[p] \in Nat /\ runs[p] < MaxRuns[p] /\ runs' = [runs EXCEPT ![p] = @ + 1]
      BY <1>2 DEF Start, RunsInv
    <2>3. runs' \in [Procs -> Nat]
      BY <2>2 DEF RunsInv
    <2>4. \A q \in Procs : runs'[q] <= MaxRuns[q]
      BY <2>1, <2>2 DEF RunsInv
    <2> QED
      BY <2>3, <2>4 DEF RunsInv
  <1> QED
    BY <1>1, <1>2 DEF StartupNext, startupVars, mainVars, SearchStep, StartSearch,
       CollectAnswer, Choose, Answer, Update, End, StartConnect, Link, OpenToAppend,
       AppendMac, ServerCommand, ServerAttempt, Signal, Transport

\* Where connect_to_tv is, to main, step by step.
LEMMA LinkStep == TypeInv /\ [StartupNext]_startupVars => LinkInv'
  <1> SUFFICES ASSUME TypeInv, [StartupNext]_startupVars PROVE LinkInv'
    OBVIOUS
  <1>0. /\ pc \in [Procs -> PCs] /\ host \in [Procs -> Values] /\ Daemon \in Procs
    BY ProcsAssumption DEF TypeInv, MainInv
  <1>i. LinkInv
    BY DEF TypeInv
  <1> DEFINE Lone == \A p \in Procs \ {Daemon} : pc'[p] \notin {"connect", "link", "append"}
             Same == UNCHANGED connectVars
  <1>a. ASSUME Same, pc'[Daemon] = pc[Daemon], host'[Daemon] = host[Daemon], Lone
        PROVE  LinkInv'
    BY <1>a, <1>i DEF LinkInv, connectVars
  <1>b. ASSUME Same, pc[Daemon] \notin {"link", "append"},
               pc'[Daemon] \notin {"link", "append"}, Lone
        PROVE  LinkInv'
    BY <1>b, <1>i DEF LinkInv, connectVars
  <1>l. \A p \in Procs \ {Daemon} : pc[p] \notin {"connect", "link", "append"}
    BY <1>i DEF LinkInv
  \* a step of p that is no step of the connection
  <1>m. ASSUME NEW p \in Procs, Same, NEW to, pc' = [pc EXCEPT ![p] = to],
               pc[p] \notin {"link", "append"}, to \notin {"link", "append"},
               p # Daemon => to # "connect",
               \A q \in Procs \ {p} : host'[q] = host[q]
        PROVE  LinkInv'
    <2>1. CASE p = Daemon
      <3>1. Lone /\ pc'[Daemon] = to
        BY <1>0, <1>l, <1>m, <2>1
      <3> QED
        BY <1>b, <1>m, <2>1, <3>1
    <2>2. CASE p # Daemon
      <3>1. Lone /\ pc'[Daemon] = pc[Daemon] /\ host'[Daemon] = host[Daemon]
        BY <1>0, <1>l, <1>m, <2>2
      <3> QED
        BY <1>a, <1>m, <3>1
    <2> QED
      BY <2>1, <2>2
  <1>1. CASE UNCHANGED startupVars
    BY <1>1, <1>a, <1>l DEF startupVars, mainVars
  <1>2. ASSUME NEW p \in Procs, Start(p) PROVE LinkInv'
    <2>1. PICK to \in {"search", "connect"} :
             pc' = [pc EXCEPT ![p] = to] /\ (p # Daemon => to # "connect")
      BY <1>2 DEF Start, StartDaemon, Goto
    <2>2. \A q \in Procs \ {p} : host'[q] = host[q]
      BY <1>0, <1>2 DEF Start, StartDaemon
    <2>3. Same /\ pc[p] = "off"
      BY <1>2 DEF Start
    <2> QED
      BY <1>m, <2>1, <2>2, <2>3
  <1>3. ASSUME NEW p \in Procs, SearchStep(p) PROVE LinkInv'
    <2>0. Same
      BY <1>3 DEF SearchStep, StartSearch, CollectAnswer, Choose, Answer
    <2>1. CASE CollectAnswer(p)
      BY <1>a, <1>l, <2>0, <2>1 DEF CollectAnswer, mainVars
    <2>2. CASE StartSearch(p)
      <3>1. pc[p] = "search" /\ pc' = [pc EXCEPT ![p] = "collect"] /\ host' = host
        BY <2>2 DEF StartSearch, Goto
      <3> QED
        BY <1>m, <2>0, <3>1
    <2>3. CASE Choose(p)
      <3>1. pc[p] = "collect" /\ pc' = [pc EXCEPT ![p] = "ask"]
        BY <2>3 DEF Choose, Goto
      <3>2. \A q \in Procs \ {p} : host'[q] = host[q]
        BY <1>0, <2>3 DEF Choose
      <3> QED
        BY <1>m, <2>0, <3>1, <3>2
    <2>4. CASE Answer(p)
      <3>1. PICK to \in {"open_in", AfterChoice(p)} : pc' = [pc EXCEPT ![p] = to]
        BY <2>4 DEF Answer, Goto
      <3>2. /\ pc[p] = "ask" /\ host' = host /\ to \notin {"link", "append"}
            /\ p # Daemon => to # "connect"
        BY <2>4, <3>1 DEF Answer, AfterChoice
      <3> QED
        BY <1>m, <2>0, <3>1, <3>2
    <2> QED
      BY <1>3, <2>1, <2>2, <2>3, <2>4 DEF SearchStep
  <1>4. ASSUME NEW p \in Procs, Update(p) PROVE LinkInv'
    <2>1. UpdateStep(p) /\ Same /\ host' = host
      BY <1>4 DEF Update
    <2>2. PICK to \in Updating \cup {AfterChoice(p)} : pc' = [pc EXCEPT ![p] = to]
      BY <2>1 DEF UpdateStep, Updating, Goto
    <2>3. pc[p] \notin {"link", "append"}
      BY <2>1 DEF UpdateStep
    <2>4. to \notin {"link", "append"} /\ (p # Daemon => to # "connect")
      BY <2>2 DEF Updating, AfterChoice
    <2> QED
      BY <1>m, <2>1, <2>2, <2>3, <2>4
  <1>5. ASSUME NEW p \in Procs, End(p) PROVE LinkInv'
    <2>1. /\ pc' = [pc EXCEPT ![p] = "off"] /\ host' = [host EXCEPT ![p] = None]
      BY <1>5 DEF End, Goto
    <2>2. Lone
      BY <1>0, <1>l, <2>1
    <2>3. CASE p = Daemon
      <3>1. phase' = "idle" /\ pc'[Daemon] = "off"
        BY <1>0, <1>5, <2>1, <2>3 DEF End, Exit
      <3> QED
        BY <2>2, <3>1 DEF LinkInv
    <2>4. CASE p # Daemon
      <3>1. Same /\ pc'[Daemon] = pc[Daemon] /\ host'[Daemon] = host[Daemon]
        BY <1>0, <1>5, <2>1, <2>4 DEF End
      <3> QED
        BY <1>a, <2>2, <3>1
    <2> QED
      BY <2>3, <2>4
  <1>6. CASE StartConnect
    <2>1. /\ pc'[Daemon] = "link" /\ Lone /\ host' = host
          /\ phase' = "find" /\ tv_ip' = host[Daemon]
      BY <1>0, <1>l, <1>6 DEF StartConnect, Goto, Connect
    <2> QED
      BY <2>1 DEF LinkInv
  <1>7. CASE Link
    <2>1. ConnectStep /\ UNCHANGED <<pc, host>> /\ pc[Daemon] = "link"
      BY <1>7 DEF Link, mainVars
    <2>2. tv_ip' = tv_ip /\ phase # "idle" /\ phase' # "idle"
      BY <2>1 DEF ConnectStep, NextEndpoint, NoControlUrl, NotFound, Loop, Found,
         GetMac, Wake, WakeFails, Sleep
    <2>3. phase' = "save" => tv_mac' = tv_ip' /\ tv_ip' \in Sets
      BY <2>1 DEF ConnectStep, NextEndpoint, NoControlUrl, NotFound, Loop, Found,
         GetMac, Wake, WakeFails, Sleep
    <2> QED
      BY <1>i, <1>l, <2>1, <2>2, <2>3 DEF LinkInv
  <1>8. CASE OpenToAppend
    <2>1. CASE OpenAppend(Daemon) /\ Goto(Daemon, "append") /\ UNCHANGED connectVars
      <3>1. pc'[Daemon] = "append" /\ Lone /\ host' = host /\ pc[Daemon] = "link"
            /\ phase = "save"
        BY <1>0, <1>l, <1>8, <2>1 DEF OpenToAppend, Goto
      <3> QED
        BY <1>i, <2>1, <3>1 DEF LinkInv, connectVars
    <2>2. CASE Saved /\ UNCHANGED <<pc, configVars>>
      <3>1. host' = host /\ phase = "save" /\ phase' = "up" /\ tv_ip' = tv_ip
            /\ pc' = pc
        BY <1>8, <2>2 DEF OpenToAppend, Saved
      <3>2. pc[Daemon] = "link"
        BY <1>8 DEF OpenToAppend
      <3> QED
        BY <1>i, <1>l, <3>1, <3>2 DEF LinkInv
    <2> QED
      BY <1>8, <2>1, <2>2 DEF OpenToAppend
  <1>9. CASE AppendMac
    <2>1. /\ pc'[Daemon] = "link" /\ Lone /\ host' = host /\ pc[Daemon] = "append"
          /\ phase = "save" /\ phase' = "up" /\ tv_ip' = tv_ip
      BY <1>0, <1>l, <1>9 DEF AppendMac, Goto, Saved
    <2> QED
      BY <1>i, <2>1 DEF LinkInv
  <1>10. CASE ServerCommand \/ ServerAttempt \/ Transport
    BY <1>10, <1>a, <1>l DEF ServerCommand, ServerAttempt, Transport, mainVars
  <1>11. CASE Signal
    BY <1>11, <1>i, <1>l DEF Signal, Stop, mainVars, LinkInv
  <1> QED
    BY <1>1, <1>2, <1>3, <1>4, <1>5, <1>6, <1>7, <1>8, <1>9, <1>10, <1>11 DEF StartupNext

\* The first state has these types.
LEMMA TypeInit == StartupInit => TypeInv /\ OpenInv
  <1> SUFFICES ASSUME StartupInit PROVE TypeInv /\ OpenInv
    OBVIOUS
  <1>1. PICK file \in InitialFiles : ConfigInit(file)
    BY DEF StartupInit
  <1>2. file \in Texts /\ NoText \in Texts /\ MaxInodes \in Nat \ {0}
    BY InitialFilesAssumption, InodesAssumption, NoTextTyping
  <1>3. conf \in {0, 1} /\ made = conf /\ made \in 0..MaxInodes
    BY <1>1, <1>2 DEF ConfigInit
  <1>4. \A i \in 1..MaxInodes : text[i] \in Texts /\ (i > made => text[i] = NoText)
    BY <1>1, <1>2, <1>3 DEF ConfigInit
  <1>5. text \in [1..MaxInodes -> Texts]
    BY <1>1, <1>2 DEF ConfigInit
  <1>6. ConfigTypeOK
    BY <1>1, <1>2, <1>3, <1>5 DEF ConfigInit, ConfigTypeOK
  <1>7. OpenInv
    BY <1>1, <1>4 DEF StartupInit, ConfigInit, OpenInv, Writing
  <1>8. ConnectTypeOK
    BY EndpointsAssumption, TriesAssumption
       DEF StartupInit, ConnectInit, ConnectTypeOK, Phases
  <1>9. MainInv
    BY <1>1, ValuesAssumption DEF StartupInit, ConfigInit, MainInv, PCs, Updating
  <1>10. RunsInv
    <2>1. MaxRuns \in [Procs -> Nat]
      BY StartsAssumption DEF MaxRuns
    <2> QED
      BY <2>1 DEF StartupInit, RunsInv
  <1>11. LinkInv
    BY ProcsAssumption DEF StartupInit, ConnectInit, LinkInv
  <1> QED
    BY <1>6, <1>7, <1>8, <1>9, <1>10, <1>11 DEF TypeInv

\* The types and what is open, step by step.
LEMMA TypeStep ==
    TypeInv /\ OpenInv /\ DiscoverTypeOK /\ [StartupNext]_startupVars
        => FileStep /\ TypeInv' /\ OpenInv'
  BY StepKinds, ConfigTyped, OpenStep, ConnectTyped, MainStep, RunsStep, LinkStep
     DEF TypeInv

\* Type correctness of the composition, for any number of processes and starts
\* and whatever the user has in the file; nobody who is not at work on the file
\* has it open.
THEOREM StartupTyping == StartupSpec => []StartupTypeOK
  <1>1. StartupInit => TypeInv /\ OpenInv
    BY TypeInit
  <1>2. TypeInv /\ OpenInv /\ DiscoverTypeOK /\ [StartupNext]_startupVars
            => (TypeInv /\ OpenInv)'
    BY TypeStep
  <1>3. StartupSpec => []DiscoverTypeOK
    BY StartupDiscovers, DiscoverTyping, PTL
  <1>4. StartupSpec => []SoapTypeOK
    BY StartupCalls, SoapTyping, PTL
  <1>5. TypeInv /\ OpenInv /\ DiscoverTypeOK /\ SoapTypeOK => StartupTypeOK
    <2>1. TypeInv => /\ ConfigTypeOK /\ ConnectTypeOK /\ pc \in [Procs -> PCs]
                     /\ \A p \in Procs : runs[p] \in 0..MaxRuns[p]
      <3>1. MaxRuns \in [Procs -> Nat]
        BY StartsAssumption DEF MaxRuns
      <3> QED
        BY <3>1 DEF TypeInv, MainInv, RunsInv
    <2> QED
      BY <2>1 DEF StartupTypeOK, OpenInv, Writing
  <1> QED
    BY <1>1, <1>2, <1>3, <1>4, <1>5, PTL DEF StartupSpec

-----------------------------------------------------------------------------
(* The .tmp file.                                                           *)

\* The .tmp file stays apart, step by step.
LEMMA TmpStep == TypeInv /\ OpenInv /\ TmpInv /\ FileStep => TmpInv'
  <1> SUFFICES ASSUME TypeInv, OpenInv, TmpInv, FileStep PROVE TmpInv'
    OBVIOUS
  <1>0. /\ made \in Nat /\ conf \in 0..made /\ tmp \in 0..made
        /\ in \in [Procs -> 0..made] /\ out \in [Procs -> 0..made]
    BY InodesAssumption DEF TypeInv, ConfigTypeOK
  <1>i. tmp # 0 => /\ tmp # conf
                   /\ \A p \in Procs : in[p] # tmp
                   /\ \A p \in Procs : pc[p] = "append" => out[p] # tmp
    BY DEF TmpInv
  <1>o. \A p \in Procs : pc[p] = "append" => out[p] # 0
    BY DEF OpenInv
  <1>b. "append" \in Busy
    BY DEF Busy
  <1>1. CASE ElsewhereStep
    BY <1>1, <1>i, <1>b DEF ElsewhereStep, configVars, names, TmpInv
  <1>2. ASSUME NEW p \in Procs, OpenInStep(p) PROVE TmpInv'
    <2>1. /\ \A q \in Procs : in'[q] \in {in[q], conf}
          /\ UNCHANGED <<conf, tmp, out>>
          /\ \A q \in Procs : pc'[q] = "append" => pc[q] = "append"
      BY <1>0, <1>2 DEF OpenInStep, OpenIn, Moves, Others, names
    <2> QED
      BY <1>i, <2>1 DEF TmpInv
  <1>3. ASSUME NEW p \in Procs, OpenOutStep(p) PROVE TmpInv'
    <2>1. /\ tmp' = tmp \/ tmp' = made + 1
          /\ UNCHANGED <<conf, in>>
          /\ \A q \in Procs : pc'[q] = "append" => pc[q] = "append" /\ out'[q] = out[q]
      BY <1>0, <1>3 DEF OpenOutStep, OpenOut, Moves, Others
    <2>2. CASE tmp' = tmp
      BY <1>i, <2>1, <2>2 DEF TmpInv
    <2>3. CASE tmp' = made + 1
      <3>1. conf # made + 1 /\ \A q \in Procs : in[q] # made + 1 /\ out[q] # made + 1
        BY <1>0
      <3> QED
        BY <2>1, <2>3, <3>1 DEF TmpInv
    <2> QED
      BY <2>1, <2>2, <2>3
  <1>4. ASSUME NEW p \in Procs, DropStep(p) PROVE TmpInv'
    <2>1. /\ \A q \in Procs : in'[q] \in {in[q], 0}
          /\ UNCHANGED <<conf, tmp>>
          /\ \A q \in Procs : pc'[q] = "append" => pc[q] = "append" /\ out'[q] = out[q]
      BY <1>0, <1>4, <1>b DEF DropStep, Drop, Others, names
    <2> QED
      BY <1>i, <2>1 DEF TmpInv
  <1>5. ASSUME NEW p \in Procs, CopyStep(p) PROVE TmpInv'
    <2>1. /\ \A q \in Procs : in'[q] \in {in[q], 0}
          /\ UNCHANGED <<conf, tmp, out>>
          /\ \A q \in Procs : pc'[q] = "append" => pc[q] = "append"
      BY <1>0, <1>5 DEF CopyStep, Copy, Moves, Others, names
    <2> QED
      BY <1>i, <2>1 DEF TmpInv
  <1>6. ASSUME NEW p \in Procs, CloseStep(p) PROVE TmpInv'
    <2>1. /\ UNCHANGED <<conf, tmp, in, out>>
          /\ \A q \in Procs : pc'[q] = "append" => pc[q] = "append"
      BY <1>0, <1>6 DEF CloseStep, CloseOut, Moves, Others, names
    <2> QED
      BY <1>i, <2>1 DEF TmpInv
  <1>7. ASSUME NEW p \in Procs, RenameStep(p) PROVE TmpInv'
    BY <1>7 DEF RenameStep, Rename, TmpInv
  <1>8. ASSUME NEW p \in Procs, AppendStep(p) PROVE TmpInv'
    <2>1. /\ (conf' = conf /\ conf # 0) \/ conf' = made + 1
          /\ UNCHANGED <<tmp, in>> /\ out'[p] = conf'
          /\ \A q \in Procs \ {p} : pc'[q] = pc[q] /\ out'[q] = out[q]
      BY <1>0, <1>8 DEF AppendStep, OpenAppend, Moves, Others
    <2>2. tmp # 0 => tmp # conf'
      BY <1>0, <1>i, <2>1
    <2> QED
      BY <1>i, <2>1, <2>2 DEF TmpInv
  <1>9. ASSUME NEW p \in Procs, MacStep(p) PROVE TmpInv'
    <2>1. /\ UNCHANGED <<conf, tmp, in>>
          /\ \A q \in Procs : pc'[q] = "append" => pc[q] = "append" /\ out'[q] = out[q]
      BY <1>0, <1>9 DEF MacStep, CloseAppend, Moves, Others, names
    <2> QED
      BY <1>i, <2>1 DEF TmpInv
  <1> QED
    BY <1>1, <1>2, <1>3, <1>4, <1>5, <1>6, <1>7, <1>8, <1>9 DEF FileStep

\* Whoever is writing the .tmp file has it for himself, step by step, unless two
\* have met in it.
LEMMA AloneStep == TypeInv /\ OpenInv /\ TmpInv /\ AloneInv /\ FileStep => AloneInv'
  <1> SUFFICES ASSUME TypeInv, OpenInv, TmpInv, AloneInv, FileStep, "shared" \notin spoilt'
               PROVE  AloneInv'
    BY DEF AloneInv
  <1>0. /\ made \in Nat /\ conf \in 0..made /\ tmp \in 0..made
        /\ in \in [Procs -> 0..made] /\ out \in [Procs -> 0..made]
    BY InodesAssumption DEF TypeInv, ConfigTypeOK
  <1>o. \A p \in Procs : pc[p] \in {"copy", "close", "rename"} => out[p] # 0
    BY DEF OpenInv, Writing
  <1>b. Busy = {"copy", "close", "rename", "open_out", "append"}
        /\ Writing = {"copy", "close", "rename"}
    BY DEF Busy, Writing
  <1>s. "shared" \notin spoilt
    BY DEF FileStep, ElsewhereStep, configVars, OpenInStep, OpenIn, OpenOutStep, OpenOut,
       DropStep, Drop, CopyStep, Copy, CloseStep, CloseOut, RenameStep, Rename,
       AppendStep, OpenAppend, MacStep, CloseAppend
  <1>i. /\ \A p \in Procs : pc[p] \in Writing => out[p] = tmp
        /\ \A p, q \in Procs : pc[p] \in Writing /\ pc[q] \in Writing => p = q
    BY <1>s DEF AloneInv
  \* whoever writes now did before, to the same file
  <1>g. ASSUME \A q \in Procs : pc'[q] \in Writing
                   => pc[q] \in Writing /\ out'[q] = out[q] /\ tmp' = tmp
        PROVE  AloneInv'
    BY <1>g, <1>i DEF AloneInv
  <1>1. CASE ElsewhereStep
    BY <1>1, <1>g, <1>b DEF ElsewhereStep, configVars, names
  <1>2. ASSUME NEW p \in Procs, OpenInStep(p) PROVE AloneInv'
    BY <1>2, <1>g, <1>b DEF OpenInStep, OpenIn, Moves, Others, names
  <1>3. ASSUME NEW p \in Procs, OpenOutStep(p) PROVE AloneInv'
    <2>1. /\ (tmp' = tmp /\ tmp # 0) \/ tmp = 0
          /\ \A q \in Procs \ {p} : pc'[q] = pc[q] /\ out'[q] = out[q]
          /\ out'[p] = tmp' /\ \A q \in Procs \ {p} : out[q] # tmp'
      BY <1>0, <1>3 DEF OpenOutStep, OpenOut, Moves, Others
    <2>2. \A q \in Procs \ {p} : pc[q] \notin Writing
      BY <1>b, <1>i, <1>o, <2>1
    <2> QED
      BY <2>1, <2>2 DEF AloneInv
  <1>4. ASSUME NEW p \in Procs, DropStep(p) PROVE AloneInv'
    BY <1>0, <1>4, <1>g, <1>b DEF DropStep, Drop, Others, names
  <1>5. ASSUME NEW p \in Procs, CopyStep(p) PROVE AloneInv'
    BY <1>5, <1>g, <1>b DEF CopyStep, Copy, Moves, Others, names
  <1>6. ASSUME NEW p \in Procs, CloseStep(p) PROVE AloneInv'
    BY <1>6, <1>g, <1>b DEF CloseStep, CloseOut, Moves, Others, names
  <1>7. ASSUME NEW p \in Procs, RenameStep(p) PROVE AloneInv'
    <2>1. \A q \in Procs : pc'[q] \notin Writing
      BY <1>7, <1>b, <1>i DEF RenameStep, Others
    <2> QED
      BY <2>1 DEF AloneInv
  <1>8. ASSUME NEW p \in Procs, AppendStep(p) PROVE AloneInv'
    BY <1>0, <1>8, <1>g, <1>b DEF AppendStep, OpenAppend, Moves, Others
  <1>9. ASSUME NEW p \in Procs, MacStep(p) PROVE AloneInv'
    BY <1>0, <1>9, <1>g, <1>b DEF MacStep, CloseAppend, Moves, Others, names
  <1> QED
    BY <1>1, <1>2, <1>3, <1>4, <1>5, <1>6, <1>7, <1>8, <1>9 DEF FileStep

\* While two have not met in it, nobody is writing a .tmp file that is opened.
LEMMA NobodyWrites ==
    ASSUME TypeInv, OpenInv, AloneInv, "shared" \notin spoilt',
           NEW p \in Procs, OpenOutStep(p)
    PROVE  \A q \in Procs : pc[q] \notin Writing
  <1>0. tmp \in Nat /\ out \in [Procs -> 0..made]
    BY DEF TypeInv, ConfigTypeOK
  <1>1. /\ "shared" \notin spoilt
        /\ \A q \in Procs \ {p} : out[q] # tmp'
        /\ tmp' = tmp \/ tmp = 0
    BY DEF OpenOutStep, OpenOut
  <1>2. \A q \in Procs : pc[q] \in Writing => out[q] # 0 /\ out[q] = tmp
    BY <1>1 DEF OpenInv, AloneInv, Writing
  <1>3. pc[p] \notin Writing
    BY DEF OpenOutStep, Moves, Writing
  <1> QED
    BY <1>1, <1>2, <1>3

\* Nothing of a run forgets that two have met, or what the user had written.
LEMMA History ==
    FileStep => /\ "shared" \in spoilt => "shared" \in spoilt'
                /\ original' = original
                /\ spoilt \subseteq spoilt'
  BY DEF FileStep, ElsewhereStep, configVars, history, OpenInStep, OpenIn, OpenOutStep,
     OpenOut, DropStep, Drop, CopyStep, Copy, CloseStep, CloseOut, RenameStep, Rename,
     AppendStep, OpenAppend, MacStep, CloseAppend

\* What an update writes, step by step.
LEMMA UpdateKeeps ==
    TypeInv /\ OpenInv /\ TmpInv /\ AloneInv /\ UpdateInv /\ FileStep => UpdateInv'
  <1> SUFFICES ASSUME TypeInv, OpenInv, TmpInv, AloneInv, UpdateInv, FileStep
               PROVE  UpdateInv'
    OBVIOUS
  <1>0. /\ made \in Nat /\ tmp \in 0..made /\ text \in [1..MaxInodes -> Texts]
        /\ MaxInodes \in Nat /\ made <= MaxInodes
        /\ buffer \in [Procs -> Texts] /\ read \in [Procs -> Texts]
        /\ out \in [Procs -> 0..made]
    BY InodesAssumption DEF TypeInv, ConfigTypeOK
  <1>b. Busy = {"copy", "close", "rename", "open_out", "append"}
        /\ Writing = {"copy", "close", "rename"}
    BY DEF Busy, Writing
  <1>s. "shared" \in spoilt => "shared" \in spoilt'
    BY History
  <1>i. ASSUME NEW q \in Procs
        PROVE  /\ pc[q] = "close" => buffer[q] = Rewritten(read[q], host[q])
               /\ "shared" \notin spoilt /\ pc[q] = "rename"
                     => text[out[q]] = Rewritten(read[q], host[q])
    BY DEF UpdateInv
  <1>w. ASSUME "shared" \notin spoilt, NEW q \in Procs, pc[q] \in Writing
        PROVE  /\ out[q] = tmp /\ tmp # 0
               /\ \A r \in Procs : pc[r] \in Writing => r = q
    BY <1>w DEF AloneInv, OpenInv
  \* a process that is in a place of these where it was
  <1>g. ASSUME \A q \in Procs : pc'[q] \in {"close", "rename"} =>
                  /\ pc[q] = pc'[q] /\ host'[q] = host[q] /\ read'[q] = read[q]
                  /\ buffer'[q] = buffer[q]
                  /\ "shared" \notin spoilt' /\ pc[q] = "rename"
                        => text'[out'[q]] = text[out[q]]
        PROVE  UpdateInv'
    BY <1>g, <1>i, <1>s DEF UpdateInv
  <1>1. CASE ElsewhereStep
    BY <1>1, <1>b, <1>g DEF ElsewhereStep, configVars
  <1>2. ASSUME NEW p \in Procs, OpenInStep(p) PROVE UpdateInv'
    BY <1>2, <1>g DEF OpenInStep, OpenIn, Moves, Others
  <1>3. ASSUME NEW p \in Procs, OpenOutStep(p) PROVE UpdateInv'
    <2>1. "shared" \notin spoilt' => \A q \in Procs : pc[q] # "rename"
      BY <1>3, <1>b, NobodyWrites
    <2> QED
      BY <1>3, <1>g, <2>1 DEF OpenOutStep, OpenOut, Moves, Others
  <1>4. ASSUME NEW p \in Procs, DropStep(p) PROVE UpdateInv'
    BY <1>0, <1>4, <1>b, <1>g DEF DropStep, Drop, Others
  <1>5. ASSUME NEW p \in Procs, CopyStep(p) PROVE UpdateInv'
    <2>1. /\ read'[p] = Content(in[p]) /\ pc'[p] = "close" /\ host'[p] = host[p]
          /\ buffer'[p] = Rewritten(Content(in[p]), host[p])
      BY <1>0, <1>5 DEF CopyStep, Copy, Moves
    <2>2. \A q \in Procs \ {p} : /\ pc'[q] = pc[q] /\ host'[q] = host[q]
                                 /\ read'[q] = read[q] /\ buffer'[q] = buffer[q]
      BY <1>0, <1>5 DEF CopyStep, Copy, Moves, Others
    <2>3. text' = text /\ out' = out
      BY <1>5 DEF CopyStep, Copy
    <2> QED
      BY <1>i, <1>s, <2>1, <2>2, <2>3 DEF UpdateInv
  <1>6. ASSUME NEW p \in Procs, CloseStep(p) PROVE UpdateInv'
    <2>1. /\ pc[p] = "close" /\ pc'[p] = "rename" /\ host'[p] = host[p]
          /\ out' = out /\ read' = read /\ spoilt' = spoilt
          /\ text' = [text EXCEPT ![out[p]] = buffer[p]]
      BY <1>6 DEF CloseStep, CloseOut, Moves
    <2>2. \A q \in Procs \ {p} : /\ pc'[q] = pc[q] /\ host'[q] = host[q]
                                 /\ buffer'[q] = buffer[q]
      BY <1>0, <1>6 DEF CloseStep, CloseOut, Moves, Others
    <2>3. out[p] \in 1..MaxInodes
      <3>1. out[p] # 0
        BY <1>b, <2>1 DEF OpenInv
      <3> QED
        BY <1>0, <3>1
    <2>4. text'[out'[p]] = Rewritten(read'[p], host'[p])
      BY <1>0, <1>i, <2>1, <2>3
    <2>5. ASSUME NEW q \in Procs \ {p}, "shared" \notin spoilt
          PROVE  pc[q] # "rename"
      BY <1>b, <1>w, <2>1, <2>5
    <2> QED
      BY <1>i, <2>1, <2>2, <2>4, <2>5 DEF UpdateInv
  <1>7. ASSUME NEW p \in Procs, RenameStep(p) PROVE UpdateInv'
    BY <1>0, <1>7, <1>b, <1>g DEF RenameStep, Rename, Others
  <1>8. ASSUME NEW p \in Procs, AppendStep(p) PROVE UpdateInv'
    BY <1>0, <1>8, <1>g DEF AppendStep, OpenAppend, Moves, Others
  <1>9. ASSUME NEW p \in Procs, MacStep(p) PROVE UpdateInv'
    <2>1. /\ pc[p] = "append" /\ pc'[p] = "link"
          /\ buffer' = buffer /\ read' = read
          /\ \A x \in 1..MaxInodes : x # out[p] => text'[x] = text[x]
          /\ \A q \in Procs \ {p} : pc'[q] = pc[q] /\ host'[q] = host[q] /\ out'[q] = out[q]
      BY <1>0, <1>9 DEF MacStep, CloseAppend, Moves, Others
    <2>2. pc[p] = "append" /\ pc'[p] = "link"
      BY <1>9 DEF MacStep, Moves
    <2>3. ASSUME NEW q \in Procs, "shared" \notin spoilt', pc[q] = "rename"
          PROVE  text'[out[q]] = text[out[q]]
      <3>1. out[q] = tmp /\ tmp # 0
        BY <1>b, <1>s, <1>w, <2>3
      <3>2. tmp # out[p] /\ tmp \in 1..MaxInodes
        BY <1>0, <2>2, <3>1 DEF TmpInv
      <3> QED
        BY <2>1, <3>1, <3>2
    <2> QED
      BY <1>g, <2>1, <2>2, <2>3
  <1> QED
    BY <1>1, <1>2, <1>3, <1>4, <1>5, <1>6, <1>7, <1>8, <1>9 DEF FileStep

-----------------------------------------------------------------------------
(* The user's lines.                                                        *)

\* All texts of a run keep the user's lines, step by step.
LEMMA KeptStep ==
    TypeInv /\ OpenInv /\ TmpInv /\ AloneInv /\ UpdateInv /\ KeptInv /\ FileStep
        => KeptInv'
  <1> SUFFICES ASSUME TypeInv, OpenInv, TmpInv, AloneInv, UpdateInv, KeptInv, FileStep,
                      "shared" \notin spoilt'
               PROVE  KeptInv'
    BY DEF KeptInv
  <1>0. /\ made \in Nat /\ conf \in 0..made /\ tmp \in 0..made
        /\ text \in [1..MaxInodes -> Texts]
        /\ MaxInodes \in Nat /\ made <= MaxInodes
        /\ in \in [Procs -> 0..made] /\ out \in [Procs -> 0..made]
        /\ read \in [Procs -> Texts]
    BY InodesAssumption DEF TypeInv, ConfigTypeOK
  <1>h. \A q \in Procs : host[q] \in Values
    BY DEF TypeInv, MainInv
  <1>b. Busy = {"copy", "close", "rename", "open_out", "append"}
        /\ Writing = {"copy", "close", "rename"}
    BY DEF Busy, Writing
  <1>s. "shared" \notin spoilt /\ original' = original
    BY History
  <1> DEFINE K(t) == Kept(original, t)
             Text0(i) == IF i = 0 THEN NoText ELSE text[i]
             Text1(i) == IF i = 0 THEN NoText ELSE text'[i]
             Ok(q) == /\ pc'[q] \in {"open_out", "copy"} => K(Text1(in'[q]))
                      /\ pc'[q] \in {"close", "rename"} => K(read'[q])
                      /\ pc'[q] = "append" => K(text'[out'[q]])
  <1>i. /\ K(Text0(conf))
        /\ \A q \in Procs : /\ pc[q] \in {"open_out", "copy"} => K(Text0(in[q]))
                            /\ pc[q] \in {"close", "rename"} => K(read[q])
                            /\ pc[q] = "append" => K(text[out[q]])
    BY <1>s DEF KeptInv, Content
  <1>g. ASSUME K(Text1(conf')), \A q \in Procs : Ok(q) PROVE KeptInv'
    BY <1>g, <1>s DEF KeptInv, Content
  <1> HIDE DEF K
  <1>w. ASSUME NEW q \in Procs, pc[q] \in Writing
        PROVE  /\ out[q] = tmp /\ tmp # 0
               /\ \A r \in Procs : pc[r] \in Writing => r = q
    BY <1>s, <1>w DEF AloneInv, OpenInv
  <1>t. tmp # 0 => /\ tmp # conf
                   /\ \A q \in Procs : in[q] # tmp
                   /\ \A q \in Procs : pc[q] = "append" => out[q] # tmp
    BY DEF TmpInv
  <1>o. \A q \in Procs : pc[q] = "append" => out[q] # 0
    BY DEF OpenInv
  <1>1. CASE ElsewhereStep
    BY <1>1, <1>b, <1>g, <1>i DEF ElsewhereStep, configVars, names
  <1>2. ASSUME NEW p \in Procs, OpenInStep(p) PROVE KeptInv'
    <2>1. /\ in' = [in EXCEPT ![p] = conf] /\ pc'[p] = "open_out"
          /\ UNCHANGED <<conf, text, out, read>>
          /\ \A q \in Procs \ {p} : pc'[q] = pc[q]
      BY <1>2 DEF OpenInStep, OpenIn, Moves, Others, names
    <2> QED
      BY <1>0, <1>g, <1>i, <2>1
  <1>3. ASSUME NEW p \in Procs, OpenOutStep(p) PROVE KeptInv'
    <2>1. /\ (tmp' = tmp /\ tmp # 0) \/ tmp' = made + 1
          /\ text' = [text EXCEPT ![tmp'] = NoText]
          /\ UNCHANGED <<conf, in, read>>
          /\ pc[p] = "open_out" /\ pc'[p] = "copy"
          /\ \A q \in Procs \ {p} : pc'[q] = pc[q] /\ out'[q] = out[q]
      BY <1>0, <1>3 DEF OpenOutStep, OpenOut, Moves, Others
    <2>2. /\ conf # tmp' /\ \A q \in Procs : in[q] # tmp'
          /\ \A q \in Procs : pc[q] = "append" => out[q] # tmp'
      BY <1>0, <1>t, <2>1
    <2>3. \A x \in 1..MaxInodes : x # tmp' => text'[x] = text[x]
      BY <1>0, <2>1
    <2>4. \A x \in 0..made : x # tmp' => Text1(x) = Text0(x)
      BY <1>0, <2>3
    <2>5. K(Text1(conf'))
      BY <1>0, <1>i, <2>1, <2>2, <2>4
    <2>6. ASSUME NEW q \in Procs PROVE Ok(q)
      <3>1. Text1(in'[q]) = Text0(in[q])
        BY <1>0, <2>1, <2>2, <2>4
      <3>2. pc[q] = "append" => text'[out[q]] = text[out[q]]
        BY <1>0, <1>o, <2>2, <2>3
      <3> HIDE DEF Text0, Text1
      <3>3. CASE q = p
        BY <1>i, <2>1, <3>1, <3>3
      <3>4. CASE q # p
        BY <1>i, <2>1, <3>1, <3>2, <3>4
      <3> QED
        BY <3>3, <3>4
    <2> QED
      BY <1>g, <2>5, <2>6
  <1>4. ASSUME NEW p \in Procs, DropStep(p) PROVE KeptInv'
    <2>1. /\ UNCHANGED <<conf, text>> /\ pc'[p] \notin Busy
          /\ \A q \in Procs \ {p} : /\ pc'[q] = pc[q] /\ in'[q] = in[q]
                                    /\ out'[q] = out[q] /\ read'[q] = read[q]
      BY <1>0, <1>4 DEF DropStep, Drop, Others, names
    <2> QED
      BY <1>b, <1>g, <1>i, <2>1
  <1>5. ASSUME NEW p \in Procs, CopyStep(p) PROVE KeptInv'
    <2>1. /\ UNCHANGED <<conf, text, out>> /\ pc[p] = "copy" /\ pc'[p] = "close"
          /\ read'[p] = Text0(in[p])
          /\ \A q \in Procs \ {p} : /\ pc'[q] = pc[q] /\ in'[q] = in[q]
                                    /\ read'[q] = read[q]
      BY <1>0, <1>5 DEF CopyStep, Copy, Moves, Others, names, Content
    <2> QED
      BY <1>g, <1>i, <2>1
  <1>6. ASSUME NEW p \in Procs, CloseStep(p) PROVE KeptInv'
    <2>1. /\ UNCHANGED <<conf, in, out, read>> /\ pc[p] = "close" /\ pc'[p] = "rename"
          /\ text' = [text EXCEPT ![out[p]] = buffer[p]]
          /\ \A q \in Procs \ {p} : pc'[q] = pc[q]
      BY <1>6 DEF CloseStep, CloseOut, Moves, Others, names
    <2>2. out[p] = tmp /\ tmp # 0
      BY <1>b, <1>w, <2>1
    <2>3. \A x \in 1..MaxInodes : x # tmp => text'[x] = text[x]
      BY <1>0, <2>1, <2>2
    <2>4. \A x \in 0..made : x # tmp => Text1(x) = Text0(x)
      BY <1>0, <2>3
    <2>5. K(Text1(conf'))
      BY <1>0, <1>i, <1>t, <2>1, <2>2, <2>4
    <2>6. ASSUME NEW q \in Procs PROVE Ok(q)
      <3>1. Text1(in'[q]) = Text0(in[q])
        BY <1>0, <1>t, <2>1, <2>2, <2>4
      <3>2. pc[q] = "append" => text'[out[q]] = text[out[q]]
        BY <1>0, <1>o, <1>t, <2>2, <2>3
      <3> HIDE DEF Text0, Text1
      <3>3. CASE q = p
        BY <1>i, <2>1, <3>1, <3>3
      <3>4. CASE q # p
        BY <1>i, <2>1, <3>1, <3>2, <3>4
      <3> QED
        BY <3>3, <3>4
    <2> QED
      BY <1>g, <2>5, <2>6
  <1>7. ASSUME NEW p \in Procs, RenameStep(p) PROVE KeptInv'
    <2>1. pc[p] = "rename" /\ out[p] = tmp /\ tmp # 0
      BY <1>7, <1>b, <1>w DEF RenameStep
    <2>2. /\ conf' = tmp /\ text' = text /\ in' = in /\ pc'[p] \notin Busy
          /\ \A q \in Procs \ {p} : /\ pc'[q] = pc[q] /\ out'[q] = out[q]
                                    /\ read'[q] = read[q]
      BY <1>0, <1>7, <2>1 DEF RenameStep, Rename, Others
    <2>3. K(text[tmp])
      <3>1. text[tmp] = Rewritten(read[p], host[p])
        BY <1>s, <2>1 DEF UpdateInv
      <3>2. K(read[p])
        BY <1>i, <2>1
      <3> QED
        BY <1>h, <3>1, <3>2, RewrittenKeeps DEF K
    <2> QED
      BY <1>b, <1>g, <1>i, <2>1, <2>2, <2>3
  <1>8. ASSUME NEW p \in Procs, AppendStep(p) PROVE KeptInv'
    <2>1. /\ \/ conf' = conf /\ conf # 0
             \/ conf = 0 /\ conf' = made + 1 /\ made < MaxInodes
          /\ UNCHANGED <<text, in, read>> /\ out'[p] = conf' /\ pc'[p] = "append"
          /\ \A q \in Procs \ {p} : pc'[q] = pc[q] /\ out'[q] = out[q]
      BY <1>0, <1>8 DEF AppendStep, OpenAppend, Moves, Others
    <2>2. conf' # 0 /\ text[conf'] = Text0(conf)
      <3>1. made < MaxInodes => text[made + 1] = NoText
        BY <1>0 DEF OpenInv
      <3> QED
        BY <1>0, <2>1, <3>1
    <2> QED
      BY <1>g, <1>i, <2>1, <2>2
  <1>9. ASSUME NEW p \in Procs, MacStep(p) PROVE KeptInv'
    <2>1. /\ UNCHANGED <<conf, in, read>> /\ pc[p] = "append" /\ pc'[p] = "link"
          /\ text' = [text EXCEPT ![out[p]] = Joined(@, Line("mac", tv_mac))]
          /\ \A q \in Procs \ {p} : pc'[q] = pc[q] /\ out'[q] = out[q]
      BY <1>0, <1>9 DEF MacStep, CloseAppend, Moves, Others, names
    <2>2. out[p] \in 1..MaxInodes
      BY <1>0, <1>o, <2>1
    <2>3. K(Joined(text[out[p]], Line("mac", tv_mac)))
      <3>1. K(text[out[p]])
        BY <1>i, <2>1
      <3>2. "mac" \in Keys \ {"user"} /\ tv_mac \in Values
        BY <1>9, NamesAssumption, ValuesAssumption DEF MacStep, Keys
      <3> QED
        BY <3>1, <3>2, JoinedKeeps DEF K
    <2>4. \A x \in 1..MaxInodes : K(text[x]) => K(text'[x])
      BY <1>0, <2>1, <2>2, <2>3
    <2>5. \A x \in 0..made : K(Text0(x)) => K(Text1(x))
      BY <1>0, <2>4
    <2>6. K(Text1(conf'))
      BY <1>0, <1>i, <2>1, <2>5
    <2>7. ASSUME NEW q \in Procs PROVE Ok(q)
      <3>1. K(Text0(in[q])) => K(Text1(in'[q]))
        BY <1>0, <2>1, <2>5
      <3>2. pc[q] = "append" => (K(text[out[q]]) => K(text'[out[q]]))
        BY <1>0, <1>o, <2>4
      <3> HIDE DEF Text0, Text1
      <3>3. CASE q = p
        BY <2>1, <3>3
      <3>4. CASE q # p
        BY <1>i, <2>1, <3>1, <3>2, <3>4
      <3> QED
        BY <3>3, <3>4
    <2> QED
      BY <1>g, <2>6, <2>7
  <1> QED
    BY <1>1, <1>2, <1>3, <1>4, <1>5, <1>6, <1>7, <1>8, <1>9 DEF FileStep

\* The inductive invariant of the file.
FileInv == TypeInv /\ OpenInv /\ TmpInv /\ AloneInv /\ UpdateInv /\ KeptInv

\* At the start the user's lines are there.
LEMMA FileInit == StartupInit => FileInv
  <1> SUFFICES ASSUME StartupInit PROVE FileInv
    OBVIOUS
  <1>1. PICK file \in InitialFiles : ConfigInit(file)
    BY DEF StartupInit
  <1>2. /\ file \in Texts /\ (file.ragged => file.lines # <<>>)
        /\ MaxInodes \in Nat \ {0}
    BY InitialFilesAssumption, InodesAssumption
  <1>3. Content(conf) = original /\ original = file /\ tmp = 0 /\ spoilt = {}
    BY <1>1, <1>2 DEF ConfigInit, Content
  <1>4. \A p \in Procs : pc[p] = "off"
    BY DEF StartupInit
  <1>5. Kept(original, Content(conf))
    BY <1>2, <1>3 DEF Kept
  <1>6. TmpInv /\ AloneInv /\ UpdateInv /\ KeptInv
    BY <1>3, <1>4, <1>5 DEF TmpInv, AloneInv, UpdateInv, KeptInv, Writing
  <1> QED
    BY <1>6, TypeInit DEF FileInv

\* The invariant of the file, step by step.
LEMMA FileKeeps ==
    FileInv /\ DiscoverTypeOK /\ [StartupNext]_startupVars => FileStep /\ FileInv'
  BY TypeStep, TmpStep, AloneStep, UpdateKeeps, KeptStep DEF FileInv

\* The invariant of the file holds in every run.
THEOREM FileInvariance == StartupSpec => [](FileInv /\ DiscoverTypeOK)
  <1>1. StartupSpec => []DiscoverTypeOK
    BY StartupDiscovers, DiscoverTyping, PTL
  <1>2. FileInv /\ DiscoverTypeOK /\ [StartupNext]_startupVars => FileInv'
    BY FileKeeps
  <1> QED
    BY FileInit, <1>1, <1>2, PTL DEF StartupSpec

\* The user's own lines survive all updates and appends, those that interleave
\* and those that a crash cuts short, for any file and any number of processes,
\* as long as no two updates meet in one .tmp file.
THEOREM UserLinesSurvive == StartupSpec => []UserLinesKept
  <1>1. FileInv => UserLinesKept
    BY DEF FileInv, KeptInv, Kept, UserLinesKept
  <1> QED
    BY <1>1, FileInvariance, PTL

-----------------------------------------------------------------------------
(* What the file says.                                                      *)

\* What a step may do to what the next start reads.
SameContent ==
    Content(conf)' = Content(conf) /\ chosen' = chosen /\ saved' = saved
HostWritten(h) ==
    Content(conf)' = Rewritten(Content(conf), h) /\ chosen' = h /\ saved' = saved
MacAppended(m) ==
    /\ Content(conf)' = Joined(Content(conf), Line("mac", m))
    /\ chosen' = chosen /\ saved' = m

\* A step of an undamaged run leaves what the file says, or writes the host of
\* an update into it, or appends a MAC address.
LEMMA ContentStep ==
    ASSUME TypeInv, OpenInv, TmpInv, AloneInv, UpdateInv, FileStep, spoilt' = {}
    PROVE  \/ SameContent
           \/ \E p \in Procs : pc[p] = "rename" /\ HostWritten(host[p])
           \/ \E p \in Procs : pc[p] = "append" /\ tv_mac \in Sets /\ MacAppended(tv_mac)
  <1>0. /\ made \in Nat /\ conf \in 0..made /\ tmp \in 0..made
        /\ text \in [1..MaxInodes -> Texts]
        /\ MaxInodes \in Nat /\ made <= MaxInodes
        /\ out \in [Procs -> 0..made]
    BY InodesAssumption DEF TypeInv, ConfigTypeOK
  <1>s. spoilt = {} /\ "shared" \notin spoilt /\ "shared" \notin spoilt'
    BY History
  <1>w. ASSUME NEW q \in Procs, pc[q] \in Writing
        PROVE  out[q] = tmp /\ tmp # 0 /\ tmp # conf
    BY <1>s, <1>w DEF AloneInv, OpenInv, TmpInv
  <1> DEFINE Text0 == IF conf = 0 THEN NoText ELSE text[conf]
             Text1 == IF conf' = 0 THEN NoText ELSE text'[conf']
  <1>c. Content(conf) = Text0 /\ Content(conf)' = Text1
    BY DEF Content
  <1>g. ASSUME Text1 = Text0, chosen' = chosen, saved' = saved PROVE SameContent
    BY <1>c, <1>g DEF SameContent
  <1>1. CASE ElsewhereStep
    BY <1>1, <1>g DEF ElsewhereStep, configVars, names, history
  <1>2. ASSUME NEW p \in Procs, OpenInStep(p) \/ DropStep(p) \/ CopyStep(p)
        PROVE  SameContent
    BY <1>2, <1>g DEF OpenInStep, OpenIn, DropStep, Drop, CopyStep, Copy, names, history
  <1>3. ASSUME NEW p \in Procs, OpenOutStep(p) PROVE SameContent
    <2>1. /\ tmp' # conf /\ text' = [text EXCEPT ![tmp'] = NoText]
          /\ UNCHANGED <<conf, chosen, saved>>
      BY <1>0, <1>3 DEF OpenOutStep, OpenOut, TmpInv, history
    <2>2. conf # 0 => text'[conf] = text[conf]
      BY <1>0, <2>1
    <2> QED
      BY <1>g, <2>1, <2>2
  <1>4. ASSUME NEW p \in Procs, CloseStep(p) PROVE SameContent
    <2>1. /\ text' = [text EXCEPT ![out[p]] = buffer[p]] /\ pc[p] = "close"
          /\ UNCHANGED <<conf, chosen, saved>>
      BY <1>4 DEF CloseStep, CloseOut, Moves, names, history
    <2>2. out[p] # conf
      BY <1>w, <2>1 DEF Writing
    <2>3. conf # 0 => text'[conf] = text[conf]
      BY <1>0, <2>1, <2>2
    <2> QED
      BY <1>g, <2>1, <2>3
  <1>5. ASSUME NEW p \in Procs, RenameStep(p)
        PROVE  pc[p] = "rename" /\ HostWritten(host[p])
    <2>1. pc[p] = "rename" /\ out[p] = tmp /\ tmp # 0
      BY <1>5, <1>w DEF RenameStep, Writing
    <2>2. /\ conf' = tmp /\ chosen' = host[p] /\ saved' = saved /\ text' = text
          /\ spoilt' = IF Content(conf) # read[p] THEN spoilt \cup {"overwritten"}
                       ELSE spoilt
      BY <1>5, <2>1 DEF RenameStep, Rename
    <2>3. read[p] = Content(conf)
      BY <2>2
    <2>4. text[tmp] = Rewritten(read[p], host[p])
      BY <1>s, <2>1 DEF UpdateInv
    <2>5. Text1 = Rewritten(Content(conf), host[p])
      BY <2>1, <2>2, <2>3, <2>4
    <2> QED
      BY <1>c, <2>1, <2>2, <2>5 DEF HostWritten
  <1>6. ASSUME NEW p \in Procs, AppendStep(p) PROVE SameContent
    <2>1. /\ \/ conf' = conf /\ conf # 0
             \/ conf = 0 /\ conf' = made + 1 /\ made < MaxInodes
          /\ UNCHANGED <<text, chosen, saved>>
      BY <1>0, <1>6 DEF AppendStep, OpenAppend, history
    <2>2. made < MaxInodes => text[made + 1] = NoText
      BY <1>0 DEF OpenInv
    <2> QED
      BY <1>0, <1>g, <2>1, <2>2
  <1>7. ASSUME NEW p \in Procs, MacStep(p)
        PROVE  pc[p] = "append" /\ tv_mac \in Sets /\ MacAppended(tv_mac)
    <2>1. /\ pc[p] = "append" /\ tv_mac \in Sets
          /\ text' = [text EXCEPT ![out[p]] = Joined(@, Line("mac", tv_mac))]
          /\ spoilt' = IF out[p] # conf THEN spoilt \cup {"overwritten"} ELSE spoilt
          /\ conf' = conf /\ chosen' = chosen /\ saved' = tv_mac
      BY <1>7 DEF MacStep, CloseAppend, Moves, names
    <2>2. out[p] = conf /\ out[p] # 0
      <3>1. out[p] # 0
        BY <2>1 DEF OpenInv
      <3> QED
        BY <2>1, <3>1
    <2>3. Text0 = text[conf] /\ Text1 = Joined(text[conf], Line("mac", tv_mac))
      BY <1>0, <2>1, <2>2
    <2> QED
      BY <1>c, <2>1, <2>3 DEF MacAppended
  <1> QED
    BY <1>1, <1>2, <1>3, <1>4, <1>5, <1>6, <1>7 DEF FileStep

\* What the file says, step by step.
LEMMA SaysStep ==
    FileInv /\ FileStep /\ SaysInv => SaysInv'
  <1> SUFFICES ASSUME FileInv, FileStep, SaysInv, Undamaged' PROVE SaysInv'
    BY DEF SaysInv
  <1>0. spoilt' = {} /\ Undamaged
    BY History DEF Undamaged
  <1> DEFINE t == Content(conf)
             new == Content(conf)'
  <1>1. /\ t \in Texts /\ ~t.ragged
        /\ chosen # None => HostIs(t, chosen)
        /\ saved # None => LastValue(t, {"mac"}) = saved
    <2>1. t \in Texts
      BY ContentTyping DEF FileInv, TypeInv, ConfigTypeOK
    <2> QED
      BY <1>0, <2>1 DEF SaysInv, LoadedMac
  <1>g. ASSUME ~new.ragged, chosen' # None => HostIs(new, chosen'),
               saved' # None => LastValue(new, {"mac"}) = saved'
        PROVE  SaysInv'
    BY <1>g DEF SaysInv, LoadedMac
  <1>2. CASE SameContent
    <2>1. new = t /\ chosen' = chosen /\ saved' = saved
      BY <1>2 DEF SameContent
    <2> HIDE DEF t, new
    <2> QED
      BY <1>1, <1>g, <2>1
  <1>3. ASSUME NEW p \in Procs, pc[p] = "rename", HostWritten(host[p]) PROVE SaysInv'
    <2>1. new = Rewritten(t, host[p]) /\ chosen' = host[p] /\ saved' = saved
      BY <1>3 DEF HostWritten
    <2>2. host[p] \in Values
      BY DEF FileInv, TypeInv, MainInv
    <2> HIDE DEF t, new
    <2>3. /\ ~new.ragged /\ HostIs(new, host[p])
          /\ LastValue(new, {"mac"}) = LastValue(t, {"mac"})
      BY <1>1, <2>1, <2>2, UpdatedHost
    <2> QED
      BY <1>1, <1>g, <2>1, <2>3
  <1>4. ASSUME NEW p \in Procs, tv_mac \in Sets, MacAppended(tv_mac) PROVE SaysInv'
    <2>1. new = Joined(t, Line("mac", tv_mac)) /\ chosen' = chosen /\ saved' = tv_mac
      BY <1>4 DEF MacAppended
    <2>2. tv_mac \in Values
      BY <1>4, NamesAssumption, ValuesAssumption
    <2> HIDE DEF t, new
    <2>3. /\ ~new.ragged /\ LastValue(new, {"mac"}) = tv_mac
          /\ \A h : HostIs(t, h) => HostIs(new, h)
      BY <1>1, <2>1, <2>2, AppendedMac
    <2> QED
      BY <1>1, <1>g, <2>1, <2>3
  <1> QED
    BY <1>0, <1>2, <1>3, <1>4, ContentStep DEF FileInv

\* At the start it says what the user wrote.
LEMMA SaysInit == StartupInit => SaysInv /\ Content(conf) = original
  <1> SUFFICES ASSUME StartupInit PROVE SaysInv /\ Content(conf) = original
    OBVIOUS
  <1>1. PICK file \in InitialFiles : ConfigInit(file)
    BY Zenon DEF StartupInit
  <1>2. MaxInodes \in Nat \ {0}
    BY InodesAssumption
  <1>3. Content(conf) = original /\ chosen = None /\ saved = None
    BY <1>1, <1>2 DEF ConfigInit, Content
  <1> QED
    BY <1>3 DEF SaysInv, Undamaged

\* What the file says is right in every run.
THEOREM SaysInvariance == StartupSpec => []SaysInv
  <1>1. FileInv /\ DiscoverTypeOK /\ SaysInv /\ [StartupNext]_startupVars => SaysInv'
    BY FileKeeps, SaysStep
  <1> QED
    BY <1>1, SaysInit, FileInvariance, PTL DEF StartupSpec

\* The host saved last is the one that the next start finds, whatever crashed or
\* wrote in between, if no line "host = ..." hides it and the run did no damage.
THEOREM ChoiceIsFound == StartupSpec => []ChoiceHolds
  <1>1. ASSUME FileInv, SaysInv PROVE ChoiceHolds
    <2> DEFINE t == Content(conf)
    <2>0. t \in Texts
      BY <1>1, ContentTyping DEF FileInv, TypeInv, ConfigTypeOK
    <2>1. SUFFICES ASSUME Undamaged, chosen # None,
                          \A i \in DOMAIN t.lines : t.lines[i].key # "spaced"
                   PROVE  LastValue(t, HostKeys) = chosen
      BY DEF ChoiceHolds, LoadedHost
    <2>2. PICK i \in DOMAIN t.lines : Hits(t) = {i} /\ t.lines[i].val = chosen
      BY <1>1, <2>1 DEF SaysInv, HostIs
    <2> HIDE DEF t
    <2>3. KeyLines(t, HostKeys) = {i}
      BY <2>1, <2>2 DEF KeyLines, HostKeys, Hits
    <2>4. i \in LastLines(t, HostKeys)
      BY <2>0, <2>2, <2>3, TextParts DEF LastLines
    <2> QED
      BY <2>0, <2>2, <2>4, LastIs
  <1> QED
    BY <1>1, FileInvariance, SaysInvariance, PTL

\* A MAC address once saved is found by every later start, in a run that did no
\* damage.
THEOREM MacIsFound == StartupSpec => []MacHolds
  <1>1. SaysInv => MacHolds
    BY DEF SaysInv, MacHolds
  <1> QED
    BY <1>1, SaysInvariance, PTL

-----------------------------------------------------------------------------
(* The wake-up.                                                             *)

\* What an undamaged file says of the host and its MAC address, step by step; a
\* host that was picked gives way to none that was not.
LEMMA WakeFileStep ==
    ASSUME FileInv, SaysInv, WakeFileInv, WakeMainInv, FileStep, Undamaged',
           picked \subseteq picked', typed \subseteq typed'
    PROVE  /\ WakeFileInv'
           /\ LoadedHost \in picked => LoadedHost' \in picked'
  <1>0. spoilt' = {} /\ Undamaged /\ original' = original
    BY History DEF Undamaged
  <1> DEFINE t == Content(conf)
             new == Content(conf)'
             h == LastValue(t, HostKeys)
             m == LastValue(t, {"mac"})
             h1 == LastValue(new, HostKeys)
             m1 == LastValue(new, {"mac"})
             user == LastValue(original, HostKeys)
  <1>1. /\ t \in Texts /\ ~t.ragged
        /\ NoneHidden(t) /\ h \in picked \cup {user}
        /\ h \in picked \cup {None} \/ m \in {None, h} \cup typed
    <2>1. t \in Texts
      BY ContentTyping DEF FileInv, TypeInv, ConfigTypeOK
    <2> QED
      BY <1>0, <2>1 DEF SaysInv, WakeFileInv, LoadedHost, LoadedMac, TheirHost
  <1>g. ASSUME NoneHidden(new), h1 \in picked' \cup {user},
               h1 \in picked' \cup {None} \/ m1 \in {None, h1} \cup typed',
               h \in picked => h1 \in picked'
        PROVE  /\ WakeFileInv'
               /\ LoadedHost \in picked => LoadedHost' \in picked'
    BY <1>0, <1>g DEF WakeFileInv, LoadedHost, LoadedMac, TheirHost
  <1>2. CASE SameContent
    <2>1. new = t
      BY <1>2 DEF SameContent
    <2>2. h1 = h /\ m1 = m
      BY <2>1
    <2> HIDE DEF t, new, h, m, h1, m1
    <2> QED
      BY <1>1, <1>g, <2>1, <2>2
  <1>3. CASE \E p \in Procs : pc[p] = "rename" /\ HostWritten(host[p])
    <2>0. PICK p \in Procs : pc[p] = "rename" /\ HostWritten(host[p])
      BY <1>3
    <2>1. new = Rewritten(t, host[p])
      BY <2>0 DEF HostWritten
    <2>2. host[p] \in Values /\ host[p] \in picked
      BY <2>0 DEF FileInv, TypeInv, MainInv, Updating
    <2> HIDE DEF t, new
    <2>3. /\ new \in Texts /\ HostIs(new, host[p])
          /\ m1 = m /\ h1 \in {host[p], h}
      BY <1>1, <2>1, <2>2, UpdatedHost
    <2>4. NoneHidden(new)
      BY <2>3, OneHidesNone
    <2> HIDE DEF h, m, h1, m1
    <2> QED
      BY <1>1, <1>g, <2>2, <2>3, <2>4
  <1>4. CASE \E p \in Procs : pc[p] = "append" /\ tv_mac \in Sets /\ MacAppended(tv_mac)
    <2>0. /\ pc[Daemon] = "append" /\ tv_mac \in Sets /\ MacAppended(tv_mac)
          /\ tv_mac = host[Daemon]
      BY <1>4 DEF FileInv, TypeInv, LinkInv
    <2>1. new = Joined(t, Line("mac", tv_mac))
      BY <2>0 DEF MacAppended
    <2>2. tv_mac \in Values
      BY <2>0, NamesAssumption, ValuesAssumption
    <2>3. \/ host[Daemon] = user
          \/ host[Daemon] \in picked /\ (h \in picked \/ user = None)
          \/ host[Daemon] \in typed
      BY <2>0 DEF WakeMainInv, LoadedHost, TheirHost
    <2> HIDE DEF t, new
    <2>4. m1 = tv_mac /\ h1 = h /\ NoneHidden(new)
      BY <1>1, <2>1, <2>2, AppendedMac
    <2> HIDE DEF h, m, h1, m1, user
    <2>5. h \in picked \cup {None} \/ m1 \in {h} \cup typed
      BY <1>1, <2>0, <2>3, <2>4
    <2> QED
      BY <1>1, <1>g, <2>4, <2>5
  <1> QED
    BY <1>0, <1>2, <1>3, <1>4, ContentStep DEF FileInv

\* What the daemon has, step by step.
LEMMA WakeMainStep ==
    ASSUME FileInv, WakeFileInv, WakeMainInv, [StartupNext]_startupVars,
           original' = original, LoadedHost \in picked => LoadedHost' \in picked',
           picked \subseteq picked', typed \subseteq typed'
    PROVE  WakeMainInv'
  <1>0. /\ pc \in [Procs -> PCs] /\ host \in [Procs -> Values] /\ Daemon \in Procs
        /\ None \notin picked
        /\ pc[Daemon] \in Updating \cup {"ask"} => host[Daemon] \in picked
        /\ None \notin Sets /\ NoMac = None /\ None \notin Given
    BY ProcsAssumption, NamesAssumption DEF FileInv, TypeInv, MainInv, NoMac, None
  <1> DEFINE d == pc[Daemon]
             h == host[Daemon]
             user == LastValue(original, HostKeys)
             Named == LoadedHost \in picked \/ user = None
  <1>i. /\ d \in {"search", "collect"} => user = None
        /\ d # "off" => h = user \/ (h \in picked /\ Named) \/ h \in typed
        /\ d \in {"connect", "link", "append"} =>
              h \in picked \cup typed \/ mac \in {None, h} \cup typed
        /\ tv_ip \in picked \cup typed \/ tv_mac \in {None, tv_ip} \cup typed
        /\ \A w \in woken : w.ip \in picked \cup typed \/ w.mac \in {w.ip} \cup typed
        /\ LoadedHost \in picked \cup {user}
        /\ LoadedHost \in picked \cup {None} \/ LoadedMac \in {None, LoadedHost} \cup typed
    BY DEF WakeMainInv, WakeFileInv, TheirHost
  <1> DEFINE Place ==
               /\ pc'[Daemon] \in {"search", "collect"} => user = None
               /\ pc'[Daemon] # "off" =>
                     \/ host'[Daemon] = user
                     \/ /\ host'[Daemon] \in picked'
                        /\ LoadedHost' \in picked' \/ user = None
                     \/ host'[Daemon] \in typed'
               /\ pc'[Daemon] \in {"connect", "link", "append"} =>
                     \/ host'[Daemon] \in picked' \cup typed'
                     \/ mac' \in {None, host'[Daemon]} \cup typed'
             Way ==
               /\ tv_ip' \in picked' \cup typed' \/ tv_mac' \in {None, tv_ip'} \cup typed'
               /\ \A w \in woken' :
                     w.ip \in picked' \cup typed' \/ w.mac \in {w.ip} \cup typed'
  <1>g. Place /\ Way => WakeMainInv'
    BY DEF WakeMainInv, TheirHost
  <1>n. Named => LoadedHost' \in picked' \/ user = None
    OBVIOUS
  <1>w. ASSUME UNCHANGED connectVars PROVE Way
    BY <1>i, <1>w DEF connectVars
  \* the daemon stays where it was, or ends
  <1>p. ASSUME pc'[Daemon] \in {d, "off"}, host'[Daemon] = h \/ pc'[Daemon] = "off",
               mac' = mac \/ pc'[Daemon] = "off"
        PROVE  Place
    BY <1>i, <1>n, <1>p
  <1> HIDE DEF Way, Named
  <1>1. CASE UNCHANGED startupVars
    BY <1>1, <1>g, <1>p, <1>w DEF startupVars, mainVars
  <1>2. ASSUME NEW p \in Procs, Start(p) PROVE WakeMainInv'
    <2>0. Way /\ picked' = picked
      BY <1>2, <1>w DEF Start
    <2>1. CASE p # Daemon
      <3>1. pc'[Daemon] = d /\ host'[Daemon] = h /\ mac' = mac
        BY <1>0, <1>2, <2>1 DEF Start, StartDaemon, Goto
      <3> QED
        BY <1>g, <1>p, <2>0, <3>1
    <2>2. CASE p = Daemon
      <3>0. StartDaemon
        BY <1>2, <2>2 DEF Start
      <3>1. PICK to \in {LoadedHost} \cup Given :
              /\ host' = [host EXCEPT ![Daemon] = to] /\ mac' = LoadedMac
              /\ typed' = typed \cup ({to} \ {LoadedHost})
              /\ pc' = [pc EXCEPT ![Daemon] = IF to = None THEN "search" ELSE "connect"]
        BY <3>0 DEF StartDaemon, Goto
      <3>2. /\ host'[Daemon] = to
            /\ pc'[Daemon] = IF to = None THEN "search" ELSE "connect"
        BY <1>0, <3>1
      <3>3. LoadedHost' = LoadedHost
        BY <1>2 DEF Start, configVars, names, LoadedHost, Content
      <3>4. CASE to # LoadedHost
        <4>1. to \in typed' /\ to # None
          BY <1>0, <3>1, <3>4
        <4> QED
          BY <1>g, <2>0, <3>2, <4>1
      <3>5. CASE to = LoadedHost /\ to = None
        <4>1. user = None
          BY <1>0, <1>i, <3>5
        <4> QED
          BY <1>g, <2>0, <3>2, <3>5, <4>1
      <3>6. CASE to = LoadedHost /\ to # None
        BY <1>g, <1>i, <2>0, <3>1, <3>2, <3>3, <3>6
      <3> QED
        BY <3>4, <3>5, <3>6
    <2> QED
      BY <2>1, <2>2
  <1>3. ASSUME NEW p \in Procs, SearchStep(p) PROVE WakeMainInv'
    <2>0. Way /\ mac' = mac
      BY <1>3, <1>w DEF SearchStep, StartSearch, CollectAnswer, Choose, Answer, mainVars
    <2>1. CASE CollectAnswer(p)
      BY <1>g, <1>p, <2>0, <2>1 DEF CollectAnswer, mainVars
    <2>2. CASE p # Daemon
      <3>1. pc'[Daemon] = d /\ host'[Daemon] = h
        BY <1>0, <1>3, <2>2 DEF SearchStep, StartSearch, CollectAnswer, Choose, Answer,
           mainVars, Goto
      <3> QED
        BY <1>g, <1>p, <2>0, <3>1
    <2>3. CASE p = Daemon /\ StartSearch(p)
      <3>1. d = "search" /\ pc'[Daemon] = "collect" /\ host'[Daemon] = h
        BY <1>0, <2>3 DEF StartSearch, Goto
      <3> QED
        BY <1>g, <1>i, <1>n, <2>0, <3>1
    <2>4. CASE p = Daemon /\ Choose(p)
      <3>1. /\ d = "collect" /\ pc'[Daemon] = "ask"
            /\ host'[Daemon] \in picked'
        <4>1. PICK sel \in 1..found : /\ host' = [host EXCEPT ![p] = Selection(sel)]
                                      /\ picked' = picked \cup {Selection(sel)}
          BY <2>4 DEF Choose
        <4>2. d = "collect" /\ pc'[Daemon] = "ask"
          BY <1>0, <2>4 DEF Choose, Goto
        <4> QED
          BY <1>0, <2>4, <4>1, <4>2
      <3> QED
        BY <1>g, <1>i, <2>0, <3>1
    <2>5. CASE p = Daemon /\ Answer(p)
      <3>1. /\ d = "ask" /\ pc'[Daemon] \in {"open_in", "connect"}
            /\ host'[Daemon] = h
        BY <1>0, <2>5 DEF Answer, AfterChoice, Goto
      <3>2. h \in picked
        BY <1>0, <3>1
      <3> QED
        BY <1>g, <1>i, <1>n, <2>0, <3>1, <3>2
    <2> QED
      BY <1>3, <2>1, <2>2, <2>3, <2>4, <2>5 DEF SearchStep
  <1>4. ASSUME NEW p \in Procs, Update(p) PROVE WakeMainInv'
    <2>0. UpdateStep(p) /\ Way /\ UNCHANGED <<host, mac, picked>>
      BY <1>4, <1>w DEF Update
    <2>1. CASE p # Daemon
      <3>1. pc'[Daemon] = d
        BY <1>0, <2>0, <2>1 DEF UpdateStep, Goto
      <3> QED
        BY <1>g, <1>p, <2>0, <3>1
    <2>2. CASE p = Daemon
      <3>1. d \in Updating /\ pc'[Daemon] \in Updating \cup {"connect"}
        BY <1>0, <2>0, <2>2 DEF UpdateStep, Updating, AfterChoice, Goto
      <3>2. h \in picked /\ d # "off" /\ pc'[Daemon] \notin {"search", "collect"}
        BY <1>0, <3>1 DEF Updating
      <3> QED
        BY <1>g, <1>i, <1>n, <2>0, <3>1, <3>2
    <2> QED
      BY <2>1, <2>2
  <1>5. ASSUME NEW p \in Procs, End(p) PROVE WakeMainInv'
    <2>1. CASE p # Daemon
      <3>1. /\ pc'[Daemon] = d /\ host'[Daemon] = h /\ UNCHANGED <<mac, connectVars>>
        BY <1>0, <1>5, <2>1 DEF End, Goto
      <3> QED
        BY <1>g, <1>p, <1>w, <3>1
    <2>2. CASE p = Daemon
      <3>1. /\ pc'[Daemon] = "off" /\ picked' = picked
            /\ tv_mac' = None /\ woken' = woken
        BY <1>0, <1>5, <2>2 DEF End, Goto, Exit
      <3> QED
        BY <1>g, <1>i, <3>1 DEF Way
    <2> QED
      BY <2>1, <2>2
  <1>6. CASE StartConnect
    <2>1. /\ d = "connect" /\ pc'[Daemon] = "link" /\ UNCHANGED <<host, mac, picked>>
          /\ tv_ip' = h /\ tv_mac' = mac /\ woken' = woken
      BY <1>0, <1>6 DEF StartConnect, Goto, Connect
    <2>2. Place
      BY <1>i, <1>n, <2>1
    <2>3. Way
      BY <1>i, <2>1 DEF Way
    <2> QED
      BY <1>g, <2>2, <2>3
  <1>7. CASE Link
    <2>1. ConnectStep /\ UNCHANGED mainVars
      BY <1>7 DEF Link
    <2>2. Place
      BY <1>p, <2>1 DEF mainVars
    <2>3. /\ tv_ip' = tv_ip /\ tv_mac' \in {tv_mac, tv_ip}
          /\ \/ woken' = woken
             \/ /\ tv_mac \in Sets
                /\ woken' = woken \cup {[ip |-> tv_ip, mac |-> tv_mac]}
      BY <2>1 DEF ConnectStep, NextEndpoint, NoControlUrl, NotFound, Loop, Found,
         GetMac, Wake, WakeFails, Sleep
    <2>4. picked' = picked /\ typed' = typed
      BY <2>1 DEF mainVars
    <2>5. ASSUME NEW w \in woken'
          PROVE  w.ip \in picked' \cup typed' \/ w.mac \in {w.ip} \cup typed'
      <3>1. CASE w \in woken
        BY <1>i, <2>4, <3>1
      <3>2. CASE tv_mac \in Sets /\ w = [ip |-> tv_ip, mac |-> tv_mac]
        BY <1>0, <1>i, <2>4, <3>2
      <3> QED
        BY <2>3, <3>1, <3>2
    <2>6. Way
      BY <1>i, <2>3, <2>4, <2>5 DEF Way
    <2> QED
      BY <1>g, <2>2, <2>6
  <1>8. CASE OpenToAppend \/ AppendMac
    <2>1. /\ d \in {"link", "append"} /\ pc'[Daemon] \in {"link", "append"}
          /\ UNCHANGED <<host, mac, picked>>
      BY <1>0, <1>8 DEF OpenToAppend, AppendMac, Goto
    <2>2. UNCHANGED <<tv_ip, tv_mac, woken>>
      BY <1>8 DEF OpenToAppend, AppendMac, Saved, connectVars
    <2>3. Place
      BY <1>i, <1>n, <2>1
    <2>4. Way
      BY <1>i, <2>1, <2>2 DEF Way
    <2> QED
      BY <1>g, <2>3, <2>4
  <1>9. CASE ServerCommand \/ ServerAttempt \/ Transport
    BY <1>9, <1>g, <1>p, <1>w DEF ServerCommand, ServerAttempt, Transport, mainVars
  <1>10. CASE Signal
    <2>1. UNCHANGED <<tv_ip, tv_mac, woken>> /\ UNCHANGED mainVars
      BY <1>10 DEF Signal, Stop
    <2>2. Way
      BY <1>i, <2>1 DEF Way, mainVars
    <2>3. Place
      BY <1>p, <2>1 DEF mainVars
    <2> QED
      BY <1>g, <2>2, <2>3
  <1> QED
    BY <1>1, <1>2, <1>3, <1>4, <1>5, <1>6, <1>7, <1>8, <1>9, <1>10 DEF StartupNext

\* At the start the file says what the user wrote, which is of one set.
LEMMA WakeInit == StartupInit => WakeInv
  <1> SUFFICES ASSUME StartupInit, OneSet(original) PROVE WakeFileInv /\ WakeMainInv
    BY DEF WakeInv
  <1>1. Content(conf) = original
    BY SaysInit
  <1>2. /\ pc = [p \in Procs |-> "off"] /\ picked = {} /\ typed = {} /\ ConnectInit
    BY Zenon DEF StartupInit
  <1>3. WakeMainInv
    BY <1>2, ProcsAssumption DEF WakeMainInv, ConnectInit, NoMac, None
  <1>4. NoneHidden(original)
    BY DEF OneSet, NoneHidden
  <1>5. /\ LoadedHost = TheirHost
        /\ LoadedMac \in {LoadedHost, None} \/ LoadedHost = None
    BY <1>1 DEF OneSet, LoadedHost, LoadedMac, TheirHost
  <1>6. WakeFileInv
    BY <1>1, <1>2, <1>4, <1>5 DEF WakeFileInv
  <1> QED
    BY <1>3, <1>6

\* Hosts are only ever added to those picked or typed.
LEMMA HistoryGrows ==
    [StartupNext]_startupVars => picked \subseteq picked' /\ typed \subseteq typed'
  BY DEF StartupNext, startupVars, mainVars, Start, StartDaemon,
     SearchStep, StartSearch, CollectAnswer, Choose, Answer, Update, End,
     StartConnect, Link, OpenToAppend, AppendMac, ServerCommand, ServerAttempt,
     Signal, Transport

\* A wake-up goes to the set the daemon is to connect to, whatever was started,
\* changed, appended and cut short before, in a run that did no damage to a file
\* that speaks of one set; unless the host was picked from a list, or one of the
\* two sets was given with -h while the file named another.
THEOREM WakesTheHost == StartupSpec => []WakesItsHost
  <1>1. FileInv /\ DiscoverTypeOK /\ SaysInv /\ WakeInv /\ [StartupNext]_startupVars
            => WakeInv'
    <2>1. SUFFICES ASSUME FileInv, DiscoverTypeOK, SaysInv, WakeInv,
                          [StartupNext]_startupVars, Undamaged', OneSet(original')
                   PROVE  WakeFileInv' /\ WakeMainInv'
      BY DEF WakeInv
    <2>2. FileStep /\ original' = original
      BY <2>1, FileKeeps, History
    <2>3. Undamaged
      BY <2>1, <2>2, History DEF Undamaged
    <2>4. WakeFileInv /\ WakeMainInv
      BY <2>1, <2>2, <2>3 DEF WakeInv
    <2>5. /\ WakeFileInv'
          /\ LoadedHost \in picked => LoadedHost' \in picked'
      BY <2>1, <2>2, <2>4, HistoryGrows, WakeFileStep
    <2> QED
      BY <2>1, <2>2, <2>4, <2>5, HistoryGrows, WakeMainStep
  <1>2. WakeInv => WakesItsHost
    BY DEF WakeInv, WakeMainInv, WakesItsHost
  <1> QED
    BY <1>1, <1>2, WakeInit, FileInvariance, SaysInvariance, PTL DEF StartupSpec
=============================================================================
