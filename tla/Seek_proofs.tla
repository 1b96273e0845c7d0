----------------------------- MODULE Seek_proofs -----------------------------
(***************************************************************************)
(* Proofs about where seeks land, for files of any length, any distance of *)
(* key frames and any number of seeks.                                     *)
(***************************************************************************)
EXTENDS Seek, SequenceTheorems, TLAPS

USE DurationsAssumption, BoundsAssumption

\* As TypeOK, with the growth of start_sec and target a restart apart: when the
\* duration is unknown nothing bounds a seek forward.
Room == FileEnd + MaxPending
Types ==
    /\ at \in {"keys", "restart", "left"}
    /\ duration_sec \in Durations
    /\ seeks \in 0..MaxSeeks
    /\ at = "restart" => seeks < MaxSeeks
    /\ start_sec \in Int /\ start_sec >= -5 /\ start_sec <= (seeks + 1) * Room
    /\ saved_pos \in Int /\ saved_pos >= -5 /\ saved_pos <= (seeks + 2) * Room
    /\ target \in Int /\ target >= -5 /\ target <= (seeks + 2) * Room
    /\ before \in 0..FileEnd
    /\ seek_delta \in -MaxPending..MaxPending
    /\ seek_pending \in BOOLEAN /\ end_mode \in BOOLEAN /\ exact \in BOOLEAN
    /\ coming \in Seq(0..FileEnd)
    /\ tvStart \in 0..FileEnd /\ landed \in 0..FileEnd
    /\ tvPos \in 0..(FileEnd - tvStart)

\* The newest segment is the last one announced.
NewestInv == landed = IF coming = <<>> THEN tvStart ELSE coming[Len(coming)]

\* While every position used was of the newest segment, the client is wrong by
\* no more than one key frame.
ExactInv ==
    exact =>
        /\ Near(start_sec, landed)
        /\ end_mode => Near(saved_pos, before)
        /\ duration_sec >= 5 => /\ start_sec \in 0..(FileEnd + Gop)
                                /\ at = "restart" => target \in 0..(FileEnd + Gop)

Inv == Types /\ NewestInv /\ ExactInv

\* The types of what the arithmetic is about.
LEMMA RoomIsNat == Types => FileEnd \in Nat /\ Room \in Nat /\ Gop \in Nat
                            /\ Pace \in Nat /\ MaxPending \in Nat /\ MaxSeeks \in Nat
  <1>1. Gop \in Nat /\ Pace \in Nat /\ MaxPending \in Nat /\ MaxSeeks \in Nat
    OBVIOUS
  <1>2. Types => FileEnd \in Nat
    BY DEF Types, FileEnd
  <1> QED
    BY <1>1, <1>2 DEF Room

\* Initially nothing is pending and the film plays from its start.
LEMMA InitInv == Init => Inv
  <1> SUFFICES ASSUME Init PROVE Inv
    OBVIOUS
  <1>1. FileEnd \in Nat /\ Gop \in Nat /\ MaxPending \in Nat /\ MaxSeeks \in Nat
    BY DEF Init, FileEnd
  <1>2. (seeks + 1) * Room \in Nat /\ (seeks + 2) * Room \in Nat
    BY <1>1 DEF Init, Room
  <1>3. Types
    <2>1. seek_pending \in BOOLEAN /\ end_mode \in BOOLEAN /\ exact \in BOOLEAN
      BY Zenon DEF Init
    <2>2. 0 <= (seeks + 1) * Room /\ 0 <= (seeks + 2) * Room
      BY <1>2
    <2> QED
      BY <1>1, <2>1, <2>2 DEF Init, Types
  <1>4. NewestInv /\ ExactInv
    BY <1>1 DEF Init, NewestInv, ExactInv, Near
  <1> QED
    BY <1>3, <1>4 DEF Inv

\* A bound or both keep a target where it was, or closer.
LEMMA ClampedRange ==
    ASSUME duration_sec \in Nat, NEW t \in Int
    PROVE  /\ Clamped(t) \in Int
           /\ Clamped(t) >= -5
           /\ Clamped(t) <= IF t < 0 THEN 0 ELSE t
           /\ duration_sec >= 5 => Clamped(t) \in 0..duration_sec
  BY DEF Clamped

\* Clamping brings two targets no further apart.
LEMMA ClampedNear ==
    ASSUME duration_sec \in Nat, NEW t \in Int, NEW u \in Int, Near(t, u)
    PROVE  Near(Clamped(t), Clamped(u))
  BY DEF Clamped, Near

\* Every step keeps the invariant.
LEMMA StepInv == Inv /\ [Next]_vars => Inv'
  <1> SUFFICES ASSUME Inv, [Next]_vars PROVE Inv'
    OBVIOUS
  <1> USE DEF Inv
  <1>0. /\ FileEnd \in Nat /\ Room \in Nat /\ Gop \in Nat /\ Pace \in Nat
        /\ MaxPending \in Nat /\ MaxSeeks \in Nat /\ duration_sec \in Nat
        /\ Room = FileEnd + MaxPending
    BY RoomIsNat DEF Types, Room
  <1>a. (seeks + 2) * Room = (seeks + 1) * Room + Room
    BY <1>0 DEF Types
  <1>b. duration_sec' = duration_sec => FileEnd' = FileEnd /\ Room' = Room
    BY DEF FileEnd, Room
  <1>1. ASSUME NEW delta \in {10, -10, 30, -30}, Arrow(delta)
        PROVE  Inv'
    BY <1>0, <1>1, <1>b DEF Arrow, Types, NewestInv, ExactInv, Near, tvVars, historyVars
  <1>2. CASE Fire
    <2>1. PICK pos \in {tvPos, 0} :
             Query(pos) /\ target' = Clamped(start_sec + pos + seek_delta)
      BY <1>2 DEF Fire
    <2>2. start_sec + pos + seek_delta \in Int
      BY <1>0, <2>1 DEF Types
    <2>3. start_sec + pos + seek_delta <= (seeks + 2) * Room /\ 0 <= (seeks + 2) * Room
      <3>1. pos + seek_delta <= Room
        BY <1>0, <2>1 DEF Types
      <3>2. (seeks + 2) * Room \in Nat /\ (seeks + 1) * Room \in Nat
        BY <1>0 DEF Types
      <3> QED
        BY <1>0, <1>a, <2>1, <3>1, <3>2 DEF Types
    <2>4. /\ target' \in Int /\ target' >= -5 /\ target' <= (seeks + 2) * Room
          /\ duration_sec >= 5 => target' \in 0..FileEnd
      <3> DEFINE t == start_sec + pos + seek_delta
      <3>1. /\ Clamped(t) \in Int /\ Clamped(t) >= -5
            /\ Clamped(t) <= IF t < 0 THEN 0 ELSE t
            /\ duration_sec >= 5 => Clamped(t) \in 0..duration_sec
        BY <1>0, <2>2, ClampedRange
      <3>2. duration_sec >= 5 => FileEnd = duration_sec
        BY <1>0 DEF FileEnd
      <3>3. t \in Int /\ t <= (seeks + 2) * Room /\ 0 <= (seeks + 2) * Room
            /\ (seeks + 2) * Room \in Int /\ target' = Clamped(t)
        BY <1>0, <2>1, <2>2, <2>3 DEF Types
      <3> HIDE DEF t
      <3> QED
        BY <3>1, <3>2, <3>3
    <2>5. Types'
      <3>1. seek_pending' \in BOOLEAN /\ exact' \in BOOLEAN
        BY <1>2, <2>1, Zenon DEF Fire, Query
      <3> QED
        BY <1>0, <1>b, <1>2, <2>4, <3>1 DEF Fire, Types, tvVars
    <2>6. NewestInv' /\ ExactInv'
      BY <1>0, <1>b, <1>2, <2>1, <2>4 DEF Fire, Query, Types, NewestInv, ExactInv,
         Near, tvVars
    <2> QED
      BY <2>5, <2>6
  <1>3. CASE JumpToEnd
    <2>1. PICK pos \in {tvPos, 0} : Query(pos) /\ saved_pos' = start_sec + pos
      BY <1>3 DEF JumpToEnd
    <2>2. target' \in 0..FileEnd /\ FileEnd <= (seeks + 2) * Room
      BY <1>0, <1>3 DEF JumpToEnd, Types, FileEnd
    <2>3. saved_pos' \in Int /\ saved_pos' >= -5 /\ saved_pos' <= (seeks + 2) * Room
      BY <1>0, <1>a, <2>1 DEF Types
    <2>4. before' = OnScreen /\ OnScreen \in 0..FileEnd
      BY <1>0, <1>3 DEF JumpToEnd, OnScreen, Types
    <2>5. Types' /\ NewestInv'
      BY <1>0, <1>b, <1>3, <2>1, <2>2, <2>3, <2>4 DEF JumpToEnd, Query, Types,
         NewestInv, tvVars
    <2>6. ExactInv'
      BY <1>0, <1>b, <1>3, <2>1, <2>2, <2>4
         DEF JumpToEnd, Query, Types, NewestInv, ExactInv, Near, OnScreen, tvVars
    <2> QED
      BY <2>5, <2>6
  <1>4. CASE JumpBack
    <2>1. Types'
      BY <1>b, <1>4 DEF JumpBack, Types, tvVars, historyVars
    <2>2. exact /\ end_mode => saved_pos \in 0..(FileEnd + Gop)
      BY <1>0 DEF Types, ExactInv, Near
    <2>3. NewestInv' /\ ExactInv'
      BY <1>b, <1>4, <2>2 DEF JumpBack, NewestInv, ExactInv, Near, tvVars, historyVars
    <2> QED
      BY <2>1, <2>3
  <1>5. CASE Restart /\ at' = "keys"
    <2>1. landed' \in 0..FileEnd
      BY <1>0, <1>5 DEF Restart, KeyFrames, InFile, Types
    <2>2. (seeks' + 1) * Room = (seeks + 2) * Room /\ (seeks' + 2) * Room >= (seeks + 2) * Room
      BY <1>0, <1>5 DEF Restart, Types
    <2>3. coming' \in Seq(0..FileEnd) /\ coming' # <<>> /\ coming'[Len(coming')] = landed'
      <3>1. coming' = Append(coming, landed')
        BY <1>5 DEF Restart
      <3> QED
        <4>1. coming \in Seq(0..FileEnd) /\ Len(coming) \in Nat
          BY DEF Types
        <4>2. /\ coming' \in Seq(0..FileEnd) /\ coming' # <<>>
              /\ Len(coming') = Len(coming) + 1 /\ coming'[Len(coming) + 1] = landed'
          BY <2>1, <3>1, <4>1, AppendProperties
        <4> QED
          BY <4>2
    <2>4. Types' /\ NewestInv'
      BY <1>0, <1>b, <1>5, <2>1, <2>2, <2>3 DEF Restart, Types, NewestInv
    <2>5. ExactInv'
      BY <1>0, <1>b, <1>5, <2>1 DEF Restart, Types, ExactInv, Near
    <2> QED
      BY <2>4, <2>5
  <1>6. CASE Restart /\ at' = "left"
    BY <1>0, <1>b, <1>6 DEF Restart, Types, NewestInv, ExactInv, Near
  <1>7. CASE Leave
    BY <1>0, <1>b, <1>7 DEF Leave, Types, NewestInv, ExactInv, Near, tvVars, historyVars
  <1>8. CASE TvBegins
    <2>1. /\ Head(coming) \in 0..FileEnd /\ Tail(coming) \in Seq(0..FileEnd)
          /\ Tail(coming) = <<>> => Head(coming) = coming[Len(coming)]
          /\ Tail(coming) # <<>> => Tail(coming)[Len(Tail(coming))] = coming[Len(coming)]
      <3>1. coming # <<>> /\ coming \in Seq(0..FileEnd)
        BY <1>8 DEF TvBegins, Types
      <3>2. /\ Head(coming) \in 0..FileEnd /\ Tail(coming) \in Seq(0..FileEnd)
            /\ Len(Tail(coming)) = Len(coming) - 1
            /\ \A i \in 1..Len(Tail(coming)) : Tail(coming)[i] = coming[i + 1]
        BY <3>1, HeadTailProperties
      <3>3. Len(coming) \in Nat /\ Head(coming) = coming[1]
        BY <3>1
      <3>4. CASE Tail(coming) = <<>>
        <4>1. Len(coming) = 1
          <5>1. Len(<<>>) = 0
            OBVIOUS
          <5>2. Len(Tail(coming)) = Len(<<>>)
            BY <3>4, Zenon
          <5>3. Len(coming) - 1 = 0
            BY <3>2, <5>1, <5>2, Zenon
          <5> QED
            BY <3>3, <5>3
        <4> QED
          BY <3>2, <3>3, <3>4, <4>1
      <3>5. CASE Tail(coming) # <<>>
        <4>1. Len(Tail(coming)) \in 1..Len(Tail(coming))
          BY <3>2, <3>5, EmptySeq
        <4> QED
          BY <3>2, <3>3, <3>5, <4>1
      <3> QED
        BY <3>2, <3>4, <3>5
    <2>2. /\ tvStart' = Head(coming) /\ tvPos' = 0 /\ coming' = Tail(coming)
          /\ UNCHANGED <<clientVars, historyVars>> /\ coming # <<>>
      BY <1>8 DEF TvBegins
    <2>3. Types'
      BY <1>0, <1>b, <2>1, <2>2 DEF Types, clientVars, historyVars
    <2>4. NewestInv'
      BY <2>1, <2>2 DEF NewestInv, historyVars
    <2>5. ExactInv'
      BY <1>b, <2>2 DEF ExactInv, Near, clientVars, historyVars
    <2> QED
      BY <2>3, <2>4, <2>5
  <1>9. CASE TvPlays
    BY <1>0, <1>b, <1>9 DEF TvPlays, OnScreen, Types, NewestInv, ExactInv, Near,
       clientVars, historyVars
  <1>10. CASE UNCHANGED vars
    BY <1>b, <1>10 DEF vars, clientVars, tvVars, historyVars, Types, NewestInv,
       ExactInv, Near
  <1> QED
    BY <1>1, <1>2, <1>3, <1>4, <1>5, <1>6, <1>7, <1>8, <1>9, <1>10 DEF Next, Restart

\* The invariant of a run.
THEOREM SeekInvariance == Spec => []Inv
  BY InitInv, StepInv, PTL DEF Spec

\* Types and ranges, the growth of a file of unknown length included.
THEOREM SeekTyping == Spec => []TypeOK
  <1>1. Inv => TypeOK
    <2> SUFFICES ASSUME Inv PROVE TypeOK
      OBVIOUS
    <2>1. (seeks + 1) * Room <= (seeks + 2) * Room /\ (seeks + 2) * Room \in Nat
          /\ (seeks + 1) * Room \in Nat
      <3>1. Room \in Nat /\ seeks \in Nat
        BY RoomIsNat DEF Inv, Types
      <3>2. (seeks + 2) * Room = (seeks + 1) * Room + Room
        BY <3>1
      <3>3. (seeks + 1) * Room \in Nat
        BY <3>1
      <3> QED
        BY <3>1, <3>2, <3>3
    <2> DEFINE top == (seeks + 2) * Room
    <2>2. {start_sec, saved_pos, target} \subseteq -5..top
      <3>1. (seeks + 1) * Room <= top /\ top \in Nat /\ (seeks + 1) * Room \in Nat
            /\ start_sec <= (seeks + 1) * Room /\ saved_pos <= top /\ target <= top
        BY <2>1 DEF Inv, Types
      <3>2. /\ start_sec \in Int /\ start_sec >= -5 /\ saved_pos \in Int
            /\ saved_pos >= -5 /\ target \in Int /\ target >= -5
        BY DEF Inv, Types
      <3> DEFINE low == (seeks + 1) * Room
      <3> HIDE DEF top, low
      <3>3. start_sec <= top
        BY <3>1, <3>2 DEF low
      <3> QED
        BY <3>1, <3>2, <3>3
    <2>3. {start_sec, saved_pos, target} \subseteq -5..((seeks + 2) * (FileEnd + MaxPending))
      BY <2>2, Zenon DEF Room
    <2> QED
      BY <2>3, Zenon DEF Inv, Types, TypeOK
  <1> QED
    BY <1>1, SeekInvariance, PTL

\* The errors of seeks do not add up (send2tv.c, the arrow keys) as long as every
\* position used was the newest segment's.
THEOREM ErrorsDoNotAddUp == Spec => SeeksFromTheScreen
  <1>1. Inv /\ [Next]_vars
          => [Fire /\ exact' => Near(target', Clamped(OnScreen + seek_delta))]_vars
    <2> SUFFICES ASSUME Inv, Fire, exact'
                 PROVE  Near(target', Clamped(OnScreen + seek_delta))
      OBVIOUS
    <2>1. exact /\ coming = <<>> /\ target' = Clamped(start_sec + tvPos + seek_delta)
      BY DEF Fire, Query
    <2>2. /\ start_sec + tvPos + seek_delta \in Int /\ OnScreen + seek_delta \in Int
          /\ duration_sec \in Nat
      BY RoomIsNat DEF Inv, Types, OnScreen
    <2>3. Near(start_sec + tvPos + seek_delta, OnScreen + seek_delta)
      BY <2>1, RoomIsNat DEF Inv, Types, NewestInv, ExactInv, Near, OnScreen
    <2> QED
      BY <2>1, <2>2, <2>3, ClampedNear
  <1> QED
    BY <1>1, SeekInvariance, PTL DEF Spec, SeeksFromTheScreen

\* e twice comes back to the screen of the first e, however much happened in
\* between, as long as every position used was the newest segment's.
THEOREM ComesBack == Spec => JumpsBack
  <1>1. Inv /\ [Next]_vars => [JumpBack /\ exact => Near(target', before)]_vars
    BY DEF Inv, ExactInv, JumpBack
  <1> QED
    BY <1>1, SeekInvariance, PTL DEF Spec, JumpsBack

\* As long as every position used was the newest segment's, a file of five seconds
\* or more is restarted from its beginning on and at most the distance of two key
\* frames (Gop) behind its end.
THEOREM RestartsInFile == Spec => StaysInFile
  <1>1. Inv /\ [Next]_vars
          => [exact /\ duration_sec >= 5 => start_sec' \in 0..(FileEnd + Gop)]_vars
    <2> SUFFICES ASSUME Inv, Next, exact, duration_sec >= 5
                 PROVE  start_sec' \in 0..(FileEnd + Gop)
      BY DEF vars
    <2>1. start_sec' = start_sec \/ (at = "restart" /\ start_sec' = target)
      BY DEF Next, Arrow, Fire, JumpToEnd, JumpBack, Restart, Leave, TvBegins,
         TvPlays, clientVars
    <2> QED
      BY <2>1 DEF Inv, ExactInv
  <1> QED
    BY <1>1, SeekInvariance, PTL DEF Spec, StaysInFile
=============================================================================
