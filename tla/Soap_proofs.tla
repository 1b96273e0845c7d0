----------------------------- MODULE Soap_proofs -----------------------------
(***************************************************************************)
(* Proofs about the daemon's SOAP calls, for any number of calls and of    *)
(* attempts, and any behaviour of the television and its viewer.           *)
(***************************************************************************)
EXTENDS Soap, SequenceTheorems, TLAPS

USE AttemptsAssumption, CallsAssumption

\* Each attempt of the current call leaves at most one request behind.
RequestsInv ==
    /\ \A id \in Ids : executed[id] + late[id] <= MaxAttempts
    /\ \A id \in Ids : id > Current => executed[id] = 0 /\ late[id] = 0
    /\ result = "none" => Current \in Ids /\ executed[Current] + late[Current] <= attempts

\* The transport, as far as nothing but the calls has changed it.
TransportInv ==
    ~disturbed /\ Current > 0 =>
        /\ result = "ok" /\ Current \notin pages =>
             CASE log[Current].verb = "SetUri" ->
                      tv.uri = log[Current].uri /\ ~tv.playing
               [] log[Current].verb = "Play" ->
                      Current - 1 \notin pages => tv.uri = log[Current].uri /\ tv.playing
               [] log[Current].verb = "Stop" -> ~tv.playing
        /\ result = "none" /\ log[Current].verb = "Play" /\ Current - 1 \notin pages
             => tv.uri = log[Current].uri

SInv == SoapTypeOK /\ RequestsInv /\ TransportInv

\* Initially no call has been made.
LEMMA SInit == SoapInit => SInv
  <1> SUFFICES ASSUME SoapInit PROVE SInv
    OBVIOUS
  <1>1. log = <<>> /\ Len(log) = 0 /\ log \in Seq(Calls)
    BY DEF SoapInit
  <1>2. tv \in Transports
    <2>1. /\ [uri |-> 0, playing |-> FALSE] \in Transports
          /\ [uri |-> 0, playing |-> TRUE] \in Transports
      BY DEF Transports
    <2> QED
      BY <2>1 DEF SoapInit, SwitchedOff
  <1>3. disturbed \in BOOLEAN
    BY Zenon DEF SoapInit
  <1> QED
    BY <1>1, <1>2, <1>3 DEF SoapInit, SInv, SoapTypeOK, RequestsInv, TransportInv,
       Current, Ids

\* Playing or not is all that Play and Stop change.
LEMMA SwitchTyping ==
    ASSUME NEW t \in Transports, NEW on \in BOOLEAN
    PROVE  [t EXCEPT !.playing = on] \in Transports
  BY DEF Transports

\* A set that was switched off.
LEMMA StoppedTyping == [uri |-> 0, playing |-> FALSE] \in Transports
  BY DEF Transports

\* What executing a call makes of the transport.
LEMMA EffectTyping ==
    ASSUME SoapTypeOK, NEW id \in 1..Current
    PROVE  /\ id \in Ids /\ log[id] \in Calls
           /\ Effect(log[id]) \in Transports
           /\ log[id].verb = "SetUri" => Effect(log[id]).uri = log[id].uri
                                         /\ ~Effect(log[id]).playing
           /\ log[id].verb = "Play" => Effect(log[id]).uri = tv.uri
                                       /\ Effect(log[id]).playing
           /\ log[id].verb = "Stop" => ~Effect(log[id]).playing
  <1>1. id \in Ids /\ log[id] \in Calls
    BY DEF SoapTypeOK, Current, Ids
  <1>2. tv \in [uri : 0..MaxCalls, playing : BOOLEAN]
    BY DEF SoapTypeOK, Transports
  <1> QED
    BY <1>1, <1>2 DEF Effect, Calls, Transports

\* A new call, the current one from then on.
LEMMA NewCall ==
    ASSUME SInv, NEW verb \in {"Stop", "SetUri", "Play"}, NEW uri \in 0..MaxCalls,
           Call(verb, uri)
    PROVE  /\ SoapTypeOK' /\ RequestsInv'
           /\ Current' = Current + 1 /\ log'[Current'] = [verb |-> verb, uri |-> uri]
  <1>1. log \in Seq(Calls) /\ [verb |-> verb, uri |-> uri] \in Calls /\ Current \in Nat
    BY DEF SInv, SoapTypeOK, Calls, Current
  <1>2. /\ log' \in Seq(Calls) /\ Current' = Current + 1
        /\ log'[Current + 1] = [verb |-> verb, uri |-> uri]
    BY <1>1, AppendProperties DEF Call, Current
  <1>3. SoapTypeOK'
    BY <1>1, <1>2 DEF Call, SInv, SoapTypeOK
  <1>4. RequestsInv'
    <2>1. /\ UNCHANGED <<late, executed>> /\ attempts' = 0 /\ Current < MaxCalls
      BY DEF Call
    <2>2. Current' \in Ids /\ Current' > Current
      BY <1>1, <1>2, <2>1 DEF Ids
    <2>3. executed[Current'] = 0 /\ late[Current'] = 0
      BY <2>2 DEF SInv, RequestsInv
    <2>4. \A id \in Ids : id > Current' => id > Current
      BY <1>1, <1>2 DEF Ids
    <2> QED
      BY <2>1, <2>2, <2>3, <2>4 DEF SInv, RequestsInv
  <1> QED
    BY <1>2, <1>3, <1>4

\* An attempt of the current call that is executed at once.
LEMMA Executed ==
    ASSUME SoapTypeOK, RequestsInv, result = "none", attempts < MaxAttempts,
           executed' = [executed EXCEPT ![Current] = @ + 1],
           UNCHANGED late, Current' = Current,
           result' # "none" \/ attempts' = attempts + 1
    PROVE  RequestsInv'
  <1>1. /\ Current \in Ids /\ executed[Current] + late[Current] <= attempts
        /\ \A id \in Ids : executed[id] \in Nat /\ late[id] \in Nat
        /\ attempts \in Nat /\ MaxAttempts \in Nat
    BY DEF RequestsInv, SoapTypeOK
  <1>2. \A id \in Ids : executed'[id] = IF id = Current THEN executed[id] + 1
                                                       ELSE executed[id]
    BY DEF SoapTypeOK
  <1>3. \A id \in Ids : executed'[id] + late'[id] <= MaxAttempts
    BY <1>1, <1>2 DEF RequestsInv
  <1>4. \A id \in Ids : id > Current' => executed'[id] = 0 /\ late'[id] = 0
    <2>1. \A id \in Ids : id > Current => id # Current
      BY DEF Ids, Current
    <2> QED
      BY <1>2, <2>1 DEF RequestsInv
  <1>5. result' = "none" => executed'[Current'] + late'[Current'] <= attempts'
    BY <1>1, <1>2
  <1> QED
    BY <1>1, <1>3, <1>4, <1>5 DEF RequestsInv

\* Every step keeps the invariant.
LEMMA SStep ==
    SInv /\ [Commands \/ SoapAction \/ Abandon \/ Television]_soapVars => SInv'
  <1> SUFFICES ASSUME SInv, [Commands \/ SoapAction \/ Abandon \/ Television]_soapVars
               PROVE  SInv'
    OBVIOUS
  <1>0. /\ log \in Seq(Calls) /\ Current \in Nat /\ Current <= MaxCalls
        /\ tv \in [uri : 0..MaxCalls, playing : BOOLEAN]
        /\ late \in [Ids -> Nat] /\ executed \in [Ids -> Nat]
        /\ attempts \in 0..MaxAttempts /\ pages \subseteq Ids
        /\ disturbed \in BOOLEAN /\ MaxCalls \in Nat /\ MaxAttempts \in Nat
        /\ result \in {"fresh", "none", "ok", "failed"}
    BY DEF SInv, SoapTypeOK, Current, Transports
  <1>1. CASE CallStop
    <2>1. 0 \in 0..MaxCalls /\ Call("Stop", 0)
      BY <1>0, <1>1 DEF CallStop
    <2>2. /\ SoapTypeOK' /\ RequestsInv'
          /\ log'[Current'] = [verb |-> "Stop", uri |-> 0]
      BY <2>1, NewCall
    <2>3. log'[Current'].verb = "Stop"
      BY <2>2
    <2>4. result' = "none"
      BY <2>1 DEF Call
    <2> QED
      BY <2>2, <2>3, <2>4 DEF SInv, TransportInv
  <1>2. CASE CallSetUri
    <2>1. Current + 1 \in 0..MaxCalls /\ Call("SetUri", Current + 1)
      BY <1>0, <1>2 DEF CallSetUri, Call
    <2>2. /\ SoapTypeOK' /\ RequestsInv'
          /\ log'[Current'] = [verb |-> "SetUri", uri |-> Current + 1]
      BY <2>1, NewCall
    <2>3. log'[Current'].verb = "SetUri"
      BY <2>2
    <2>4. result' = "none"
      BY <2>1 DEF Call
    <2> QED
      BY <2>2, <2>3, <2>4 DEF SInv, TransportInv
  <1>3. CASE CallPlay
    <2>1. /\ Current > 0 /\ log[Current].verb = "SetUri" /\ result = "ok"
          /\ Call("Play", log[Current].uri)
      BY <1>3 DEF CallPlay, Between
    <2>2. log[Current].uri \in 0..MaxCalls
      <3>1. Current \in 1..Len(log)
        BY <1>0, <2>1 DEF Current
      <3>2. log[Current] \in Calls
        BY <1>0, <3>1
      <3> QED
        BY <3>2 DEF Calls
    <2>a. /\ SoapTypeOK' /\ RequestsInv' /\ Current' = Current + 1
          /\ log'[Current'] = [verb |-> "Play", uri |-> log[Current].uri]
      BY <2>1, <2>2, NewCall
    <2>b. log'[Current'].uri = log[Current].uri /\ log'[Current'].verb = "Play"
      BY <2>a
    <2>3. result' = "none" /\ UNCHANGED <<tv, pages, disturbed>>
      BY <2>1 DEF Call
    <2>4. Current' - 1 = Current
      BY <1>0, <2>a
    <2> QED
      BY <2>1, <2>a, <2>b, <2>3, <2>4 DEF SInv, TransportInv
  <1>4. CASE NotSent
    <2>1. /\ result = "none" /\ attempts' = attempts + 1 /\ attempts < MaxAttempts
          /\ UNCHANGED <<log, result, tv, late, executed, pages, disturbed>>
      BY <1>4 DEF NotSent, MayTry, Tried
    <2> QED
      BY <1>0, <2>1 DEF SInv, SoapTypeOK, RequestsInv, TransportInv, Current
  <1>5. CASE Unanswered
    <2>1. /\ result = "none" /\ attempts' = attempts + 1 /\ attempts < MaxAttempts
          /\ tv' = Effect(log[Current])
          /\ executed' = [executed EXCEPT ![Current] = @ + 1]
          /\ UNCHANGED <<log, result, late, pages, disturbed>> /\ Current' = Current
      BY <1>5 DEF Unanswered, MayTry, Tried, Execute, Current
    <2>2. Current \in 1..Current /\ Current \in Ids
      BY <1>0, <2>1 DEF SInv, RequestsInv, Ids
    <2>e. /\ tv' \in Transports
          /\ log[Current].verb = "SetUri" => tv'.uri = log[Current].uri /\ ~tv'.playing
          /\ log[Current].verb = "Play" => tv'.uri = tv.uri /\ tv'.playing
          /\ log[Current].verb = "Stop" => ~tv'.playing
          /\ log[Current].verb \in {"Stop", "SetUri", "Play"}
      BY <2>1, <2>2, EffectTyping DEF SInv, Calls
    <2>3. SoapTypeOK'
      BY <1>0, <2>1, <2>2, <2>e DEF SInv, SoapTypeOK
    <2>4. RequestsInv'
      BY <1>0, <2>1, <2>2, Executed DEF SInv
    <2>5. TransportInv'
      BY <1>0, <2>1, <2>2, <2>e DEF SInv, TransportInv
    <2> QED
      BY <2>3, <2>4, <2>5 DEF SInv
  <1>6. CASE TimedOut
    <2>1. /\ result = "none" /\ attempts' = attempts + 1 /\ attempts < MaxAttempts
          /\ late' = [late EXCEPT ![Current] = @ + 1]
          /\ UNCHANGED <<log, result, tv, executed, pages, disturbed>> /\ Current' = Current
      BY <1>6 DEF TimedOut, MayTry, Tried, Current
    <2>2. Current \in Ids
      BY <2>1 DEF SInv, RequestsInv
    <2>3. SoapTypeOK'
      <3>1. late' \in [Ids -> Nat]
        BY <1>0, <2>1, <2>2
      <3> QED
        BY <1>0, <2>1, <3>1 DEF SInv, SoapTypeOK
    <2>4. RequestsInv'
      <3>1. \A id \in Ids : late'[id] = IF id = Current THEN late[id] + 1 ELSE late[id]
        BY <1>0, <2>1
      <3>2. executed[Current] + (late[Current] + 1) <= attempts + 1
        BY <1>0, <2>1, <2>2 DEF SInv, RequestsInv
      <3>3. \A id \in Ids : id > Current => id # Current
        BY <1>0 DEF Ids
      <3>4. \A id \in Ids : executed'[id] + late'[id] <= MaxAttempts
        <4>1. executed[Current] + (late[Current] + 1) <= MaxAttempts
          BY <1>0, <2>1, <2>2, <3>2
        <4> QED
          BY <2>1, <3>1, <4>1 DEF SInv, RequestsInv
      <3>5. \A id \in Ids : id > Current' => executed'[id] = 0 /\ late'[id] = 0
        BY <2>1, <3>1, <3>3 DEF SInv, RequestsInv
      <3>6. result' = "none"
            => Current' \in Ids /\ executed'[Current'] + late'[Current'] <= attempts'
        BY <2>1, <2>2, <3>1, <3>2
      <3> QED
        BY <3>4, <3>5, <3>6 DEF RequestsInv
    <2>5. TransportInv'
      BY <2>1 DEF SInv, TransportInv
    <2> QED
      BY <2>3, <2>4, <2>5 DEF SInv
  <1>7. CASE Refused \/ NoResponse
    <2>1. /\ result' = "failed" /\ attempts' = 0
          /\ UNCHANGED <<log, tv, late, executed, pages, disturbed>> /\ Current' = Current
      BY <1>7 DEF Refused, NoResponse, Current
    <2>2. SoapTypeOK'
      BY <1>0, <2>1 DEF SInv, SoapTypeOK
    <2>3. RequestsInv' /\ TransportInv'
      BY <2>1 DEF SInv, RequestsInv, TransportInv
    <2> QED
      BY <2>2, <2>3 DEF SInv
  <1>8. CASE Accepted
    <2>1. /\ result = "none" /\ attempts < MaxAttempts
          /\ result' = "ok" /\ attempts' = 0
          /\ tv' = Effect(log[Current])
          /\ executed' = [executed EXCEPT ![Current] = @ + 1]
          /\ disturbed' = (log[Current].verb = "Play" /\ disturbed)
          /\ UNCHANGED <<log, late, pages>> /\ Current' = Current
      BY <1>8 DEF Accepted, MayTry, Execute, Current
    <2>2. Current \in 1..Current /\ Current \in Ids
      BY <1>0, <2>1 DEF SInv, RequestsInv, Ids
    <2>3. disturbed' \in BOOLEAN
      BY <2>1, Zenon
    <2>e. /\ tv' \in Transports
          /\ log[Current].verb = "SetUri" => tv'.uri = log[Current].uri /\ ~tv'.playing
          /\ log[Current].verb = "Play" => tv'.uri = tv.uri /\ tv'.playing
          /\ log[Current].verb = "Stop" => ~tv'.playing
          /\ log[Current].verb \in {"Stop", "SetUri", "Play"}
      BY <2>1, <2>2, EffectTyping DEF SInv, Calls
    <2>4. SoapTypeOK'
      BY <1>0, <2>1, <2>2, <2>3, <2>e DEF SInv, SoapTypeOK
    <2>5. RequestsInv'
      BY <1>0, <2>1, <2>2, Executed DEF SInv
    <2>6. log[Current].verb = "Play" /\ ~disturbed' => ~disturbed
      BY <2>1
    <2>7. TransportInv'
      BY <1>0, <2>1, <2>2, <2>6, <2>e DEF SInv, TransportInv
    <2> QED
      BY <2>4, <2>5, <2>7 DEF SInv
  <1>9. CASE OtherPage
    <2>1. /\ result' = "ok" /\ attempts' = 0 /\ pages' = pages \cup {Current}
          /\ result = "none"
          /\ UNCHANGED <<log, tv, late, executed, disturbed>> /\ Current' = Current
      BY <1>9 DEF OtherPage, MayTry, Current
    <2>2. Current \in Ids
      BY <2>1 DEF SInv, RequestsInv
    <2>3. SoapTypeOK'
      BY <1>0, <2>1, <2>2 DEF SInv, SoapTypeOK
    <2>4. RequestsInv'
      BY <2>1 DEF SInv, RequestsInv
    <2>5. TransportInv'
      BY <1>0, <2>1, <2>2 DEF SInv, TransportInv
    <2> QED
      BY <2>3, <2>4, <2>5 DEF SInv
  <1>10. CASE Abandon
    <2>1. /\ result' = "fresh" /\ attempts' = 0
          /\ UNCHANGED <<log, tv, executed, pages, disturbed>> /\ Current' = Current
          /\ \/ UNCHANGED late
             \/ /\ result = "none" /\ attempts < MaxAttempts
                /\ late' = [late EXCEPT ![Current] = @ + 1]
      BY <1>10 DEF Abandon, MayTry, Current
    <2>2. result = "none" => Current \in Ids /\ executed[Current] + late[Current] <= attempts
      BY DEF SInv, RequestsInv
    <2>a. late' \in [Ids -> Nat]
      BY <1>0, <2>1, <2>2
    <2>b. SoapTypeOK'
      <3>1. result' \in {"fresh", "none", "ok", "failed"} /\ attempts' \in 0..MaxAttempts
        BY <1>0, <2>1
      <3>2. log' = log /\ Current' = Current /\ tv' = tv /\ executed' = executed
            /\ pages' = pages /\ disturbed' = disturbed
        BY <2>1
      <3> QED
        BY <1>0, <2>a, <3>1, <3>2 DEF SInv, SoapTypeOK
    <2>c. TransportInv'
      BY <2>1 DEF SInv, TransportInv
    <2>3. SoapTypeOK' /\ TransportInv'
      BY <2>b, <2>c
    <2>4. RequestsInv'
      <3>1. CASE UNCHANGED late
        BY <2>1, <3>1 DEF SInv, RequestsInv
      <3>2. CASE /\ result = "none" /\ attempts < MaxAttempts
                 /\ late' = [late EXCEPT ![Current] = @ + 1]
        <4>1. \A id \in Ids : late'[id] = IF id = Current THEN late[id] + 1 ELSE late[id]
          BY <1>0, <3>2
        <4>2. executed[Current] + (late[Current] + 1) <= MaxAttempts
          BY <1>0, <2>2, <3>2
        <4> QED
          BY <1>0, <2>1, <2>2, <3>2, <4>1, <4>2 DEF SInv, RequestsInv
      <3> QED
        BY <2>1, <3>1, <3>2
    <2> QED
      BY <2>3, <2>4 DEF SInv
  <1>11. ASSUME NEW id \in 1..Current, ExecuteLate(id)
         PROVE  SInv'
    <2>1. /\ late[id] > 0 /\ late' = [late EXCEPT ![id] = @ - 1]
          /\ tv' = Effect(log[id])
          /\ executed' = [executed EXCEPT ![id] = @ + 1]
          /\ disturbed' = (disturbed \/ tv' # tv)
          /\ UNCHANGED <<log, result, attempts, pages>> /\ Current' = Current
      BY <1>11 DEF ExecuteLate, Execute, Current
    <2>2. id \in Ids /\ tv' \in Transports
      BY <2>1, EffectTyping DEF SInv
    <2>3. disturbed' \in BOOLEAN
      BY <2>1, Zenon
    <2>4. SoapTypeOK'
      BY <1>0, <2>1, <2>2, <2>3 DEF SInv, SoapTypeOK
    <2>5. RequestsInv'
      <3>1. \A k \in Ids : executed'[k] + late'[k] = executed[k] + late[k]
        BY <1>0, <2>1, <2>2
      <3>2. \A k \in Ids : k > Current => executed'[k] = executed[k] /\ late'[k] = late[k]
        BY <1>0, <2>1, <2>2 DEF Ids
      <3> QED
        BY <2>1, <3>1, <3>2 DEF SInv, RequestsInv
    <2>6. ~disturbed' => ~disturbed /\ tv' = tv
      BY <2>1
    <2>7. TransportInv'
      BY <2>1, <2>6 DEF SInv, TransportInv
    <2> QED
      BY <2>4, <2>5, <2>7 DEF SInv
  <1>12. CASE Remote
    <2>1. tv' \in Transports /\ disturbed' = TRUE
          /\ UNCHANGED <<log, result, attempts, late, executed, pages>> /\ Current' = Current
      <3>1. /\ [uri |-> 0, playing |-> FALSE] \in Transports
            /\ [tv EXCEPT !.playing = FALSE] \in Transports
        <4>1. FALSE \in BOOLEAN /\ tv \in Transports
          BY <1>0 DEF Transports
        <4> QED
          BY <4>1, SwitchTyping, StoppedTyping, Zenon
      <3> QED
        BY <1>12, <3>1 DEF Remote, SwitchedOff, Current
    <2> QED
      BY <1>0, <2>1 DEF SInv, SoapTypeOK, RequestsInv, TransportInv
  <1>13. CASE UNCHANGED soapVars
    BY <1>13 DEF soapVars, SInv, SoapTypeOK, RequestsInv, TransportInv, Current
  <1> QED
    BY <1>1, <1>2, <1>3, <1>4, <1>5, <1>6, <1>7, <1>8, <1>9, <1>10, <1>11, <1>12,
       <1>13 DEF Commands, SoapAction, Television

\* The invariant of the calls and the television.
THEOREM SoapInvariance == SoapSpec => []SInv
  BY SInit, SStep, PTL DEF SoapSpec

\* Types and ranges of the calls and the television.
THEOREM SoapTyping == SoapSpec => []SoapTypeOK
  <1>1. SInv => SoapTypeOK
    BY DEF SInv
  <1> QED
    BY <1>1, SoapInvariance, PTL

\* No call is executed more often than it may be attempted (upnp.c:711).
THEOREM NeverMoreOften == SoapSpec => []AtMostThrice
  <1>1. SInv => AtMostThrice
    BY DEF SInv, RequestsInv, AtMostThrice
  <1> QED
    BY <1>1, SoapInvariance, PTL

\* A call reported as done has had its effect, but for the exceptions Honest
\* names.
THEOREM ReportsAreTrue == SoapSpec => []DoneIsDone
  <1>1. SInv => DoneIsDone
    BY DEF SInv, TransportInv, DoneIsDone, Honest
  <1> QED
    BY <1>1, SoapInvariance, PTL
=============================================================================
