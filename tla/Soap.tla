-------------------------------- MODULE Soap --------------------------------
(***************************************************************************)
(* The SOAP calls of the daemon (upnp.c: soap_action; server.c: the calls  *)
(* of PLAY, PLAY_DIRECT and STOP) and the transport of the television.     *)
(*                                                                         *)
(* A call sends its request up to three times.  A request may not reach    *)
(* the television, may be executed without its answer coming back ("Samsung*)
(* TVs sometimes close the connection before replying", upnp.c:680), or    *)
(* may be executed when nobody waits for it any more.                      *)
(***************************************************************************)
EXTENDS Naturals, Sequences

CONSTANTS
    MaxAttempts,   \* 3 in the code
    MaxCalls       \* bound: calls in the run

ASSUME AttemptsAssumption == MaxAttempts \in Nat \ {0}
ASSUME CallsAssumption == MaxCalls \in Nat

VARIABLES
    log,         \* the calls so far, the last one is the current one
    result,      \* what soap_action has returned for it; "fresh" when the
                 \* process has made no call
    attempts,    \* attempts of it that have failed
    tv,          \* external: the transport
    late,        \* external: late[n] requests of call n that it has not executed
    executed,    \* history: how often call n was executed
    pages,       \* history: calls answered by something other than the transport
    disturbed    \* history: the transport has been changed by something else
                 \* since the last accepted Stop or SetAVTransportURI

soapVars == <<log, result, attempts, tv, late, executed, pages, disturbed>>

Ids == 1..MaxCalls
Calls == [verb : {"Stop", "SetUri", "Play"}, uri : 0..MaxCalls]
Transports == [uri : 0..MaxCalls, playing : BOOLEAN]
SwitchedOff == [uri |-> 0, playing |-> FALSE]

Current == Len(log)

\* Types and ranges of the calls and of the television.
SoapTypeOK ==
    /\ log \in Seq(Calls) /\ Current <= MaxCalls
    /\ result \in {"fresh", "none", "ok", "failed"}
    /\ attempts \in 0..MaxAttempts
    /\ tv \in Transports
    /\ late \in [Ids -> Nat] /\ executed \in [Ids -> Nat]
    /\ pages \subseteq Ids
    /\ disturbed \in BOOLEAN

SoapInit ==
    /\ log = <<>> /\ result = "fresh" /\ attempts = 0
    /\ tv \in {SwitchedOff, [uri |-> 0, playing |-> TRUE]}
    /\ late = [id \in Ids |-> 0] /\ executed = [id \in Ids |-> 0]
    /\ pages = {}
    /\ disturbed = FALSE

-----------------------------------------------------------------------------
(* The transport.                                                          *)

Effect(c) ==
    CASE c.verb = "SetUri" -> [uri |-> c.uri, playing |-> FALSE]
      [] c.verb = "Play" -> [tv EXCEPT !.playing = TRUE]
      [] c.verb = "Stop" -> [tv EXCEPT !.playing = FALSE]

Execute(id) ==
    /\ tv' = Effect(log[id])
    /\ executed' = [executed EXCEPT ![id] = @ + 1]

\* A request whose caller has given up on it is executed after all.
ExecuteLate(id) ==
    /\ late[id] > 0
    /\ late' = [late EXCEPT ![id] = @ - 1]
    /\ Execute(id)
    /\ disturbed' = (disturbed \/ tv' # tv)
    /\ UNCHANGED <<log, result, attempts, pages>>

\* The viewer's remote control, or a power cut.
Remote ==
    /\ tv' \in {SwitchedOff, [tv EXCEPT !.playing = FALSE]} \ {tv}
    /\ disturbed' = TRUE
    /\ UNCHANGED <<log, result, attempts, late, executed, pages>>

Television == Remote \/ \E id \in 1..Current : ExecuteLate(id)

-----------------------------------------------------------------------------
(* The server's calls.                                                     *)

Call(verb, uri) ==
    /\ Current < MaxCalls
    /\ log' = Append(log, [verb |-> verb, uri |-> uri])
    /\ result' = "none"
    /\ attempts' = 0
    /\ UNCHANGED <<tv, late, executed, pages, disturbed>>

\* Between SetAVTransportURI and Play, in the condition of server.c:220.
\* Bug variant: Play is sent whether or not the URI was accepted.
BetweenAlways ==
    Current > 0 /\ log[Current].verb = "SetUri" /\ result \in {"ok", "failed"}

Between == Current > 0 /\ log[Current].verb = "SetUri" /\ result = "ok"

\* server_run begins with a Stop.
CallStop == result # "none" /\ ~Between /\ Call("Stop", 0)
CallSetUri == result \in {"ok", "failed"} /\ ~Between /\ Call("SetUri", Current + 1)
CallPlay == Between /\ Call("Play", log[Current].uri)

-----------------------------------------------------------------------------
(* soap_action: one action for each end an attempt can have.               *)

MayTry == result = "none" /\ attempts < MaxAttempts

Tried == attempts' = attempts + 1 /\ UNCHANGED <<log, result>>

NotSent ==
    /\ MayTry /\ Tried
    /\ UNCHANGED <<tv, late, executed, pages, disturbed>>

Unanswered ==
    /\ MayTry /\ Tried
    /\ Execute(Current)
    /\ UNCHANGED <<late, pages, disturbed>>

TimedOut ==
    /\ MayTry /\ Tried
    /\ late' = [late EXCEPT ![Current] = @ + 1]
    /\ UNCHANGED <<tv, executed, pages, disturbed>>

\* The word Fault is in the answer: the transport does not execute it, or has
\* executed an earlier attempt and does not like the second.
Refused ==
    /\ MayTry
    /\ result' = "failed" /\ attempts' = 0
    /\ UNCHANGED <<log, tv, late, executed, pages, disturbed>>

Accepted ==
    /\ MayTry
    /\ Execute(Current)
    /\ result' = "ok" /\ attempts' = 0
    /\ disturbed' = (log[Current].verb = "Play" /\ disturbed)
    /\ UNCHANGED <<log, late, pages>>

\* An answer without the word Fault that is not the transport's, an error
\* page of the television's HTTP server: its status is not looked at.
OtherPage ==
    /\ MayTry
    /\ result' = "ok" /\ attempts' = 0
    /\ pages' = pages \cup {Current}
    /\ UNCHANGED <<log, tv, late, executed, disturbed>>

NoResponse ==
    /\ result = "none" /\ attempts = MaxAttempts
    /\ result' = "failed" /\ attempts' = 0
    /\ UNCHANGED <<log, tv, late, executed, pages, disturbed>>

SoapAction == NotSent \/ Unanswered \/ TimedOut \/ Refused \/ Accepted
              \/ OtherPage \/ NoResponse

\* The daemon ends; a request it has sent may still arrive.
Abandon ==
    /\ result' = "fresh" /\ attempts' = 0
    /\ \/ UNCHANGED late
       \/ MayTry /\ late' = [late EXCEPT ![Current] = @ + 1]
    /\ UNCHANGED <<log, tv, executed, pages, disturbed>>

Commands == CallStop \/ CallSetUri \/ CallPlay

SoapSpec == SoapInit /\ [][Commands \/ SoapAction \/ Abandon \/ Television]_soapVars

-----------------------------------------------------------------------------
\* "Retries up to 2 times" (upnp.c:679): the television executes no call more
\* often than three times, those included that it executes late.
AtMostThrice == \A id \in Ids : executed[id] + late[id] <= MaxAttempts

Honest == pages \cap {Current, Current - 1} = {} /\ ~disturbed

\* What a call reported as done has done: after Play the television plays the
\* URI that was set for it, after Stop nothing, however many attempts got
\* lost, were executed twice, or timed out.  Exceptions: a request of an
\* earlier attempt that is executed afterwards, the viewer, and a page that
\* was taken for an answer.
DoneIsDone ==
    Current > 0 /\ result = "ok" /\ Honest =>
        CASE log[Current].verb = "SetUri" -> tv.uri = log[Current].uri /\ ~tv.playing
          [] log[Current].verb = "Play" -> tv.uri = log[Current].uri /\ tv.playing
          [] log[Current].verb = "Stop" -> ~tv.playing
=============================================================================
