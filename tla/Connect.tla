------------------------------ MODULE Connect -------------------------------
(***************************************************************************)
(* The daemon's way to its television (send2tv.c: connect_to_tv; upnp.c:   *)
(* upnp_find_transport, upnp_get_mac, upnp_wake).                          *)
(***************************************************************************)
EXTENDS Naturals

CONSTANTS
    Sets,         \* the television sets; the MAC address of a set is written
                  \* as the set, and so is its IP address
    Endpoints,    \* entries of dmr_endpoints, 5 in the code
    MaxTries      \* looks for the set after a wake-up, 12 in the code

ASSUME EndpointsAssumption == Endpoints \in Nat \ {0}
ASSUME TriesAssumption == MaxTries \in Nat

NoMac == "none"

VARIABLES
    phase,           \* where connect_to_tv is
    running,         \* the global flag
    tv_ip, tv_mac,
    endpoint,        \* the endpoint looked at
    looks,           \* looks after the wake-up; 0 before it
    woken            \* history: [ip, mac] of the wake-ups sent

connectVars == <<phase, running, tv_ip, tv_mac, endpoint, looks, woken>>

Phases == {"idle", "find", "arp", "save", "wake", "sleep", "up", "down"}

\* Types and ranges of the connection.
ConnectTypeOK ==
    /\ phase \in Phases
    /\ running \in BOOLEAN
    /\ endpoint \in 1..Endpoints
    /\ looks \in 0..MaxTries
    /\ \A w \in woken : w.mac \in Sets

ConnectInit ==
    /\ phase = "idle" /\ running = TRUE
    /\ tv_ip = NoMac /\ tv_mac = NoMac
    /\ endpoint = 1 /\ looks = 0
    /\ woken = {}

\* What main does before: ip and mac come from the configuration or the user.
Connect(ip, mac) ==
    /\ phase = "idle"
    /\ phase' = "find"
    /\ tv_ip' = ip /\ tv_mac' = mac
    /\ endpoint' = 1 /\ looks' = 0
    /\ UNCHANGED <<running, woken>>

-----------------------------------------------------------------------------
(* upnp_find_transport, from connect_to_tv's first call or from its loop.  *)

\* Bug variant: the loop does not count.
LoopUncounted ==
    /\ phase' = IF running THEN "sleep" ELSE "down"
    /\ looks' = IF phase' = "sleep" THEN 1 ELSE looks

\* for (t = 5; t <= 60 && running; t += 5)
Loop ==
    /\ phase' = IF looks < MaxTries /\ running THEN "sleep" ELSE "down"
    /\ looks' = IF phase' = "sleep" THEN looks + 1 ELSE looks

NotFound ==
    IF looks > 0 THEN Loop
    ELSE phase' = (IF tv_mac = NoMac THEN "down" ELSE "wake") /\ UNCHANGED looks

\* No answer from this endpoint, or one that does not speak of AVTransport.
NextEndpoint ==
    /\ phase = "find"
    /\ IF endpoint < Endpoints THEN endpoint' = endpoint + 1 /\ UNCHANGED <<phase, looks>>
       ELSE NotFound /\ UNCHANGED endpoint
    /\ UNCHANGED <<running, tv_ip, tv_mac, woken>>

\* A set is switched on and off at any time: a look finds it or does not.  What
\* is no set's address never answers.

\* A description with AVTransport but no control URL: the other endpoints are
\* not asked any more.
NoControlUrl ==
    /\ phase = "find" /\ tv_ip \in Sets
    /\ NotFound
    /\ UNCHANGED <<running, tv_ip, tv_mac, endpoint, woken>>

Found ==
    /\ phase = "find" /\ tv_ip \in Sets
    /\ phase' = IF looks = 0 /\ tv_mac = NoMac THEN "arp" ELSE "up"
    /\ UNCHANGED <<running, tv_ip, tv_mac, endpoint, looks, woken>>

-----------------------------------------------------------------------------
(* upnp_get_mac and upnp_wake.                                             *)

\* Bug variant: arp -n without the address prints the whole cache.
GetMacAnyRow ==
    /\ phase = "arp"
    /\ \/ tv_mac' \in Sets /\ phase' = "save"
       \/ UNCHANGED tv_mac /\ phase' = "up"
    /\ UNCHANGED <<running, tv_ip, endpoint, looks, woken>>

\* arp -n with the address prints its row, if the cache has it.
GetMac ==
    /\ phase = "arp"
    /\ \/ tv_ip \in Sets /\ tv_mac' = tv_ip /\ phase' = "save"
       \/ UNCHANGED tv_mac /\ phase' = "up"
    /\ UNCHANGED <<running, tv_ip, endpoint, looks, woken>>

\* After save_mac_to_config.
Saved ==
    /\ phase = "save"
    /\ phase' = "up"
    /\ UNCHANGED <<running, tv_ip, tv_mac, endpoint, looks, woken>>

\* The magic packet, if the address can be parsed.
Wake ==
    /\ phase = "wake" /\ tv_mac \in Sets
    /\ woken' = woken \cup {[ip |-> tv_ip, mac |-> tv_mac]}
    /\ Loop
    /\ UNCHANGED <<running, tv_ip, tv_mac, endpoint>>

WakeFails ==
    /\ phase = "wake"
    /\ phase' = "down"
    /\ UNCHANGED <<running, tv_ip, tv_mac, endpoint, looks, woken>>

Sleep ==
    /\ phase = "sleep"
    /\ phase' = "find" /\ endpoint' = 1
    /\ UNCHANGED <<running, tv_ip, tv_mac, looks, woken>>

ConnectStep == NextEndpoint \/ NoControlUrl \/ Found \/ GetMac \/ Wake
               \/ WakeFails \/ Sleep

\* The first signal; the second ends the process.  Elsewhere than in the loop
\* the first one is as good as the end.
Stop ==
    /\ running /\ phase \in {"find", "wake", "sleep"}
    /\ running' = FALSE
    /\ UNCHANGED <<phase, tv_ip, tv_mac, endpoint, looks, woken>>

\* The process ends, whatever the reason.
Exit ==
    /\ phase' = "idle" /\ running' = TRUE
    /\ tv_ip' = NoMac /\ tv_mac' = NoMac
    /\ endpoint' = 1 /\ looks' = 0
    /\ UNCHANGED woken
=============================================================================
