---------------------------- MODULE StreamSwitch ----------------------------
(***************************************************************************)
(* What the server promises about data streams, whatever its clients do:   *)
(* the life of each stream is queued, waiting for a PLAY, current, closed, *)
(* stages may be skipped but never revisited, at most one stream waits and *)
(* at most one is current, and a stream becomes current only after every   *)
(* older one has left the queue and been closed.                           *)
(***************************************************************************)
EXTENDS Naturals

CONSTANT MaxConns   \* bound: streams that are ever made

VARIABLE fate

Streams == 1..MaxConns
Fates == {"queued", "waiting", "current", "closed"}

\* Every stream has one fate.
TypeOK == fate \in [Streams -> Fates]

Init == fate = [d \in Streams |-> "queued"]

\* Streams arrive in the order they were made; a new one replaces the one
\* that still waits.
Arrive(d) ==
    /\ fate[d] = "queued"
    /\ \A e \in 1..(d - 1) : fate[e] # "queued"
    /\ fate' = [e \in Streams |-> IF e = d THEN "waiting"
                                  ELSE IF fate[e] = "waiting" THEN "closed"
                                  ELSE fate[e]]

\* The waiting stream becomes current when no other is.
Start(d) ==
    /\ fate[d] = "waiting"
    /\ \A e \in Streams : fate[e] # "current"
    /\ fate' = [fate EXCEPT ![d] = "current"]

\* The current stream ends.
End(d) ==
    /\ fate[d] = "current"
    /\ fate' = [fate EXCEPT ![d] = "closed"]

\* The client disconnects or the server exits: nothing waits, nothing plays.
Reset ==
    fate' = [e \in Streams |-> IF fate[e] = "queued" THEN "queued"
                               ELSE "closed"]

Next == Reset \/ \E d \in Streams : Arrive(d) \/ Start(d) \/ End(d)

Spec == Init /\ [][Next]_fate
=============================================================================
