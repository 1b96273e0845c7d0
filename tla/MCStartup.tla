----------------------------- MODULE MCStartup -----------------------------
(***************************************************************************)
(* Startup for TLC: what a user may have written, each kind of trouble     *)
(* once.                                                                   *)
(***************************************************************************)
EXTENDS Startup

u1 == Line("user", "bitrate")
u2 == Line("user", "port")

MCInitialFiles ==
    {NoText,
     Text(<<u1, Line("host", "a"), u2, Line("host", "b")>>),
     [lines |-> <<Line("host", "a"), u1>>, ragged |-> TRUE],
     Text(<<u1, Line("spaced", "a"), Line("mac", "a")>>),
     Text(<<Line("host", "a"), Line("spaced", "b"), Line("host", "a"), u1>>)}

MCValues == Hosts \cup Macs \cup {None, Garbled, "bitrate", "port"}
=============================================================================
