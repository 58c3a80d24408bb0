------------------------------ MODULE MCSendQ ------------------------------
(***************************************************************************)
(* Instances of SendQ for TLC.  The lines are one per class the queue tells *)
(* apart; packable MODE changes and one with a long argument included.            *)
(***************************************************************************)
EXTENDS SendQ

L(v, c, s, m, a, n) ==
    [verb |-> v, chan |-> c, sign |-> s, letter |-> m, arg |-> a, size |-> n]

Pong    == L("PONG", "", "", "", "", 1)
OpX     == L("MODE", "#a", "+", "o", "x", 1)
DeopY   == L("MODE", "#a", "-", "o", "y", 1)
BanLong == L("MODE", "#a", "+", "b", "m", 3)
Kick    == L("KICK", "#a", "", "", "x", 1)
Query   == L("MODE", "#a", "+", "b", "", 1)

MCLines == {Pong, OpX, DeopY, BanLong, Kick, Query}

MCLimits == {<<1, 2>>, <<2, 1>>, <<2, 0>>}
=============================================================================
