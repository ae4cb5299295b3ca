----------------------------- MODULE MCGatorRing -----------------------------
(* Instances of GatorRing for TLC.                                             *)
EXTENDS GatorRing

Msg(r, w, i) == [reserved |-> r, written |-> w, image |-> i]

\* Annotations with and without slack, and one that is too large.
Texts == {Msg(1, 1, 0), Msg(2, 1, 0), Msg(2, 2, 0), Msg(3, 3, 0)}
Images == {Msg(1, 1, 0), Msg(1, 1, 1), Msg(2, 2, 2)}
===============================================================================
