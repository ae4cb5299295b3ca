---------------------------- MODULE MCGatorSession ----------------------------
(* Instances of GatorSession for TLC.                                          *)
EXTENDS GatorSession, TLC

CONSTANTS w1, w2, s1, s2, s3, d1, d2

\* Structures are interchangeable.
Addresses == Permutations({s1, s2, s3})
===============================================================================
