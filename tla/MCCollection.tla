----------------------------- MODULE MCCollection -----------------------------
(* Collection with two collectors: p is threaded by its configuration, n is     *)
(* sampled by collect() until the client calls useThreading() on it.            *)
EXTENDS Collection

CONSTANTS p, n

Registered == <<p, n>>
Configured == <<p>>
AskMixed == {<<>>, <<n, n, p>>}

\* p has two keys, which a sample need not record under together.
TwoKeys == [c \in {p, n} |-> IF c = p THEN {1, 2} ELSE {1}]
===============================================================================
