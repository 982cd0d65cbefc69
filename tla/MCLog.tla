------------------------------- MODULE MCLog -------------------------------
(* Log for TLC: two processes, two blocks, a log that two blocks fill.     *)
EXTENDS Log

CONSTANTS p1, p2, b1, b2, v1, v2

Procs == {p1, p2}
Blocks == {b1, b2}
Vals == {v1, v2}
=============================================================================
