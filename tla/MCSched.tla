------------------------------ MODULE MCSched ------------------------------
(* Sched for TLC: two processors.                                          *)
EXTENDS Sched, TLC

CONSTANTS c0, c1

CPUs == {c0, c1}
=============================================================================
