---------------------------- MODULE MCProcTable ----------------------------
(* Instances of ProcTable for TLC.                                         *)
EXTENDS ProcTable

\* A free slot, init, a process in the middle and the last one.
KillPids == {0, 1, 3, MaxPid}
PidZero == {0}
=============================================================================
