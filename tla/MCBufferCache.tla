--------------------------- MODULE MCBufferCache ---------------------------
(* BufferCache for TLC: three uses of two buffers for three sectors.       *)
EXTENDS BufferCache

CONSTANTS p1, p2, p3, s1, s2, s3, v1, v2

Procs == {p1, p2, p3}
Sectors == {s1, s2, s3}
Calls == [p \in Procs |-> CASE p = p1 -> {s1} [] p = p2 -> {s2} [] p = p3 -> {s1, s3}]
Contents1 == [s \in Sectors |-> IF s = s1 THEN {v1, v2} ELSE {v1}]
Vals == {v1, v2}
=============================================================================
