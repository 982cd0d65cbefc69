------------------------------- MODULE MCPipe -------------------------------
(* Pipe for TLC.                                                           *)
EXTENDS Pipe, TLC

CONSTANTS p1, p2, p3

Procs == {p1, p2, p3}

\* Two processes that share the write end, and one reader.
EndsRace == (p1 :> {"w"}) @@ (p2 :> {"w"}) @@ (p3 :> {"r"})

WriterKilled == {p2}
ReaderKilled == {p3}
=============================================================================
