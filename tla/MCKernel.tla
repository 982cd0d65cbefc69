------------------------------ MODULE MCKernel ------------------------------
(* The files, the pages, and the drivers of the console, the keyboard and  *)
(* the mouse with the queue of their messages, for TLC.  These components  *)
(* share no variable: part says which one a behaviour is of, and the       *)
(* others stay at their initial states.                                    *)
(*                                                                         *)
(* In FileSystem one process makes, removes and opens /a, while the other  *)
(* makes and removes the directory /a/b and goes there, makes a file b     *)
(* where it is, links it to /a, and looks into the directory above.        *)
EXTENDS FileSystem, Memory, MsgQueue, Keyboard, Mouse, Console, TLC

CONSTANTS p1, p2
VARIABLE part

Procs == {p1, p2}

A == <<"/", "a">>
AB == <<"/", "a", "b">>

PathCalls ==
  p1 :> {[op |-> "mkdir", path |-> A], [op |-> "unlink", path |-> A],
         [op |-> "open", path |-> A]} @@
  p2 :> {[op |-> "mkdir", path |-> AB], [op |-> "unlink", path |-> AB],
         [op |-> "create", path |-> <<"b">>], [op |-> "link", path |-> <<"b">>, new |-> A],
         [op |-> "chdir", path |-> AB], [op |-> "exec", path |-> <<"..">>],
         [op |-> "unlink", path |-> <<".">>]}

\* A short movement, and one that is too far; their low bytes pass for first
\* bytes.
Moves == {<<9, 9>>, <<9, -120>>}

-----------------------------------------------------------------------------
kernelvars == <<part, vars, memvars, queuevars, kbdvars, mousevars, convars>>

KernelInit ==
  /\ part \in {"files", "memory", "queue", "keyboard", "mouse", "console"}
  /\ Init /\ MemInit /\ QueueInit /\ KbdInit /\ MouseInit /\ ConInit

Keep(vs) == part' = part /\ UNCHANGED vs

KernelNext ==
  \/ (part = "files" /\ Next /\ Keep(<<memvars, queuevars, kbdvars, mousevars, convars>>))
  \/ (part = "memory" /\ MemNext /\ Keep(<<vars, queuevars, kbdvars, mousevars, convars>>))
  \/ (part = "queue" /\ QueueNext /\ Keep(<<vars, memvars, kbdvars, mousevars, convars>>))
  \/ (part = "keyboard" /\ KbdNext /\ Keep(<<vars, memvars, queuevars, mousevars, convars>>))
  \/ (part = "mouse" /\ MouseNext /\ Keep(<<vars, memvars, queuevars, kbdvars, convars>>))
  \/ (part = "console" /\ ConNext /\ Keep(<<vars, memvars, queuevars, kbdvars, mousevars>>))

KernelSpec == KernelInit /\ [][KernelNext]_kernelvars
=============================================================================
