----------------------------- MODULE AtomicDisk -----------------------------
(***************************************************************************)
(* What log.c promises to the file system code above it, with no log in    *)
(* sight: a disk whose blocks are updated by one transaction at a time,    *)
(* each of which reaches the disk entirely or not at all.                  *)
(*                                                                         *)
(*   durable   the contents that survive a crash                           *)
(*   view      the contents every bread() returns while the system runs    *)
(*   active    the processes between begin_trans() and the return of       *)
(*             commit_trans()                                              *)
(***************************************************************************)
CONSTANTS Proc, Block, Val

VARIABLES durable, view, active

vars == <<durable, view, active>>

Init == /\ durable \in [Block -> Val]
        /\ view = durable
        /\ active = {}

Begin(p) == /\ active = {}
            /\ active' = {p}
            /\ UNCHANGED <<durable, view>>

Write(p, b, v) == /\ active = {p}
                  /\ view' = [view EXCEPT ![b] = v]
                  /\ UNCHANGED <<durable, active>>

\* The commit point: all the writes of the transaction at once.
Commit(p) == /\ active = {p}
             /\ durable' = view
             /\ UNCHANGED <<view, active>>

\* commit_trans() returns only when nothing is left to make durable.
End(p) == /\ active = {p}
          /\ durable = view
          /\ active' = {}
          /\ UNCHANGED <<durable, view>>

\* A crash loses what was not committed, and nothing else.
Fail == /\ view' = durable
        /\ active' = {}
        /\ UNCHANGED durable

Next == \/ \E p \in Proc : \/ Begin(p)
                           \/ \E b \in Block, v \in Val : Write(p, b, v)
                           \/ Commit(p)
                           \/ End(p)
        \/ Fail

Spec == Init /\ [][Next]_vars
=============================================================================
