---------------------------- MODULE SectorStore ----------------------------
(***************************************************************************)
(* What the buffer cache promises (bio.c:8-21): every sector has one       *)
(* current contents, wherever it is, and is used by one process at a time. *)
(*                                                                         *)
(*   val     the contents of each sector                                   *)
(*   owner   the process between the return of bread() and brelse()        *)
(***************************************************************************)
CONSTANTS Proc, Sector, Val, NoProc

VARIABLES val, owner

vars == <<val, owner>>

Init == /\ val \in [Sector -> Val]
        /\ owner = [s \in Sector |-> NoProc]

Acquire(p, s) == /\ owner[s] = NoProc
                 /\ owner' = [owner EXCEPT ![s] = p]
                 /\ UNCHANGED val

Write(p, s, v) == /\ owner[s] = p
                  /\ val' = [val EXCEPT ![s] = v]
                  /\ UNCHANGED owner

Release(p, s) == /\ owner[s] = p
                 /\ owner' = [owner EXCEPT ![s] = NoProc]
                 /\ UNCHANGED val

Next == \E p \in Proc, s \in Sector : \/ Acquire(p, s)
                                      \/ Release(p, s)
                                      \/ \E v \in Val : Write(p, s, v)

Spec == Init /\ [][Next]_vars
=============================================================================
