------------------------------ MODULE Channel ------------------------------
(***************************************************************************)
(* What pipe.c promises: a bounded first-in first-out byte channel.  Every *)
(* byte a write() delivers is got by one read(), in the order of delivery. *)
(*                                                                         *)
(*   queue     the bytes delivered and not yet read                        *)
(*   pending   what each write() in progress has still to deliver          *)
(*   got       what the last read() of each process returned               *)
(***************************************************************************)
EXTENDS Naturals, Sequences

CONSTANTS Proc, Byte, Capacity

VARIABLES queue, pending, got

vars == <<queue, pending, got>>

Init == /\ queue = <<>>
        /\ pending = [p \in Proc |-> <<>>]
        /\ got = [p \in Proc |-> <<>>]

Write(p) == /\ pending[p] = <<>>
            /\ pending'[p] \in Seq(Byte)
            /\ pending' = [pending EXCEPT ![p] = pending'[p]]
            /\ UNCHANGED <<queue, got>>

\* k bytes go into the channel; the rest waits, or the write() fails.
Put(p, k) == /\ k <= Len(pending[p])
             /\ Len(queue) + k <= Capacity
             /\ queue' = queue \o SubSeq(pending[p], 1, k)
             /\ \/ pending' = [pending EXCEPT ![p] = SubSeq(@, k + 1, Len(@))]
                \/ pending' = [pending EXCEPT ![p] = <<>>]
             /\ UNCHANGED got

Read(p) == /\ got' = [got EXCEPT ![p] = <<>>]
           /\ UNCHANGED <<queue, pending>>

Get(p, k) == /\ k <= Len(queue)
             /\ got' = [got EXCEPT ![p] = SubSeq(queue, 1, k)]
             /\ queue' = SubSeq(queue, k + 1, Len(queue))
             /\ UNCHANGED pending

Next == \E p \in Proc : \/ Write(p)
                        \/ Read(p)
                        \/ \E k \in 0 .. Capacity : Put(p, k) \/ Get(p, k)

Spec == Init /\ [][Next]_vars
=============================================================================
