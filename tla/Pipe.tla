-------------------------------- MODULE Pipe --------------------------------
(***************************************************************************)
(* One pipe of pipe.c, the processes that share its two ends, and the      *)
(* closing of the ends (fileclose(), exit()).                              *)
(*                                                                         *)
(* p->lock is released only by sleep() and on return, so one action is a   *)
(* whole turn of pipewrite() or piperead() from acquiring the lock to the  *)
(* decision to sleep or return.  sleep() is a step of its own: p->lock is  *)
(* held until the process is SLEEPING, but kill() does not take p->lock.   *)
(***************************************************************************)
EXTENDS Naturals, Sequences, FiniteSets

CONSTANTS
  Proc,       \* the processes that have inherited the pipe
  Ends0,      \* the ends each of them has open: a subset of {"r", "w"}
  Killable,   \* the processes that kill() is called on
  Byte,
  PIPESIZE,
  UINT,       \* the range of uint, 2^32: a multiple of PIPESIZE
  MaxCount,   \* bound on the n of read() and write()
  NoProc

\* Some end is open: a pipe without one has been freed.
ASSUME PipeAssumption == /\ Ends0 \in [Proc -> SUBSET {"r", "w"}]
                         /\ \E p \in Proc : Ends0[p] # {}
                         /\ PIPESIZE \in Nat \ {0}
                         /\ UINT \in Nat /\ UINT > PIPESIZE /\ UINT % PIPESIZE = 0
                         /\ MaxCount \in Nat
                         /\ NoProc \notin Proc

VARIABLES
  data, nread, nwrite, readopen, writeopen,  \* struct pipe
  freed,   \* kfree((char*)p) has been called
  lock,    \* who holds p->lock across a step: a process on its way to sleep()
  ends,    \* the ends each process has open
  pc,      \* "user", "write"/"read" (before acquire), "wsleep"/"rsleep" (decided to
           \* sleep), "wasleep"/"rasleep" (SLEEPING)
  addr,    \* the bytes write() has still to copy
  count,   \* the n of read()
  res,     \* the bytes read() returned
  killed

vars == <<data, nread, nwrite, readopen, writeopen, freed, lock, ends, pc, addr, count,
          res, killed>>
struct == <<data, nread, nwrite, readopen, writeopen, freed>>

Slot == 0 .. PIPESIZE - 1
Place == {"user", "write", "wsleep", "wasleep", "read", "rsleep", "rasleep"}
BoundedSeq == UNION {[1 .. n -> Byte] : n \in 1 .. MaxCount}

\* The ring, its counters and the calls on it keep their types.
TypeOK ==
  /\ data \in [Slot -> Byte]
  /\ nread \in 0 .. UINT - 1 /\ nwrite \in 0 .. UINT - 1
  /\ readopen \in BOOLEAN /\ writeopen \in BOOLEAN /\ freed \in BOOLEAN
  /\ lock \in Proc \cup {NoProc}
  /\ ends \in [Proc -> SUBSET {"r", "w"}]
  /\ pc \in [Proc -> Place]
  /\ addr \in [Proc -> Seq(Byte)]
  /\ count \in [Proc -> 0 .. MaxCount]
  /\ res \in [Proc -> Seq(Byte)]
  /\ killed \in [Proc -> BOOLEAN]

\* pipealloc(), the fork()s that follow and the close()s of the children.
Init ==
  /\ data \in [Slot -> Byte]
  /\ nread = 0 /\ nwrite = 0
  /\ ends = Ends0
  /\ readopen = (\E p \in Proc : "r" \in Ends0[p])
  /\ writeopen = (\E p \in Proc : "w" \in Ends0[p])
  /\ freed = FALSE
  /\ lock = NoProc
  /\ pc = [p \in Proc |-> "user"]
  /\ addr = [p \in Proc |-> <<>>]
  /\ count = [p \in Proc |-> 0]
  /\ res = [p \in Proc |-> <<>>]
  /\ killed = [p \in Proc |-> FALSE]

-----------------------------------------------------------------------------

\* uint arithmetic: the bytes in the pipe, where a byte is, and the two tests.
Used == (nwrite + UINT - nread) % UINT
Index(u) == (u % UINT) % PIPESIZE
\* Mutant: a pipe that takes one byte too many.
Advance(u, k) == (u + k) % UINT
IsFullPlusOne(w) == w = (nread + PIPESIZE + 1) % UINT
IsFull(w) == w = (nread + PIPESIZE) % UINT
IsEmpty == nread = nwrite

\* The number of bytes a turn of pipewrite() copies before the pipe is full.
Fits(n) == CHOOSE k \in 0 .. n :
             /\ \A j \in 0 .. k - 1 : ~IsFull(Advance(nwrite, j))
             /\ k = n \/ IsFull(Advance(nwrite, k))

\* The number of bytes piperead() copies before the pipe is empty.
Avail(n) == IF n < Used THEN n ELSE Used

\* Mutant: the wakeup() is forgotten.
WakeNobody(f) == f

\* wakeup(&p->nread) and wakeup(&p->nwrite)
WakeReaders(f) == [p \in Proc |-> IF f[p] = "rasleep" THEN "read" ELSE f[p]]
WakeWriters(f) == [p \in Proc |-> IF f[p] = "wasleep" THEN "write" ELSE f[p]]

Write(p) ==
  /\ pc[p] = "user" /\ "w" \in ends[p] /\ ~killed[p]
  /\ \E s \in BoundedSeq : addr' = [addr EXCEPT ![p] = s]
  /\ pc' = [pc EXCEPT ![p] = "write"]
  /\ UNCHANGED <<struct, lock, ends, count, res, killed>>

\* pipewrite(): copy until done, or until the pipe is full.
pipewrite(p) ==
  /\ pc[p] = "write" /\ lock = NoProc
  /\ LET n == Len(addr[p])
         k == Fits(n)
     IN  /\ data' = [j \in Slot |->
                      IF \E i \in 0 .. k - 1 : Index(nwrite + i) = j
                      THEN addr[p][1 + CHOOSE i \in 0 .. k - 1 : Index(nwrite + i) = j]
                      ELSE data[j]]
         /\ nwrite' = Advance(nwrite, k)
         /\ \/ /\ k = n
               /\ addr' = [addr EXCEPT ![p] = <<>>]
               /\ pc' = [WakeReaders(pc) EXCEPT ![p] = "user"]
               /\ UNCHANGED lock
            \/ /\ k < n /\ (~readopen \/ killed[p])
               /\ addr' = [addr EXCEPT ![p] = <<>>]
               /\ pc' = [pc EXCEPT ![p] = "user"]
               /\ UNCHANGED lock
            \/ /\ k < n /\ readopen /\ ~killed[p]
               /\ addr' = [addr EXCEPT ![p] = SubSeq(@, k + 1, n)]
               /\ pc' = [WakeReaders(pc) EXCEPT ![p] = "wsleep"]
               /\ lock' = p
  /\ UNCHANGED <<nread, readopen, writeopen, freed, ends, count, res, killed>>

Read(p) ==
  /\ pc[p] = "user" /\ "r" \in ends[p] /\ ~killed[p]
  /\ \E n \in 1 .. MaxCount : count' = [count EXCEPT ![p] = n]
  /\ res' = [res EXCEPT ![p] = <<>>]
  /\ pc' = [pc EXCEPT ![p] = "read"]
  /\ UNCHANGED <<struct, lock, ends, addr, killed>>

\* piperead(): wait while there is nothing to read and a writer, then copy.
piperead(p) ==
  /\ pc[p] = "read" /\ lock = NoProc
  /\ \/ /\ IsEmpty /\ writeopen /\ killed[p]
        /\ pc' = [pc EXCEPT ![p] = "user"]
        /\ count' = [count EXCEPT ![p] = 0]
        /\ UNCHANGED <<lock, nread, res>>
     \/ /\ IsEmpty /\ writeopen /\ ~killed[p]
        /\ pc' = [pc EXCEPT ![p] = "rsleep"]
        /\ lock' = p
        /\ UNCHANGED <<nread, res, count>>
     \/ /\ ~(IsEmpty /\ writeopen)
        /\ LET k == Avail(count[p])
           IN  /\ res' = [res EXCEPT ![p] = [i \in 1 .. k |-> data[Index(nread + i - 1)]]]
               /\ nread' = Advance(nread, k)
        /\ pc' = [WakeWriters(pc) EXCEPT ![p] = "user"]
        /\ count' = [count EXCEPT ![p] = 0]
        /\ UNCHANGED lock
  /\ UNCHANGED <<data, nwrite, readopen, writeopen, freed, ends, addr, killed>>

\* sleep(): from the test of the loop to state = SLEEPING, p->lock released.
Sleep(p) ==
  /\ \/ pc[p] = "wsleep" /\ pc' = [pc EXCEPT ![p] = "wasleep"]
     \/ pc[p] = "rsleep" /\ pc' = [pc EXCEPT ![p] = "rasleep"]
  /\ lock' = NoProc
  /\ UNCHANGED <<struct, ends, addr, count, res, killed>>

\* kill(): wakes the process if it is SLEEPING.
Kill(p) ==
  /\ p \in Killable /\ ~killed[p]
  /\ killed' = [killed EXCEPT ![p] = TRUE]
  /\ pc' = [pc EXCEPT ![p] = IF @ = "rasleep" THEN "read"
                             ELSE IF @ = "wasleep" THEN "write" ELSE @]
  /\ UNCHANGED <<struct, lock, ends, addr, count, res>>

\* Mutant: fileclose() calls pipeclose() whatever f->ref is.
CloseAnyRef(p, e) ==
  /\ pc[p] = "user" /\ e \in ends[p] /\ lock = NoProc
  /\ ends' = [ends EXCEPT ![p] = @ \ {e}]
  /\ writeopen' = (writeopen /\ e # "w")
  /\ readopen' = (readopen /\ e # "r")
  /\ pc' = IF e = "w" THEN WakeReaders(pc) ELSE WakeWriters(pc)
  /\ freed' = (~readopen' /\ ~writeopen')
  /\ UNCHANGED <<data, nread, nwrite, lock, addr, count, res, killed>>

\* close(), or the closing of all files by exit(): fileclose() calls
\* pipeclose() for the last reference to an end.
Close(p, e) ==
  /\ pc[p] = "user" /\ e \in ends[p]
  /\ ends' = [ends EXCEPT ![p] = @ \ {e}]
  /\ IF \E q \in Proc : e \in ends'[q]
     THEN UNCHANGED <<struct, pc>>
     ELSE /\ lock = NoProc
          /\ writeopen' = (writeopen /\ e # "w")
          /\ readopen' = (readopen /\ e # "r")
          /\ pc' = IF e = "w" THEN WakeReaders(pc) ELSE WakeWriters(pc)
          /\ freed' = (~readopen' /\ ~writeopen')
          /\ UNCHANGED <<data, nread, nwrite>>
  /\ UNCHANGED <<lock, addr, count, res, killed>>

Turn(p) == pipewrite(p) \/ piperead(p) \/ Sleep(p)

Next == \E p \in Proc : \/ Write(p) \/ Read(p) \/ Turn(p) \/ Kill(p)
                        \/ \E e \in {"r", "w"} : Close(p, e)

Spec == Init /\ [][Next]_vars

(***************************************************************************)
(* Fairness: a process inside a pipe call goes on (round robin), and gets  *)
(* p->lock if it is free again and again.  Nobody has to call or close.    *)
(***************************************************************************)
FairSpec == Spec /\ \A p \in Proc : SF_vars(Turn(p))

-----------------------------------------------------------------------------
(* Properties                                                              *)

Contents == [i \in 1 .. Used |-> data[Index(nread + i - 1)]]

FIFO == INSTANCE Channel WITH Capacity <- PIPESIZE, queue <- Contents,
                              pending <- addr, got <- res

\* The ring buffer with its wrapping uint counters is a bounded FIFO channel:
\* no byte is lost, duplicated or overtaken, however reads, writes, sleeps and
\* kills interleave.
Implements == FIFO!Spec

\* readopen and writeopen tell who can still use the pipe, the page of the pipe
\* is freed with the last end, and nobody is inside a pipe call then.
OpenFlags ==
  /\ writeopen <=> \E p \in Proc : "w" \in ends[p]
  /\ readopen <=> \E p \in Proc : "r" \in ends[p]
  /\ freed <=> ~readopen /\ ~writeopen
  /\ freed => \A p \in Proc : pc[p] = "user"

\* A read() of n > 0 bytes returns 0 bytes, the end of file, only when no
\* process can write to the pipe any more and everything written was read.
EndOfFileIsFinal ==
  [][\A p \in Proc : piperead(p) /\ pc'[p] = "user" /\ res'[p] = <<>> /\ ~killed[p] =>
        Contents = <<>> /\ \A q \in Proc : "w" \notin ends[q]]_vars

\* A writer sleeps only while the pipe is full and somebody can empty it.
WriterSleepsOnlyIfFull ==
  \A p \in Proc : pc[p] = "wasleep" => IsFull(nwrite) /\ readopen

\* The invariant that carries these: the uints are never further apart than the
\* ring is long, and the place of a process in a call says what it has open, what
\* it has still to copy, and whether it holds p->lock.
CallOK(p) ==
  /\ pc[p] \in {"wsleep", "rsleep"} => lock = p
  /\ pc[p] \in {"write", "wsleep", "wasleep"} => "w" \in ends[p]
  /\ pc[p] \notin {"write", "wsleep", "wasleep"} => addr[p] = <<>>
  /\ pc[p] \in {"read", "rsleep", "rasleep"} => "r" \in ends[p] /\ count[p] > 0
  /\ pc[p] \in {"wsleep", "wasleep"} => IsFull(nwrite) /\ readopen

PipeInv ==
  /\ TypeOK /\ Used <= PIPESIZE /\ OpenFlags
  /\ lock # NoProc => pc[lock] \in {"wsleep", "rsleep"}
  /\ \A p \in Proc : CallOK(p)

\* A call that waits for the other side returns when there is no other side.
NoWaitForClosedEnd ==
  \A p \in Proc :
    /\ pc[p] \in {"read", "rsleep", "rasleep"} /\ ~writeopen ~> pc[p] = "user"
    /\ pc[p] \in {"write", "wsleep", "wasleep"} /\ ~readopen ~> pc[p] = "user"

\* A reader that can have bytes gets them, or another reader does.  A write cut
\* short by kill() fails to wake it (pipe.c:85-88), so nothing is claimed once a
\* process was killed.
BytesAreRead ==
  \A p \in Proc : pc[p] \in {"read", "rsleep", "rasleep"} /\ ~IsEmpty ~>
                    (pc[p] = "user" \/ IsEmpty \/ \E q \in Proc : killed[q])

\* proc.c:411, "Wake process from sleep if necessary.": a killed process does
\* not stay in a pipe call.
KilledReturns == \A p \in Proc : killed[p] /\ pc[p] # "user" ~> pc[p] = "user"

\* Nobody is left waiting on a pipe: not for an end that is closed, and not over
\* bytes that are there.
PipeMoves == NoWaitForClosedEnd /\ BytesAreRead
=============================================================================
