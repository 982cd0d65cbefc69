---------------------------- MODULE BufferCache ----------------------------
(***************************************************************************)
(* The buffer cache of bio.c on the disk driver of ide.c.                  *)
(*                                                                         *)
(* One action is one critical section of bcache.lock or idelock, or one    *)
(* interrupt of the disk.  sleep() and wakeup() on a buffer are the moves  *)
(* between "asleep" and the location that tests again: the same channel,   *)
(* the address of the buffer, serves bget() and iderw().                   *)
(*                                                                         *)
(* A member of Proc is one use of the cache, from bread() to brelse().     *)
(* Outside a transaction a process has one at a time.  The process between *)
(* begin_trans() and commit_trans() may take buffers while it holds others *)
(* (log_write(), install_trans(), bmap() over balloc()): its uses are then *)
(* the set writer, and it goes on with one only when none of them waits.   *)
(* An iput() that frees an inode inside somebody else's transaction (see   *)
(* FileSystem) would be a second such process; it is left out here.        *)
(***************************************************************************)
EXTENDS Naturals, Sequences, FiniteSets

CONSTANTS
  Proc,       \* the uses of the cache
  NBUF,       \* the number of buffers
  Sector,     \* the (dev, sector) pairs in use
  NoSector,   \* what binit() puts there: dev == -1
  Reads,      \* the sectors that each use may be of
  Val,        \* contents of a sector
  Puts,       \* the contents that each sector may get
  MaxPinned,  \* bound on the buffers log_write() keeps B_DIRTY at a time
  MaxHeld,    \* bound on the buffers of one process
  DiskFaults, \* whether idewait(1) may report a fault
  NoProc

ASSUME CacheAssumption == /\ NBUF \in Nat \ {0}
                          /\ MaxPinned \in Nat /\ MaxHeld \in Nat
                          /\ DiskFaults \in BOOLEAN
                          /\ Reads \in [Proc -> SUBSET Sector]
                          /\ Puts \in [Sector -> SUBSET Val]
                          /\ NoSector \notin Sector
                          /\ NoProc \notin Proc

Buf == 1 .. NBUF

VARIABLES
  sector, busy, valid, dirty, data,  \* struct buf: dev and sector, flags, data
  lru,        \* the list from bcache.head.next on: most recently used first
  idequeue,   \* the buffers with a request to the disk; the head is active
  disk,       \* the sectors
  pc,         \* where each process is
  want,       \* the sector it called bread() for
  have,       \* the buffer it sleeps on or has made B_BUSY
  writer      \* the uses of the process that has several

vars == <<sector, busy, valid, dirty, data, lru, idequeue, disk, pc, want, have, writer>>
bufs == <<sector, busy, valid, dirty, data>>

\* Inside iderw(), called by bread() or by bwrite(): before the request, asleep
\* until it finishes, woken.
Reading == {"read", "read_asleep", "read_woken"}
Writing == {"write", "write_asleep", "write_woken"}
\* Alone with the buffer.
Using == Reading \cup Writing \cup {"hold"}

PC == {"user", "bget", "bget_asleep", "hold", "panic"} \cup Reading \cup Writing

\* The buffers, the list, the queue and the processes keep their types.
TypeOK ==
  /\ sector \in [Buf -> Sector \cup {NoSector}]
  /\ busy \in [Buf -> BOOLEAN] /\ valid \in [Buf -> BOOLEAN] /\ dirty \in [Buf -> BOOLEAN]
  /\ data \in [Buf -> Val]
  /\ lru \in [1 .. NBUF -> Buf]
  /\ idequeue \in Seq(Buf)
  /\ disk \in [Sector -> Val]
  /\ pc \in [Proc -> PC]
  /\ want \in [Proc -> Sector \cup {NoSector}]
  /\ have \in [Proc -> 0 .. NBUF]
  /\ writer \subseteq Proc

\* binit(): each buffer is put in front of those before it.
Init ==
  /\ sector = [b \in Buf |-> NoSector]
  /\ busy = [b \in Buf |-> FALSE]
  /\ valid = [b \in Buf |-> FALSE]
  /\ dirty = [b \in Buf |-> FALSE]
  /\ data \in {[b \in Buf |-> v] : v \in Val}
  /\ lru = [i \in 1 .. NBUF |-> NBUF + 1 - i]
  /\ idequeue = <<>>
  /\ disk \in {d \in [Sector -> Val] : \A s \in Sector : d[s] \in Puts[s]}
  /\ pc = [p \in Proc |-> "user"]
  /\ want = [p \in Proc |-> NoSector]
  /\ have = [p \in Proc |-> 0]
  /\ writer = {}

Asleep == {"bget_asleep", "read_asleep", "write_asleep"}

\* Where a sleeper goes on.
Woken == [bget_asleep |-> "bget", read_asleep |-> "read_woken", write_asleep |-> "write_woken"]

\* wakeup(b): everyone who sleeps on the buffer runs again.
Wakeup(b, f) == [p \in Proc |-> IF f[p] \in Asleep /\ have[p] = b THEN Woken[f[p]] ELSE f[p]]

-----------------------------------------------------------------------------
(* bio.c                                                                   *)

\* bread(): called with a sector, by a process that has no buffer, or by the one
\* in the transaction: it is running, and does not hold the sector already.
Bread(p) ==
  /\ pc[p] = "user"
  /\ \E s \in Reads[p] :
       /\ want' = [want EXCEPT ![p] = s]
       /\ \/ UNCHANGED writer
          \/ \E q \in Proc :
               /\ writer = {} \/ q \in writer
               /\ \A r \in writer \cup {q} : pc[r] = "hold" /\ want[r] # s
               /\ Cardinality(writer \cup {p, q}) <= MaxHeld
               /\ writer' = writer \cup {p, q}
  /\ pc' = [pc EXCEPT ![p] = "bget"]
  /\ UNCHANGED <<bufs, lru, idequeue, disk, have>>

\* bget() panics with bcache.lock held: nobody enters the cache afterwards.
Halted == \E p \in Proc : pc[p] = "panic"

\* Mutant: a pinned buffer may be recycled.
CleanOrPinned == {i \in 1 .. NBUF : ~busy[lru[i]]}

Cached(s) == {b \in Buf : sector[b] = s}

\* The list positions of the buffers that may be recycled.
Clean == {i \in 1 .. NBUF : ~busy[lru[i]] /\ ~dirty[lru[i]]}

\* Is the sector cached?  If the buffer is free, take it; read it if need be.
BgetHit(p) ==
  /\ pc[p] = "bget" /\ ~Halted
  /\ \E b \in Cached(want[p]) :
       /\ ~busy[b]
       /\ busy' = [busy EXCEPT ![b] = TRUE]
       /\ have' = [have EXCEPT ![p] = b]
       /\ pc' = [pc EXCEPT ![p] = IF valid[b] THEN "hold" ELSE "read"]
  /\ UNCHANGED <<sector, valid, dirty, data, lru, idequeue, disk, want, writer>>

\* Someone else uses the buffer: sleep(b), then start over.
BgetSleep(p) ==
  /\ pc[p] = "bget" /\ ~Halted
  /\ \E b \in Cached(want[p]) :
       /\ busy[b]
       /\ have' = [have EXCEPT ![p] = b]
  /\ pc' = [pc EXCEPT ![p] = "bget_asleep"]
  /\ UNCHANGED <<bufs, lru, idequeue, disk, want, writer>>

\* Not cached: recycle the least recently used buffer that is not B_BUSY and
\* not B_DIRTY; its flags become B_BUSY.
BgetRecycle(p) ==
  /\ pc[p] = "bget" /\ ~Halted
  /\ Cached(want[p]) = {}
  /\ \E i \in Clean :
       /\ \A j \in Clean : j <= i
       /\ sector' = [sector EXCEPT ![lru[i]] = want[p]]
       /\ busy' = [busy EXCEPT ![lru[i]] = TRUE]
       /\ valid' = [valid EXCEPT ![lru[i]] = FALSE]
       /\ have' = [have EXCEPT ![p] = lru[i]]
  /\ pc' = [pc EXCEPT ![p] = "read"]
  /\ UNCHANGED <<dirty, data, lru, idequeue, disk, want, writer>>

\* panic("bget: no buffers")
BgetPanic(p) ==
  /\ pc[p] = "bget" /\ ~Halted
  /\ Cached(want[p]) = {} /\ Clean = {}
  /\ pc' = [pc EXCEPT ![p] = "panic"]
  /\ UNCHANGED <<bufs, lru, idequeue, disk, want, have, writer>>

\* The process of p is not waiting for, or inside iderw() with, another buffer.
Runs(p) == p \in writer => \A q \in writer : pc[q] = "hold"

\* The holder changes the contents and calls bwrite(): B_DIRTY, then iderw().
Bwrite(p) ==
  /\ pc[p] = "hold" /\ Runs(p)
  /\ \E v \in Puts[want[p]] : data' = [data EXCEPT ![have[p]] = v]
  /\ dirty' = [dirty EXCEPT ![have[p]] = TRUE]
  /\ pc' = [pc EXCEPT ![p] = "write"]
  /\ UNCHANGED <<sector, busy, valid, lru, idequeue, disk, want, have, writer>>

\* The buffers kept B_DIRTY with no request to write them.
Pinned == {b \in Buf : dirty[b] /\ \A p \in Proc : have[p] = b => pc[p] \notin Writing}

\* The holder changes the contents and calls log_write(), which leaves the
\* buffer B_DIRTY to keep it in the cache until install_trans() writes it.
Pin(p) ==
  /\ pc[p] = "hold" /\ Runs(p)
  /\ Cardinality(Pinned \cup {have[p]}) <= MaxPinned
  /\ \E v \in Puts[want[p]] : data' = [data EXCEPT ![have[p]] = v]
  /\ dirty' = [dirty EXCEPT ![have[p]] = TRUE]
  /\ UNCHANGED <<sector, busy, valid, lru, idequeue, disk, pc, want, have, writer>>

\* The list with b taken out and put in front.
ToFront(b) ==
  LET k == CHOOSE i \in 1 .. NBUF : lru[i] = b
  IN  [i \in 1 .. NBUF |-> IF i = 1 THEN b ELSE IF i <= k THEN lru[i - 1] ELSE lru[i]]

\* The uses of that process without p; a single one is not in writer.
Without(p) == {q \in writer \ {p} : writer \ {p} # {q}}

\* Mutants: no wakeup(b); B_BUSY is not cleared.
BrelseNoWakeup(p) ==
  /\ pc[p] = "hold" /\ Runs(p) /\ ~Halted
  /\ lru' = ToFront(have[p])
  /\ busy' = [busy EXCEPT ![have[p]] = FALSE]
  /\ pc' = [pc EXCEPT ![p] = "user"]
  /\ have' = [have EXCEPT ![p] = 0]
  /\ want' = [want EXCEPT ![p] = NoSector]
  /\ writer' = Without(p)
  /\ UNCHANGED <<sector, valid, dirty, data, idequeue, disk>>
BrelseBusy(p) ==
  /\ pc[p] = "hold" /\ Runs(p) /\ ~Halted
  /\ lru' = ToFront(have[p])
  /\ pc' = Wakeup(have[p], [pc EXCEPT ![p] = "user"])
  /\ have' = [have EXCEPT ![p] = 0]
  /\ want' = [want EXCEPT ![p] = NoSector]
  /\ writer' = Without(p)
  /\ UNCHANGED <<bufs, idequeue, disk>>

\* brelse(): to the front of the list, not B_BUSY, wakeup(b).
Brelse(p) ==
  /\ pc[p] = "hold" /\ Runs(p) /\ ~Halted
  /\ lru' = ToFront(have[p])
  /\ busy' = [busy EXCEPT ![have[p]] = FALSE]
  /\ pc' = Wakeup(have[p], [pc EXCEPT ![p] = "user"])
  /\ have' = [have EXCEPT ![p] = 0]
  /\ want' = [want EXCEPT ![p] = NoSector]
  /\ writer' = Without(p)
  /\ UNCHANGED <<sector, valid, dirty, data, idequeue, disk>>

-----------------------------------------------------------------------------
(* ide.c                                                                   *)

\* (flags & (B_VALID|B_DIRTY)) == B_VALID
Synced(b) == valid[b] /\ ~dirty[b]

\* Mutant: the request is put in front of the queue.
IderwFirst(p) ==
  /\ pc[p] \in {"read", "write"}
  /\ idequeue' = <<have[p]>> \o idequeue
  /\ pc' = [pc EXCEPT ![p] = IF @ = "read" THEN "read_asleep" ELSE "write_asleep"]
  /\ UNCHANGED <<bufs, lru, disk, want, have, writer>>

\* iderw() up to its first sleep: panics, or appends b to the queue.
Iderw(p) ==
  /\ pc[p] \in {"read", "write"}
  /\ IF ~busy[have[p]] \/ Synced(have[p])
     THEN pc' = [pc EXCEPT ![p] = "panic"] /\ UNCHANGED idequeue
     ELSE /\ idequeue' = Append(idequeue, have[p])
          /\ pc' = [pc EXCEPT ![p] = IF @ = "read" THEN "read_asleep" ELSE "write_asleep"]
  /\ UNCHANGED <<bufs, lru, disk, want, have, writer>>

\* iderw() after sleep(): test again; return to bread(), or to bwrite()'s
\* caller, when the buffer and the disk agree.
IderwWoken(p) ==
  /\ pc[p] \in {"read_woken", "write_woken"}
  /\ pc' = [pc EXCEPT ![p] = IF Synced(have[p]) THEN "hold"
                             ELSE IF @ = "read_woken" THEN "read_asleep" ELSE "write_asleep"]
  /\ UNCHANGED <<bufs, lru, idequeue, disk, want, have, writer>>

\* What a read leaves in the buffer: insl() is skipped when idewait(1) reports
\* a fault, and the flags are set all the same.
Received(b) == {disk[sector[b]]} \cup IF DiskFaults THEN {data[b]} ELSE {}

\* The disk finishes the active request: ideintr().
Ideintr ==
  /\ idequeue # <<>>
  /\ LET b == Head(idequeue) IN
       /\ IF dirty[b]
          THEN disk' = [disk EXCEPT ![sector[b]] = data[b]] /\ UNCHANGED data
          ELSE UNCHANGED disk /\ \E v \in Received(b) : data' = [data EXCEPT ![b] = v]
       /\ valid' = [valid EXCEPT ![b] = TRUE]
       /\ dirty' = [dirty EXCEPT ![b] = FALSE]
       /\ pc' = Wakeup(b, pc)
  /\ idequeue' = Tail(idequeue)
  /\ UNCHANGED <<sector, busy, lru, want, have, writer>>

-----------------------------------------------------------------------------
Bget(p) == BgetHit(p) \/ BgetSleep(p) \/ BgetRecycle(p) \/ BgetPanic(p)

Step(p) == \/ Bread(p) \/ Bget(p) \/ Bwrite(p) \/ Pin(p) \/ Brelse(p)
           \/ Iderw(p) \/ IderwWoken(p)

Next == Ideintr \/ \E p \in Proc : Step(p)

Spec == Init /\ [][Next]_vars

(***************************************************************************)
(* The disk answers, a process inside the cache is scheduled, and a holder *)
(* that is not itself kept waiting releases what it holds, after finitely  *)
(* many other steps.  Nothing makes a process call bread().                *)
(***************************************************************************)
FairSpec ==
  /\ Spec
  /\ WF_vars(Ideintr)
  /\ \A p \in Proc : /\ WF_vars(Bget(p) \/ Iderw(p) \/ IderwWoken(p))
                     /\ SF_vars(Brelse(p))

-----------------------------------------------------------------------------
(* Properties                                                              *)

\* The sector's contents: the cached copy once it has been read or written.
Contents(s) ==
  IF \E b \in Cached(s) : valid[b] \/ dirty[b]
  THEN data[CHOOSE b \in Cached(s) : valid[b] \/ dirty[b]] ELSE disk[s]

\* The process to which bread() of the sector has returned.
Holds(p, s) == want[p] = s /\ pc[p] \in Writing \cup {"hold"}

Owner(s) == IF \E p \in Proc : Holds(p, s) THEN CHOOSE p \in Proc : Holds(p, s) ELSE NoProc

SS == INSTANCE SectorStore WITH val <- [s \in Sector |-> Contents(s)],
                                owner <- [s \in Sector |-> Owner(s)]

\* Every bread() returns what was last written to the sector, through
\* recycling, pinning and write-back, and no two processes use one sector at
\* a time.
Implements == SS!Spec

\* A sector is in at most one buffer: the scan for it and the recycling are one
\* critical section, also for a process that slept in between.
OneBufferPerSector ==
  \A b, c \in Buf : sector[b] = sector[c] /\ sector[b] \in Sector => b = c

\* Whoever sleeps on a buffer will be woken: one in bget() because a process
\* has the buffer B_BUSY, one in iderw() because its request is in the queue,
\* once.
SleepersHaveAWaker ==
  \A p \in Proc :
    /\ pc[p] = "bget_asleep" =>
         \E q \in Proc : have[q] = have[p] /\ pc[q] \in Using
    /\ pc[p] \in {"read_asleep", "write_asleep"} =>
         \E i \in 1 .. Len(idequeue) :
           \A j \in 1 .. Len(idequeue) : idequeue[j] = have[p] <=> j = i

\* bget() gives up only when every buffer is pinned or in use by a process that
\* has not released it, and nobody asks the driver to sync a buffer that is
\* synced or not B_BUSY.
PanicOnlyIfExhausted ==
  Halted => \A b \in Buf : \/ dirty[b]
                           \/ \E q \in Proc : have[q] = b /\ pc[q] \in Using

\* What carries these: a process inside iderw() or with a buffer is alone with
\* it; what it knows of the flags at each point; the queue has the requests of
\* the processes asleep, once each; a clean buffer is a copy of its sector.
UserOK(p) ==
  /\ pc[p] \in Using \cup {"bget", "bget_asleep"} => want[p] \in Sector
  /\ pc[p] \in Using => have[p] \in Buf /\ busy[have[p]] /\ sector[have[p]] = want[p]
  /\ pc[p] \in Writing \cup {"hold", "read_woken"} => valid[have[p]]
  /\ pc[p] \in {"write", "write_asleep"} => dirty[have[p]]
  /\ pc[p] \in {"read", "read_asleep"} => ~valid[have[p]]
  /\ pc[p] \in {"read_woken", "write_woken"} => ~dirty[have[p]]
  /\ pc[p] = "bget_asleep" => \E q \in Proc : have[q] = have[p] /\ pc[q] \in Using
  /\ pc[p] \in {"read_asleep", "write_asleep"} => \E i \in 1 .. Len(idequeue) : idequeue[i] = have[p]

BufOK(b) ==
  /\ busy[b] => \E p \in Proc : have[p] = b /\ pc[p] \in Using
  /\ dirty[b] => valid[b]
  /\ valid[b] => sector[b] \in Sector
  /\ valid[b] /\ ~dirty[b] /\ ~DiskFaults => data[b] = disk[sector[b]]
  /\ \E i \in 1 .. NBUF : lru[i] = b

QueueOK ==
  /\ \A i \in 1 .. Len(idequeue) :
       \E p \in Proc : have[p] = idequeue[i] /\ pc[p] \in {"read_asleep", "write_asleep"}
  /\ \A i, j \in 1 .. Len(idequeue) : idequeue[i] = idequeue[j] => i = j

Alone == \A p, q \in Proc : pc[p] \in Using /\ pc[q] \in Using /\ have[p] = have[q] => p = q

BufInv ==
  /\ TypeOK /\ Alone /\ QueueOK /\ OneBufferPerSector /\ PanicOnlyIfExhausted
  /\ \A p \in Proc : UserOK(p)
  /\ \A b \in Buf : BufOK(b)

\* A request to the disk finishes, and its process goes on with the buffer.
RequestsFinish ==
  \A p \in Proc : pc[p] \in {"read", "write"} ~> pc[p] = "hold"

\* p takes the buffer that it looks for.
TakesBuffer(p) == BgetHit(p) \/ BgetRecycle(p)

\* A process that looks for a buffer gets it, whether or not it holds others,
\* provided that it does not lose the race for a released buffer for ever:
\* wakeup() makes the waiters compete with each other and with newcomers (bio.c:78).
BufferServed ==
  (\A p \in Proc : SF_vars(TakesBuffer(p)))
    => \A p \in Proc : pc[p] = "bget" ~> (pc[p] \in Using \/ Halted)

\* A request to the disk finishes, and whoever waits for a buffer gets it if the
\* race for released buffers is fair: holding one buffer and waiting for another
\* (log.c:75, log.c:174, fs.c:376) does not make the cache stand still.
CacheMoves == RequestsFinish /\ BufferServed
=============================================================================
