-------------------------------- MODULE Log --------------------------------
(***************************************************************************)
(* The write-ahead log of log.c: transactions, the commit, the installation *)
(* of the logged blocks, and recovery after a crash at any point.          *)
(*                                                                         *)
(* One action is one disk write (bwrite() returns when the sector is on    *)
(* the disk, so a crash falls between two of them) or one critical section *)
(* of log.lock.  A sector write is atomic.                                 *)
(*                                                                         *)
(* The buffer cache is the function buf: what the cached buffer of a block *)
(* holds, or NotCached.  bget() recycles any buffer that is neither B_BUSY *)
(* nor B_DIRTY, after which a bread() reads the block from the disk again. *)
(***************************************************************************)
EXTENDS Naturals, Sequences

CONSTANTS
  Proc,       \* kernel threads of the user processes
  initproc,   \* the first process: forkret() makes it run initlog()
  Block,      \* the blocks of the file system outside the log area
  Val,        \* the contents of a block
  NotCached,  \* the block has no valid buffer
  LOGSIZE,    \* the size of logheader.sector
  NLog        \* log.size: the blocks of the log area, header included

ASSUME LogAssumption == /\ initproc \in Proc
                        /\ NotCached \notin Val
                        /\ LOGSIZE \in Nat
                        /\ NLog \in Nat

VARIABLES
  home,    \* disk: the home locations of the blocks
  hdr,     \* disk: the log header, the sequence sector[0 .. n-1]
  logblk,  \* disk: the blocks log.start+1 .. log.start+size-1
  buf,     \* memory: the buffer cache
  dirty,   \* memory: the blocks whose buffer is B_DIRTY
  busy,    \* memory: log.busy
  lh,      \* memory: log.lh, the sequence sector[0 .. n-1]
  pc,      \* where each process is
  slot,    \* the locals b->sector and i + 1 of log_write()
  tail     \* the local of install_trans()

disk == <<home, hdr, logblk>>
memory == <<buf, dirty, busy, lh>>
locals == <<pc, slot, tail>>
vars == <<disk, memory, locals>>

LogArea == 1 .. (NLog - 1)

NoSlot == <<>>

RecoveryPC == {"read_head", "recover_install"}
TransPC == {"trans", "logging", "install", "release", "panic"}
PC == RecoveryPC \cup TransPC \cup {"user", "begin", "sleep"}

Recovering == pc[initproc] \in RecoveryPC

\* The disk, the cache and the header keep their types.
TypeOK ==
  /\ home \in [Block -> Val]
  /\ hdr \in Seq(Block)
  /\ logblk \in [LogArea -> Val]
  /\ buf \in [Block -> Val \cup {NotCached}]
  /\ dirty \subseteq Block
  /\ busy \in BOOLEAN
  /\ lh \in Seq(Block)
  /\ pc \in [Proc -> PC]
  /\ slot \in [Proc -> {NoSlot} \cup (Block \X (Nat \ {0}))]
  /\ tail \in [Proc -> Nat]

-----------------------------------------------------------------------------
(* Boot.  mkfs leaves an empty log; memory is zero and nothing is cached.  *)

NoBuffers == [b \in Block |-> NotCached]
BootPC == [p \in Proc |-> IF p = initproc THEN "read_head" ELSE "user"]
NoSlots == [p \in Proc |-> NoSlot]
Zeros == [p \in Proc |-> 0]

Init == /\ home \in [Block -> Val]
        /\ logblk \in [LogArea -> Val]
        /\ hdr = <<>>
        /\ buf = NoBuffers /\ dirty = {} /\ busy = FALSE /\ lh = <<>>
        /\ pc = BootPC /\ slot = NoSlots /\ tail = Zeros

\* recover_from_log(): read_head().
ReadHead(p) ==
  /\ pc[p] = "read_head"
  /\ lh' = hdr
  /\ tail' = [tail EXCEPT ![p] = 0]
  /\ pc' = [pc EXCEPT ![p] = "recover_install"]
  /\ UNCHANGED <<disk, buf, dirty, busy, slot>>

-----------------------------------------------------------------------------
(* begin_trans(): wait until no transaction is running, then run one.      *)

BeginTrans(p) ==
  /\ ~Recovering
  /\ pc[p] \in {"user", "begin"}
  /\ \/ /\ busy
        /\ pc' = [pc EXCEPT ![p] = "sleep"]
        /\ UNCHANGED busy
     \/ /\ ~busy
        /\ busy' = TRUE
        /\ pc' = [pc EXCEPT ![p] = "trans"]
  /\ UNCHANGED <<disk, buf, dirty, lh, slot, tail>>

-----------------------------------------------------------------------------
(* log_write().  The caller holds the buffer of b and has changed its      *)
(* contents to v.                                                          *)

Full == Len(lh) >= LOGSIZE \/ Len(lh) >= NLog - 1

\* The search for a slot: the one b already has (absorption), or the next.
SlotOf(b) == IF \E i \in 1 .. Len(lh) : lh[i] = b
             THEN CHOOSE i \in 1 .. Len(lh) : lh[i] = b
             ELSE Len(lh) + 1

\* From the test of log.lh.n to the bwrite() of the log block.
LogAppend(p, b, v) ==
  /\ pc[p] = "trans"
  /\ ~Full
  /\ buf' = [buf EXCEPT ![b] = v]
  /\ logblk' = [logblk EXCEPT ![SlotOf(b)] = v]
  /\ slot' = [slot EXCEPT ![p] = <<b, SlotOf(b)>>]
  /\ pc' = [pc EXCEPT ![p] = "logging"]
  /\ UNCHANGED <<home, hdr, dirty, busy, lh, tail>>

\* Mutant: the buffer is not pinned.
PinNot(b) == dirty

\* b->flags |= B_DIRTY
Pin(b) == dirty \cup {b}

\* The rest of log_write(): count a new block, keep the buffer in memory.
LogRecord(p) ==
  /\ pc[p] = "logging"
  /\ LET b == slot[p][1]
         i == slot[p][2]
     IN  /\ lh' = IF i = Len(lh) + 1 THEN Append(lh, b) ELSE lh
         /\ dirty' = Pin(b)
  /\ slot' = [slot EXCEPT ![p] = NoSlot]
  /\ pc' = [pc EXCEPT ![p] = "trans"]
  /\ UNCHANGED <<disk, buf, busy, tail>>

\* panic("too big a transaction"): also for a block that has a slot.
LogTooBig(p) ==
  /\ pc[p] = "trans"
  /\ Full
  /\ pc' = [pc EXCEPT ![p] = "panic"]
  /\ UNCHANGED <<disk, memory, slot, tail>>

-----------------------------------------------------------------------------
(* commit_trans()                                                          *)

\* write_head(): the commit point.  An empty transaction writes nothing.
CommitTrans(p) ==
  /\ pc[p] = "trans"
  /\ \/ /\ lh # <<>>
        /\ hdr' = lh
        /\ pc' = [pc EXCEPT ![p] = "install"]
     \/ /\ lh = <<>>
        /\ pc' = [pc EXCEPT ![p] = "release"]
        /\ UNCHANGED hdr
  /\ tail' = [tail EXCEPT ![p] = 0]
  /\ UNCHANGED <<home, logblk, memory, slot>>

\* One turn of the loop of install_trans(): a logged block goes home.
InstallBlock(p) ==
  /\ pc[p] \in {"install", "recover_install"}
  /\ tail[p] < Len(lh)
  /\ LET i == tail[p] + 1
     IN  /\ home' = [home EXCEPT ![lh[i]] = logblk[i]]
         /\ buf' = [buf EXCEPT ![lh[i]] = logblk[i]]
         /\ dirty' = dirty \ {lh[i]}
         /\ tail' = [tail EXCEPT ![p] = i]
  /\ UNCHANGED <<hdr, logblk, busy, lh, pc, slot>>

\* log.lh.n = 0 and the write_head() that erases the transaction.
EraseLog(p) ==
  /\ pc[p] \in {"install", "recover_install"}
  /\ tail[p] = Len(lh)
  /\ lh' = <<>>
  /\ hdr' = <<>>
  /\ pc' = [pc EXCEPT ![p] = IF @ = "install" THEN "release" ELSE "user"]
  /\ UNCHANGED <<home, logblk, buf, dirty, busy, slot, tail>>

\* Mutant: no wakeup(&log).
EndTransNoWakeup(p) ==
  /\ pc[p] = "release"
  /\ busy' = FALSE
  /\ pc' = [pc EXCEPT ![p] = "user"]
  /\ UNCHANGED <<disk, buf, dirty, lh, slot, tail>>

\* log.busy = 0; wakeup(&log)
EndTrans(p) ==
  /\ pc[p] = "release"
  /\ busy' = FALSE
  /\ pc' = [q \in Proc |-> IF q = p THEN "user"
                           ELSE IF pc[q] = "sleep" THEN "begin" ELSE pc[q]]
  /\ UNCHANGED <<disk, buf, dirty, lh, slot, tail>>

-----------------------------------------------------------------------------
(* The environment: other uses of the buffer cache, and the power switch.  *)

\* bread() of a block that is not in the cache.
Bread(b) ==
  /\ ~Recovering
  /\ buf[b] = NotCached
  /\ buf' = [buf EXCEPT ![b] = home[b]]
  /\ UNCHANGED <<disk, dirty, busy, lh, locals>>

\* bget() takes the buffer of b, neither B_BUSY nor B_DIRTY, for another one.
Recycle(b) ==
  /\ buf[b] # NotCached
  /\ b \notin dirty
  /\ \A p \in Proc : pc[p] = "logging" => slot[p][1] # b
  /\ buf' = [buf EXCEPT ![b] = NotCached]
  /\ UNCHANGED <<disk, dirty, busy, lh, locals>>

\* The machine stops, and boots again.
Crash == /\ buf' = NoBuffers /\ dirty' = {} /\ busy' = FALSE /\ lh' = <<>>
         /\ pc' = BootPC /\ slot' = NoSlots /\ tail' = Zeros
         /\ UNCHANGED disk

Step(p) == \/ ReadHead(p)
           \/ BeginTrans(p)
           \/ \E b \in Block, v \in Val : LogAppend(p, b, v)
           \/ LogRecord(p)
           \/ LogTooBig(p)
           \/ CommitTrans(p)
           \/ InstallBlock(p)
           \/ EraseLog(p)
           \/ EndTrans(p)

Next == \/ \E p \in Proc : Step(p)
        \/ \E b \in Block : Bread(b) \/ Recycle(b)
        \/ Crash

Spec == Init /\ [][Next]_vars

(***************************************************************************)
(* Fairness.  Kernel code that can run goes on running: the scheduler is   *)
(* round robin and a disk write completes.  Nobody has to start a          *)
(* transaction ("user").  A system call makes finitely many log_write()s   *)
(* before it commits, hence the strong fairness of CommitTrans.            *)
(***************************************************************************)
Running(p) == \/ ReadHead(p)
              \/ pc[p] = "begin" /\ BeginTrans(p)
              \/ LogRecord(p)
              \/ InstallBlock(p)
              \/ EraseLog(p)
              \/ EndTrans(p)

FairSpec == /\ Spec
            /\ \A p \in Proc : WF_vars(Running(p)) /\ SF_vars(CommitTrans(p))

-----------------------------------------------------------------------------
(* What the disk and the cache mean to the code above the log.             *)

\* The blocks of disk h with the log blocks l of header s copied home.
Replay(h, s, l) == [b \in Block |->
                      IF \E i \in 1 .. Len(s) : s[i] = b
                      THEN l[CHOOSE i \in 1 .. Len(s) : s[i] = b]
                      ELSE h[b]]

\* The disk that recovery would leave.
Durable == Replay(home, hdr, logblk)

\* What bread() returns.  Before recovery is over nobody calls it.
View == IF Recovering THEN Durable
        ELSE [b \in Block |-> IF buf[b] = NotCached THEN home[b] ELSE buf[b]]

Active == {p \in Proc : pc[p] \in TransPC}

AD == INSTANCE AtomicDisk WITH durable <- Durable, view <- View, active <- Active

\* log.c:8-9, "transactions ... appear to be atomic": with crashes anywhere,
\* during recovery included, and with the buffer cache recycling the buffers
\* it may, the log implements a disk with atomic transactions.
Implements == AD!Spec

\* Write ahead: a home location is only written with the contents that the
\* header on the disk already commits for it (commit_trans() calls
\* write_head() before install_trans(), and recovery installs what it read).
WriteAhead ==
  [][\A b \in Block : home'[b] # home[b] =>
        \E i \in 1 .. Len(hdr) : hdr[i] = b /\ logblk[i] = home'[b]]_vars

\* begin_trans() sleeps only while there is a commit_trans() to wake it up.
SleepersAwaitCommit ==
  (\E p \in Proc : pc[p] = "sleep") => busy /\ Active # {}

(***************************************************************************)
(* The inductive invariant behind Implements.                              *)
(***************************************************************************)
OneSlotPerBlock(s) ==
  /\ \A i, j \in 1 .. Len(s) : s[i] = s[j] => i = j
  /\ \A i \in 1 .. Len(s) : i \in LogArea

\* One transaction at a time, and none before recovery is over.
MutexInv ==
  /\ \A p, q \in Active : p = q
  /\ busy <=> Active # {}
  /\ \A p \in Proc : pc[p] \in RecoveryPC => p = initproc
  /\ Recovering => ~busy
  /\ \A p \in Proc : pc[p] = "sleep" => busy

\* How far the transaction is, on the disk and in memory.
HeaderInv ==
  /\ OneSlotPerBlock(lh)
  /\ OneSlotPerBlock(hdr)
  /\ \A p \in Proc :
       /\ pc[p] \in {"install", "recover_install"} =>
            /\ hdr = lh
            /\ tail[p] <= Len(lh)
            /\ \A i \in 1 .. tail[p] : home[lh[i]] = logblk[i]
       /\ pc[p] \in {"read_head", "release"} => lh = <<>>
  /\ hdr # <<>> => \E p \in Proc : pc[p] \in {"install"} \cup RecoveryPC
  /\ lh # <<>> => \E p \in Proc : pc[p] \in (TransPC \cup RecoveryPC)

\* A changed block is pinned, and its log block is a copy of it; the buffer of
\* any other block is a copy of its home location.
Logging(b) == \E p \in Proc : pc[p] = "logging" /\ slot[p][1] = b

CacheInv ==
  /\ Recovering => dirty = {}
  /\ \A b \in dirty : \E i \in 1 .. Len(lh) : lh[i] = b /\ buf[b] = logblk[i]
  /\ \A b \in Block \ dirty : ~Logging(b) => buf[b] \in {NotCached, home[b]}
  /\ \A p \in Proc : pc[p] \in TransPC =>
       \A i \in 1 .. Len(lh) : (pc[p] = "install" /\ i <= tail[p]) <=> lh[i] \notin dirty
  /\ \A p \in Proc : pc[p] = "logging" =>
       \E b \in Block, i \in LogArea :
          /\ slot[p] = <<b, i>>
          /\ \/ i = Len(lh) + 1 /\ \A j \in 1 .. Len(lh) : lh[j] # b
             \/ i <= Len(lh) /\ lh[i] = b
          /\ buf[b] = logblk[i]

\* The inductive invariant of the log.
IInv == TypeOK /\ MutexInv /\ HeaderInv /\ CacheInv

Waiting(p) == pc[p] \in {"begin", "sleep"}
Panicked == \E q \in Proc : pc[q] = "panic"

\* A process asleep in begin_trans() is woken and looks at log.busy again,
\* unless the transaction it waits for panics.  It may find the log taken.
SleeperWakes == \A p \in Proc : pc[p] = "sleep" ~> (pc[p] # "sleep" \/ Panicked)

\* A waiter that looks at a log that is free takes it.
TakesLog(p) == Waiting(p) /\ ~busy /\ BeginTrans(p)

\* begin_trans() does not order its waiters, so a process may find the log taken
\* each time it is woken.  That is the only way to wait for ever: if no process
\* is always passed over when the log is free, each gets its transaction.
WaiterServed ==
  (\A p \in Proc : SF_vars(TakesLog(p)))
    => \A p \in Proc : Waiting(p) ~> (~Waiting(p) \/ Panicked)

\* If the machine stops crashing, recovery comes to its end, whatever number
\* of times it was interrupted before.
RecoveryCompletes == <>[][~Crash]_vars => (Recovering ~> ~Recovering)

\* The log never stops the system: whoever sleeps in begin_trans() is woken to
\* look again, nobody waits for ever unless others take the log before it each
\* time, and the recovery of initlog() ends although it may itself crash.
LogGoesOn == SleeperWakes /\ WaiterServed /\ RecoveryCompletes
=============================================================================
