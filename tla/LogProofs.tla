----------------------------- MODULE LogProofs -----------------------------
(***************************************************************************)
(* The log of log.c is crash safe, for any number of processes, blocks,    *)
(* contents and any size of the log: IInv is inductive, and every step     *)
(* maps to a step of AtomicDisk or to none.                                *)
(***************************************************************************)
EXTENDS Log, TLAPS

-----------------------------------------------------------------------------
(* The operators of the model.                                             *)

\* The search of log_write() finds the slot of the block if it has one, and
\* the first free slot otherwise.
LEMMA SlotOfProperty ==
  ASSUME lh \in Seq(Block), NEW b \in Block
  PROVE  \/ /\ SlotOf(b) = Len(lh) + 1
            /\ \A j \in 1 .. Len(lh) : lh[j] # b
         \/ /\ SlotOf(b) \in 1 .. Len(lh)
            /\ lh[SlotOf(b)] = b
<1>1. CASE \E i \in 1 .. Len(lh) : lh[i] = b
  <2>1. SlotOf(b) = CHOOSE i \in 1 .. Len(lh) : lh[i] = b
    BY <1>1 DEF SlotOf
  <2> QED  BY <1>1, <2>1
<1>2. CASE ~\E i \in 1 .. Len(lh) : lh[i] = b
  BY <1>2 DEF SlotOf
<1> QED  BY <1>1, <1>2

\* Replaying a log of distinct blocks writes each log block to its home ...
LEMMA ReplayLogged ==
  ASSUME NEW h, NEW s \in Seq(Block), NEW l, OneSlotPerBlock(s), NEW i \in 1 .. Len(s)
  PROVE  Replay(h, s, l)[s[i]] = l[i]
<1> DEFINE k == CHOOSE j \in 1 .. Len(s) : s[j] = s[i]
<1>1. s[i] \in Block
  OBVIOUS
<1>2. k \in 1 .. Len(s) /\ s[k] = s[i]
  OBVIOUS
<1>3. k = i
  BY <1>2 DEF OneSlotPerBlock
<1> QED  BY <1>1, <1>3 DEF Replay

\* ... and no other block.
LEMMA ReplayOther ==
  ASSUME NEW h, NEW s \in Seq(Block), NEW l, NEW b \in Block,
         \A i \in 1 .. Len(s) : s[i] # b
  PROVE  Replay(h, s, l)[b] = h[b]
BY DEF Replay

\* Replaying an empty log changes nothing.
LEMMA ReplayEmpty ==
  ASSUME NEW h \in [Block -> Val], NEW l
  PROVE  Replay(h, <<>>, l) = h
BY DEF Replay

-----------------------------------------------------------------------------
(* The inductive invariant.                                                *)

\* The state after a boot satisfies the invariant.
LEMMA InitIInv == Init => IInv
<1> SUFFICES ASSUME Init PROVE IInv
  OBVIOUS
<1> USE LogAssumption
<1>1. TypeOK
  <2>1. buf \in [Block -> Val \cup {NotCached}]
    BY DEF Init, NoBuffers
  <2>2. pc \in [Proc -> PC]
    BY DEF Init, BootPC, PC, RecoveryPC, TransPC
  <2>3. slot \in [Proc -> {NoSlot} \cup (Block \X (Nat \ {0}))]
    BY DEF Init, NoSlots
  <2>4. tail \in [Proc -> Nat]
    BY DEF Init, Zeros
  <2>5. hdr \in Seq(Block) /\ lh \in Seq(Block)
    BY DEF Init
  <2>6. dirty \subseteq Block /\ busy \in BOOLEAN
    BY DEF Init
  <2> QED  BY <2>1, <2>2, <2>3, <2>4, <2>5, <2>6, Zenon DEF Init, TypeOK
<1>2. MutexInv
  BY DEF Init, MutexInv, Active, Recovering, BootPC, RecoveryPC, TransPC
<1>3. HeaderInv
  BY DEF Init, HeaderInv, OneSlotPerBlock, BootPC, RecoveryPC, TransPC
<1>4. CacheInv
  BY DEF Init, CacheInv, Recovering, NoBuffers, BootPC, RecoveryPC, TransPC
<1> QED  BY <1>1, <1>2, <1>3, <1>4 DEF IInv

\* Reading the header of recover_from_log() keeps the invariant: memory now has
\* what the disk commits.
LEMMA ReadHeadIInv ==
  ASSUME IInv, NEW p \in Proc, ReadHead(p)
  PROVE  IInv'
<1> USE LogAssumption DEF IInv
<1>1. TypeOK'
  BY DEF TypeOK, ReadHead, PC, RecoveryPC, TransPC, vars, disk, memory, locals
<1>2. MutexInv'
  BY DEF TypeOK, MutexInv, ReadHead, Active, Recovering, PC, RecoveryPC, TransPC, vars, disk, memory, locals
<1>3. HeaderInv'
  BY DEF TypeOK, MutexInv, HeaderInv, ReadHead, Active, Recovering, OneSlotPerBlock, RecoveryPC, TransPC, vars, disk, memory, locals
<1>4. CacheInv'
  BY DEF TypeOK, MutexInv, HeaderInv, CacheInv, ReadHead, Active, Recovering, Logging, OneSlotPerBlock, RecoveryPC, TransPC, vars, disk, memory, locals
<1> QED  BY <1>1, <1>2, <1>3, <1>4

\* begin_trans() keeps the invariant: it enters only when nobody is inside.
LEMMA BeginTransIInv ==
  ASSUME IInv, NEW p \in Proc, BeginTrans(p)
  PROVE  IInv'
<1> USE LogAssumption DEF IInv
<1>1. TypeOK'
  BY DEF TypeOK, BeginTrans, PC, RecoveryPC, TransPC, vars, disk, memory, locals
<1>2. MutexInv'
  <2>1. CASE busy
    BY <2>1 DEF TypeOK, MutexInv, BeginTrans, Active, Recovering, RecoveryPC, TransPC
  <2>2. CASE ~busy
    <3>1. busy' = TRUE /\ pc' = [pc EXCEPT ![p] = "trans"] /\ ~Recovering
      BY <2>2 DEF BeginTrans
    <3>2. Active' = {p}
      BY <2>2, <3>1 DEF TypeOK, MutexInv, Active, TransPC
    <3>3. ~Recovering'
      BY <3>1 DEF TypeOK, Recovering, RecoveryPC
    <3>4. \A q \in Proc : pc'[q] \in RecoveryPC => q = initproc
      BY <3>1 DEF TypeOK, MutexInv, RecoveryPC
    <3> QED  BY <3>1, <3>2, <3>3, <3>4 DEF MutexInv
  <2> QED  BY <2>1, <2>2
<1>3. HeaderInv'
  BY DEF TypeOK, MutexInv, HeaderInv, BeginTrans, Active, Recovering, OneSlotPerBlock, RecoveryPC, TransPC, vars, disk, memory, locals
<1>4. CacheInv'
  BY DEF TypeOK, MutexInv, HeaderInv, CacheInv, BeginTrans, Active, Recovering, Logging, OneSlotPerBlock, RecoveryPC, TransPC, vars, disk, memory, locals
<1> QED  BY <1>1, <1>2, <1>3, <1>4

\* The write of a log block keeps the invariant: the slot is the one the block
\* has, or a free one inside the log area.
LEMMA LogAppendIInv ==
  ASSUME IInv, NEW p \in Proc, NEW b \in Block, NEW v \in Val, LogAppend(p, b, v)
  PROVE  IInv'
<1> USE LogAssumption DEF IInv
<1>0. SlotOf(b) \in LogArea
  BY SlotOfProperty DEF TypeOK, HeaderInv, OneSlotPerBlock, LogAppend, Full, LogArea
<1>1. TypeOK'
  <2>1. slot' \in [Proc -> {NoSlot} \cup (Block \X (Nat \ {0}))]
    BY <1>0 DEF TypeOK, LogAppend, LogArea
  <2> QED  BY <2>1 DEF TypeOK, LogAppend, PC, TransPC
<1>2. MutexInv'
  BY DEF TypeOK, MutexInv, LogAppend, Active, Recovering, PC, RecoveryPC, TransPC, vars, disk, memory, locals
<1>3. HeaderInv'
  BY DEF TypeOK, MutexInv, HeaderInv, LogAppend, Active, Recovering, OneSlotPerBlock, RecoveryPC, TransPC, vars, disk, memory, locals
<1>4. CacheInv'
  <2> DEFINE k == SlotOf(b)
  <2>1. /\ pc[p] = "trans" /\ buf'[b] = v /\ logblk'[k] = v
        /\ UNCHANGED <<lh, dirty, home>>
        /\ slot'[p] = <<b, k>> /\ pc'[p] = "logging"
        /\ \A c \in Block \ {b} : buf'[c] = buf[c]
        /\ \A i \in LogArea \ {k} : logblk'[i] = logblk[i]
        /\ \A q \in Proc \ {p} : pc'[q] = pc[q]
    BY <1>0 DEF TypeOK, LogAppend
  <2>2. \A q \in Proc \ {p} : pc[q] \notin TransPC
    BY <2>1 DEF MutexInv, Active, TransPC
  <2>3. ~Recovering'
    BY <2>1 DEF MutexInv, Active, Recovering, TransPC, RecoveryPC
  <2>4. \/ k = Len(lh) + 1 /\ \A j \in 1 .. Len(lh) : lh[j] # b
        \/ k \in 1 .. Len(lh) /\ lh[k] = b
    BY SlotOfProperty DEF TypeOK
  <2>5. \A c \in dirty : \E i \in 1 .. Len(lh) : lh[i] = c /\ buf'[c] = logblk'[i]
    <3> SUFFICES ASSUME NEW c \in dirty
                 PROVE  \E i \in 1 .. Len(lh) : lh[i] = c /\ buf'[c] = logblk'[i]
      OBVIOUS
    <3>1. PICK i \in 1 .. Len(lh) : lh[i] = c /\ buf[c] = logblk[i]
      BY DEF CacheInv
    <3>2. CASE c = b
      BY <2>1, <2>4, <3>1, <3>2
    <3>3. CASE c # b
      <4>1. i # k /\ i \in LogArea
        BY <2>4, <3>1, <3>3 DEF TypeOK, HeaderInv, OneSlotPerBlock
      <4> QED  BY <2>1, <3>1, <3>3, <4>1 DEF TypeOK
    <3> QED  BY <3>2, <3>3
  <2>6. \A c \in Block \ dirty : ~Logging(c)' => buf'[c] \in {NotCached, home[c]}
    <3>1. Logging(b)'
      BY <2>1 DEF Logging
    <3>2. \A c \in Block : ~Logging(c)
      BY <2>1, <2>2 DEF Logging, TransPC
    <3> QED  BY <2>1, <3>1, <3>2 DEF CacheInv
  <2>7. \A q \in Proc : pc'[q] \in TransPC => \A i \in 1 .. Len(lh) : lh[i] \in dirty
    BY <2>1, <2>2 DEF CacheInv, TransPC
  <2> QED
    <3>1. \A q \in Proc : pc'[q] = "logging" => q = p
      BY <2>1, <2>2 DEF TransPC
    <3>2. \A q \in Proc : pc'[q] # "install"
      BY <2>1, <2>2 DEF TransPC
    <3> QED  BY <1>0, <2>1, <2>3, <2>4, <2>5, <2>6, <2>7, <3>1, <3>2 DEF CacheInv
<1> QED  BY <1>1, <1>2, <1>3, <1>4

\* The end of log_write() keeps the invariant: the block it counts has no other
\* slot, and its buffer is pinned.
LEMMA LogRecordIInv ==
  ASSUME IInv, NEW p \in Proc, LogRecord(p)
  PROVE  IInv'
<1> USE LogAssumption DEF IInv
<1>1. PICK b \in Block, k \in LogArea :
        /\ slot[p] = <<b, k>>
        /\ \/ k = Len(lh) + 1 /\ \A j \in 1 .. Len(lh) : lh[j] # b
           \/ k <= Len(lh) /\ lh[k] = b
        /\ buf[b] = logblk[k]
  BY DEF LogRecord, CacheInv
<1>2. /\ pc[p] = "logging" /\ pc'[p] = "trans" /\ dirty' = dirty \cup {b}
      /\ \A q \in Proc \ {p} : pc'[q] = pc[q] /\ pc[q] \notin TransPC
      /\ UNCHANGED <<home, hdr, logblk, buf, busy, tail>>
  BY <1>1 DEF TypeOK, LogRecord, Pin, disk, MutexInv, Active, TransPC
<1>3. /\ lh' \in Seq(Block) /\ Len(lh') >= Len(lh)
      /\ \A i \in 1 .. Len(lh) : lh'[i] = lh[i]
      /\ k \in 1 .. Len(lh') /\ lh'[k] = b
      /\ \A i \in 1 .. Len(lh') : i \in 1 .. Len(lh) \/ i = k
      /\ \A i \in 1 .. Len(lh) : lh[i] = b => i = k
  <2>1. k \in Nat \ {0}
    BY DEF LogArea
  <2>2. CASE k = Len(lh) + 1 /\ \A j \in 1 .. Len(lh) : lh[j] # b
    <3>1. lh' = Append(lh, b)
      BY <1>1, <2>2 DEF LogRecord
    <3> QED  BY <2>1, <2>2, <3>1 DEF TypeOK
  <2>3. CASE k <= Len(lh) /\ lh[k] = b
    <3>1. lh' = lh
      BY <1>1, <2>1, <2>3 DEF LogRecord, TypeOK
    <3> QED  BY <2>1, <2>3, <3>1 DEF TypeOK, HeaderInv, OneSlotPerBlock
  <2> QED  BY <1>1, <2>2, <2>3
<1>4. TypeOK'
  <2>1. pc' \in [Proc -> PC] /\ slot' \in [Proc -> {NoSlot} \cup (Block \X (Nat \ {0}))]
    BY DEF TypeOK, LogRecord, PC, TransPC
  <2> QED  BY <1>2, <1>3, <2>1 DEF TypeOK
<1>5. MutexInv'
  BY DEF TypeOK, MutexInv, LogRecord, Active, Recovering, RecoveryPC, TransPC, disk
<1>6. HeaderInv'
  <2>1. OneSlotPerBlock(lh)'
    BY <1>3 DEF TypeOK, HeaderInv, OneSlotPerBlock
  <2>2. \A q \in Proc : pc'[q] \notin {"install", "recover_install", "read_head", "release"}
    BY <1>2 DEF MutexInv, Active, Recovering, RecoveryPC, TransPC
  <2>3. hdr = <<>>
    BY <1>2 DEF HeaderInv, MutexInv, Active, Recovering, RecoveryPC, TransPC
  <2> QED  BY <1>2, <2>1, <2>2, <2>3 DEF HeaderInv, TransPC, OneSlotPerBlock
<1>7. CacheInv'
  <2>1. ~Recovering'
    BY <1>2 DEF MutexInv, Active, Recovering, RecoveryPC, TransPC
  <2>2. \A c \in dirty' : \E i \in 1 .. Len(lh') : lh'[i] = c /\ buf[c] = logblk[i]
    BY <1>1, <1>2, <1>3 DEF CacheInv, TypeOK
  <2>3. \A c \in Block \ dirty' : buf[c] \in {NotCached, home[c]}
    BY <1>1, <1>2 DEF CacheInv, Logging, TransPC
  <2>4. \A i \in 1 .. Len(lh') : lh'[i] \in dirty'
    BY <1>2, <1>3 DEF CacheInv, TransPC
  <2>5. \A q \in Proc : pc'[q] \notin {"install", "logging"}
    BY <1>2 DEF TransPC
  <2> QED  BY <1>2, <2>1, <2>2, <2>3, <2>4, <2>5 DEF CacheInv
<1> QED  BY <1>4, <1>5, <1>6, <1>7

\* The panic of log_write() keeps the invariant: it writes nothing.
LEMMA LogTooBigIInv ==
  ASSUME IInv, NEW p \in Proc, LogTooBig(p)
  PROVE  IInv'
<1> USE LogAssumption DEF IInv
<1>1. TypeOK'
  BY DEF TypeOK, LogTooBig, PC, RecoveryPC, TransPC, vars, disk, memory, locals
<1>2. MutexInv'
  BY DEF TypeOK, MutexInv, LogTooBig, Active, Recovering, PC, RecoveryPC, TransPC, vars, disk, memory, locals
<1>3. HeaderInv'
  BY DEF TypeOK, MutexInv, HeaderInv, LogTooBig, Active, Recovering, OneSlotPerBlock, RecoveryPC, TransPC, vars, disk, memory, locals
<1>4. CacheInv'
  BY DEF TypeOK, MutexInv, HeaderInv, CacheInv, LogTooBig, Active, Recovering, Logging, OneSlotPerBlock, RecoveryPC, TransPC, vars, disk, memory, locals
<1> QED  BY <1>1, <1>2, <1>3, <1>4

\* The write_head() of commit_trans() keeps the invariant: what it commits is in
\* the log.
LEMMA CommitTransIInv ==
  ASSUME IInv, NEW p \in Proc, CommitTrans(p)
  PROVE  IInv'
<1> USE LogAssumption DEF IInv
<1>1. TypeOK'
  BY DEF TypeOK, CommitTrans, PC, RecoveryPC, TransPC, vars, disk, memory, locals
<1>2. MutexInv'
  BY DEF TypeOK, MutexInv, CommitTrans, Active, Recovering, PC, RecoveryPC, TransPC, vars, disk, memory, locals
<1>3. HeaderInv'
  BY DEF TypeOK, MutexInv, HeaderInv, CommitTrans, Active, Recovering, OneSlotPerBlock, RecoveryPC, TransPC, vars, disk, memory, locals
<1>4. CacheInv'
  BY DEF TypeOK, MutexInv, HeaderInv, CacheInv, CommitTrans, Active, Recovering, Logging, OneSlotPerBlock, RecoveryPC, TransPC, vars, disk, memory, locals
<1> QED  BY <1>1, <1>2, <1>3, <1>4

\* A turn of install_trans() keeps the invariant: one more block is home, and its
\* buffer is no longer pinned.
LEMMA InstallBlockIInv ==
  ASSUME IInv, NEW p \in Proc, InstallBlock(p)
  PROVE  IInv'
<1> USE LogAssumption DEF IInv
<1>1. TypeOK'
  <2>1. lh[tail[p] + 1] \in Block /\ logblk[tail[p] + 1] \in Val
    BY DEF TypeOK, InstallBlock, HeaderInv, OneSlotPerBlock
  <2> QED  BY <2>1 DEF TypeOK, InstallBlock
<1>2. MutexInv'
  BY DEF TypeOK, MutexInv, InstallBlock, Active, Recovering, PC, RecoveryPC, TransPC, vars, disk, memory, locals
<1>3. HeaderInv'
  BY DEF TypeOK, MutexInv, HeaderInv, InstallBlock, Active, Recovering, OneSlotPerBlock, RecoveryPC, TransPC, vars, disk, memory, locals
<1>4. CacheInv'
  BY DEF TypeOK, MutexInv, HeaderInv, CacheInv, InstallBlock, Active, Recovering, Logging, OneSlotPerBlock, RecoveryPC, TransPC, vars, disk, memory, locals
<1> QED  BY <1>1, <1>2, <1>3, <1>4

\* Erasing the log keeps the invariant: every block of it is home.
LEMMA EraseLogIInv ==
  ASSUME IInv, NEW p \in Proc, EraseLog(p)
  PROVE  IInv'
<1> USE LogAssumption DEF IInv
<1>1. TypeOK'
  BY DEF TypeOK, EraseLog, PC, RecoveryPC, TransPC, vars, disk, memory, locals
<1>2. MutexInv'
  BY DEF TypeOK, MutexInv, EraseLog, Active, Recovering, PC, RecoveryPC, TransPC, vars, disk, memory, locals
<1>3. HeaderInv'
  BY DEF TypeOK, MutexInv, HeaderInv, EraseLog, Active, Recovering, OneSlotPerBlock, RecoveryPC, TransPC, vars, disk, memory, locals
<1>4. CacheInv'
  BY DEF TypeOK, MutexInv, HeaderInv, CacheInv, EraseLog, Active, Recovering, Logging, OneSlotPerBlock, RecoveryPC, TransPC, vars, disk, memory, locals
<1> QED  BY <1>1, <1>2, <1>3, <1>4

\* The end of commit_trans() keeps the invariant: nobody is left asleep.
LEMMA EndTransIInv ==
  ASSUME IInv, NEW p \in Proc, EndTrans(p)
  PROVE  IInv'
<1> USE LogAssumption DEF IInv
<1>1. TypeOK'
  BY DEF TypeOK, EndTrans, PC, RecoveryPC, TransPC, vars, disk, memory, locals
<1>2. MutexInv'
  <2>1. p \in Active /\ ~Recovering
    BY DEF TypeOK, MutexInv, EndTrans, Active, TransPC
  <2>2. Active' = {}
    BY <2>1 DEF TypeOK, MutexInv, EndTrans, Active, TransPC
  <2>3. ~Recovering' /\ busy' = FALSE
    BY <2>1 DEF TypeOK, EndTrans, Recovering, RecoveryPC
  <2>4. \A q \in Proc : pc'[q] # "sleep" /\ (pc'[q] \in RecoveryPC => q = initproc)
    BY <2>1 DEF TypeOK, MutexInv, EndTrans, RecoveryPC
  <2> QED  BY <2>2, <2>3, <2>4 DEF MutexInv
<1>3. HeaderInv'
  BY DEF TypeOK, MutexInv, HeaderInv, EndTrans, Active, Recovering, OneSlotPerBlock, RecoveryPC, TransPC, vars, disk, memory, locals
<1>4. CacheInv'
  BY DEF TypeOK, MutexInv, HeaderInv, CacheInv, EndTrans, Active, Recovering, Logging, OneSlotPerBlock, RecoveryPC, TransPC, vars, disk, memory, locals
<1> QED  BY <1>1, <1>2, <1>3, <1>4

\* bread() and the recycling of a buffer that is not pinned keep the invariant.
LEMMA BufferIInv ==
  ASSUME IInv, NEW b \in Block, Bread(b) \/ Recycle(b)
  PROVE  IInv'
<1> USE LogAssumption DEF IInv
<1>0. UNCHANGED <<disk, dirty, busy, lh, locals>>
  BY DEF Bread, Recycle
<1>1. TypeOK'
  BY DEF TypeOK, Bread, Recycle, disk, locals
<1>2. MutexInv'
  BY <1>0 DEF MutexInv, Active, Recovering, locals
<1>3. HeaderInv'
  BY <1>0 DEF HeaderInv, OneSlotPerBlock, disk, locals
<1>4. CacheInv'
  <2>1. b \notin dirty
    BY DEF TypeOK, HeaderInv, OneSlotPerBlock, CacheInv, Bread, Recycle
  <2>2. ~Logging(b)
    BY DEF TypeOK, CacheInv, Logging, Bread, Recycle
  <2>3. /\ \A c \in Block \ {b} : buf'[c] = buf[c]
        /\ buf'[b] \in {NotCached, home[b]}
    BY DEF TypeOK, Bread, Recycle
  <2>4. UNCHANGED <<home, logblk, pc, slot, tail, Recovering>>
    BY <1>0 DEF disk, locals, Recovering
  <2>5. \A q \in Proc : pc[q] = "logging" => slot[q][1] # b
    BY <2>2 DEF Logging
  <2>6. \A c \in dirty : \E i \in 1 .. Len(lh) : lh[i] = c /\ buf'[c] = logblk[i]
    BY <2>1, <2>3 DEF TypeOK, CacheInv
  <2>7. \A c \in Block \ dirty : ~Logging(c) => buf'[c] \in {NotCached, home[c]}
    BY <2>3 DEF CacheInv
  <2>8. ASSUME NEW q \in Proc, pc[q] = "logging"
        PROVE  \E c \in Block, i \in LogArea :
                 /\ slot[q] = <<c, i>>
                 /\ \/ i = Len(lh) + 1 /\ \A j \in 1 .. Len(lh) : lh[j] # c
                    \/ i <= Len(lh) /\ lh[i] = c
                 /\ buf'[c] = logblk[i]
    BY <2>3, <2>5, <2>8 DEF CacheInv
  <2> QED  BY <1>0, <2>4, <2>6, <2>7, <2>8 DEF CacheInv, Logging
<1> QED  BY <1>1, <1>2, <1>3, <1>4

\* A crash at any point keeps the invariant.
LEMMA CrashIInv ==
  ASSUME IInv, Crash
  PROVE  IInv'
<1> USE LogAssumption DEF IInv
<1>1. TypeOK'
  <2>1. buf' \in [Block -> Val \cup {NotCached}]
    BY DEF Crash, NoBuffers
  <2>2. pc' \in [Proc -> PC]
    BY DEF Crash, BootPC, PC, RecoveryPC, TransPC
  <2>3. slot' \in [Proc -> {NoSlot} \cup (Block \X (Nat \ {0}))]
    BY DEF Crash, NoSlots
  <2>4. tail' \in [Proc -> Nat]
    BY DEF Crash, Zeros
  <2>5. lh' \in Seq(Block)
    BY DEF Crash
  <2>6. dirty' \subseteq Block /\ busy' \in BOOLEAN
    BY DEF Crash
  <2>7. UNCHANGED <<home, hdr, logblk>>
    BY DEF Crash, disk
  <2> QED  BY <2>1, <2>2, <2>3, <2>4, <2>5, <2>6, <2>7 DEF TypeOK
<1>2. MutexInv'
  BY DEF Crash, MutexInv, Active, Recovering, BootPC, RecoveryPC, TransPC
<1>3. HeaderInv'
  BY DEF Crash, HeaderInv, OneSlotPerBlock, BootPC, RecoveryPC, TransPC, disk
<1>4. CacheInv'
  BY DEF Crash, CacheInv, Recovering, NoBuffers, BootPC, RecoveryPC, TransPC
<1> QED  BY <1>1, <1>2, <1>3, <1>4

\* The invariant is inductive: no step of the log, of the buffer cache or of
\* the power switch leaves it.
LEMMA NextIInv == IInv /\ [Next]_vars => IInv'
<1> SUFFICES ASSUME IInv, [Next]_vars PROVE IInv'
  OBVIOUS
<1>1. ASSUME NEW p \in Proc, Step(p) PROVE IInv'
  BY <1>1, ReadHeadIInv, BeginTransIInv, LogAppendIInv, LogRecordIInv, LogTooBigIInv,
     CommitTransIInv, InstallBlockIInv, EraseLogIInv, EndTransIInv DEF Step
<1>2. ASSUME NEW b \in Block, Bread(b) \/ Recycle(b) PROVE IInv'
  BY <1>2, BufferIInv
<1>3. CASE Crash
  BY <1>3, CrashIInv
<1>4. CASE UNCHANGED vars
  BY <1>4 DEF vars, disk, memory, locals, IInv, TypeOK, MutexInv, HeaderInv, CacheInv,
     Active, Recovering, OneSlotPerBlock, Logging
<1> QED  BY <1>1, <1>2, <1>3, <1>4 DEF Next

\* Every reachable state of the log satisfies the inductive invariant: one
\* transaction at a time, a header that always describes complete log blocks,
\* and buffers that differ from the disk only where they are pinned.
THEOREM LogInvariant == Spec => []IInv
BY InitIInv, NextIInv, PTL DEF Spec

\* The values of all variables of log.c keep their types.
THEOREM LogTypeOK == Spec => []TypeOK
<1>1. IInv => TypeOK
  BY DEF IInv
<1> QED  BY <1>1, LogInvariant, PTL

\* begin_trans() never sleeps without a transaction whose commit wakes it.
THEOREM LogSleepers == Spec => []SleepersAwaitCommit
<1>1. IInv => SleepersAwaitCommit
  BY DEF IInv, MutexInv, SleepersAwaitCommit
<1> QED  BY <1>1, LogInvariant, PTL

\* install_trans() only writes home what the header on the disk commits.
THEOREM LogWriteAhead == Spec => WriteAhead
<1> DEFINE Ahead == \A b \in Block : home'[b] # home[b] =>
                       \E i \in 1 .. Len(hdr) : hdr[i] = b /\ logblk[i] = home'[b]
<1>1. IInv /\ [Next]_vars => [Ahead]_vars
  <2> SUFFICES ASSUME IInv, Next, NEW b \in Block, home'[b] # home[b]
               PROVE  \E i \in 1 .. Len(hdr) : hdr[i] = b /\ logblk[i] = home'[b]
    OBVIOUS
  <2>1. PICK p \in Proc : InstallBlock(p)
    BY DEF Next, Step, ReadHead, BeginTrans, LogAppend, LogRecord, LogTooBig, CommitTrans,
       EraseLog, EndTrans, Bread, Recycle, Crash, disk
  <2>2. hdr = lh /\ tail[p] + 1 \in 1 .. Len(lh)
    BY <2>1 DEF IInv, TypeOK, HeaderInv, InstallBlock
  <2> QED  BY <2>1, <2>2 DEF IInv, TypeOK, InstallBlock
<1> QED  BY <1>1, LogInvariant, PTL DEF Spec, WriteAhead

-----------------------------------------------------------------------------
(* The refinement.                                                         *)

\* What the cache and the disk hold when no block is pinned or being logged.
LEMMA CleanView ==
  ASSUME IInv, dirty = {}, \A b \in Block : ~Logging(b)
  PROVE  [b \in Block |-> IF buf[b] = NotCached THEN home[b] ELSE buf[b]] = home
BY DEF IInv, TypeOK, CacheInv

\* Before the commit point, and after the log is erased, there is nothing to
\* replay.
LEMMA NoCommit ==
  ASSUME IInv, hdr = <<>>
  PROVE  Durable = home
BY ReplayEmpty DEF IInv, TypeOK, Durable

\* An empty log is a disk whose contents are its home locations.
LEMMA InitRefines == Init => AD!Init
<1> SUFFICES ASSUME Init PROVE AD!Init
  OBVIOUS
<1>1. Recovering /\ Active = {}
  BY LogAssumption DEF Init, Recovering, Active, BootPC, RecoveryPC, TransPC
<1>2. Durable = home /\ home \in [Block -> Val]
  BY InitIInv, NoCommit DEF Init
<1> QED  BY <1>1, <1>2 DEF AD!Init, View

\* begin_trans() begins a transaction of the atomic disk, or waits.
LEMMA BeginTransRefines ==
  ASSUME IInv, NEW p \in Proc, BeginTrans(p)
  PROVE  [AD!Next]_AD!vars
<1>1. UNCHANGED <<Durable, View>>
  <2>1. ~Recovering /\ ~Recovering'
    BY LogAssumption DEF IInv, TypeOK, BeginTrans, Recovering, RecoveryPC
  <2> QED  BY <2>1 DEF BeginTrans, Durable, View, disk
<1>2. CASE busy
  <2>1. \A q \in Proc : pc'[q] \in TransPC <=> pc[q] \in TransPC
    BY <1>2 DEF IInv, TypeOK, BeginTrans, TransPC
  <2>2. UNCHANGED Active
    BY <2>1 DEF Active
  <2> QED  BY <1>1, <2>2 DEF AD!vars
<1>3. CASE ~busy
  <2>1. Active = {} /\ Active' = {p}
    BY <1>3 DEF IInv, TypeOK, MutexInv, BeginTrans, Active, TransPC
  <2> QED  BY <1>1, <2>1 DEF AD!Next, AD!Begin
<1> QED  BY <1>2, <1>3

\* A process inside a transaction is the only one, and recovery is over.
LEMMA InTransaction ==
  ASSUME IInv, NEW p \in Proc, pc[p] \in TransPC
  PROVE  Active = {p} /\ ~Recovering /\ \A q \in Proc \ {p} : pc[q] \notin TransPC
BY DEF IInv, MutexInv, Active, Recovering, RecoveryPC, TransPC

\* log_write() changes what the transaction sees and nothing that is durable.
LEMMA LogAppendRefines ==
  ASSUME IInv, NEW p \in Proc, NEW b \in Block, NEW v \in Val, LogAppend(p, b, v)
  PROVE  AD!Write(p, b, v)
<1>1. Active = {p} /\ Active' = {p} /\ ~Recovering /\ ~Recovering'
  BY InTransaction DEF IInv, TypeOK, LogAppend, Active, Recovering, RecoveryPC, TransPC
<1>2. hdr = <<>> /\ UNCHANGED <<home, hdr>>
  BY InTransaction DEF IInv, HeaderInv, LogAppend, Recovering, RecoveryPC, TransPC, MutexInv
<1>3. UNCHANGED Durable
  BY <1>2, ReplayEmpty DEF IInv, TypeOK, Durable
<1>4. View' = [View EXCEPT ![b] = v]
  BY <1>1, LogAssumption DEF IInv, TypeOK, LogAppend, View
<1> QED  BY <1>1, <1>3, <1>4 DEF AD!Write

\* Steps that the code above the log does not see: the end of log_write(),
\* its panic, the start of recovery, and the moves of clean buffers.
LEMMA SilentSteps ==
  ASSUME IInv,
         \/ \E p \in Proc : ReadHead(p) \/ LogRecord(p) \/ LogTooBig(p)
         \/ \E b \in Block : Bread(b) \/ Recycle(b)
  PROVE  UNCHANGED AD!vars
<1> USE LogAssumption
<1>1. ASSUME NEW p \in Proc, ReadHead(p) \/ LogRecord(p) \/ LogTooBig(p)
      PROVE  UNCHANGED AD!vars
  <2>1. UNCHANGED <<home, hdr, logblk, buf>>
    BY <1>1 DEF ReadHead, LogRecord, LogTooBig, disk, memory
  <2>2. \A q \in Proc : /\ pc'[q] \in TransPC <=> pc[q] \in TransPC
                        /\ pc'[q] \in RecoveryPC <=> pc[q] \in RecoveryPC
    BY <1>1 DEF IInv, TypeOK, ReadHead, LogRecord, LogTooBig, TransPC, RecoveryPC
  <2>3. UNCHANGED Durable
    BY <2>1 DEF Durable
  <2>4. (Recovering' <=> Recovering) /\ UNCHANGED Active
    BY <2>2 DEF Recovering, Active
  <2>5. UNCHANGED View
    BY <2>1, <2>3, <2>4 DEF View
  <2> QED  BY <2>3, <2>4, <2>5 DEF AD!vars
<1>2. ASSUME NEW b \in Block, Bread(b) \/ Recycle(b)
      PROVE  UNCHANGED AD!vars
  <2>1. UNCHANGED <<home, hdr, logblk, dirty, lh, pc, slot>>
    BY <1>2 DEF Bread, Recycle, disk, locals
  <2>2. UNCHANGED <<Durable, Active, Recovering>>
    BY <2>1 DEF Durable, Active, Recovering
  <2>3. buf[b] \in {NotCached, home[b]} /\ buf'[b] \in {NotCached, home[b]}
    BY <1>2 DEF IInv, TypeOK, CacheInv, Logging, Bread, Recycle
  <2>4. \A c \in Block \ {b} : buf'[c] = buf[c]
    BY <1>2 DEF IInv, TypeOK, Bread, Recycle
  <2>5. \A c \in Block : (IF buf'[c] = NotCached THEN home[c] ELSE buf'[c])
                       = (IF buf[c] = NotCached THEN home[c] ELSE buf[c])
    BY <2>3, <2>4
  <2>6. UNCHANGED View
    BY <2>1, <2>2, <2>5 DEF View
  <2> QED  BY <2>2, <2>6 DEF AD!vars
<1> QED  BY <1>1, <1>2

\* write_head() is the commit point: all the blocks of the transaction become
\* durable, and no other one changes.
LEMMA CommitTransRefines ==
  ASSUME IInv, NEW p \in Proc, CommitTrans(p)
  PROVE  [AD!Next]_AD!vars
<1> USE LogAssumption
<1>1. pc[p] = "trans" /\ pc'[p] \in TransPC /\ \A q \in Proc \ {p} : pc'[q] = pc[q]
  BY DEF IInv, TypeOK, CommitTrans, TransPC
<1>2. Active = {p} /\ Active' = {p} /\ ~Recovering /\ ~Recovering'
  <2>1. /\ Active = {p} /\ ~Recovering
        /\ \A q \in Proc \ {p} : pc[q] \notin TransPC
    BY <1>1, InTransaction DEF TransPC
  <2> QED  BY <1>1, <2>1 DEF Active, Recovering, RecoveryPC, TransPC
<1>3. UNCHANGED <<home, logblk, buf, dirty, lh>>
  BY DEF CommitTrans, memory
<1>4. UNCHANGED View
  BY <1>2, <1>3 DEF View
<1>5. CASE lh = <<>>
  <2>1. UNCHANGED hdr
    BY <1>5 DEF CommitTrans
  <2> QED  BY <1>2, <1>3, <1>4, <2>1 DEF Durable, AD!vars
<1>6. CASE lh # <<>>
  <2>1. hdr' = lh
    BY <1>6 DEF CommitTrans
  <2>2. \A b \in Block : Durable'[b] = View[b]
    <3> SUFFICES ASSUME NEW b \in Block PROVE Replay(home, lh, logblk)[b] = View[b]
      BY <1>3, <2>1 DEF Durable
    <3>1. OneSlotPerBlock(lh) /\ lh \in Seq(Block)
      BY DEF IInv, TypeOK, HeaderInv
    <3>2. CASE \E i \in 1 .. Len(lh) : lh[i] = b
      <4>1. PICK i \in 1 .. Len(lh) : lh[i] = b
        BY <3>2
      <4>2. Replay(home, lh, logblk)[b] = logblk[i]
        <5>1. Replay(home, lh, logblk)[lh[i]] = logblk[i]
          BY <3>1, ReplayLogged
        <5> QED  BY <4>1, <5>1
      <4>3. b \in dirty
        BY <1>1, <4>1 DEF IInv, CacheInv, TransPC
      <4>4. buf[b] = logblk[i] /\ logblk[i] \in Val
        BY <3>1, <4>1, <4>3 DEF IInv, TypeOK, CacheInv, OneSlotPerBlock
      <4> QED  BY <1>2, <4>2, <4>4 DEF View
    <3>3. CASE \A i \in 1 .. Len(lh) : lh[i] # b
      <4>1. Replay(home, lh, logblk)[b] = home[b]
        BY <3>1, <3>3, ReplayOther
      <4>2. b \notin dirty
        BY <3>3 DEF IInv, CacheInv
      <4>3. ~Logging(b)
        BY <1>1, InTransaction DEF Logging, TransPC
      <4>4. buf[b] \in {NotCached, home[b]}
        BY <4>2, <4>3 DEF IInv, CacheInv
      <4> QED  BY <1>2, <4>1, <4>4 DEF View
    <3> QED  BY <3>2, <3>3
  <2>3. Durable' = View
    BY <1>2, <2>2 DEF Durable, Replay, View
  <2> QED  BY <1>2, <1>4, <2>3 DEF AD!Next, AD!Commit
<1> QED  BY <1>5, <1>6

\* install_trans() copies committed blocks: durable and visible contents stay.
LEMMA InstallBlockRefines ==
  ASSUME IInv, NEW p \in Proc, InstallBlock(p)
  PROVE  UNCHANGED AD!vars
<1> USE LogAssumption
<1> DEFINE k == tail[p] + 1
<1>1. /\ hdr = lh /\ k \in 1 .. Len(lh) /\ lh[k] \in Block /\ logblk[k] \in Val
      /\ lh \in Seq(Block) /\ OneSlotPerBlock(lh)
  BY DEF IInv, TypeOK, HeaderInv, OneSlotPerBlock, InstallBlock
<1>2. /\ home' = [home EXCEPT ![lh[k]] = logblk[k]]
      /\ buf' = [buf EXCEPT ![lh[k]] = logblk[k]]
      /\ UNCHANGED <<hdr, logblk, lh, pc>>
  BY DEF InstallBlock
<1>3. UNCHANGED <<Active, Recovering>>
  BY <1>2 DEF Active, Recovering
<1>4. UNCHANGED Durable
  <2>1. ASSUME NEW b \in Block PROVE Replay(home', hdr, logblk)[b] = Replay(home, hdr, logblk)[b]
    <3>1. CASE \E i \in 1 .. Len(lh) : lh[i] = b
      BY <1>1, <3>1 DEF Replay
    <3>2. CASE \A i \in 1 .. Len(lh) : lh[i] # b
      <4>1. home'[b] = home[b]
        BY <1>1, <1>2, <3>2 DEF IInv, TypeOK
      <4> QED  BY <1>1, <3>2, <4>1 DEF Replay
    <3> QED  BY <3>1, <3>2
  <2>2. Replay(home', hdr, logblk) = Replay(home, hdr, logblk)
    BY <2>1 DEF Replay
  <2> QED  BY <1>2, <2>2 DEF Durable
<1>5. UNCHANGED View
  <2>1. CASE Recovering
    BY <1>3, <1>4, <2>1 DEF View
  <2>2. CASE ~Recovering
    <3>1. pc[p] = "install"
      BY <2>2 DEF IInv, MutexInv, InstallBlock, Recovering, RecoveryPC
    <3>2. lh[k] \in dirty
      BY <1>1, <3>1 DEF IInv, TypeOK, CacheInv, TransPC
    <3>3. buf[lh[k]] = logblk[k]
      BY <1>1, <3>2 DEF IInv, CacheInv, OneSlotPerBlock
    <3>4. \A b \in Block : (IF buf'[b] = NotCached THEN home'[b] ELSE buf'[b])
                         = (IF buf[b] = NotCached THEN home[b] ELSE buf[b])
      BY <1>1, <1>2, <3>3 DEF IInv, TypeOK
    <3> QED  BY <1>3, <2>2, <3>4 DEF View
  <2> QED  BY <2>1, <2>2
<1> QED  BY <1>3, <1>4, <1>5 DEF AD!vars

\* Erasing the log changes nothing: every block of it is home.
LEMMA EraseLogRefines ==
  ASSUME IInv, NEW p \in Proc, EraseLog(p)
  PROVE  UNCHANGED AD!vars
<1> USE LogAssumption
<1>1. /\ hdr = lh /\ tail[p] = Len(lh) /\ lh \in Seq(Block) /\ OneSlotPerBlock(lh)
      /\ \A i \in 1 .. Len(lh) : home[lh[i]] = logblk[i]
  BY DEF IInv, TypeOK, HeaderInv, EraseLog
<1>2. UNCHANGED <<home, logblk, buf, dirty>> /\ hdr' = <<>>
  BY DEF EraseLog
<1>3. Durable = home /\ Durable' = home
  <2>1. Durable' = home
    BY <1>2, ReplayEmpty DEF Durable, IInv, TypeOK
  <2>2. ASSUME NEW b \in Block PROVE Replay(home, lh, logblk)[b] = home[b]
    <3>1. CASE \E i \in 1 .. Len(lh) : lh[i] = b
      <4>1. PICK i \in 1 .. Len(lh) : lh[i] = b
        BY <3>1
      <4>2. Replay(home, lh, logblk)[lh[i]] = logblk[i]
        BY <1>1, ReplayLogged
      <4> QED  BY <1>1, <4>1, <4>2
    <3>2. CASE \A i \in 1 .. Len(lh) : lh[i] # b
      BY <1>1, <3>2, ReplayOther
    <3> QED  BY <3>1, <3>2
  <2>3. Durable = home
    BY <1>1, <2>2 DEF Durable, Replay, IInv, TypeOK
  <2> QED  BY <2>1, <2>3
<1>4. CASE pc[p] = "install"
  <2>1. /\ pc'[p] = "release" /\ \A q \in Proc \ {p} : pc'[q] = pc[q]
        /\ ~Recovering /\ Active = {p} /\ \A q \in Proc \ {p} : pc[q] \notin TransPC
    BY <1>4, InTransaction DEF IInv, TypeOK, EraseLog, TransPC
  <2>2. Active' = {p} /\ ~Recovering'
    BY <2>1 DEF Active, Recovering, TransPC, RecoveryPC
  <2>3. UNCHANGED View
    BY <1>2, <2>1, <2>2 DEF View
  <2> QED  BY <1>3, <2>1, <2>2, <2>3 DEF AD!vars
<1>5. CASE pc[p] = "recover_install"
  <2>1. p = initproc /\ Recovering /\ Active = {} /\ dirty = {}
    BY <1>5 DEF IInv, MutexInv, CacheInv, Recovering, RecoveryPC
  <2>2. ~Recovering' /\ Active' = {}
    BY <1>5, <2>1 DEF IInv, TypeOK, EraseLog, Recovering, RecoveryPC, Active, TransPC
  <2>3. \A b \in Block : ~Logging(b)
    BY <2>1 DEF Logging, Active, TransPC
  <2>4. View' = home
    BY <1>2, <2>1, <2>2, <2>3, CleanView DEF View
  <2> QED  BY <1>3, <2>1, <2>2, <2>4 DEF View, AD!vars
<1> QED  BY <1>4, <1>5 DEF EraseLog

\* commit_trans() returns when what the transaction wrote is durable.
LEMMA EndTransRefines ==
  ASSUME IInv, NEW p \in Proc, EndTrans(p)
  PROVE  AD!End(p)
<1> USE LogAssumption
<1>1. /\ pc[p] = "release" /\ Active = {p} /\ ~Recovering
      /\ \A q \in Proc \ {p} : pc[q] \notin TransPC
  BY InTransaction DEF EndTrans, TransPC
<1>2. Active' = {} /\ ~Recovering'
  BY <1>1 DEF IInv, TypeOK, EndTrans, Active, Recovering, TransPC, RecoveryPC
<1>3. lh = <<>> /\ hdr = <<>>
  BY <1>1 DEF IInv, HeaderInv, MutexInv, Recovering, RecoveryPC, TransPC
<1>4. dirty = {} /\ \A b \in Block : ~Logging(b)
  BY <1>1, <1>3 DEF IInv, CacheInv, Logging, TransPC
<1>5. Durable = home /\ View = home
  BY <1>1, <1>3, <1>4, NoCommit, CleanView DEF View
<1>6. UNCHANGED <<Durable, View>>
  BY <1>1, <1>2 DEF EndTrans, Durable, View, disk
<1> QED  BY <1>1, <1>2, <1>5, <1>6 DEF AD!End

\* A crash, wherever it strikes, leaves what was committed.
LEMMA CrashRefines ==
  ASSUME IInv, Crash
  PROVE  AD!Fail
<1> USE LogAssumption
<1>1. UNCHANGED Durable
  BY DEF Crash, Durable, disk
<1>2. Recovering' /\ Active' = {}
  BY DEF Crash, Recovering, Active, BootPC, RecoveryPC, TransPC
<1> QED  BY <1>1, <1>2 DEF AD!Fail, View

\* log.c implements a disk with atomic transactions: whatever the number of
\* processes and blocks, the size of the log and the moments of the crashes.
THEOREM LogImplements == Spec => Implements
<1>1. IInv /\ [Next]_vars => [AD!Next]_AD!vars
  <2> SUFFICES ASSUME IInv, [Next]_vars PROVE [AD!Next]_AD!vars
    OBVIOUS
  <2>1. ASSUME NEW p \in Proc, Step(p) PROVE [AD!Next]_AD!vars
    BY <2>1, BeginTransRefines, LogAppendRefines, SilentSteps, CommitTransRefines,
       InstallBlockRefines, EraseLogRefines, EndTransRefines DEF Step, AD!Next
  <2>2. ASSUME NEW b \in Block, Bread(b) \/ Recycle(b) PROVE [AD!Next]_AD!vars
    BY <2>2, SilentSteps
  <2>3. CASE Crash
    BY <2>3, CrashRefines DEF AD!Next
  <2>4. CASE UNCHANGED vars
    BY <2>4 DEF vars, disk, memory, locals, AD!vars, Durable, View, Active, Recovering
  <2> QED  BY <2>1, <2>2, <2>3, <2>4 DEF Next
<1> QED  BY <1>1, InitRefines, LogInvariant, PTL DEF Spec, Implements, AD!Spec
=============================================================================
