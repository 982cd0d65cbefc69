------------------------- MODULE BufferCacheProofs -------------------------
(***************************************************************************)
(* The buffer cache for any number of processes, buffers and sectors: its  *)
(* invariant, and that on a disk without faults it implements SectorStore. *)
(***************************************************************************)
EXTENDS BufferCache, TLAPS

\* What a process is doing, and with which buffer.
LEMMA UsingFacts ==
  /\ \A x : x \in Using <=> x \in Reading \/ x \in Writing \/ x = "hold"
  /\ \A x : x \in Reading <=> x = "read" \/ x = "read_asleep" \/ x = "read_woken"
  /\ \A x : x \in Writing <=> x = "write" \/ x = "write_asleep" \/ x = "write_woken"
  BY DEF Using, Reading, Writing

\* bread() is called.
LEMMA BreadOK == ASSUME BufInv, NEW p \in Proc, Bread(p) PROVE BufInv'
<1>1. PICK s \in Sector : want' = [want EXCEPT ![p] = s]
  BY CacheAssumption DEF Bread
<1>2. /\ pc[p] = "user" /\ pc' = [pc EXCEPT ![p] = "bget"]
      /\ UNCHANGED <<sector, busy, valid, dirty, data, lru, idequeue, disk, have>>
      /\ writer' \subseteq Proc
  BY DEF Bread, bufs, BufInv, TypeOK
<1>3. pc'[p] = "bget" /\ want'[p] = s /\ \A q \in Proc : q # p => pc'[q] = pc[q] /\ want'[q] = want[q]
  BY <1>1, <1>2 DEF BufInv, TypeOK
<1>4. TypeOK'
  BY <1>1, <1>2 DEF BufInv, TypeOK, PC
<1>5. \A q \in Proc : pc'[q] \in Using <=> pc[q] \in Using
  BY <1>2, <1>3, UsingFacts
<1>6. Alone' /\ OneBufferPerSector'
  BY <1>2, <1>5 DEF BufInv, Alone, OneBufferPerSector
<1>7. QueueOK'
  BY <1>2, <1>3 DEF BufInv, QueueOK
<1>8. PanicOnlyIfExhausted'
  BY <1>2, <1>3, <1>5 DEF BufInv, PanicOnlyIfExhausted, Halted
<1>9. ASSUME NEW q \in Proc PROVE UserOK(q)'
  <2>1. CASE q = p
    BY <2>1, <1>3, UsingFacts DEF UserOK
  <2>2. CASE q # p
    BY <2>2, <1>2, <1>3, <1>5 DEF BufInv, UserOK
  <2> QED BY <2>1, <2>2
<1>10. ASSUME NEW b \in Buf PROVE BufOK(b)'
  BY <1>2, <1>5 DEF BufInv, BufOK
<1> QED BY <1>4, <1>6, <1>7, <1>8, <1>9, <1>10 DEF BufInv

\* bget() finds the buffer free.
LEMMA BgetHitOK == ASSUME BufInv, NEW p \in Proc, BgetHit(p) PROVE BufInv'
<1>1. PICK b \in Buf : /\ sector[b] = want[p] /\ ~busy[b]
                       /\ busy' = [busy EXCEPT ![b] = TRUE]
                       /\ have' = [have EXCEPT ![p] = b]
                       /\ pc' = [pc EXCEPT ![p] = IF valid[b] THEN "hold" ELSE "read"]
  BY Zenon DEF BgetHit, Cached
<1>2. pc[p] = "bget" /\ UNCHANGED <<sector, valid, dirty, data, lru, idequeue, disk, want, writer>> /\ ~Halted
  BY DEF BgetHit
<1>3. /\ pc'[p] = (IF valid[b] THEN "hold" ELSE "read") /\ have'[p] = b
      /\ \A q \in Proc : q # p => pc'[q] = pc[q] /\ have'[q] = have[q]
  BY <1>1 DEF BufInv, TypeOK
<1>4. busy'[b] /\ \A c \in Buf : c # b => busy'[c] = busy[c]
  BY <1>1 DEF BufInv, TypeOK
<1>5. TypeOK'
  <2>1. b \in 0 .. NBUF
    BY CacheAssumption DEF Buf
  <2>2. (IF valid[b] THEN "hold" ELSE "read") \in PC
    BY DEF PC, Reading
  <2> QED BY <1>1, <1>2, <2>1, <2>2 DEF BufInv, TypeOK
<1>6. pc'[p] \in Using /\ pc[p] \notin Using
  BY <1>2, <1>3, UsingFacts
<1>7. \A q \in Proc : pc[q] \in Using => have[q] # b /\ q # p
  BY <1>1, <1>6 DEF BufInv, UserOK
<1>8. Alone'
  BY <1>3, <1>7 DEF BufInv, Alone
<1>9. OneBufferPerSector'
  BY <1>2 DEF BufInv, OneBufferPerSector
<1>10. QueueOK'
  <2>1. ASSUME NEW q \in Proc, pc[q] \in {"read_asleep", "write_asleep"} PROVE pc'[q] = pc[q] /\ have'[q] = have[q]
    BY <2>1, <1>2, <1>3
  <2> QED BY <1>2, <2>1 DEF BufInv, QueueOK
<1>11. PanicOnlyIfExhausted'
  BY <1>2, <1>3, UsingFacts DEF PanicOnlyIfExhausted, Halted
<1>12. ASSUME NEW q \in Proc PROVE UserOK(q)'
  <2>1. CASE q = p
    <3>1. want[p] \in Sector
      BY <1>2 DEF BufInv, UserOK
    <3> QED BY <2>1, <1>1, <1>2, <1>3, <1>4, <3>1, UsingFacts DEF UserOK
  <2>2. CASE q # p
    <3>1. UserOK(q) /\ pc'[q] = pc[q] /\ have'[q] = have[q]
      BY <2>2, <1>3 DEF BufInv
    <3>2. \A c : busy[c] /\ c \in Buf => busy'[c]
      BY <1>4
    <3>3. \A r \in Proc : pc[r] \in Using => pc'[r] = pc[r] /\ have'[r] = have[r]
      BY <1>3, <1>7
    <3> QED BY <1>2, <3>1, <3>2, <3>3 DEF UserOK
  <2> QED BY <2>1, <2>2
<1>13. ASSUME NEW c \in Buf PROVE BufOK(c)'
  <2>1. \A r \in Proc : pc[r] \in Using => pc'[r] = pc[r] /\ have'[r] = have[r]
    BY <1>3, <1>7
  <2> QED BY <1>2, <1>3, <1>4, <1>6, <2>1 DEF BufInv, BufOK
<1> QED BY <1>5, <1>8, <1>9, <1>10, <1>11, <1>12, <1>13 DEF BufInv

\* bget() waits for the buffer.
LEMMA BgetSleepOK == ASSUME BufInv, NEW p \in Proc, BgetSleep(p) PROVE BufInv'
<1>1. PICK b \in Buf : sector[b] = want[p] /\ busy[b] /\ have' = [have EXCEPT ![p] = b]
  BY Zenon DEF BgetSleep, Cached
<1>2. /\ pc[p] = "bget" /\ pc' = [pc EXCEPT ![p] = "bget_asleep"] /\ ~Halted
      /\ UNCHANGED <<sector, busy, valid, dirty, data, lru, idequeue, disk, want, writer>>
  BY DEF BgetSleep, bufs
<1>3. /\ pc'[p] = "bget_asleep" /\ have'[p] = b
      /\ \A q \in Proc : q # p => pc'[q] = pc[q] /\ have'[q] = have[q]
  BY <1>1, <1>2 DEF BufInv, TypeOK
<1>4. TypeOK'
  <2>1. b \in 0 .. NBUF
    BY CacheAssumption DEF Buf
  <2> QED BY <1>1, <1>2, <2>1 DEF BufInv, TypeOK, PC
<1>5. \A q \in Proc : /\ pc'[q] \in Using <=> pc[q] \in Using
                      /\ pc[q] \in Using => pc'[q] = pc[q] /\ have'[q] = have[q]
  BY <1>2, <1>3, UsingFacts
<1>6. Alone' /\ OneBufferPerSector'
  BY <1>2, <1>5 DEF BufInv, Alone, OneBufferPerSector
<1>7. QueueOK'
  <2>1. ASSUME NEW q \in Proc, pc[q] \in {"read_asleep", "write_asleep"} PROVE pc'[q] = pc[q] /\ have'[q] = have[q]
    BY <2>1, <1>2, <1>3
  <2> QED BY <1>2, <2>1 DEF BufInv, QueueOK
<1>8. PanicOnlyIfExhausted'
  BY <1>2, <1>3 DEF PanicOnlyIfExhausted, Halted
<1>9. ASSUME NEW q \in Proc PROVE UserOK(q)'
  <2>1. CASE q = p
    <3>1. want[p] \in Sector
      BY <1>2 DEF BufInv, UserOK
    <3>2. PICK r \in Proc : have[r] = b /\ pc[r] \in Using
      BY <1>1 DEF BufInv, BufOK
    <3>3. have'[r] = b /\ pc'[r] \in Using
      BY <3>2, <1>5
    <3> QED BY <2>1, <1>2, <1>3, <3>1, <3>3, UsingFacts DEF UserOK
  <2>2. CASE q # p
    <3>1. UserOK(q) /\ pc'[q] = pc[q] /\ have'[q] = have[q]
      BY <2>2, <1>3 DEF BufInv
    <3> QED BY <1>2, <1>5, <3>1 DEF UserOK
  <2> QED BY <2>1, <2>2
<1>10. ASSUME NEW c \in Buf PROVE BufOK(c)'
  BY <1>2, <1>5 DEF BufInv, BufOK
<1> QED BY <1>4, <1>6, <1>7, <1>8, <1>9, <1>10 DEF BufInv

\* bget() recycles a buffer.
LEMMA BgetRecycleOK == ASSUME BufInv, NEW p \in Proc, BgetRecycle(p) PROVE BufInv'
<1>1. PICK i \in Clean :
        /\ sector' = [sector EXCEPT ![lru[i]] = want[p]]
        /\ busy' = [busy EXCEPT ![lru[i]] = TRUE]
        /\ valid' = [valid EXCEPT ![lru[i]] = FALSE]
        /\ have' = [have EXCEPT ![p] = lru[i]]
  BY Zenon DEF BgetRecycle
<1>2. /\ pc[p] = "bget" /\ pc' = [pc EXCEPT ![p] = "read"] /\ ~Halted /\ Cached(want[p]) = {}
      /\ UNCHANGED <<dirty, data, lru, idequeue, disk, want, writer>>
  BY DEF BgetRecycle
<1> DEFINE b == lru[i]
<1>3. b \in Buf /\ ~busy[b] /\ ~dirty[b] /\ want[p] \in Sector
  <2>1. i \in 1 .. NBUF /\ ~busy[b] /\ ~dirty[b]
    BY DEF Clean
  <2> QED BY <1>2, <2>1 DEF BufInv, TypeOK, UserOK
<1> HIDE DEF b
<1>4. /\ sector'[b] = want[p] /\ busy'[b] /\ ~valid'[b] /\ have'[p] = b /\ pc'[p] = "read"
      /\ \A c \in Buf : c # b => sector'[c] = sector[c] /\ busy'[c] = busy[c] /\ valid'[c] = valid[c]
      /\ \A q \in Proc : q # p => pc'[q] = pc[q] /\ have'[q] = have[q]
  BY <1>1, <1>2, <1>3 DEF BufInv, TypeOK, b
<1>5. TypeOK'
  <2>1. b \in 0 .. NBUF
    BY <1>3, CacheAssumption DEF Buf
  <2> QED BY <1>1, <1>2, <1>3, <2>1 DEF BufInv, TypeOK, PC, Reading, b
<1>6. \A q \in Proc : pc[q] \in Using => have[q] # b /\ q # p /\ pc'[q] = pc[q] /\ have'[q] = have[q]
  BY <1>2, <1>3, <1>4, UsingFacts DEF BufInv, UserOK
<1>7. \A q \in Proc : pc'[q] \in Using => (q = p \/ pc[q] \in Using)
  BY <1>4
<1>8. Alone'
  BY <1>4, <1>6, <1>7 DEF BufInv, Alone
<1>9. OneBufferPerSector'
  <2>1. \A c \in Buf : sector[c] # want[p]
    BY <1>2 DEF Cached
  <2> QED BY <2>1, <1>4 DEF BufInv, OneBufferPerSector
<1>10. QueueOK'
  <2>1. ASSUME NEW q \in Proc, pc[q] \in {"read_asleep", "write_asleep"} PROVE pc'[q] = pc[q] /\ have'[q] = have[q]
    BY <2>1, <1>2, <1>4
  <2> QED BY <1>2, <2>1 DEF BufInv, QueueOK
<1>11. PanicOnlyIfExhausted'
  BY <1>2, <1>4 DEF PanicOnlyIfExhausted, Halted
<1>12. ASSUME NEW q \in Proc PROVE UserOK(q)'
  <2>1. CASE q = p
    BY <2>1, <1>2, <1>3, <1>4, UsingFacts DEF UserOK
  <2>2. CASE q # p
    <3>1. UserOK(q) /\ pc'[q] = pc[q] /\ have'[q] = have[q]
      BY <2>2, <1>4 DEF BufInv
    <3>2. pc[q] \in Using => have[q] \in Buf /\ have[q] # b
      BY <3>1, <1>6 DEF UserOK
    <3>3. pc[q] = "bget_asleep" => \E r \in Proc : have'[r] = have'[q] /\ pc'[r] \in Using
      BY <3>1, <1>6 DEF UserOK
    <3>4. pc[q] \in Writing \cup {"hold", "read_woken", "write", "write_asleep", "read", "read_asleep", "write_woken"} => pc[q] \in Using
      BY UsingFacts
    <3> QED BY <1>2, <1>4, <3>1, <3>2, <3>3, <3>4 DEF UserOK
  <2> QED BY <2>1, <2>2
<1>13. ASSUME NEW c \in Buf PROVE BufOK(c)'
  <2>1. CASE c = b
    <3>1. pc'[p] \in Using
      BY <1>4, UsingFacts
    <3>2. BufOK(c)
      BY DEF BufInv
    <3> QED BY <2>1, <1>2, <1>3, <1>4, <3>1, <3>2 DEF BufOK
  <2>2. CASE c # b
    BY <2>2, <1>2, <1>4, <1>6 DEF BufInv, BufOK
  <2> QED BY <2>1, <2>2
<1> QED BY <1>5, <1>8, <1>9, <1>10, <1>11, <1>12, <1>13 DEF BufInv

\* bget() finds no buffer.
LEMMA BgetPanicOK == ASSUME BufInv, NEW p \in Proc, BgetPanic(p) PROVE BufInv'
<1>1. /\ pc[p] = "bget" /\ pc' = [pc EXCEPT ![p] = "panic"] /\ Clean = {}
      /\ UNCHANGED <<sector, busy, valid, dirty, data, lru, idequeue, disk, want, have, writer>>
  BY DEF BgetPanic, bufs
<1>2. pc'[p] = "panic" /\ \A q \in Proc : q # p => pc'[q] = pc[q]
  BY <1>1 DEF BufInv, TypeOK
<1>3. TypeOK'
  BY <1>1 DEF BufInv, TypeOK, PC
<1>4. \A q \in Proc : pc'[q] \in Using <=> pc[q] \in Using
  BY <1>1, <1>2, UsingFacts
<1>5. Alone' /\ OneBufferPerSector'
  BY <1>1, <1>4 DEF BufInv, Alone, OneBufferPerSector
<1>6. QueueOK'
  BY <1>1, <1>2 DEF BufInv, QueueOK
<1>7. PanicOnlyIfExhausted'
  <2>1. ASSUME NEW b \in Buf PROVE dirty[b] \/ \E q \in Proc : have[q] = b /\ pc[q] \in Using
    <3>1. PICK i \in 1 .. NBUF : lru[i] = b
      BY DEF BufInv, BufOK
    <3>2. busy[b] \/ dirty[b]
      BY <1>1, <3>1 DEF Clean
    <3> QED BY <3>2 DEF BufInv, BufOK
  <2> QED BY <1>1, <1>4, <2>1 DEF PanicOnlyIfExhausted
<1>8. ASSUME NEW q \in Proc PROVE UserOK(q)'
  <2>1. CASE q = p
    BY <2>1, <1>2, UsingFacts DEF UserOK
  <2>2. CASE q # p
    BY <2>2, <1>1, <1>2, <1>4 DEF BufInv, UserOK
  <2> QED BY <2>1, <2>2
<1>9. ASSUME NEW b \in Buf PROVE BufOK(b)'
  BY <1>1, <1>4 DEF BufInv, BufOK
<1> QED BY <1>3, <1>5, <1>6, <1>7, <1>8, <1>9 DEF BufInv

\* bwrite() and log_write() of the holder: the contents and B_DIRTY change, and
\* the holder goes on to npc.
LEMMA HolderWrites ==
  ASSUME BufInv, NEW p \in Proc, pc[p] = "hold", NEW v \in Val, NEW npc \in {"hold", "write"},
         data' = [data EXCEPT ![have[p]] = v], dirty' = [dirty EXCEPT ![have[p]] = TRUE],
         pc' = [pc EXCEPT ![p] = npc],
         UNCHANGED <<sector, busy, valid, lru, idequeue, disk, want, have, writer>>
  PROVE  BufInv'
<1> DEFINE b == have[p]
<1>1. b \in Buf /\ valid[b] /\ busy[b]
  BY UsingFacts DEF BufInv, UserOK
<1>2. /\ pc'[p] = npc /\ \A q \in Proc : q # p => pc'[q] = pc[q]
      /\ data'[b] = v /\ dirty'[b] /\ \A c \in Buf : c # b => data'[c] = data[c] /\ dirty'[c] = dirty[c]
  BY <1>1 DEF BufInv, TypeOK
<1>3. TypeOK'
  BY <1>1 DEF BufInv, TypeOK, PC, Writing
<1>4. \A q \in Proc : pc'[q] \in Using <=> pc[q] \in Using
  BY <1>2, UsingFacts
<1>5. Alone' /\ OneBufferPerSector'
  BY <1>4 DEF BufInv, Alone, OneBufferPerSector
<1>6. QueueOK'
  BY <1>2 DEF BufInv, QueueOK
<1>7. PanicOnlyIfExhausted'
  <2>1. Halted' => Halted
    BY <1>2 DEF Halted
  <2> QED BY <1>2, <1>4, <2>1 DEF BufInv, PanicOnlyIfExhausted
<1>8. \A q \in Proc : q # p /\ pc[q] \in Using => have[q] # b
  BY UsingFacts DEF BufInv, Alone
<1>9. ASSUME NEW q \in Proc PROVE UserOK(q)'
  <2>1. CASE q = p
    BY <2>1, <1>1, <1>2, <1>3, UsingFacts DEF BufInv, UserOK
  <2>2. CASE q # p
    <3>1. UserOK(q) /\ pc'[q] = pc[q]
      BY <2>2, <1>2 DEF BufInv
    <3>2. pc[q] \in Using => have[q] \in Buf /\ have[q] # b
      BY <2>2, <3>1, <1>8 DEF UserOK
    <3>3. pc[q] \in {"write", "write_asleep", "read_woken", "write_woken"} => pc[q] \in Using
      BY UsingFacts
    <3> QED BY <1>2, <1>4, <3>1, <3>2, <3>3 DEF UserOK
  <2> QED BY <2>1, <2>2
<1>10. ASSUME NEW c \in Buf PROVE BufOK(c)'
  <2>1. BufOK(c)
    BY DEF BufInv
  <2>2. CASE c = b
    BY <2>1, <2>2, <1>1, <1>2, <1>4 DEF BufOK
  <2>3. CASE c # b
    BY <2>1, <2>3, <1>2, <1>4 DEF BufOK
  <2> QED BY <2>2, <2>3
<1> QED BY <1>3, <1>5, <1>6, <1>7, <1>9, <1>10 DEF BufInv

\* What a holder may put in its sector.
LEMMA PutsInVal ==
  ASSUME BufInv, NEW p \in Proc, pc[p] = "hold" PROVE Puts[want[p]] \subseteq Val
<1>1. want[p] \in Sector
  BY UsingFacts DEF BufInv, UserOK
<1> QED BY <1>1, CacheAssumption

\* bwrite().
LEMMA BwriteOK == ASSUME BufInv, NEW p \in Proc, Bwrite(p) PROVE BufInv'
<1>1. PICK v \in Val : data' = [data EXCEPT ![have[p]] = v]
  BY PutsInVal DEF Bwrite
<1> QED BY <1>1, HolderWrites, Zenon DEF Bwrite

\* log_write().
LEMMA PinOK == ASSUME BufInv, NEW p \in Proc, Pin(p) PROVE BufInv'
<1>1. PICK v \in Val : data' = [data EXCEPT ![have[p]] = v]
  BY PutsInVal DEF Pin
<1>2. pc' = [pc EXCEPT ![p] = "hold"]
  BY DEF Pin, BufInv, TypeOK
<1> QED BY <1>1, <1>2, HolderWrites, Zenon DEF Pin

\* The unlinking and linking of brelse() keep the list a list of all buffers.
LEMMA ToFrontOK ==
  ASSUME NEW b \in Buf, lru \in [1 .. NBUF -> Buf], \A c \in Buf : \E i \in 1 .. NBUF : lru[i] = c
  PROVE  /\ ToFront(b) \in [1 .. NBUF -> Buf]
         /\ \A c \in Buf : \E i \in 1 .. NBUF : ToFront(b)[i] = c
<1> DEFINE k == CHOOSE i \in 1 .. NBUF : lru[i] = b
           new == [i \in 1 .. NBUF |-> IF i = 1 THEN b ELSE IF i <= k THEN lru[i - 1] ELSE lru[i]]
<1>1. k \in 1 .. NBUF /\ lru[k] = b
  BY Zenon
<1>2. ToFront(b) = new
  BY DEF ToFront
<1>3. NBUF \in Nat /\ NBUF >= 1
  BY CacheAssumption
<1> HIDE DEF k
<1>4. new \in [1 .. NBUF -> Buf]
  <2>1. ASSUME NEW i \in 1 .. NBUF PROVE (IF i = 1 THEN b ELSE IF i <= k THEN lru[i - 1] ELSE lru[i]) \in Buf
    <3>1. i # 1 => i - 1 \in 1 .. NBUF
      BY <1>3
    <3> QED BY <3>1
  <2> QED BY <2>1, Zenon
<1>5. ASSUME NEW c \in Buf PROVE \E i \in 1 .. NBUF : new[i] = c
  <2>1. PICK i \in 1 .. NBUF : lru[i] = c
    OBVIOUS
  <2>2. CASE i < k
    <3>1. i + 1 \in 1 .. NBUF /\ i + 1 # 1 /\ i + 1 <= k /\ (i + 1) - 1 = i
      BY <2>2, <1>1, <1>3
    <3>2. new[i + 1] = lru[(i + 1) - 1]
      BY <3>1
    <3> QED BY <3>1, <3>2, <2>1
  <2>3. CASE i = k
    <3>1. 1 \in 1 .. NBUF /\ c = b
      BY <2>1, <2>3, <1>1, <1>3
    <3>2. new[1] = b
      BY <3>1
    <3> QED BY <3>1, <3>2
  <2>4. CASE i > k
    <3>1. i # 1 /\ ~(i <= k)
      BY <2>4, <1>1, <1>3
    <3>2. new[i] = lru[i]
      BY <3>1
    <3> QED BY <3>2, <2>1
  <2> QED BY <2>2, <2>3, <2>4, <1>1, <1>3
<1> HIDE DEF new
<1> QED BY <1>2, <1>4, <1>5

\* The holder lets go of the buffer.
LEMMA BrelseOK == ASSUME BufInv, NEW p \in Proc, Brelse(p) PROVE BufInv'
<1> DEFINE b == have[p]
           f == [pc EXCEPT ![p] = "user"]
<1>1. /\ pc[p] = "hold" /\ ~Halted /\ lru' = ToFront(b)
      /\ busy' = [busy EXCEPT ![b] = FALSE] /\ have' = [have EXCEPT ![p] = 0]
      /\ want' = [want EXCEPT ![p] = NoSector]
      /\ UNCHANGED <<sector, valid, dirty, data, idequeue, disk>>
      /\ writer' \subseteq Proc
  BY DEF Brelse, Without, BufInv, TypeOK
<1>2. pc' = [q \in Proc |-> IF f[q] \in Asleep /\ have[q] = b THEN Woken[f[q]] ELSE f[q]]
  BY DEF Brelse, Wakeup
<1>3. b \in Buf /\ busy[b] /\ valid[b]
  BY <1>1, UsingFacts DEF BufInv, UserOK
<1>4. f[p] = "user" /\ \A q \in Proc : q # p => f[q] = pc[q]
  BY DEF BufInv, TypeOK
<1>5. \A q \in Proc : q # p /\ pc[q] \in Using => have[q] # b
  BY <1>1, UsingFacts DEF BufInv, Alone
<1>6. pc'[p] = "user"
  BY <1>2, <1>4 DEF Asleep
<1>7. ASSUME NEW q \in Proc, q # p
      PROVE  IF pc[q] = "bget_asleep" /\ have[q] = b THEN pc'[q] = "bget" ELSE pc'[q] = pc[q]
  <2>1. f[q] = pc[q]
    BY <1>4, <1>7
  <2>2. CASE pc[q] \in Asleep /\ have[q] = b
    <3>1. pc[q] \notin {"read_asleep", "write_asleep"}
      BY <1>5, <1>7, <2>2, UsingFacts
    <3>2. pc[q] = "bget_asleep"
      BY <2>2, <3>1 DEF Asleep
    <3>3. pc'[q] = Woken["bget_asleep"]
      BY <1>2, <2>1, <2>2, <3>2
    <3>4. Woken["bget_asleep"] = "bget"
      BY DEF Woken
    <3> QED BY <3>2, <3>3, <3>4, <2>2
  <2>3. CASE ~(pc[q] \in Asleep /\ have[q] = b)
    BY <1>2, <2>1, <2>3 DEF Asleep
  <2> QED BY <2>2, <2>3
<1> HIDE DEF f
<1>8. /\ have'[p] = 0 /\ want'[p] = NoSector /\ ~busy'[b]
      /\ \A q \in Proc : q # p => have'[q] = have[q] /\ want'[q] = want[q]
      /\ \A c \in Buf : c # b => busy'[c] = busy[c]
  BY <1>1, <1>3 DEF BufInv, TypeOK
<1>9. /\ lru' \in [1 .. NBUF -> Buf]
      /\ \A c \in Buf : \E i \in 1 .. NBUF : lru'[i] = c
  <2>1. lru \in [1 .. NBUF -> Buf] /\ \A c \in Buf : \E i \in 1 .. NBUF : lru[i] = c
    BY DEF BufInv, TypeOK, BufOK
  <2>2. /\ ToFront(b) \in [1 .. NBUF -> Buf]
        /\ \A c \in Buf : \E i \in 1 .. NBUF : ToFront(b)[i] = c
    BY <1>3, <2>1, ToFrontOK, Zenon
  <2> QED BY <1>1, <2>2
<1>10. TypeOK'
  <2>1. pc' \in [Proc -> PC]
    <3>1. \A q \in Proc : pc'[q] \in PC
      BY <1>6, <1>7, Zenon DEF BufInv, TypeOK, PC
    <3> QED BY <1>2, <3>1
  <2>2. have' \in [Proc -> 0 .. NBUF]
    <3>1. 0 \in 0 .. NBUF
      BY CacheAssumption
    <3> QED BY <1>1, <3>1 DEF BufInv, TypeOK
  <2> QED BY <1>1, <1>9, <2>1, <2>2, Zenon DEF BufInv, TypeOK
<1>11. \A q \in Proc : pc'[q] \in Using <=> (q # p /\ pc[q] \in Using)
  BY <1>6, <1>7, UsingFacts
<1>12. \A q \in Proc : pc'[q] \in Using => pc'[q] = pc[q] /\ have'[q] = have[q] /\ have[q] # b
  BY <1>5, <1>7, <1>8, <1>11, UsingFacts
<1>13. Alone' /\ OneBufferPerSector'
  BY <1>1, <1>11, <1>12 DEF BufInv, Alone, OneBufferPerSector
<1>14. QueueOK'
  <2>1. ASSUME NEW q \in Proc, pc[q] \in {"read_asleep", "write_asleep"} PROVE pc'[q] = pc[q] /\ have'[q] = have[q]
    BY <2>1, <1>1, <1>7, <1>8
  <2> QED BY <1>1, <2>1 DEF BufInv, QueueOK
<1>15. PanicOnlyIfExhausted'
  <2>1. \A q \in Proc : pc'[q] # "panic"
    BY <1>1, <1>6, <1>7 DEF Halted
  <2> QED BY <2>1 DEF PanicOnlyIfExhausted, Halted
<1>16. ASSUME NEW q \in Proc PROVE UserOK(q)'
  <2>1. CASE q = p
    BY <2>1, <1>6, UsingFacts DEF UserOK
  <2>2. CASE q # p
    <3>1. UserOK(q) /\ have'[q] = have[q] /\ want'[q] = want[q]
      BY <2>2, <1>8 DEF BufInv
    <3>2. CASE pc[q] = "bget_asleep" /\ have[q] = b
      <4>1. pc'[q] = "bget"
        BY <2>2, <3>2, <1>7
      <4> QED BY <4>1, <3>1, <3>2, UsingFacts DEF UserOK
    <3>3. CASE ~(pc[q] = "bget_asleep" /\ have[q] = b)
      <4>1. pc'[q] = pc[q]
        BY <2>2, <3>3, <1>7
      <4>2. pc[q] \in Using => have[q] \in Buf /\ have[q] # b
        BY <2>2, <3>1, <1>5 DEF UserOK
      <4>3. pc[q] = "bget_asleep" => \E r \in Proc : have'[r] = have'[q] /\ pc'[r] \in Using
        <5>1. ASSUME pc[q] = "bget_asleep" PROVE \E r \in Proc : have'[r] = have'[q] /\ pc'[r] \in Using
          <6>1. PICK r \in Proc : have[r] = have[q] /\ pc[r] \in Using
            BY <5>1, <3>1 DEF UserOK
          <6>2. r # p
            BY <6>1, <5>1, <3>3
          <6> QED BY <6>1, <6>2, <3>1, <1>8, <1>11
        <5> QED BY <5>1
      <4>4. UserOK(q)' <=> UserOK(q)
        BY <1>1, <1>8, <3>1, <4>1, <4>2, <4>3, UsingFacts DEF UserOK
      <4> QED BY <3>1, <4>4
    <3> QED BY <3>2, <3>3
  <2> QED BY <2>1, <2>2
<1>17. ASSUME NEW c \in Buf PROVE BufOK(c)'
  <2>1. BufOK(c)
    BY DEF BufInv
  <2>2. busy'[c] => \E q \in Proc : have'[q] = c /\ pc'[q] \in Using
    <3>1. ASSUME busy'[c] PROVE \E q \in Proc : have'[q] = c /\ pc'[q] \in Using
      <4>1. c # b /\ busy[c]
        BY <3>1, <1>8
      <4>2. PICK q \in Proc : have[q] = c /\ pc[q] \in Using
        BY <4>1, <2>1 DEF BufOK
      <4> QED BY <4>1, <4>2, <1>8, <1>11
    <3> QED BY <3>1
  <2> QED BY <2>1, <2>2, <1>1, <1>9 DEF BufOK
<1> QED BY <1>10, <1>13, <1>14, <1>15, <1>16, <1>17 DEF BufInv

\* iderw() appends the buffer to the queue; its tests never make it panic.
LEMMA IderwOK == ASSUME BufInv, NEW p \in Proc, Iderw(p) PROVE BufInv'
<1> DEFINE b == have[p]
           n == Len(idequeue)
<1>1. pc[p] \in {"read", "write"} /\ UNCHANGED <<sector, busy, valid, dirty, data, lru, disk, want, have, writer>>
  BY DEF Iderw, bufs
<1>2. pc[p] \in Using /\ b \in Buf /\ busy[b] /\ ~Synced(b)
  BY <1>1, UsingFacts DEF BufInv, UserOK, Synced
<1>3. /\ idequeue' = Append(idequeue, b)
      /\ pc' = [pc EXCEPT ![p] = IF pc[p] = "read" THEN "read_asleep" ELSE "write_asleep"]
  BY <1>2 DEF Iderw
<1>4. /\ pc'[p] = (IF pc[p] = "read" THEN "read_asleep" ELSE "write_asleep")
      /\ \A q \in Proc : q # p => pc'[q] = pc[q]
  BY <1>3 DEF BufInv, TypeOK
<1>5. /\ n \in Nat /\ Len(idequeue') = n + 1 /\ idequeue'[n + 1] = b
      /\ \A i \in 1 .. n : idequeue'[i] = idequeue[i] /\ i \in 1 .. n + 1
      /\ idequeue' \in Seq(Buf)
  BY <1>2, <1>3 DEF BufInv, TypeOK
<1>6. TypeOK'
  BY <1>1, <1>3, <1>5 DEF BufInv, TypeOK, PC, Reading, Writing
<1>7. \A q \in Proc : pc'[q] \in Using <=> pc[q] \in Using
  BY <1>1, <1>4, UsingFacts
<1>8. Alone' /\ OneBufferPerSector'
  BY <1>1, <1>7 DEF BufInv, Alone, OneBufferPerSector
<1>9. \A i \in 1 .. n : idequeue[i] # b
  <2>1. ASSUME NEW i \in 1 .. n, idequeue[i] = b PROVE FALSE
    <3>1. PICK q \in Proc : have[q] = b /\ pc[q] \in {"read_asleep", "write_asleep"}
      BY <2>1 DEF BufInv, QueueOK
    <3>2. q = p
      BY <3>1, <1>2, UsingFacts DEF BufInv, Alone
    <3> QED BY <3>1, <3>2, <1>1
  <2> QED BY <2>1
<1> HIDE DEF n, b
<1>10. QueueOK'
  <2>1. ASSUME NEW i \in 1 .. n + 1
        PROVE  \E q \in Proc : have'[q] = idequeue'[i] /\ pc'[q] \in {"read_asleep", "write_asleep"}
    <3>1. CASE i = n + 1
      BY <3>1, <1>1, <1>4, <1>5 DEF b
    <3>2. CASE i # n + 1
      <4>1. i \in 1 .. n
        BY <3>2, <1>5
      <4>2. PICK q \in Proc : have[q] = idequeue[i] /\ pc[q] \in {"read_asleep", "write_asleep"}
        BY <4>1 DEF BufInv, QueueOK, n
      <4>3. q # p
        BY <4>2, <1>1
      <4> QED BY <4>1, <4>2, <4>3, <1>1, <1>4, <1>5
    <3> QED BY <3>1, <3>2
  <2>2. ASSUME NEW i \in 1 .. n + 1, NEW j \in 1 .. n + 1, idequeue'[i] = idequeue'[j] PROVE i = j
    <3>1. CASE i \in 1 .. n /\ j \in 1 .. n
      BY <3>1, <2>2, <1>5 DEF BufInv, QueueOK, n
    <3>2. CASE i \in 1 .. n /\ j = n + 1
      BY <3>2, <2>2, <1>5, <1>9
    <3>3. CASE i = n + 1 /\ j \in 1 .. n
      BY <3>3, <2>2, <1>5, <1>9
    <3> QED BY <3>1, <3>2, <3>3, <1>5
  <2> QED BY <2>1, <2>2, <1>5 DEF QueueOK
<1>11. PanicOnlyIfExhausted'
  <2>1. Halted' => Halted
    BY <1>4 DEF Halted
  <2> QED BY <1>1, <1>7, <2>1 DEF BufInv, PanicOnlyIfExhausted
<1>12. ASSUME NEW q \in Proc PROVE UserOK(q)'
  <2>1. CASE q = p
    <3>1. UserOK(p)
      BY DEF BufInv
    <3>2. n + 1 \in 1 .. n + 1
      BY <1>5
    <3>3. \E i \in 1 .. Len(idequeue') : idequeue'[i] = have'[p]
      BY <3>2, <1>1, <1>5 DEF b
    <3>4. CASE pc[p] = "read"
      BY <2>1, <3>1, <3>3, <3>4, <1>1, <1>4, UsingFacts DEF UserOK
    <3>5. CASE pc[p] = "write"
      BY <2>1, <3>1, <3>3, <3>5, <1>1, <1>4, UsingFacts DEF UserOK
    <3> QED BY <3>4, <3>5, <1>1
  <2>2. CASE q # p
    <3>1. UserOK(q) /\ pc'[q] = pc[q]
      BY <2>2, <1>4 DEF BufInv
    <3>2. pc[q] \in {"read_asleep", "write_asleep"} => \E i \in 1 .. Len(idequeue') : idequeue'[i] = have'[q]
      BY <3>1, <1>1, <1>5, Zenon DEF UserOK, n
    <3> QED BY <3>1, <3>2, <1>1, <1>7 DEF UserOK
  <2> QED BY <2>1, <2>2
<1>13. ASSUME NEW c \in Buf PROVE BufOK(c)'
  BY <1>1, <1>7 DEF BufInv, BufOK
<1> QED BY <1>6, <1>8, <1>10, <1>11, <1>12, <1>13 DEF BufInv

\* The process woken by ideintr() finds its request done.
LEMMA IderwWokenOK == ASSUME BufInv, NEW p \in Proc, IderwWoken(p) PROVE BufInv' /\ pc' = [pc EXCEPT ![p] = "hold"]
<1>1. /\ pc[p] \in {"read_woken", "write_woken"}
      /\ UNCHANGED <<sector, busy, valid, dirty, data, lru, idequeue, disk, want, have, writer>>
  BY DEF IderwWoken, bufs
<1>2. Synced(have[p])
  BY <1>1, UsingFacts DEF BufInv, UserOK, Synced
<1>3. pc' = [pc EXCEPT ![p] = "hold"]
  BY <1>2 DEF IderwWoken
<1>4. pc'[p] = "hold" /\ \A q \in Proc : q # p => pc'[q] = pc[q]
  BY <1>3 DEF BufInv, TypeOK
<1>5. TypeOK'
  BY <1>1, <1>3 DEF BufInv, TypeOK, PC
<1>6. \A q \in Proc : pc'[q] \in Using <=> pc[q] \in Using
  BY <1>1, <1>4, UsingFacts
<1>7. Alone' /\ OneBufferPerSector'
  BY <1>1, <1>6 DEF BufInv, Alone, OneBufferPerSector
<1>8. QueueOK'
  BY <1>1, <1>4 DEF BufInv, QueueOK
<1>9. PanicOnlyIfExhausted'
  <2>1. Halted' => Halted
    BY <1>4 DEF Halted
  <2> QED BY <1>1, <1>6, <2>1 DEF BufInv, PanicOnlyIfExhausted
<1>10. ASSUME NEW q \in Proc PROVE UserOK(q)'
  <2>1. UserOK(q)
    BY DEF BufInv
  <2>2. CASE q = p
    BY <2>1, <2>2, <1>1, <1>4, UsingFacts, Zenon DEF UserOK
  <2>3. CASE q # p
    BY <2>1, <2>3, <1>1, <1>4, <1>6 DEF UserOK
  <2> QED BY <2>2, <2>3
<1>11. ASSUME NEW c \in Buf PROVE BufOK(c)'
  BY <1>1, <1>6 DEF BufInv, BufOK
<1> QED BY <1>3, <1>5, <1>7, <1>8, <1>9, <1>10, <1>11 DEF BufInv

\* The request at the head of the queue belongs to one process, asleep on it.
LEMMA HeadRequest ==
  ASSUME BufInv, idequeue # <<>>
  PROVE  /\ idequeue[1] \in Buf /\ sector[idequeue[1]] \in Sector
         /\ \E q \in Proc :
              /\ have[q] = idequeue[1] /\ pc[q] \in {"read_asleep", "write_asleep"}
              /\ sector[idequeue[1]] = want[q]
              /\ pc[q] = "write_asleep" <=> dirty[idequeue[1]]
              /\ \A r \in Proc : r # q /\ pc[r] \in Using => have[r] # idequeue[1]
<1>1. 1 \in 1 .. Len(idequeue) /\ idequeue[1] \in Buf
  BY DEF BufInv, TypeOK
<1>2. PICK q \in Proc : have[q] = idequeue[1] /\ pc[q] \in {"read_asleep", "write_asleep"}
  BY <1>1 DEF BufInv, QueueOK
<1>3. pc[q] \in Using /\ UserOK(q)
  BY <1>2, UsingFacts DEF BufInv
<1>4. sector[idequeue[1]] = want[q] /\ want[q] \in Sector
  BY <1>2, <1>3 DEF UserOK
<1>5. pc[q] = "write_asleep" <=> dirty[idequeue[1]]
  BY <1>1, <1>2, <1>3 DEF BufInv, UserOK, BufOK
<1>6. \A r \in Proc : r # q /\ pc[r] \in Using => have[r] # idequeue[1]
  BY <1>2, <1>3 DEF BufInv, Alone
<1> QED BY <1>1, <1>2, <1>4, <1>5, <1>6

\* The disk finishes a request.
LEMMA IdeintrOK == ASSUME BufInv, Ideintr PROVE BufInv'
<1> DEFINE b == idequeue[1]
           n == Len(idequeue)
<1>1. /\ idequeue # <<>> /\ Head(idequeue) = b /\ idequeue' = Tail(idequeue)
      /\ UNCHANGED <<sector, busy, lru, want, have, writer>>
  BY DEF Ideintr
<1>2. /\ valid' = [valid EXCEPT ![b] = TRUE] /\ dirty' = [dirty EXCEPT ![b] = FALSE]
      /\ pc' = [r \in Proc |-> IF pc[r] \in Asleep /\ have[r] = b THEN Woken[pc[r]] ELSE pc[r]]
      /\ dirty[b] => disk' = [disk EXCEPT ![sector[b]] = data[b]] /\ data' = data
      /\ ~dirty[b] => disk' = disk /\ \E v \in Received(b) : data' = [data EXCEPT ![b] = v]
  BY <1>1 DEF Ideintr, Wakeup
<1>3. b \in Buf /\ sector[b] \in Sector
  BY <1>1, HeadRequest
<1>4. PICK q \in Proc : /\ have[q] = b /\ pc[q] \in {"read_asleep", "write_asleep"}
                        /\ pc[q] = "write_asleep" <=> dirty[b]
                        /\ \A r \in Proc : r # q /\ pc[r] \in Using => have[r] # b
  BY <1>1, HeadRequest
<1>5. pc'[q] = (IF pc[q] = "read_asleep" THEN "read_woken" ELSE "write_woken")
  <2>1. Woken["read_asleep"] = "read_woken" /\ Woken["write_asleep"] = "write_woken"
    BY DEF Woken
  <2>2. pc'[q] = Woken[pc[q]]
    BY <1>2, <1>4 DEF Asleep
  <2> QED BY <1>4, <2>1, <2>2
<1>6. ASSUME NEW r \in Proc, r # q
      PROVE  IF pc[r] = "bget_asleep" /\ have[r] = b THEN pc'[r] = "bget" ELSE pc'[r] = pc[r]
  <2>1. CASE pc[r] \in Asleep /\ have[r] = b
    <3>1. pc[r] = "bget_asleep"
      BY <1>4, <1>6, <2>1, UsingFacts DEF Asleep
    <3>2. Woken["bget_asleep"] = "bget"
      BY DEF Woken
    <3>3. pc'[r] = Woken[pc[r]]
      BY <1>2, <2>1
    <3> QED BY <2>1, <3>1, <3>2, <3>3
  <2>2. CASE ~(pc[r] \in Asleep /\ have[r] = b)
    BY <1>2, <2>2 DEF Asleep
  <2> QED BY <2>1, <2>2
<1>7. /\ valid'[b] /\ ~dirty'[b]
      /\ \A c \in Buf : c # b => valid'[c] = valid[c] /\ dirty'[c] = dirty[c] /\ data'[c] = data[c]
  <2>1. valid'[b] /\ ~dirty'[b] /\ \A c \in Buf : c # b => valid'[c] = valid[c] /\ dirty'[c] = dirty[c]
    BY <1>2, <1>3 DEF BufInv, TypeOK
  <2>2. \A c \in Buf : c # b => data'[c] = data[c]
    <3>1. CASE dirty[b]
      BY <3>1, <1>2
    <3>2. CASE ~dirty[b]
      <4>1. PICK v \in Received(b) : data' = [data EXCEPT ![b] = v]
        BY <3>2, <1>2
      <4> QED BY <4>1 DEF BufInv, TypeOK
    <3> QED BY <3>1, <3>2
  <2> QED BY <2>1, <2>2
<1>8. data' \in [Buf -> Val] /\ disk' \in [Sector -> Val]
  <2>1. CASE dirty[b]
    BY <2>1, <1>2, <1>3, Zenon DEF BufInv, TypeOK
  <2>2. CASE ~dirty[b]
    <3>1. PICK v \in Received(b) : data' = [data EXCEPT ![b] = v]
      BY <2>2, <1>2
    <3>2. v \in Val
      <4>1. v = disk[sector[b]] \/ v = data[b]
        BY DEF Received
      <4> QED BY <4>1, <1>3 DEF BufInv, TypeOK
    <3> QED BY <2>2, <3>1, <3>2, <1>2, Zenon DEF BufInv, TypeOK
  <2> QED BY <2>1, <2>2
<1>9. /\ n \in Nat /\ n >= 1 /\ Len(idequeue') = n - 1 /\ idequeue' \in Seq(Buf)
      /\ \A i \in 1 .. n - 1 : idequeue'[i] = idequeue[i + 1] /\ i + 1 \in 1 .. n
  BY <1>1 DEF BufInv, TypeOK
<1> HIDE DEF n, b
<1>10. TypeOK'
  <2>1. pc' \in [Proc -> PC]
    <3>1. \A r \in Proc : pc'[r] \in PC
      BY <1>5, <1>6 DEF BufInv, TypeOK, PC, Reading, Writing
    <3> QED BY <1>2, <3>1
  <2>2. valid' \in [Buf -> BOOLEAN] /\ dirty' \in [Buf -> BOOLEAN]
    BY <1>2, Zenon DEF BufInv, TypeOK
  <2> QED BY <1>1, <1>8, <1>9, <2>1, <2>2 DEF BufInv, TypeOK
<1>11. \A r \in Proc : pc'[r] \in Using <=> pc[r] \in Using
  BY <1>4, <1>5, <1>6, UsingFacts
<1>12. Alone' /\ OneBufferPerSector'
  BY <1>1, <1>11 DEF BufInv, Alone, OneBufferPerSector
<1>13. \A i \in 1 .. n : idequeue[i] = b => i = 1
  BY <1>9 DEF BufInv, QueueOK, n, b
<1>14. QueueOK'
  <2>1. ASSUME NEW i \in 1 .. n - 1
        PROVE  \E r \in Proc : have'[r] = idequeue'[i] /\ pc'[r] \in {"read_asleep", "write_asleep"}
    <3>1. PICK r \in Proc : have[r] = idequeue[i + 1] /\ pc[r] \in {"read_asleep", "write_asleep"}
      BY <1>9 DEF BufInv, QueueOK, n
    <3>2. idequeue[i + 1] # b
      BY <1>9, <1>13
    <3>3. r # q
      BY <3>1, <3>2, <1>4
    <3> QED BY <3>1, <3>2, <3>3, <1>1, <1>6, <1>9
  <2>2. ASSUME NEW i \in 1 .. n - 1, NEW j \in 1 .. n - 1, idequeue'[i] = idequeue'[j] PROVE i = j
    <3>1. i + 1 = j + 1
      BY <2>2, <1>9 DEF BufInv, QueueOK, n
    <3> QED BY <3>1, <1>9
  <2> QED BY <2>1, <2>2, <1>9 DEF QueueOK
<1>15. PanicOnlyIfExhausted'
  <2>1. Halted' => Halted
    BY <1>5, <1>6 DEF Halted
  <2>2. \E r \in Proc : have'[r] = b /\ pc'[r] \in Using
    BY <1>1, <1>4, <1>11, UsingFacts
  <2> QED BY <1>1, <1>7, <1>11, <2>1, <2>2 DEF BufInv, PanicOnlyIfExhausted
<1>16. ASSUME NEW r \in Proc PROVE UserOK(r)'
  <2>1. UserOK(r)
    BY DEF BufInv
  <2>2. CASE r = q
    <3>1. pc[q] \in Using
      BY <1>4, UsingFacts
    <3>2. want'[q] \in Sector /\ have'[q] = b /\ busy'[b] /\ sector'[b] = want'[q] /\ valid'[b] /\ ~dirty'[b]
      BY <2>1, <2>2, <3>1, <1>1, <1>4, <1>7 DEF UserOK
    <3>3. pc'[q] = "read_woken" \/ pc'[q] = "write_woken"
      BY <1>5
    <3> QED BY <2>2, <3>2, <3>3, <1>3, UsingFacts DEF UserOK
  <2>3. CASE r # q /\ pc[r] = "bget_asleep" /\ have[r] = b
    <3>1. pc'[r] = "bget"
      BY <2>3, <1>6
    <3> QED BY <2>1, <2>3, <3>1, <1>1, UsingFacts DEF UserOK
  <2>4. CASE r # q /\ ~(pc[r] = "bget_asleep" /\ have[r] = b)
    <3>1. pc'[r] = pc[r]
      BY <2>4, <1>6
    <3>2. pc[r] \in Using => have[r] \in Buf /\ have[r] # b
      BY <2>1, <2>4, <1>4 DEF UserOK
    <3>3. pc[r] \in {"read_asleep", "write_asleep"} => \E i \in 1 .. Len(idequeue') : idequeue'[i] = have'[r]
      <4>1. ASSUME pc[r] \in {"read_asleep", "write_asleep"} PROVE \E i \in 1 .. n - 1 : idequeue'[i] = have'[r]
        <5>1. PICK i \in 1 .. n : idequeue[i] = have[r]
          BY <4>1, <2>1 DEF UserOK, n
        <5>2. have[r] # b
          BY <4>1, <3>2, UsingFacts
        <5>3. i # 1
          BY <5>1, <5>2 DEF b
        <5>4. i - 1 \in 1 .. n - 1 /\ (i - 1) + 1 = i
          BY <5>3, <1>9
        <5> QED BY <5>1, <5>4, <1>1, <1>9, Zenon
      <4> QED BY <4>1, <1>9
    <3> QED BY <2>1, <3>1, <3>2, <3>3, <1>1, <1>7, <1>11, UsingFacts DEF UserOK
  <2> QED BY <2>2, <2>3, <2>4
<1>17. ASSUME NEW c \in Buf PROVE BufOK(c)'
  <2>1. BufOK(c)
    BY DEF BufInv
  <2>2. busy'[c] => \E r \in Proc : have'[r] = c /\ pc'[r] \in Using
    BY <2>1, <1>1, <1>11 DEF BufOK
  <2>3. \E i \in 1 .. NBUF : lru'[i] = c
    BY <2>1, <1>1 DEF BufOK
  <2>4. CASE c = b
    <3>1. ~DiskFaults => data'[b] = disk'[sector[b]]
      <4>1. CASE dirty[b]
        BY <4>1, <1>2, <1>3 DEF BufInv, TypeOK
      <4>2. CASE ~dirty[b]
        <5>1. PICK v \in Received(b) : data' = [data EXCEPT ![b] = v]
          BY <4>2, <1>2
        <5>2. ~DiskFaults => v = disk[sector[b]]
          BY DEF Received
        <5> QED BY <4>2, <5>1, <5>2, <1>2, <1>3 DEF BufInv, TypeOK
      <4> QED BY <4>1, <4>2
    <3> QED BY <2>2, <2>3, <2>4, <3>1, <1>1, <1>3, <1>7, Zenon DEF BufOK
  <2>5. CASE c # b
    <3>1. valid[c] => sector[c] \in Sector /\ sector[c] # sector[b]
      BY <2>1, <2>5, <1>3 DEF BufOK, BufInv, OneBufferPerSector
    <3>2. valid[c] => disk'[sector[c]] = disk[sector[c]]
      BY <3>1, <1>2 DEF BufInv, TypeOK
    <3> QED BY <2>1, <2>2, <2>3, <2>5, <3>2, <1>1, <1>7 DEF BufOK
  <2> QED BY <2>4, <2>5
<1> QED BY <1>10, <1>12, <1>14, <1>15, <1>16, <1>17 DEF BufInv

\* binit().
LEMMA BufInit == Init => BufInv
<1> SUFFICES ASSUME Init PROVE BufInv
  OBVIOUS
<1>1. NBUF \in Nat /\ NBUF >= 1
  BY CacheAssumption
<1>2. \A i \in 1 .. NBUF : NBUF + 1 - i \in 1 .. NBUF /\ NBUF + 1 - (NBUF + 1 - i) = i
  BY <1>1
<1>3. \A p \in Proc : pc[p] = "user"
  BY DEF Init
<1>4. TypeOK
  <2>1. lru \in [1 .. NBUF -> Buf]
    BY <1>2 DEF Init, Buf
  <2>2. data \in [Buf -> Val]
    BY DEF Init
  <2>3. 0 \in 0 .. NBUF
    BY <1>1
  <2>4. idequeue \in Seq(Buf)
    BY DEF Init
  <2> QED BY <2>1, <2>2, <2>3, <2>4 DEF Init, TypeOK, PC
<1>5. Alone /\ PanicOnlyIfExhausted /\ \A p \in Proc : UserOK(p)
  BY <1>3, UsingFacts DEF Alone, PanicOnlyIfExhausted, Halted, UserOK
<1>6. QueueOK
  BY DEF Init, QueueOK
<1>7. OneBufferPerSector
  BY CacheAssumption DEF Init, OneBufferPerSector
<1>8. ASSUME NEW b \in Buf PROVE BufOK(b)
  <2>1. NBUF + 1 - b \in 1 .. NBUF /\ lru[NBUF + 1 - b] = b
    BY <1>2 DEF Init, Buf
  <2> QED BY <2>1 DEF Init, BufOK
<1> QED BY <1>4, <1>5, <1>6, <1>7, <1>8 DEF BufInv

\* Every step of the cache and of the disk keeps the invariant.
LEMMA BufStep == BufInv /\ [Next]_vars => BufInv'
<1> SUFFICES ASSUME BufInv, [Next]_vars PROVE BufInv'
  OBVIOUS
<1>1. CASE Ideintr
  BY <1>1, IdeintrOK
<1>2. ASSUME NEW p \in Proc, Step(p) PROVE BufInv'
  BY <1>2, BreadOK, BgetHitOK, BgetSleepOK, BgetRecycleOK, BgetPanicOK, BwriteOK, PinOK, BrelseOK,
     IderwOK, IderwWokenOK DEF Step, Bget
<1>3. CASE UNCHANGED vars
  BY <1>3 DEF vars, BufInv, TypeOK, Alone, QueueOK, OneBufferPerSector, PanicOnlyIfExhausted, Halted, UserOK, BufOK
<1> QED BY <1>1, <1>2, <1>3 DEF Next

\* The invariant: for any number of processes, buffers and sectors, in every
\* order in which they take the locks and the disk answers.
THEOREM BufInvariant == Spec => []BufInv
  BY BufInit, BufStep, PTL DEF Spec

\* The buffers, the list, the queue and the processes keep their types.
THEOREM BufTypeOK == Spec => []TypeOK
<1>1. BufInv => TypeOK
  BY DEF BufInv
<1> QED BY <1>1, BufInvariant, PTL

\* A sector is in at most one buffer.
THEOREM BufOnePerSector == Spec => []OneBufferPerSector
<1>1. BufInv => OneBufferPerSector
  BY DEF BufInv
<1> QED BY <1>1, BufInvariant, PTL

\* bget() panics only when every buffer is pinned or in use, and iderw() never.
THEOREM BufPanic == Spec => []PanicOnlyIfExhausted
<1>1. BufInv => PanicOnlyIfExhausted
  BY DEF BufInv
<1> QED BY <1>1, BufInvariant, PTL

\* Whoever sleeps on a buffer has a process or the disk to wake it, once.
THEOREM BufSleepers == Spec => []SleepersHaveAWaker
<1>1. BufInv => SleepersHaveAWaker
  <2> SUFFICES ASSUME BufInv, NEW p \in Proc
               PROVE  /\ pc[p] = "bget_asleep" => \E q \in Proc : have[q] = have[p] /\ pc[q] \in Using
                      /\ pc[p] \in {"read_asleep", "write_asleep"} =>
                           \E i \in 1 .. Len(idequeue) :
                             \A j \in 1 .. Len(idequeue) : idequeue[j] = have[p] <=> j = i
    BY Zenon DEF SleepersHaveAWaker
  <2>1. pc[p] = "bget_asleep" => \E q \in Proc : have[q] = have[p] /\ pc[q] \in Using
    BY DEF BufInv, UserOK
  <2>2. ASSUME pc[p] \in {"read_asleep", "write_asleep"}
        PROVE  \E i \in 1 .. Len(idequeue) :
                 \A j \in 1 .. Len(idequeue) : idequeue[j] = have[p] <=> j = i
    <3>1. PICK i \in 1 .. Len(idequeue) : idequeue[i] = have[p]
      BY <2>2 DEF BufInv, UserOK
    <3>2. \A j \in 1 .. Len(idequeue) : idequeue[j] = idequeue[i] => j = i
      BY Zenon DEF BufInv, QueueOK
    <3> QED BY <3>1, <3>2, Zenon
  <2> QED BY <2>1, <2>2, Zenon
<1> QED BY <1>1, BufInvariant, PTL

-----------------------------------------------------------------------------
(* The cache implements the store of sectors.                              *)

\* Where the contents of a sector are.
LEMMA ContentsIs ==
  BufInv => \A s \in Sector :
              /\ \A b \in Buf : sector[b] = s /\ valid[b] => Contents(s) = data[b]
              /\ (\A b \in Buf : sector[b] = s => ~valid[b]) => Contents(s) = disk[s]
<1> SUFFICES ASSUME BufInv, NEW s \in Sector
             PROVE  /\ \A b \in Buf : sector[b] = s /\ valid[b] => Contents(s) = data[b]
                    /\ (\A b \in Buf : sector[b] = s => ~valid[b]) => Contents(s) = disk[s]
  OBVIOUS
<1> DEFINE ch == CHOOSE b \in Cached(s) : valid[b] \/ dirty[b]
<1>1. ASSUME NEW b \in Buf, sector[b] = s, valid[b] PROVE Contents(s) = data[b]
  <2>1. b \in Cached(s)
    BY <1>1 DEF Cached
  <2>2. ch \in Cached(s)
    BY <1>1, <2>1, Zenon
  <2>3. ch = b
    <3> HIDE DEF ch
    <3> QED BY <1>1, <2>2 DEF BufInv, OneBufferPerSector, Cached
  <2>4. Contents(s) = data[ch]
    BY <1>1, <2>1, Zenon DEF Contents
  <2> HIDE DEF ch
  <2> QED BY <2>3, <2>4
<1>2. ASSUME \A b \in Buf : sector[b] = s => ~valid[b] PROVE Contents(s) = disk[s]
  <2>1. ~ \E b \in Cached(s) : valid[b] \/ dirty[b]
    BY <1>2 DEF Cached, BufInv, BufOK
  <2> QED BY <2>1, Zenon DEF Contents
<1> QED BY <1>1, <1>2

\* The same one step later.
LEMMA ContentsNext ==
  BufInv' => (\A s \in Sector :
              /\ \A b \in Buf : sector[b] = s /\ valid[b] => Contents(s) = data[b]
              /\ (\A b \in Buf : sector[b] = s => ~valid[b]) => Contents(s) = disk[s])'
  BY ContentsIs, PTL

\* One process at a time has the sector.
LEMMA OwnerIs ==
  BufInv => \A s \in Sector :
              /\ \A p \in Proc : Holds(p, s) => Owner(s) = p
              /\ (\A p \in Proc : ~Holds(p, s)) => Owner(s) = NoProc
<1> SUFFICES ASSUME BufInv, NEW s \in Sector
             PROVE  /\ \A p \in Proc : Holds(p, s) => Owner(s) = p
                    /\ (\A p \in Proc : ~Holds(p, s)) => Owner(s) = NoProc
  OBVIOUS
<1>1. ASSUME NEW p \in Proc, NEW q \in Proc, Holds(p, s), Holds(q, s) PROVE p = q
  <2>1. pc[p] \in Using /\ pc[q] \in Using /\ want[p] = s /\ want[q] = s
    BY <1>1, UsingFacts DEF Holds
  <2>2. have[p] \in Buf /\ have[q] \in Buf /\ sector[have[p]] = s /\ sector[have[q]] = s
    BY <2>1 DEF BufInv, UserOK
  <2> QED BY <2>1, <2>2 DEF BufInv, Alone, OneBufferPerSector
<1>2. ASSUME NEW p \in Proc, Holds(p, s) PROVE Owner(s) = p
  <2> DEFINE ch == CHOOSE q \in Proc : Holds(q, s)
  <2>1. ch \in Proc /\ Holds(ch, s)
    BY <1>2, Zenon
  <2>2. Owner(s) = ch
    BY <1>2, Zenon DEF Owner
  <2> HIDE DEF ch
  <2> QED BY <1>1, <1>2, <2>1, <2>2
<1>3. (\A p \in Proc : ~Holds(p, s)) => Owner(s) = NoProc
  BY Zenon DEF Owner
<1> QED BY <1>2, <1>3

\* The same one step later.
LEMMA OwnerNext ==
  BufInv' => (\A s \in Sector :
              /\ \A p \in Proc : Holds(p, s) => Owner(s) = p
              /\ (\A p \in Proc : ~Holds(p, s)) => Owner(s) = NoProc)'
  BY OwnerIs, PTL

\* A step that changes no buffer's sector, flags or contents, nor the disk,
\* keeps the contents of the sectors.
LEMMA SameContents ==
  ASSUME UNCHANGED <<sector, valid, dirty, data, disk>>
  PROVE  \A s \in Sector : Contents(s)' = Contents(s)
  BY DEF Contents, Cached

\* A step that changes nobody's hold of a sector keeps its owner.
LEMMA SameOwner ==
  ASSUME BufInv, BufInv', NEW s \in Sector, \A p \in Proc : Holds(p, s)' <=> Holds(p, s)
  PROVE  Owner(s)' = Owner(s)
<1>1. CASE \E p \in Proc : Holds(p, s)
  <2>1. PICK p \in Proc : Holds(p, s)
    BY <1>1
  <2>2. Owner(s) = p
    BY <2>1, OwnerIs
  <2>3. Owner(s)' = p
    BY <2>1, OwnerNext
  <2> QED BY <2>2, <2>3
<1>2. CASE \A p \in Proc : ~Holds(p, s)
  <2>1. Owner(s) = NoProc
    BY <1>2, OwnerIs
  <2>2. Owner(s)' = NoProc
    BY <1>2, OwnerNext
  <2> QED BY <2>1, <2>2
<1> QED BY <1>1, <1>2

\* Steps of the store, from what they change sector by sector.
LEMMA StutterOf ==
  ASSUME \A s \in Sector : Contents(s)' = Contents(s), \A s \in Sector : Owner(s)' = Owner(s)
  PROVE  UNCHANGED SS!vars
  BY DEF SS!vars

\* bread() returns with the sector.
LEMMA AcquireOf ==
  ASSUME NEW p \in Proc, NEW s \in Sector, Owner(s) = NoProc, Owner(s)' = p,
         \A t \in Sector : t # s => Owner(t)' = Owner(t),
         \A t \in Sector : Contents(t)' = Contents(t)
  PROVE  SS!Next
<1>1. SS!Acquire(p, s)
  BY Zenon DEF SS!Acquire
<1> QED BY <1>1 DEF SS!Next

\* brelse() gives it back.
LEMMA ReleaseOf ==
  ASSUME NEW p \in Proc, NEW s \in Sector, Owner(s) = p, Owner(s)' = NoProc,
         \A t \in Sector : t # s => Owner(t)' = Owner(t),
         \A t \in Sector : Contents(t)' = Contents(t)
  PROVE  SS!Next
<1>1. SS!Release(p, s)
  BY Zenon DEF SS!Release
<1> QED BY <1>1 DEF SS!Next

\* Its owner changes it.
LEMMA WriteOf ==
  ASSUME NEW p \in Proc, NEW s \in Sector, NEW v \in Val, Owner(s) = p, Contents(s)' = v,
         \A t \in Sector : Owner(t)' = Owner(t),
         \A t \in Sector : t # s => Contents(t)' = Contents(t)
  PROVE  SS!Next
<1>1. SS!Write(p, s, v)
  BY Zenon DEF SS!Write
<1> QED BY <1>1 DEF SS!Next

\* Steps after which each process holds what it held and no contents moved.
LEMMA IdleSteps ==
  ASSUME BufInv, BufInv', NEW p \in Proc,
         Bread(p) \/ BgetSleep(p) \/ BgetPanic(p) \/ Iderw(p)
  PROVE  UNCHANGED SS!vars
<1>1. UNCHANGED <<sector, valid, dirty, data, disk>>
  BY DEF Bread, BgetSleep, BgetPanic, Iderw, bufs
<1>2. ASSUME NEW s \in Sector, NEW q \in Proc PROVE Holds(q, s)' <=> Holds(q, s)
  <2>1. CASE Bread(p)
    BY <2>1, Zenon DEF Bread, Holds, Writing, BufInv, TypeOK
  <2>2. CASE BgetSleep(p)
    BY <2>2, Zenon DEF BgetSleep, Holds, Writing, BufInv, TypeOK
  <2>3. CASE BgetPanic(p)
    BY <2>3, Zenon DEF BgetPanic, Holds, Writing, BufInv, TypeOK
  <2>4. CASE Iderw(p)
    <3>1. /\ pc[p] \in {"read", "write"} /\ want' = want
          /\ pc' = [pc EXCEPT ![p] = IF pc[p] = "read" THEN "read_asleep" ELSE "write_asleep"]
      BY <2>4, UsingFacts, Zenon DEF Iderw, BufInv, UserOK, Synced
    <3> QED BY <3>1, Zenon DEF Holds, Writing, BufInv, TypeOK
  <2> QED BY <2>1, <2>2, <2>3, <2>4
<1> QED BY <1>1, <1>2, SameContents, SameOwner, StutterOf

\* bread() returns with p: the sector was nobody's.
LEMMA Returns ==
  ASSUME BufInv, BufInv', NEW p \in Proc, pc[p] \notin Writing \cup {"hold"}, pc' = [pc EXCEPT ![p] = "hold"],
         UNCHANGED <<sector, valid, dirty, data, disk, want>>, want[p] \in Sector,
         \A q \in Proc : ~Holds(q, want[p])
  PROVE  SS!Next
<1> DEFINE s == want[p]
<1>1. pc'[p] = "hold" /\ \A q \in Proc : q # p => pc'[q] = pc[q]
  BY Zenon DEF BufInv, TypeOK
<1>2. Owner(s) = NoProc
  BY OwnerIs
<1>3. Holds(p, s)'
  BY <1>1 DEF Holds
<1>4. Owner(s)' = p
  BY <1>3, OwnerNext
<1>5. ASSUME NEW t \in Sector, t # s PROVE Owner(t)' = Owner(t)
  <2>1. \A q \in Proc : Holds(q, t)' <=> Holds(q, t)
    BY <1>1, <1>5 DEF Holds
  <2> QED BY <2>1, SameOwner
<1> QED BY <1>2, <1>4, <1>5, SameContents, AcquireOf, Zenon

\* bget() with a hit.
LEMMA HitRefines == ASSUME BufInv, BufInv', NEW p \in Proc, BgetHit(p) PROVE SS!Next \/ UNCHANGED SS!vars
<1>1. PICK b \in Buf : /\ sector[b] = want[p] /\ ~busy[b]
                       /\ pc' = [pc EXCEPT ![p] = IF valid[b] THEN "hold" ELSE "read"]
  BY Zenon DEF BgetHit, Cached
<1>2. pc[p] = "bget" /\ UNCHANGED <<sector, valid, dirty, data, disk, want>>
  BY DEF BgetHit
<1>3. want[p] \in Sector
  BY <1>2, Zenon DEF BufInv, UserOK
<1>4. CASE valid[b]
  <2>1. ASSUME NEW q \in Proc, Holds(q, want[p]) PROVE FALSE
    <3>1. pc[q] \in Using /\ want[q] = want[p]
      BY <2>1, UsingFacts DEF Holds
    <3>2. have[q] \in Buf /\ busy[have[q]] /\ sector[have[q]] = sector[b]
      BY <3>1, <1>1, Zenon DEF BufInv, UserOK
    <3> QED BY <3>2, <1>1, <1>3, Zenon DEF BufInv, OneBufferPerSector
  <2>2. pc[p] \notin Writing \cup {"hold"} /\ pc' = [pc EXCEPT ![p] = "hold"]
    BY <1>1, <1>2, <1>4, UsingFacts, Zenon
  <2> QED BY <1>2, <1>3, <2>1, <2>2, Returns, Zenon
<1>5. CASE ~valid[b]
  <2>1. pc' = [pc EXCEPT ![p] = "read"]
    BY <1>1, <1>5
  <2>2. ASSUME NEW s \in Sector, NEW q \in Proc PROVE Holds(q, s)' <=> Holds(q, s)
    BY <1>2, <2>1, Zenon DEF Holds, Writing, BufInv, TypeOK
  <2> QED BY <1>2, <2>2, SameContents, SameOwner, StutterOf
<1> QED BY <1>4, <1>5

\* iderw() returns to bread() or to bwrite().
LEMMA WokenRefines == ASSUME BufInv, BufInv', NEW p \in Proc, IderwWoken(p) PROVE SS!Next \/ UNCHANGED SS!vars
<1>1. /\ pc[p] \in {"read_woken", "write_woken"} /\ pc' = [pc EXCEPT ![p] = "hold"]
      /\ UNCHANGED <<sector, valid, dirty, data, disk, want>>
  BY IderwWokenOK, Zenon DEF IderwWoken, bufs
<1>2. CASE pc[p] = "read_woken"
  <2>1. pc[p] \in Using /\ want[p] \in Sector /\ have[p] \in Buf /\ sector[have[p]] = want[p]
    BY <1>2, UsingFacts, Zenon DEF BufInv, UserOK
  <2>2. ASSUME NEW q \in Proc, Holds(q, want[p]) PROVE FALSE
    <3>1. pc[q] \in Using /\ want[q] = want[p]
      BY <2>2, UsingFacts DEF Holds
    <3>2. have[q] \in Buf /\ sector[have[q]] = want[p]
      BY <3>1 DEF BufInv, UserOK
    <3>3. have[q] = have[p]
      BY <2>1, <3>2, Zenon DEF BufInv, OneBufferPerSector
    <3>4. q = p
      BY <2>1, <3>1, <3>3 DEF BufInv, Alone
    <3> QED BY <1>2, <2>2, <3>4, UsingFacts DEF Holds
  <2>3. pc[p] \notin Writing \cup {"hold"}
    BY <1>2, UsingFacts
  <2> QED BY <1>1, <2>1, <2>2, <2>3, Returns, Zenon
<1>3. CASE pc[p] = "write_woken"
  <2>1. ASSUME NEW s \in Sector, NEW q \in Proc PROVE Holds(q, s)' <=> Holds(q, s)
    BY <1>1, <1>3, Zenon DEF Holds, Writing, BufInv, TypeOK
  <2> QED BY <1>1, <2>1, SameContents, SameOwner, StutterOf
<1> QED BY <1>1, <1>2, <1>3

\* brelse().
LEMMA BrelseRefines == ASSUME BufInv, BufInv', NEW p \in Proc, Brelse(p) PROVE SS!Next
<1>1. /\ pc[p] = "hold" /\ UNCHANGED <<sector, valid, dirty, data, disk>>
      /\ want' = [want EXCEPT ![p] = NoSector]
      /\ pc' = Wakeup(have[p], [pc EXCEPT ![p] = "user"])
  BY DEF Brelse
<1>2. PICK s \in Sector : s = want[p]
  BY <1>1, UsingFacts, Zenon DEF BufInv, UserOK
<1>3. Holds(p, s)
  BY <1>1, <1>2 DEF Holds
<1>4. \A t \in Sector : ~Holds(p, t)'
  BY <1>1, CacheAssumption DEF Holds, BufInv, TypeOK
<1>5. ASSUME NEW t \in Sector, NEW q \in Proc, q # p PROVE Holds(q, t)' <=> Holds(q, t)
  <2> DEFINE f == [pc EXCEPT ![p] = "user"]
  <2>1. f[q] = pc[q] /\ want'[q] = want[q]
    BY <1>1, <1>5 DEF BufInv, TypeOK
  <2>2. pc'[q] = IF f[q] \in Asleep /\ have[q] = have[p] THEN Woken[f[q]] ELSE f[q]
    BY <1>1 DEF Wakeup
  <2> HIDE DEF f
  <2>3. CASE pc[q] \in Asleep /\ have[q] = have[p]
    <3>1. pc[q] \notin Using
      BY <1>1, <1>5, <2>3, UsingFacts DEF BufInv, Alone
    <3>2. pc[q] = "bget_asleep"
      BY <2>3, <3>1, UsingFacts DEF Asleep
    <3>3. Woken["bget_asleep"] = "bget"
      BY DEF Woken
    <3>4. pc'[q] = "bget"
      BY <2>1, <2>2, <2>3, <3>2, <3>3
    <3> QED BY <3>2, <3>4, UsingFacts DEF Holds
  <2>4. CASE ~(pc[q] \in Asleep /\ have[q] = have[p])
    BY <2>1, <2>2, <2>4 DEF Holds
  <2> QED BY <2>3, <2>4
<1>6. Owner(s) = p
  BY <1>2, <1>3, OwnerIs
<1>7. Owner(s)' = NoProc
  <2>1. ASSUME NEW q \in Proc PROVE ~Holds(q, s)'
    <3>1. CASE q = p
      BY <3>1, <1>2, <1>4
    <3>2. CASE q # p
      <4>1. ~Holds(q, s)
        <5>1. Holds(q, s) => Owner(s) = q
          BY <1>2, OwnerIs
        <5> QED BY <3>2, <5>1, <1>6
      <4>2. \A t \in Sector : Holds(q, t)' <=> Holds(q, t)
        BY <3>2, <1>5
      <4> QED BY <4>1, <4>2, <1>2
    <3> QED BY <3>1, <3>2
  <2> QED BY <2>1, <1>2, OwnerNext
<1>8. ASSUME NEW t \in Sector, t # s PROVE Owner(t)' = Owner(t)
  <2>1. ~Holds(p, t)
    BY <1>2, <1>8 DEF Holds
  <2>2. \A q \in Proc : Holds(q, t)' <=> Holds(q, t)
    BY <2>1, <1>4, <1>5
  <2> QED BY <2>2, SameOwner
<1> QED BY <1>1, <1>2, <1>6, <1>7, <1>8, SameContents, ReleaseOf

\* bwrite() and log_write().
LEMMA WriteRefines ==
  ASSUME BufInv, BufInv', NEW p \in Proc, Bwrite(p) \/ Pin(p) PROVE SS!Next
<1> DEFINE b == have[p]
<1>1. PICK v \in Val : data' = [data EXCEPT ![b] = v]
  BY PutsInVal DEF Bwrite, Pin
<1>2. /\ pc[p] = "hold" /\ UNCHANGED <<sector, valid, disk, want, have>>
      /\ pc' = [pc EXCEPT ![p] = "write"] \/ pc' = pc
  BY DEF Bwrite, Pin
<1>3. b \in Buf /\ valid[b] /\ sector[b] = want[p] /\ want[p] \in Sector
  BY <1>2, UsingFacts, Zenon DEF BufInv, UserOK
<1>4. PICK s \in Sector : s = sector[b]
  BY <1>3, Zenon
<1>5. ASSUME NEW t \in Sector, NEW q \in Proc PROVE Holds(q, t)' <=> Holds(q, t)
  BY <1>2 DEF Holds, Writing, BufInv, TypeOK
<1>6. Owner(s) = p
  <2>1. Holds(p, s)
    BY <1>2, <1>3, <1>4, Zenon DEF Holds
  <2> QED BY <2>1, OwnerIs
<1>7. Contents(s)' = v
  <2>1. sector'[b] = s /\ valid'[b] /\ data'[b] = v
    BY <1>1, <1>2, <1>3, <1>4 DEF BufInv, TypeOK
  <2>2. \A c \in Buf : sector'[c] = s /\ valid'[c] => Contents(s)' = data'[c]
    BY ContentsNext, Zenon
  <2> QED BY <1>3, <2>1, <2>2, Zenon
<1>8. ASSUME NEW t \in Sector, t # s PROVE Contents(t)' = Contents(t)
  <2>1. CASE \E c \in Buf : sector[c] = t /\ valid[c]
    <3>1. PICK c \in Buf : sector[c] = t /\ valid[c]
      BY <2>1
    <3>2. sector'[c] = t /\ valid'[c] /\ data'[c] = data[c]
      BY <3>1, <1>1, <1>2, <1>4, <1>8 DEF BufInv, TypeOK
    <3>3. Contents(t) = data[c]
      BY <3>1, ContentsIs
    <3>4. Contents(t)' = data'[c]
      BY <3>2, ContentsNext
    <3> QED BY <3>2, <3>3, <3>4
  <2>2. CASE \A c \in Buf : sector[c] = t => ~valid[c]
    <3>1. Contents(t) = disk[t]
      BY <2>2, ContentsIs
    <3>2. \A c \in Buf : sector'[c] = t => ~valid'[c]
      BY <2>2, <1>2
    <3>3. Contents(t)' = disk'[t]
      BY <3>2, ContentsNext
    <3> QED BY <3>1, <3>3, <1>2
  <2> QED BY <2>1, <2>2, Zenon
<1> QED BY <1>5, <1>6, <1>7, <1>8, SameOwner, WriteOf

\* bget() recycles a buffer: its old sector is on the disk as it was cached.
LEMMA RecycleRefines ==
  ASSUME ~DiskFaults, BufInv, BufInv', NEW p \in Proc, BgetRecycle(p) PROVE UNCHANGED SS!vars
<1>1. PICK i \in Clean :
        /\ sector' = [sector EXCEPT ![lru[i]] = want[p]]
        /\ valid' = [valid EXCEPT ![lru[i]] = FALSE]
  BY Zenon DEF BgetRecycle
<1>2. /\ pc[p] = "bget" /\ pc' = [pc EXCEPT ![p] = "read"]
      /\ UNCHANGED <<dirty, data, disk, want>>
  BY DEF BgetRecycle
<1>3. PICK b \in Buf : b = lru[i] /\ ~dirty[b]
  BY Zenon DEF Clean, BufInv, TypeOK
<1>4. /\ sector'[b] = want[p] /\ ~valid'[b]
      /\ \A c \in Buf : c # b => sector'[c] = sector[c] /\ valid'[c] = valid[c]
  BY <1>1, <1>3 DEF BufInv, TypeOK
<1>5. ASSUME NEW s \in Sector, NEW q \in Proc PROVE Holds(q, s)' <=> Holds(q, s)
  BY <1>2, Zenon DEF Holds, Writing, BufInv, TypeOK
<1>6. ASSUME NEW t \in Sector PROVE Contents(t)' = Contents(t)
  <2>1. CASE \E c \in Buf : c # b /\ sector[c] = t /\ valid[c]
    <3>1. PICK c \in Buf : c # b /\ sector[c] = t /\ valid[c]
      BY <2>1
    <3>2. Contents(t) = data[c]
      BY <3>1, ContentsIs
    <3>3. sector'[c] = t /\ valid'[c]
      BY <3>1, <1>4
    <3>4. Contents(t)' = data'[c]
      BY <3>3, ContentsNext
    <3> QED BY <3>2, <3>4, <1>2
  <2>2. CASE \A c \in Buf : c # b /\ sector[c] = t => ~valid[c]
    <3>1. \A c \in Buf : sector'[c] = t => ~valid'[c]
      BY <2>2, <1>4
    <3>2. Contents(t)' = disk'[t]
      BY <3>1, ContentsNext
    <3>3. Contents(t) = disk[t]
      <4>1. CASE sector[b] = t /\ valid[b]
        <5>1. Contents(t) = data[b]
          BY <4>1, ContentsIs
        <5>2. data[b] = disk[t]
          BY <4>1, <1>3 DEF BufInv, BufOK
        <5> QED BY <5>1, <5>2
      <4>2. CASE ~(sector[b] = t /\ valid[b])
        <5>1. \A c \in Buf : sector[c] = t => ~valid[c]
          BY <2>2, <4>2
        <5> QED BY <5>1, ContentsIs
      <4> QED BY <4>1, <4>2
    <3> QED BY <3>2, <3>3, <1>2
  <2> QED BY <2>1, <2>2
<1> QED BY <1>5, <1>6, SameOwner, StutterOf

\* The disk writes what is cached, or fills the buffer with what it has.
LEMMA IdeintrRefines ==
  ASSUME ~DiskFaults, BufInv, BufInv', Ideintr PROVE UNCHANGED SS!vars
<1>1. /\ idequeue # <<>> /\ Head(idequeue) = idequeue[1] /\ UNCHANGED <<sector, want, have>>
  BY DEF Ideintr
<1>2. PICK b \in Buf : b = idequeue[1] /\ sector[b] \in Sector
  BY <1>1, HeadRequest
<1>3. /\ valid' = [valid EXCEPT ![b] = TRUE]
      /\ pc' = [r \in Proc |-> IF pc[r] \in Asleep /\ have[r] = b THEN Woken[pc[r]] ELSE pc[r]]
      /\ dirty[b] => disk' = [disk EXCEPT ![sector[b]] = data[b]] /\ data' = data
      /\ ~dirty[b] => disk' = disk /\ \E v \in Received(b) : data' = [data EXCEPT ![b] = v]
  BY <1>1, <1>2 DEF Ideintr, Wakeup
<1>4. valid'[b] /\ \A c \in Buf : c # b => valid'[c] = valid[c]
  BY <1>3, Zenon DEF BufInv, TypeOK
<1>5. ~dirty[b] => ~valid[b] /\ disk' = disk /\ data' = [data EXCEPT ![b] = disk[sector[b]]]
  <2>1. ASSUME ~dirty[b] PROVE ~valid[b]
    <3>1. PICK q \in Proc : have[q] = b /\ pc[q] = "read_asleep"
      BY <1>1, <1>2, <2>1, HeadRequest
    <3> QED BY <3>1, Zenon DEF BufInv, UserOK
  <2>2. Received(b) = {disk[sector[b]]}
    BY DEF Received
  <2> QED BY <2>1, <2>2, <1>3, Zenon
<1>6. dirty[b] => valid[b]
  BY Zenon DEF BufInv, BufOK
<1>7. ASSUME NEW s \in Sector, NEW q \in Proc PROVE Holds(q, s)' <=> Holds(q, s)
  <2>1. CASE pc[q] \in Asleep /\ have[q] = b
    <3>1. pc'[q] = Woken[pc[q]]
      BY <2>1, <1>3
    <3>2. Woken[pc[q]] \in Writing <=> pc[q] \in Writing
      BY <2>1 DEF Asleep, Woken, Writing
    <3>3. pc[q] # "hold" /\ Woken[pc[q]] # "hold"
      BY <2>1 DEF Asleep, Woken
    <3> QED BY <3>1, <3>2, <3>3, <1>1 DEF Holds
  <2>2. CASE ~(pc[q] \in Asleep /\ have[q] = b)
    BY <2>2, <1>1, <1>3 DEF Holds
  <2> QED BY <2>1, <2>2, Zenon
<1>8. ASSUME NEW t \in Sector PROVE Contents(t)' = Contents(t)
  <2>1. CASE t = sector[b]
    <3>1. sector'[b] = t /\ valid'[b]
      BY <2>1, <1>1, <1>4
    <3>2. Contents(t)' = data'[b]
      BY <3>1, ContentsNext
    <3>3. CASE dirty[b]
      <4>1. Contents(t) = data[b]
        BY <2>1, <3>3, <1>6, ContentsIs
      <4> QED BY <3>2, <3>3, <4>1, <1>3
    <3>4. CASE ~dirty[b]
      <4>1. \A c \in Buf : sector[c] = t => ~valid[c]
        BY <2>1, <3>4, <1>5, Zenon DEF BufInv, OneBufferPerSector
      <4>2. Contents(t) = disk[t]
        BY <4>1, ContentsIs
      <4>3. data'[b] = disk[t]
        BY <2>1, <3>4, <1>5 DEF BufInv, TypeOK
      <4> QED BY <3>2, <4>2, <4>3
    <3> QED BY <3>3, <3>4
  <2>2. CASE t # sector[b]
    <3>1. /\ disk'[t] = disk[t] /\ \A c \in Buf : c # b => data'[c] = data[c]
      <4>1. CASE dirty[b]
        BY <2>2, <4>1, <1>3, Zenon DEF BufInv, TypeOK
      <4>2. CASE ~dirty[b]
        BY <4>2, <1>5 DEF BufInv, TypeOK
      <4> QED BY <4>1, <4>2
    <3>2. CASE \E c \in Buf : sector[c] = t /\ valid[c]
      <4>1. PICK c \in Buf : sector[c] = t /\ valid[c] /\ c # b
        BY <2>2, <3>2
      <4>2. Contents(t) = data[c]
        BY <4>1, ContentsIs
      <4>3. sector'[c] = t /\ valid'[c]
        BY <4>1, <1>1, <1>4
      <4>4. Contents(t)' = data'[c]
        BY <4>3, ContentsNext
      <4> QED BY <3>1, <4>1, <4>2, <4>4
    <3>3. CASE \A c \in Buf : sector[c] = t => ~valid[c]
      <4>1. Contents(t) = disk[t]
        BY <3>3, ContentsIs
      <4>2. \A c \in Buf : sector'[c] = t => ~valid'[c]
        BY <2>2, <3>3, <1>1, <1>4
      <4>3. Contents(t)' = disk'[t]
        BY <4>2, ContentsNext
      <4> QED BY <3>1, <4>1, <4>3
    <3> QED BY <3>2, <3>3
  <2> QED BY <2>1, <2>2
<1> QED BY <1>7, <1>8, SameOwner, StutterOf

\* On a disk without faults the cache implements the store: bread() returns
\* what was last written to the sector, to one process at a time.
THEOREM BufImplements == ASSUME ~DiskFaults PROVE Spec => Implements
<1>1. Init => SS!Init
  <2> SUFFICES ASSUME Init PROVE SS!Init
    OBVIOUS
  <2>1. ASSUME NEW s \in Sector PROVE Contents(s) \in Val /\ Owner(s) = NoProc
    <3>1. \A b \in Buf : ~valid[b] /\ ~dirty[b]
      BY DEF Init
    <3>2. Contents(s) = disk[s]
      BY <3>1, BufInit, ContentsIs
    <3>3. \A p \in Proc : ~Holds(p, s)
      BY UsingFacts DEF Init, Holds
    <3>4. Owner(s) = NoProc
      BY <3>3, BufInit, OwnerIs
    <3> QED BY <3>2, <3>4 DEF Init
  <2> QED BY <2>1 DEF SS!Init
<1>2. BufInv /\ BufInv' /\ [Next]_vars => [SS!Next]_(SS!vars)
  <2> SUFFICES ASSUME BufInv, BufInv', [Next]_vars PROVE SS!Next \/ UNCHANGED SS!vars
    OBVIOUS
  <2>1. CASE Ideintr
    BY <2>1, IdeintrRefines
  <2>2. ASSUME NEW p \in Proc, Step(p) PROVE SS!Next \/ UNCHANGED SS!vars
    <3>1. CASE Bread(p) \/ BgetSleep(p) \/ BgetPanic(p) \/ Iderw(p)
      BY <3>1, IdleSteps
    <3>2. CASE BgetHit(p)
      BY <3>2, HitRefines
    <3>3. CASE BgetRecycle(p)
      BY <3>3, RecycleRefines
    <3>4. CASE Bwrite(p) \/ Pin(p)
      BY <3>4, WriteRefines
    <3>5. CASE Brelse(p)
      BY <3>5, BrelseRefines
    <3>6. CASE IderwWoken(p)
      BY <3>6, WokenRefines
    <3> QED BY <2>2, <3>1, <3>2, <3>3, <3>4, <3>5, <3>6 DEF Step, Bget
  <2>3. CASE UNCHANGED vars
    <3>1. UNCHANGED <<sector, valid, dirty, data, disk, pc, want>>
      BY <2>3 DEF vars
    <3>2. ASSUME NEW s \in Sector, NEW q \in Proc PROVE Holds(q, s)' <=> Holds(q, s)
      BY <3>1 DEF Holds
    <3> QED BY <3>1, <3>2, SameContents, SameOwner, StutterOf
  <2> QED BY <2>1, <2>2, <2>3 DEF Next
<1> QED BY <1>1, <1>2, BufInvariant, PTL DEF Spec, Implements, SS!Spec
=============================================================================
