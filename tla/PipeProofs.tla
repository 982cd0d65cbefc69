----------------------------- MODULE PipeProofs -----------------------------
(***************************************************************************)
(* The pipe is a bounded first-in first-out channel, and its flags and     *)
(* calls are right, for any size of the ring that divides the range of     *)
(* uint, any processes, any ends they inherit and any lengths.             *)
(***************************************************************************)
EXTENDS Pipe, SequenceTheorems, TLAPS

-----------------------------------------------------------------------------
(* Remainders                                                              *)

\* Multiples of m are at least m apart.
LEMMA MulGap ==
  ASSUME NEW m \in Nat, m > 0, NEW a \in Int, NEW b \in Int, a > b
  PROVE  m * a >= m * b + m
<1>1. PICK d \in Nat : a = b + 1 + d
  <2>1. a - b - 1 \in Nat
    OBVIOUS
  <2> QED BY <2>1
<1>2. m * a = m * b + m + m * d
  BY <1>1
<1>3. m * d >= 0
  OBVIOUS
<1>4. m * b \in Int /\ m * d \in Int
  OBVIOUS
<1> QED BY <1>2, <1>3, <1>4

\* Division with remainder.
LEMMA DivMod ==
  ASSUME NEW m \in Nat, m > 0, NEW x \in Int
  PROVE  x \div m \in Int /\ x % m \in 0 .. m - 1 /\ x = m * (x \div m) + (x % m)
OBVIOUS

\* The remainder is the only one.
LEMMA ModIs ==
  ASSUME NEW m \in Nat, m > 0, NEW x \in Int, NEW q \in Int, NEW r \in 0 .. m - 1, x = m * q + r
  PROVE  x % m = r
<1> DEFINE q2 == x \div m
           r2 == x % m
<1>1. q2 \in Int /\ r2 \in 0 .. m - 1 /\ x = m * q2 + r2
  BY DivMod
<1> HIDE DEF q2, r2
<1>2. m * q \in Int /\ m * q2 \in Int
  BY <1>1
<1>3. ~(q > q2)
  <2> SUFFICES ASSUME q > q2 PROVE FALSE
    OBVIOUS
  <2>1. m * q >= m * q2 + m
    BY <1>1, MulGap
  <2> QED BY <1>1, <1>2, <2>1
<1>4. ~(q2 > q)
  <2> SUFFICES ASSUME q2 > q PROVE FALSE
    OBVIOUS
  <2>1. m * q2 >= m * q + m
    BY <1>1, MulGap
  <2> QED BY <1>1, <1>2, <2>1
<1>5. q = q2
  BY <1>1, <1>3, <1>4
<1>6. r = r2
  BY <1>1, <1>2, <1>5
<1> QED BY <1>6 DEF r2

\* The remainder of a number below 2 * m: what adding two indexes does.
LEMMA ModSmall ==
  ASSUME NEW m \in Nat, m > 0, NEW x \in Nat, x < 2 * m
  PROVE  x % m = IF x < m THEN x ELSE x - m
<1>1. CASE x < m
  <2>1. x = m * 0 + x /\ x \in 0 .. m - 1
    BY <1>1
  <2> QED BY <1>1, <2>1, ModIs
<1>2. CASE x >= m
  <2>1. x = m * 1 + (x - m) /\ x - m \in 0 .. m - 1
    BY <1>2
  <2> QED BY <1>2, <2>1, ModIs
<1> QED BY <1>1, <1>2

\* Multiples of m do not change a remainder.
LEMMA ModShift ==
  ASSUME NEW m \in Nat, m > 0, NEW x \in Int, NEW k \in Int
  PROVE  (x + m * k) % m = x % m
<1> DEFINE q == x \div m
           r == x % m
<1>1. q \in Int /\ r \in 0 .. m - 1 /\ x = m * q + r
  BY DivMod
<1> HIDE DEF q, r
<1>2. x + m * k = m * (q + k) + r
  BY <1>1
<1>3. x + m * k \in Int /\ q + k \in Int
  BY <1>1
<1>4. (x + m * k) % m = r
  BY <1>1, <1>2, <1>3, ModIs
<1> QED BY <1>4 DEF r

\* Different numbers with one remainder are at least m apart.
LEMMA ModDistinct ==
  ASSUME NEW m \in Nat, m > 0, NEW x \in Int, NEW y \in Int, x % m = y % m, x < y
  PROVE  y >= x + m
<1> DEFINE a == x \div m
           b == y \div m
           r == x % m
<1>1. a \in Int /\ b \in Int /\ r \in 0 .. m - 1 /\ x = m * a + r /\ y = m * b + r
  BY DivMod
<1> HIDE DEF a, b, r
<1>2. m * a \in Int /\ m * b \in Int
  BY <1>1
<1>3. m * a < m * b
  BY <1>1, <1>2
<1>4. b > a
  <2> SUFFICES ASSUME ~(b > a) PROVE FALSE
    OBVIOUS
  <2>1. a > b \/ a = b
    BY <1>1
  <2>2. CASE a > b
    <3>1. m * a >= m * b + m
      BY <1>1, <2>2, MulGap
    <3> QED BY <1>2, <1>3, <3>1
  <2>3. CASE a = b
    BY <1>2, <1>3, <2>3
  <2> QED BY <2>1, <2>2, <2>3
<1>5. m * b >= m * a + m
  BY <1>1, <1>4, MulGap
<1> QED BY <1>1, <1>2, <1>5

-----------------------------------------------------------------------------
(* The ring                                                                *)

\* A function on 1 .. n is a sequence of length n.
LEMMA FcnSeq ==
  ASSUME NEW S, NEW n \in Nat, NEW f \in [1 .. n -> S]
  PROVE  f \in Seq(S) /\ Len(f) = n
<1>1. f \in Seq(S)
  BY SeqDef, Zenon
<1>2. Len(f) \in Nat /\ DOMAIN f = 1 .. Len(f) /\ DOMAIN f = 1 .. n
  BY <1>1, LenProperties
<1>3. Len(f) = n
  BY <1>2
<1> QED BY <1>1, <1>3

\* The distance between two uints, without the remainder.
LEMMA DiffIs ==
  ASSUME NEW r \in 0 .. UINT - 1, NEW w \in 0 .. UINT - 1
  PROVE  (w + UINT - r) % UINT = IF r <= w THEN w - r ELSE w - r + UINT
<1>1. UINT \in Nat /\ UINT > 0
  BY PipeAssumption
<1>2. w + UINT - r \in Nat /\ w + UINT - r < 2 * UINT
  BY <1>1
<1>3. (w + UINT - r) % UINT = IF w + UINT - r < UINT THEN w + UINT - r ELSE w + UINT - r - UINT
  BY <1>1, <1>2, ModSmall
<1> QED BY <1>1, <1>3

\* The bytes in the pipe.
LEMMA UsedIs ==
  ASSUME TypeOK
  PROVE  /\ Used = IF nread <= nwrite THEN nwrite - nread ELSE nwrite - nread + UINT
         /\ Used \in 0 .. UINT - 1
<1>1. UINT \in Nat /\ nread \in 0 .. UINT - 1 /\ nwrite \in 0 .. UINT - 1
  BY PipeAssumption DEF TypeOK
<1> QED BY <1>1, DiffIs DEF Used

\* The ranges of the counters.
LEMMA Numbers ==
  ASSUME TypeOK
  PROVE  /\ PIPESIZE \in Nat /\ PIPESIZE > 0 /\ UINT \in Nat /\ UINT > 0 /\ UINT > PIPESIZE
         /\ nwrite \in 0 .. UINT - 1 /\ nread \in 0 .. UINT - 1
         /\ nwrite \in Nat /\ nread \in Nat /\ Used \in Nat
BY UsedIs, PipeAssumption DEF TypeOK

\* Adding to a uint.
LEMMA AdvanceIs ==
  ASSUME NEW u \in 0 .. UINT - 1, NEW k \in 0 .. PIPESIZE
  PROVE  /\ Advance(u, k) = IF u + k < UINT THEN u + k ELSE u + k - UINT
         /\ Advance(u, k) \in 0 .. UINT - 1
<1>1. UINT \in Nat /\ UINT > 0 /\ PIPESIZE \in Nat /\ PIPESIZE < UINT
  BY PipeAssumption
<1>2. u + k \in Nat /\ u + k < 2 * UINT
  BY <1>1
<1>3. Advance(u, k) = IF u + k < UINT THEN u + k ELSE u + k - UINT
  BY <1>1, <1>2, ModSmall DEF Advance
<1> QED BY <1>1, <1>2, <1>3

\* The test of pipewrite() finds the pipe full after exactly PIPESIZE bytes.
LEMMA FullAt ==
  ASSUME TypeOK, Used <= PIPESIZE, NEW j \in 0 .. PIPESIZE - Used
  PROVE  IsFull(Advance(nwrite, j)) <=> j = PIPESIZE - Used
<1>1. UINT \in Nat /\ UINT > 0 /\ PIPESIZE \in Nat /\ PIPESIZE < UINT
  BY PipeAssumption
<1>2. nread \in 0 .. UINT - 1 /\ nwrite \in 0 .. UINT - 1 /\ Used \in 0 .. UINT - 1
  BY UsedIs DEF TypeOK
<1>3. Advance(nwrite, j) = IF nwrite + j < UINT THEN nwrite + j ELSE nwrite + j - UINT
  BY <1>1, <1>2, AdvanceIs
<1>4. (nread + PIPESIZE) % UINT = IF nread + PIPESIZE < UINT THEN nread + PIPESIZE ELSE nread + PIPESIZE - UINT
  BY <1>1, <1>2, AdvanceIs DEF Advance
<1> QED BY <1>1, <1>2, <1>3, <1>4, UsedIs DEF IsFull

\* The pipe as it is.
LEMMA FullNow ==
  ASSUME TypeOK, Used <= PIPESIZE
  PROVE  IsFull(nwrite) <=> Used = PIPESIZE
<1>1. PIPESIZE \in Nat /\ Used \in Nat /\ UINT \in Nat /\ nwrite \in 0 .. UINT - 1
  BY UsedIs, PipeAssumption DEF TypeOK
<1>2. Advance(nwrite, 0) = nwrite
  BY <1>1, AdvanceIs
<1>3. IsFull(Advance(nwrite, 0)) <=> 0 = PIPESIZE - Used
  BY <1>1, FullAt
<1> QED BY <1>1, <1>2, <1>3

\* A turn of pipewrite() copies what there is room for.
LEMMA FitsIs ==
  ASSUME TypeOK, Used <= PIPESIZE, NEW n \in Nat
  PROVE  Fits(n) = IF n <= PIPESIZE - Used THEN n ELSE PIPESIZE - Used
<1> DEFINE room == PIPESIZE - Used
           k == IF n <= room THEN n ELSE room
           Is(i) == /\ \A j \in 0 .. i - 1 : ~IsFull(Advance(nwrite, j))
                    /\ i = n \/ IsFull(Advance(nwrite, i))
<1>1. room \in Nat /\ k \in 0 .. n /\ k \in 0 .. room
  BY UsedIs, PipeAssumption
<1>2. \A j \in 0 .. room : IsFull(Advance(nwrite, j)) <=> j = room
  BY FullAt
<1> HIDE DEF room
<1>3. Is(k)
  BY <1>1, <1>2
<1>4. ASSUME NEW i \in 0 .. n, Is(i) PROVE i = k
  BY <1>1, <1>2, <1>4
<1>5. Fits(n) = CHOOSE i \in 0 .. n : Is(i)
  BY DEF Fits
<1>6. Fits(n) = k
  <2> HIDE DEF Is, k
  <2> QED BY <1>1, <1>3, <1>4, <1>5, Zenon
<1> QED BY <1>6 DEF room

\* The slot of a uint: the ring divides the range of uint, so the wrap of the
\* uint is not seen.
LEMMA IndexIs ==
  ASSUME NEW u \in Nat
  PROVE  Index(u) = u % PIPESIZE /\ Index(u) \in Slot
<1> DEFINE m == UINT \div PIPESIZE
           q == u \div UINT
           r == u % UINT
<1>1. UINT \in Nat /\ UINT > 0 /\ PIPESIZE \in Nat /\ PIPESIZE > 0 /\ UINT % PIPESIZE = 0
  BY PipeAssumption
<1>2. m \in Int /\ UINT = PIPESIZE * m
  BY <1>1, DivMod
<1>3. q \in Int /\ r \in Nat /\ u = UINT * q + r
  BY <1>1, DivMod
<1>4. Index(u) = r % PIPESIZE
  BY DEF Index
<1> HIDE DEF m, q, r
<1>5. m * q \in Int
  BY <1>2, <1>3
<1>6. UINT * q = PIPESIZE * (m * q)
  BY <1>1, <1>2, <1>3
<1>7. u = r + PIPESIZE * (m * q)
  BY <1>1, <1>3, <1>5, <1>6
<1>8. (r + PIPESIZE * (m * q)) % PIPESIZE = r % PIPESIZE
  <2>1. r \in Int
    BY <1>3
  <2> QED BY <1>1, <2>1, <1>5, ModShift, Zenon
<1>9. r % PIPESIZE \in 0 .. PIPESIZE - 1
  BY <1>1, <1>3, DivMod
<1> QED BY <1>4, <1>7, <1>8, <1>9 DEF Slot

\* Less than PIPESIZE apart, bytes have slots of their own.
LEMMA SlotsDiffer ==
  ASSUME NEW x \in Nat, NEW y \in Nat, x < y, y < x + PIPESIZE
  PROVE  Index(x) # Index(y)
<1>1. PIPESIZE \in Nat /\ PIPESIZE > 0
  BY PipeAssumption
<1>2. Index(x) = x % PIPESIZE /\ Index(y) = y % PIPESIZE
  BY IndexIs
<1>3. x % PIPESIZE = y % PIPESIZE => y >= x + PIPESIZE
  <2>1. x \in Int /\ y \in Int
    OBVIOUS
  <2> QED BY <1>1, <2>1, ModDistinct, Zenon
<1> QED BY <1>1, <1>2, <1>3

\* One turn of the uint gives the same slot.
LEMMA SlotWraps ==
  ASSUME NEW x \in Nat
  PROVE  Index(x + UINT) = Index(x)
<1>1. UINT \in Nat /\ PIPESIZE \in Nat /\ PIPESIZE > 0 /\ UINT % PIPESIZE = 0
  BY PipeAssumption
<1>2. PICK m \in Int : UINT = PIPESIZE * m
  BY <1>1, DivMod
<1>3. (x + PIPESIZE * m) % PIPESIZE = x % PIPESIZE
  <2>1. x \in Int
    OBVIOUS
  <2> QED BY <1>1, <2>1, ModShift, Zenon
<1>4. x + UINT \in Nat
  BY <1>1
<1> QED BY <1>2, <1>3, <1>4, IndexIs

\* The slots after those in use are the ones behind nwrite.
LEMMA SlotAfter ==
  ASSUME TypeOK, NEW i \in Nat
  PROVE  Index(nread + (Used + i)) = Index(nwrite + i)
<1>1. UINT \in Nat /\ nread \in Nat /\ nwrite \in Nat /\ Used \in Nat
  BY UsedIs, PipeAssumption DEF TypeOK
<1>2. nread + (Used + i) = nwrite + i \/ nread + (Used + i) = (nwrite + i) + UINT
  BY <1>1, UsedIs
<1> QED BY <1>1, <1>2, SlotWraps

\* The ring after s has been copied to the slots from nwrite on.
RingWith(s, k) == [j \in Slot |->
                    IF \E i \in 0 .. k - 1 : Index(nwrite + i) = j
                    THEN s[1 + CHOOSE i \in 0 .. k - 1 : Index(nwrite + i) = j]
                    ELSE data[j]]

\* What is in the pipe is a sequence of bytes as long as the pipe is full.
LEMMA ContentsSeq ==
  ASSUME TypeOK
  PROVE  /\ Contents \in Seq(Byte) /\ Len(Contents) = Used
         /\ \A i \in 1 .. Used : Contents[i] = data[Index(nread + i - 1)]
<1>1. Used \in Nat /\ nread \in Nat /\ data \in [Slot -> Byte]
  BY UsedIs, PipeAssumption DEF TypeOK
<1>2. \A i \in 1 .. Used : Index(nread + i - 1) \in Slot
  <2> TAKE i \in 1 .. Used
  <2>1. nread + i - 1 \in Nat
    BY <1>1
  <2> QED BY <2>1, IndexIs, Zenon
<1>3. Contents \in [1 .. Used -> Byte]
  BY <1>1, <1>2 DEF Contents
<1> QED BY <1>1, <1>3, FcnSeq DEF Contents

\* Each byte copied is found in the slot it was copied to: the CHOOSE has one
\* choice.
LEMMA PutNew ==
  ASSUME TypeOK, NEW s, NEW k \in 0 .. PIPESIZE, NEW i \in 0 .. k - 1
  PROVE  RingWith(s, k)[Index(nwrite + i)] = s[1 + i]
<1> DEFINE c == CHOOSE h \in 0 .. k - 1 : Index(nwrite + h) = Index(nwrite + i)
<1>1. PIPESIZE \in Nat /\ nwrite \in Nat
  BY PipeAssumption DEF TypeOK
<1>2. c \in 0 .. k - 1 /\ Index(nwrite + c) = Index(nwrite + i)
  OBVIOUS
<1>3. nwrite + i \in Nat
  BY <1>1
<1>4. Index(nwrite + i) \in Slot
  BY <1>3, IndexIs, Zenon
<1>5. RingWith(s, k)[Index(nwrite + i)] = s[1 + c]
  BY <1>4 DEF RingWith
<1> HIDE DEF c
<1>6. c = i
  <2>1. nwrite + c \in Nat
    BY <1>1, <1>2
  <2>2. CASE c < i
    <3>1. nwrite + c < nwrite + i /\ nwrite + i < (nwrite + c) + PIPESIZE
      BY <1>1, <1>2, <2>2
    <3> QED BY <1>2, <1>3, <2>1, <3>1, SlotsDiffer, Zenon
  <2>3. CASE i < c
    <3>1. nwrite + i < nwrite + c /\ nwrite + c < (nwrite + i) + PIPESIZE
      BY <1>1, <1>2, <2>3
    <3> QED BY <1>2, <1>3, <2>1, <3>1, SlotsDiffer, Zenon
  <2> QED BY <1>1, <1>2, <2>2, <2>3
<1> QED BY <1>5, <1>6

\* The bytes that were in the pipe stay.
LEMMA PutOld ==
  ASSUME TypeOK, Used <= PIPESIZE, NEW s, NEW k \in 0 .. PIPESIZE - Used, NEW j \in 0 .. Used - 1
  PROVE  RingWith(s, k)[Index(nread + j)] = data[Index(nread + j)]
<1>1. PIPESIZE \in Nat /\ nwrite \in Nat /\ nread \in Nat /\ Used \in Nat
  BY Numbers, Zenon
<1>2. nread + j \in Nat
  BY <1>1
<1>3. Index(nread + j) \in Slot
  BY <1>2, IndexIs, Zenon
<1>4. ASSUME NEW i \in 0 .. k - 1 PROVE Index(nwrite + i) # Index(nread + j)
  <2>1. i \in Nat /\ nread + (Used + i) \in Nat
    BY <1>1
  <2>2. nread + j < nread + (Used + i) /\ nread + (Used + i) < (nread + j) + PIPESIZE
    BY <1>1
  <2>3. Index(nread + j) # Index(nread + (Used + i))
    BY <1>2, <2>1, <2>2, SlotsDiffer, Zenon
  <2>4. Index(nread + (Used + i)) = Index(nwrite + i)
    BY <2>1, SlotAfter, Zenon
  <2> QED BY <2>3, <2>4
<1> QED BY <1>3, <1>4 DEF RingWith

\* A turn of pipewrite() appends what it copies.
LEMMA PutContents ==
  ASSUME TypeOK, Used <= PIPESIZE, NEW s \in Seq(Byte),
         NEW k \in 0 .. PIPESIZE - Used, k <= Len(s),
         data' = RingWith(s, k), nwrite' = Advance(nwrite, k), nread' = nread
  PROVE  /\ data' \in [Slot -> Byte] /\ nwrite' \in 0 .. UINT - 1
         /\ Used' = Used + k
         /\ Contents' = Contents \o SubSeq(s, 1, k)
<1>1. /\ PIPESIZE \in Nat /\ PIPESIZE > 0 /\ UINT \in Nat /\ UINT > PIPESIZE
      /\ nwrite \in 0 .. UINT - 1 /\ nread \in 0 .. UINT - 1 /\ Used \in Nat
      /\ k \in 0 .. PIPESIZE /\ Len(s) \in Nat
  <2>1. Len(s) \in Nat
    BY LenProperties
  <2>2. k \in 0 .. PIPESIZE
    BY Numbers
  <2> QED BY <2>1, <2>2, Numbers, Zenon
<1>2. /\ nwrite' = IF nwrite + k < UINT THEN nwrite + k ELSE nwrite + k - UINT
      /\ nwrite' \in 0 .. UINT - 1
  BY <1>1, AdvanceIs
<1>3. Used' = Used + k
  <2>1. Used' = (nwrite' + UINT - nread) % UINT
    BY DEF Used
  <2>2. Used' = IF nread <= nwrite' THEN nwrite' - nread ELSE nwrite' - nread + UINT
    BY <1>1, <1>2, <2>1, DiffIs
  <2> QED BY <1>1, <1>2, <2>2, UsedIs
<1>4. data' \in [Slot -> Byte]
  <2>1. data \in [Slot -> Byte] /\ s \in [1 .. Len(s) -> Byte]
    BY LenProperties DEF TypeOK
  <2>2. ASSUME NEW j \in Slot, \E i \in 0 .. k - 1 : Index(nwrite + i) = j
        PROVE  s[1 + CHOOSE i \in 0 .. k - 1 : Index(nwrite + i) = j] \in Byte
    <3> DEFINE c == CHOOSE i \in 0 .. k - 1 : Index(nwrite + i) = j
    <3>1. c \in 0 .. k - 1
      BY <2>2
    <3> HIDE DEF c
    <3>2. 1 + c \in 1 .. Len(s)
      BY <1>1, <3>1
    <3>3. s[1 + c] \in Byte
      BY <2>1, <3>2
    <3> QED BY <3>3 DEF c
  <2> QED BY <2>1, <2>2 DEF RingWith
<1> DEFINE t == SubSeq(s, 1, k)
           q == [i \in 1 .. Used + k |-> data'[Index(nread + i - 1)]]
<1>5. t \in Seq(Byte) /\ Len(t) = k /\ \A i \in 1 .. k : t[i] = s[i]
  BY <1>1, SubSeqProperties
<1>6. Contents' = q
  BY <1>3 DEF Contents
<1>7. ASSUME NEW i \in 1 .. Used + k
      PROVE  q[i] = IF i <= Used THEN Contents[i] ELSE t[i - Used]
  <2>1. q[i] = data'[Index(nread + i - 1)]
    OBVIOUS
  <2>2. CASE i <= Used
    <3>1. i - 1 \in 0 .. Used - 1 /\ nread + i - 1 = nread + (i - 1)
      BY <1>1, <2>2
    <3>2. RingWith(s, k)[Index(nread + (i - 1))] = data[Index(nread + (i - 1))]
      BY <3>1, PutOld, Zenon
    <3>3. i \in 1 .. Used
      BY <1>1, <2>2
    <3>4. Contents[i] = data[Index(nread + i - 1)]
      BY <3>3, ContentsSeq
    <3> QED BY <2>1, <2>2, <3>1, <3>2, <3>4
  <2>3. CASE ~(i <= Used)
    <3> DEFINE h == i - Used - 1
    <3>1. h \in 0 .. k - 1 /\ h \in Nat /\ nread + i - 1 = nread + (Used + h) /\ 1 + h = i - Used
          /\ i - Used \in 1 .. k
      BY <1>1, <2>3
    <3> HIDE DEF h
    <3>2. Index(nread + (Used + h)) = Index(nwrite + h)
      BY <3>1, SlotAfter, Zenon
    <3>3. RingWith(s, k)[Index(nwrite + h)] = s[1 + h]
      BY <1>1, <3>1, PutNew, Zenon
    <3>4. t[i - Used] = s[i - Used]
      BY <1>5, <3>1, Zenon
    <3> QED BY <2>1, <2>3, <3>1, <3>2, <3>3, <3>4
  <2> QED BY <2>2, <2>3
<1>8. q \in Seq(Byte) /\ Len(q) = Used + k
  <2>1. Used + k \in Nat
    BY <1>1
  <2>2. \A i \in 1 .. Used + k : q[i] \in Byte
    <3> TAKE i \in 1 .. Used + k
    <3>1. nread + i - 1 \in Nat
      BY <1>1
    <3>2. Index(nread + i - 1) \in Slot
      BY <3>1, IndexIs, Zenon
    <3> QED BY <1>4, <3>2
  <2>3. q \in [1 .. Used + k -> Byte]
    BY <2>2
  <2> HIDE DEF q
  <2> QED BY <2>1, <2>3, FcnSeq, Zenon
<1>9. Contents \o t \in Seq(Byte) /\ Len(Contents \o t) = Used + k
      /\ \A i \in 1 .. Used + k : (Contents \o t)[i] = IF i <= Used THEN Contents[i] ELSE t[i - Used]
  <2> HIDE DEF t
  <2>1. Contents \in Seq(Byte) /\ Len(Contents) = Used
    BY ContentsSeq
  <2>2. /\ Contents \o t \in Seq(Byte) /\ Len(Contents \o t) = Len(Contents) + Len(t)
        /\ \A i \in 1 .. Len(Contents) + Len(t) :
             (Contents \o t)[i] = IF i <= Len(Contents) THEN Contents[i] ELSE t[i - Len(Contents)]
    BY <1>5, <2>1, ConcatProperties, Zenon
  <2> QED BY <1>5, <2>1, <2>2, Zenon
<1>10. q = Contents \o t
  <2> HIDE DEF q, t
  <2>1. \A i \in 1 .. Len(q) : q[i] = (Contents \o t)[i]
    BY <1>7, <1>8, <1>9
  <2> QED BY <1>8, <1>9, <2>1, SeqEqual
<1> QED BY <1>2, <1>3, <1>4, <1>6, <1>10

\* piperead() takes the first bytes off.
LEMMA GetContents ==
  ASSUME TypeOK, Used <= PIPESIZE, NEW k \in 0 .. Used,
         data' = data, nwrite' = nwrite, nread' = Advance(nread, k)
  PROVE  /\ nread' \in 0 .. UINT - 1
         /\ Used' = Used - k
         /\ [i \in 1 .. k |-> data[Index(nread + i - 1)]] = SubSeq(Contents, 1, k)
         /\ SubSeq(Contents, 1, k) \in Seq(Byte) /\ Len(SubSeq(Contents, 1, k)) = k
         /\ Contents' = SubSeq(Contents, k + 1, Len(Contents))
<1>1. /\ PIPESIZE \in Nat /\ PIPESIZE > 0 /\ UINT \in Nat /\ UINT > PIPESIZE
      /\ nwrite \in 0 .. UINT - 1 /\ nread \in 0 .. UINT - 1 /\ Used \in Nat
      /\ k \in 0 .. PIPESIZE
  <2>1. k \in 0 .. PIPESIZE
    BY Numbers
  <2> QED BY <2>1, Numbers, Zenon
<1>2. /\ nread' = IF nread + k < UINT THEN nread + k ELSE nread + k - UINT
      /\ nread' \in 0 .. UINT - 1
  BY <1>1, AdvanceIs
<1>3. Used' = Used - k
  <2>1. Used' = (nwrite + UINT - nread') % UINT
    BY DEF Used
  <2>2. Used' = IF nread' <= nwrite THEN nwrite - nread' ELSE nwrite - nread' + UINT
    BY <1>1, <1>2, <2>1, DiffIs
  <2> QED BY <1>1, <1>2, <2>2, UsedIs
<1>4. Contents \in Seq(Byte) /\ Len(Contents) = Used /\ \A i \in 1 .. Used : Contents[i] \in Byte
  <2>1. Contents \in Seq(Byte) /\ Len(Contents) = Used
    BY ContentsSeq
  <2>2. Contents \in [1 .. Len(Contents) -> Byte]
    BY <2>1, LenProperties
  <2> QED BY <2>1, <2>2
<1> DEFINE a == SubSeq(Contents, 1, k)
           b == SubSeq(Contents, k + 1, Used)
           f == [i \in 1 .. k |-> data[Index(nread + i - 1)]]
           g == [i \in 1 .. Used - k |-> data[Index(nread' + i - 1)]]
<1>5. a \in Seq(Byte) /\ Len(a) = k /\ \A i \in 1 .. k : a[i] = Contents[i]
  <2>1. \A i \in 1 .. k : Contents[i] \in Byte
    BY <1>1, <1>4
  <2>2. 1 \in Int /\ k \in Int
    BY <1>1
  <2>3. /\ a \in Seq(Byte) /\ Len(a) = IF 1 <= k THEN k - 1 + 1 ELSE 0
        /\ \A i \in 1 .. k - 1 + 1 : a[i] = Contents[1 + i - 1]
    BY <2>1, <2>2, SubSeqProperties
  <2>4. \A i \in 1 .. k : i \in 1 .. k - 1 + 1 /\ 1 + i - 1 = i
    BY <1>1
  <2> HIDE DEF a
  <2>5. \A i \in 1 .. k : a[i] = Contents[i]
    BY <2>3, <2>4
  <2>6. Len(a) = k
    BY <1>1, <2>3
  <2> QED BY <2>3, <2>5, <2>6
<1>6. b \in Seq(Byte) /\ Len(b) = Used - k /\ \A i \in 1 .. Used - k : b[i] = Contents[k + i]
  <2>1. \A i \in k + 1 .. Used : Contents[i] \in Byte
    BY <1>1, <1>4
  <2>2. k + 1 \in Int /\ Used \in Int
    BY <1>1
  <2>3. /\ b \in Seq(Byte) /\ Len(b) = IF k + 1 <= Used THEN Used - (k + 1) + 1 ELSE 0
        /\ \A i \in 1 .. Used - (k + 1) + 1 : b[i] = Contents[(k + 1) + i - 1]
    BY <2>1, <2>2, SubSeqProperties
  <2>4. \A i \in 1 .. Used - k : i \in 1 .. Used - (k + 1) + 1 /\ (k + 1) + i - 1 = k + i
    BY <1>1
  <2> HIDE DEF b
  <2>5. \A i \in 1 .. Used - k : b[i] = Contents[k + i]
    BY <2>3, <2>4
  <2>6. Len(b) = Used - k
    BY <1>1, <2>3
  <2> QED BY <2>3, <2>5, <2>6
<1>7. f \in Seq(Byte) /\ Len(f) = k /\ \A i \in 1 .. k : f[i] = Contents[i]
  <2>1. \A i \in 1 .. k : f[i] = Contents[i]
    BY <1>1, ContentsSeq
  <2>2. \A i \in 1 .. k : Contents[i] \in Byte
    BY <1>1, <1>4
  <2>3. f \in [1 .. k -> Byte]
    BY <2>1, <2>2
  <2>4. k \in Nat
    BY <1>1
  <2> HIDE DEF f
  <2> QED BY <2>1, <2>3, <2>4, FcnSeq, Zenon
<1>8. g \in Seq(Byte) /\ Len(g) = Used - k /\ \A i \in 1 .. Used - k : g[i] = Contents[k + i]
  <2>1. ASSUME NEW i \in 1 .. Used - k PROVE g[i] = Contents[k + i] /\ Contents[k + i] \in Byte
    <3>1. k + i \in 1 .. Used /\ nread' + i - 1 \in Nat
      BY <1>1, <1>2
    <3>2. \/ nread + (k + i) - 1 = nread' + i - 1
          \/ nread + (k + i) - 1 = (nread' + i - 1) + UINT
      BY <1>1, <1>2
    <3>3. Index((nread' + i - 1) + UINT) = Index(nread' + i - 1)
      BY <3>1, SlotWraps, Zenon
    <3>4. Index(nread + (k + i) - 1) = Index(nread' + i - 1)
      BY <3>2, <3>3
    <3>5. Contents[k + i] = data[Index(nread + (k + i) - 1)]
      BY <3>1, ContentsSeq, Zenon
    <3>6. Contents[k + i] \in Byte
      BY <1>4, <3>1, Zenon
    <3> QED BY <3>4, <3>5, <3>6
  <2>2. g \in [1 .. Used - k -> Byte]
    <3>1. \A i \in 1 .. Used - k : g[i] \in Byte
      BY <2>1
    <3> QED BY <3>1
  <2>3. Used - k \in Nat
    BY <1>1
  <2> HIDE DEF g
  <2> QED BY <2>1, <2>2, <2>3, FcnSeq, Zenon
<1>9. f = a
  <2> HIDE DEF f, a
  <2>1. Len(f) = Len(a) /\ \A i \in 1 .. Len(f) : f[i] = a[i]
    BY <1>5, <1>7, Zenon
  <2> QED BY <1>5, <1>7, <2>1, SeqEqual, Zenon
<1>10. g = b
  <2> HIDE DEF g, b
  <2>1. Len(g) = Len(b) /\ \A i \in 1 .. Len(g) : g[i] = b[i]
    BY <1>6, <1>8, Zenon
  <2> QED BY <1>6, <1>8, <2>1, SeqEqual, Zenon
<1>11. Contents' = g
  BY <1>3 DEF Contents
<1> QED BY <1>2, <1>3, <1>4, <1>5, <1>9, <1>10, <1>11

-----------------------------------------------------------------------------
(* The invariant                                                           *)

\* The flags are right again after a step that changes neither them nor the ends.
LEMMA SameFlags ==
  ASSUME OpenFlags, TypeOK, UNCHANGED <<readopen, writeopen, freed, ends>>,
         \A q \in Proc : CallOK(q)', pc' \in [Proc -> Place]
  PROVE  OpenFlags'
<1>1. /\ writeopen' <=> \E p \in Proc : "w" \in ends'[p]
      /\ readopen' <=> \E p \in Proc : "r" \in ends'[p]
      /\ freed' <=> ~readopen' /\ ~writeopen'
  BY DEF OpenFlags
<1>2. ASSUME freed', NEW p \in Proc PROVE pc'[p] = "user"
  BY <1>1, <1>2 DEF CallOK, Place
<1> QED BY <1>1, <1>2 DEF OpenFlags

\* Init
LEMMA PipeInit == Init => PipeInv
<1> SUFFICES ASSUME Init PROVE PipeInv
  OBVIOUS
<1>1. TypeOK
  <2>1. readopen \in BOOLEAN /\ writeopen \in BOOLEAN /\ freed \in BOOLEAN
    BY Zenon DEF Init
  <2>2. killed \in [Proc -> BOOLEAN]
    BY Zenon DEF Init
  <2>3. /\ data \in [Slot -> Byte] /\ nread \in 0 .. UINT - 1 /\ nwrite \in 0 .. UINT - 1
        /\ count \in [Proc -> 0 .. MaxCount]
    BY PipeAssumption DEF Init
  <2>4. /\ lock \in Proc \cup {NoProc} /\ ends \in [Proc -> SUBSET {"r", "w"}]
        /\ pc \in [Proc -> Place]
    BY PipeAssumption DEF Init, Place
  <2>5. addr \in [Proc -> Seq(Byte)] /\ res \in [Proc -> Seq(Byte)]
    <3>1. <<>> \in Seq(Byte)
      BY EmptySeq
    <3> QED BY <3>1, Zenon DEF Init
  <2> QED BY <2>1, <2>2, <2>3, <2>4, <2>5, Zenon DEF TypeOK
<1>2. Used = 0
  BY <1>1, UsedIs, PipeAssumption DEF Init
<1>3. PIPESIZE \in Nat
  BY PipeAssumption
<1>4. OpenFlags
  <2>1. ~freed /\ \A p \in Proc : pc[p] = "user"
    BY DEF Init
  <2>2. readopen \/ writeopen
    <3>1. PICK p \in Proc : Ends0[p] # {}
      BY PipeAssumption
    <3>2. "r" \in Ends0[p] \/ "w" \in Ends0[p]
      BY <3>1, PipeAssumption
    <3> QED BY <3>2, Zenon DEF Init
  <2> QED BY <2>1, <2>2, Zenon DEF Init, OpenFlags
<1>5. \A p \in Proc : CallOK(p)
  BY DEF Init, CallOK
<1> QED BY <1>1, <1>2, <1>3, <1>4, <1>5 DEF PipeInv, Init

\* A call of write().
LEMMA WriteInv ==
  ASSUME PipeInv, NEW p \in Proc, Write(p)
  PROVE  PipeInv'
<1> USE DEF struct
<1>1. PICK s \in BoundedSeq : addr' = [addr EXCEPT ![p] = s]
  BY DEF Write
<1>2. s \in Seq(Byte)
  <2>1. PICK n \in 1 .. MaxCount : s \in [1 .. n -> Byte]
    BY DEF BoundedSeq
  <2>2. n \in Nat
    BY PipeAssumption
  <2> QED BY <2>1, <2>2, FcnSeq, Zenon
<1>3. TypeOK'
  <2>1. addr' \in [Proc -> Seq(Byte)] /\ pc' \in [Proc -> Place]
    BY <1>1, <1>2 DEF PipeInv, TypeOK, Write, Place
  <2> QED BY <2>1, Zenon DEF PipeInv, TypeOK, Write
<1>4. Used' = Used
  BY DEF Write, Used
<1>5. ASSUME NEW q \in Proc PROVE CallOK(q)'
  <2>1. CASE q = p
    BY <2>1 DEF PipeInv, TypeOK, Write, CallOK
  <2>2. CASE q # p
    <3>1. /\ pc'[q] = pc[q] /\ addr'[q] = addr[q] /\ ends' = ends /\ count' = count /\ lock' = lock
          /\ (IsFull(nwrite))' = IsFull(nwrite) /\ readopen' = readopen
      BY <1>1, <2>2 DEF PipeInv, TypeOK, Write, IsFull
    <3> QED BY <3>1 DEF PipeInv, CallOK
  <2> QED BY <2>1, <2>2
<1>6. OpenFlags'
  BY <1>3, <1>5, SameFlags DEF PipeInv, Write, TypeOK
<1>7. lock' # NoProc => pc'[lock'] \in {"wsleep", "rsleep"}
  BY DEF PipeInv, TypeOK, Write
<1> QED BY <1>3, <1>4, <1>5, <1>6, <1>7 DEF PipeInv

\* A call of read().
LEMMA ReadInv ==
  ASSUME PipeInv, NEW p \in Proc, Read(p)
  PROVE  PipeInv'
<1> USE DEF struct
<1>1. PICK n \in 1 .. MaxCount : count' = [count EXCEPT ![p] = n]
  BY DEF Read
<1>2. n \in 0 .. MaxCount /\ n > 0
  BY PipeAssumption
<1>3. TypeOK'
  <2>1. <<>> \in Seq(Byte)
    BY EmptySeq
  <2>2. count' \in [Proc -> 0 .. MaxCount] /\ pc' \in [Proc -> Place] /\ res' \in [Proc -> Seq(Byte)]
    BY <1>1, <1>2, <2>1 DEF PipeInv, TypeOK, Read, Place
  <2> QED BY <2>2, Zenon DEF PipeInv, TypeOK, Read
<1>4. Used' = Used
  BY DEF Read, Used
<1>5. ASSUME NEW q \in Proc PROVE CallOK(q)'
  <2>1. CASE q = p
    BY <1>1, <1>2, <2>1 DEF PipeInv, TypeOK, Read, CallOK
  <2>2. CASE q # p
    <3>1. /\ pc'[q] = pc[q] /\ count'[q] = count[q] /\ ends' = ends /\ addr' = addr /\ lock' = lock
          /\ (IsFull(nwrite))' = IsFull(nwrite) /\ readopen' = readopen
      BY <1>1, <2>2 DEF PipeInv, TypeOK, Read, IsFull
    <3> QED BY <3>1 DEF PipeInv, CallOK
  <2> QED BY <2>1, <2>2
<1>6. OpenFlags'
  BY <1>3, <1>5, SameFlags DEF PipeInv, Read, TypeOK
<1>7. lock' # NoProc => pc'[lock'] \in {"wsleep", "rsleep"}
  BY DEF PipeInv, TypeOK, Read
<1> QED BY <1>3, <1>4, <1>5, <1>6, <1>7 DEF PipeInv

\* sleep(): the process that goes to sleep is the one that held p->lock.
LEMMA SleepInv ==
  ASSUME PipeInv, NEW p \in Proc, Sleep(p)
  PROVE  PipeInv'
<1> USE DEF struct
<1>1. lock = p
  BY DEF PipeInv, CallOK, Sleep
<1>2. TypeOK'
  <2>1. pc' \in [Proc -> Place] /\ lock' \in Proc \cup {NoProc}
    BY DEF PipeInv, TypeOK, Sleep, Place
  <2> QED BY <2>1, Zenon DEF PipeInv, TypeOK, Sleep
<1>3. Used' = Used
  BY DEF Sleep, Used
<1>4. ASSUME NEW q \in Proc PROVE CallOK(q)'
  <2>0. /\ ends' = ends /\ addr' = addr /\ count' = count
        /\ (IsFull(nwrite))' = IsFull(nwrite) /\ readopen' = readopen
    BY DEF Sleep, IsFull
  <2>1. CASE q = p
    <3>1. \/ pc[q] = "wsleep" /\ pc'[q] = "wasleep"
          \/ pc[q] = "rsleep" /\ pc'[q] = "rasleep"
      BY <2>1 DEF PipeInv, TypeOK, Sleep
    <3> QED BY <2>0, <3>1 DEF PipeInv, CallOK
  <2>2. CASE q # p
    <3>1. pc'[q] = pc[q] /\ pc[q] \notin {"wsleep", "rsleep"}
      BY <1>1, <2>2 DEF PipeInv, TypeOK, Sleep, CallOK
    <3> QED BY <2>0, <3>1 DEF PipeInv, CallOK
  <2> QED BY <2>1, <2>2
<1>5. OpenFlags'
  BY <1>2, <1>4, SameFlags DEF PipeInv, Sleep, TypeOK
<1>6. lock' = NoProc
  BY DEF Sleep
<1> QED BY <1>2, <1>3, <1>4, <1>5, <1>6 DEF PipeInv

\* kill()
LEMMA KillInv ==
  ASSUME PipeInv, NEW p \in Proc, Kill(p)
  PROVE  PipeInv'
<1> USE DEF struct
<1>1. ASSUME NEW q \in Proc
      PROVE  \/ pc'[q] = pc[q]
             \/ pc[q] = "rasleep" /\ pc'[q] = "read"
             \/ pc[q] = "wasleep" /\ pc'[q] = "write"
  BY DEF PipeInv, TypeOK, Kill
<1>2. TypeOK'
  <2>1. killed' \in [Proc -> BOOLEAN]
    BY Zenon DEF PipeInv, TypeOK, Kill
  <2>2. pc' \in [Proc -> Place]
    BY DEF PipeInv, TypeOK, Kill, Place
  <2> QED BY <2>1, <2>2, Zenon DEF PipeInv, TypeOK, Kill
<1>3. Used' = Used
  BY DEF Kill, Used
<1>4. ASSUME NEW q \in Proc PROVE CallOK(q)'
  <2>1. /\ ends' = ends /\ addr' = addr /\ count' = count /\ lock' = lock
        /\ (IsFull(nwrite))' = IsFull(nwrite) /\ readopen' = readopen
    BY DEF Kill, IsFull
  <2> QED BY <1>1, <2>1 DEF PipeInv, CallOK
<1>5. OpenFlags'
  BY <1>2, <1>4, SameFlags DEF PipeInv, Kill, TypeOK
<1>6. lock' # NoProc => pc'[lock'] \in {"wsleep", "rsleep"}
  BY <1>1 DEF PipeInv, TypeOK, Kill
<1> QED BY <1>2, <1>3, <1>4, <1>5, <1>6 DEF PipeInv

\* close(): the flag goes down with the last reference, and the last close() of
\* the read end wakes the writers, so that none of them sleeps on.
LEMMA CloseInv ==
  ASSUME PipeInv, NEW p \in Proc, NEW e \in {"r", "w"}, Close(p, e)
  PROVE  PipeInv'
<1> USE DEF struct
<1> DEFINE last == ~\E q \in Proc : e \in ends'[q]
<1>1. /\ \A q \in Proc : ends'[q] = IF q = p THEN ends[p] \ {e} ELSE ends[q]
      /\ ends' \in [Proc -> SUBSET {"r", "w"}]
  BY DEF PipeInv, TypeOK, Close
<1>2. ASSUME NEW q \in Proc
      PROVE  \/ pc'[q] = pc[q]
             \/ pc[q] = "rasleep" /\ pc'[q] = "read" /\ last
             \/ pc[q] = "wasleep" /\ pc'[q] = "write" /\ last
  BY DEF PipeInv, TypeOK, Close, WakeReaders, WakeWriters
<1>3. /\ data' = data /\ nread' = nread /\ nwrite' = nwrite /\ addr' = addr /\ count' = count
      /\ lock' = lock /\ res' = res /\ killed' = killed
  BY DEF Close
<1>4. pc' \in [Proc -> Place]
  BY DEF PipeInv, TypeOK, Close, WakeReaders, WakeWriters, Place
<1>5. /\ readopen' <=> readopen /\ ~(last /\ e = "r")
      /\ writeopen' <=> writeopen /\ ~(last /\ e = "w")
  BY Zenon DEF PipeInv, TypeOK, Close
<1>6. readopen' \in BOOLEAN /\ writeopen' \in BOOLEAN /\ freed' \in BOOLEAN
  BY Zenon DEF PipeInv, TypeOK, Close
<1>7. freed' <=> ~readopen' /\ ~writeopen'
  BY <1>5, Zenon DEF PipeInv, OpenFlags, TypeOK, Close
<1>8. TypeOK'
  BY <1>1, <1>3, <1>4, <1>6, Zenon DEF PipeInv, TypeOK
<1>9. Used' = Used
  BY <1>3 DEF Used
<1>10. /\ writeopen' <=> \E q \in Proc : "w" \in ends'[q]
       /\ readopen' <=> \E q \in Proc : "r" \in ends'[q]
  <2>1. CASE e = "w"
    <3>1. \A q \in Proc : "r" \in ends'[q] <=> "r" \in ends[q]
      BY <1>1, <2>1
    <3>2. (\E q \in Proc : "w" \in ends'[q]) => writeopen
      BY <1>1 DEF PipeInv, OpenFlags
    <3> QED BY <1>5, <2>1, <3>1, <3>2 DEF PipeInv, OpenFlags
  <2>2. CASE e = "r"
    <3>1. \A q \in Proc : "w" \in ends'[q] <=> "w" \in ends[q]
      BY <1>1, <2>2
    <3>2. (\E q \in Proc : "r" \in ends'[q]) => readopen
      BY <1>1 DEF PipeInv, OpenFlags
    <3> QED BY <1>5, <2>2, <3>1, <3>2 DEF PipeInv, OpenFlags
  <2> QED BY <2>1, <2>2
<1>11. ASSUME NEW q \in Proc PROVE CallOK(q)'
  <2>1. (IsFull(nwrite))' = IsFull(nwrite)
    BY <1>3 DEF IsFull
  <2>2. CASE q = p
    <3>1. pc[p] = "user"
      BY DEF Close
    <3>2. pc'[q] = "user"
      BY <1>2, <2>2, <3>1
    <3> QED BY <1>3, <2>2, <3>1, <3>2 DEF PipeInv, CallOK
  <2>3. CASE q # p
    <3>1. ends'[q] = ends[q]
      BY <1>1, <2>3
    <3>2. pc'[q] \in {"wsleep", "wasleep"} => readopen'
      <4> SUFFICES ASSUME pc'[q] \in {"wsleep", "wasleep"}, last, e = "r" PROVE FALSE
        BY <1>2, <1>5 DEF PipeInv, CallOK
      <4>1. lock = NoProc /\ pc' = WakeWriters(pc)
        BY DEF Close
      <4>2. pc'[q] # "wasleep" /\ pc[q] = "wsleep"
        BY <4>1 DEF WakeWriters
      <4> QED BY <4>1, <4>2, PipeAssumption DEF PipeInv, CallOK
    <3> QED BY <1>2, <1>3, <2>1, <3>1, <3>2 DEF PipeInv, CallOK
  <2> QED BY <2>2, <2>3
<1>12. OpenFlags'
  <2>1. ASSUME freed', NEW q \in Proc PROVE pc'[q] = "user"
    BY <1>4, <1>7, <1>10, <1>11, <2>1 DEF CallOK, Place
  <2> QED BY <1>7, <1>10, <2>1 DEF OpenFlags
<1>13. lock' # NoProc => pc'[lock'] \in {"wsleep", "rsleep"}
  BY <1>2, <1>3 DEF PipeInv, TypeOK
<1> QED BY <1>8, <1>9, <1>11, <1>12, <1>13 DEF PipeInv

\* A turn of pipewrite() delivers the next bytes to the channel.  What it cannot
\* deliver finds the pipe full, whether the writer goes to sleep or gives up.
LEMMA pipewriteInv ==
  ASSUME PipeInv, NEW p \in Proc, pipewrite(p)
  PROVE  PipeInv' /\ \E k \in 0 .. PIPESIZE : FIFO!Put(p, k)
<1> DEFINE s == addr[p]
           n == Len(addr[p])
           k == Fits(n)
<1>1. /\ pc[p] = "write" /\ lock = NoProc
      /\ data' = RingWith(s, k) /\ nwrite' = Advance(nwrite, k) /\ nread' = nread
      /\ readopen' = readopen /\ writeopen' = writeopen /\ freed' = freed /\ ends' = ends
      /\ count' = count /\ res' = res /\ killed' = killed
  BY DEF pipewrite, RingWith
<1>2. \/ /\ k = n /\ addr' = [addr EXCEPT ![p] = <<>>]
         /\ pc' = [WakeReaders(pc) EXCEPT ![p] = "user"] /\ lock' = lock
      \/ /\ k < n /\ addr' = [addr EXCEPT ![p] = <<>>]
         /\ pc' = [pc EXCEPT ![p] = "user"] /\ lock' = lock
      \/ /\ k < n /\ readopen /\ addr' = [addr EXCEPT ![p] = SubSeq(@, k + 1, n)]
         /\ pc' = [WakeReaders(pc) EXCEPT ![p] = "wsleep"] /\ lock' = p
  BY DEF pipewrite
<1>3. /\ TypeOK /\ Used <= PIPESIZE /\ OpenFlags /\ \A q \in Proc : CallOK(q)
      /\ addr \in [Proc -> Seq(Byte)] /\ pc \in [Proc -> Place] /\ s \in Seq(Byte) /\ n \in Nat
  <2>1. TypeOK /\ Used <= PIPESIZE /\ OpenFlags /\ \A q \in Proc : CallOK(q)
    BY DEF PipeInv
  <2>2. addr \in [Proc -> Seq(Byte)] /\ pc \in [Proc -> Place]
    BY <2>1 DEF TypeOK
  <2>3. s \in Seq(Byte)
    BY <2>2
  <2> QED BY <2>1, <2>2, <2>3, LenProperties
<1>4. PIPESIZE \in Nat /\ Used \in Nat
  BY <1>3, Numbers, Zenon
<1>5. k = IF n <= PIPESIZE - Used THEN n ELSE PIPESIZE - Used
  BY <1>3, FitsIs, Zenon
<1> HIDE DEF k, n, s
<1>6. k \in 0 .. PIPESIZE - Used /\ k \in 0 .. PIPESIZE /\ k <= n /\ (k < n => k = PIPESIZE - Used)
  BY <1>3, <1>4, <1>5
<1>7. /\ data' \in [Slot -> Byte] /\ nwrite' \in 0 .. UINT - 1
      /\ Used' = Used + k
      /\ Contents' = Contents \o SubSeq(s, 1, k)
  <2>1. k <= Len(s)
    BY <1>6 DEF n, s
  <2> QED BY <1>1, <1>3, <1>6, <2>1, PutContents, Zenon
<1>8. Used' <= PIPESIZE
  BY <1>4, <1>6, <1>7
<1>9. k < n => IsFull(nwrite)'
  <2>1. IsFull(Advance(nwrite, k)) <=> k = PIPESIZE - Used
    BY <1>3, <1>6, FullAt, Zenon
  <2>2. IsFull(nwrite)' <=> IsFull(Advance(nwrite, k))
    BY <1>1 DEF IsFull
  <2> QED BY <1>6, <2>1, <2>2
<1>10. IsFull(nwrite) => IsFull(nwrite)'
  <2> SUFFICES ASSUME IsFull(nwrite) PROVE nwrite' = nwrite
    BY <1>1 DEF IsFull
  <2>1. Used = PIPESIZE
    BY <1>3, FullNow, Zenon
  <2>2. k = 0
    BY <1>4, <1>6, <2>1
  <2>3. nwrite \in 0 .. UINT - 1 /\ UINT \in Nat
    BY <1>3, Numbers, Zenon
  <2>4. 0 \in 0 .. PIPESIZE
    BY <1>4
  <2>5. Advance(nwrite, 0) = nwrite
    BY <2>3, <2>4, AdvanceIs
  <2> QED BY <1>1, <2>2, <2>5, Zenon
<1>11. addr' \in [Proc -> Seq(Byte)] /\ \A q \in Proc : q # p => addr'[q] = addr[q]
  <2>1. <<>> \in Seq(Byte)
    BY EmptySeq
  <2>2. SubSeq(s, k + 1, n) \in Seq(Byte)
    <3>1. \A i \in k + 1 .. n : s[i] \in Byte
      <4>1. s \in [1 .. n -> Byte]
        BY <1>3, LenProperties DEF n, s
      <4> QED BY <1>4, <1>6, <4>1
    <3>2. k + 1 \in Int /\ n \in Int
      BY <1>3, <1>6
    <3> QED BY <3>1, <3>2, SubSeqProperties
  <2>3. SubSeq(addr[p], k + 1, n) \in Seq(Byte)
    BY <2>2 DEF s
  <2> QED BY <1>2, <1>3, <2>1, <2>3
<1>12. pc' \in [Proc -> Place]
  <2>1. WakeReaders(pc) \in [Proc -> Place]
    BY <1>3 DEF WakeReaders, Place
  <2> QED BY <1>2, <1>3, <2>1 DEF Place
<1>13. TypeOK'
  <2>1. lock' \in Proc \cup {NoProc}
    BY <1>1, <1>2
  <2> QED BY <1>1, <1>3, <1>7, <1>11, <1>12, <2>1, Zenon DEF TypeOK
<1>14. ASSUME NEW q \in Proc PROVE CallOK(q)'
  <2>1. CASE q = p
    <3>1. "w" \in ends'[q]
      BY <1>1, <1>3, <2>1 DEF CallOK
    <3>2. \/ pc'[q] = "user" /\ addr'[q] = <<>>
          \/ pc'[q] = "wsleep" /\ lock' = q /\ k < n /\ readopen
      BY <1>2, <1>3, <2>1 DEF WakeReaders
    <3> QED BY <1>1, <1>9, <3>1, <3>2 DEF CallOK
  <2>2. CASE q # p
    <3>1. pc'[q] = pc[q] \/ (pc[q] = "rasleep" /\ pc'[q] = "read")
      BY <1>2, <1>3, <2>2 DEF WakeReaders
    <3>2. pc[q] \notin {"wsleep", "rsleep"}
      BY <1>1, <1>3, PipeAssumption DEF CallOK
    <3>3. addr'[q] = addr[q]
      BY <1>11, <2>2
    <3>4. CallOK(q)
      BY <1>3
    <3> QED BY <1>1, <1>10, <3>1, <3>2, <3>3, <3>4 DEF CallOK
  <2> QED BY <2>1, <2>2
<1>15. OpenFlags'
  BY <1>1, <1>3, <1>12, <1>14, SameFlags
<1>16. lock' # NoProc => pc'[lock'] \in {"wsleep", "rsleep"}
  BY <1>1, <1>2, <1>3 DEF WakeReaders
<1>17. PipeInv'
  BY <1>8, <1>13, <1>14, <1>15, <1>16 DEF PipeInv
<1>18. FIFO!Put(p, k)
  <2>1. k <= Len(addr[p])
    BY <1>6 DEF n
  <2>2. Len(Contents) + k <= PIPESIZE
    <3>1. Len(Contents) = Used
      BY <1>3, ContentsSeq, Zenon
    <3> QED BY <1>4, <1>6, <3>1
  <2>3. Contents' = Contents \o SubSeq(addr[p], 1, k)
    BY <1>7 DEF s
  <2>4. \/ addr' = [addr EXCEPT ![p] = SubSeq(@, k + 1, Len(@))]
        \/ addr' = [addr EXCEPT ![p] = <<>>]
    BY <1>2, <1>3 DEF n
  <2> QED BY <1>1, <2>1, <2>2, <2>3, <2>4, Zenon DEF FIFO!Put
<1> QED BY <1>6, <1>17, <1>18

\* piperead() takes the oldest bytes off the channel, or does nothing to it.  The
\* last writer to sleep is woken by the read that makes room.
LEMMA pipereadInv ==
  ASSUME PipeInv, NEW p \in Proc, piperead(p)
  PROVE  /\ PipeInv'
         /\ \/ \E k \in 0 .. PIPESIZE : FIFO!Get(p, k)
            \/ UNCHANGED <<Contents, addr, res>>
<1> DEFINE k == Avail(count[p])
<1>1. /\ pc[p] = "read" /\ lock = NoProc
      /\ data' = data /\ nwrite' = nwrite
      /\ readopen' = readopen /\ writeopen' = writeopen /\ freed' = freed /\ ends' = ends
      /\ addr' = addr /\ killed' = killed
  BY DEF piperead
<1>2. \/ /\ pc' = [pc EXCEPT ![p] = "user"] /\ count' = [count EXCEPT ![p] = 0]
         /\ lock' = lock /\ nread' = nread /\ res' = res
      \/ /\ pc' = [pc EXCEPT ![p] = "rsleep"]
         /\ lock' = p /\ nread' = nread /\ res' = res /\ count' = count
      \/ /\ res' = [res EXCEPT ![p] = [i \in 1 .. k |-> data[Index(nread + i - 1)]]]
         /\ nread' = Advance(nread, k)
         /\ pc' = [WakeWriters(pc) EXCEPT ![p] = "user"]
         /\ count' = [count EXCEPT ![p] = 0] /\ lock' = lock
  BY DEF piperead
<1>3. /\ TypeOK /\ Used <= PIPESIZE /\ OpenFlags /\ \A q \in Proc : CallOK(q)
      /\ pc \in [Proc -> Place] /\ count \in [Proc -> 0 .. MaxCount] /\ res \in [Proc -> Seq(Byte)]
  BY DEF PipeInv, TypeOK
<1>4. PIPESIZE \in Nat /\ Used \in Nat /\ nread \in 0 .. UINT - 1 /\ MaxCount \in Nat
  <2>1. MaxCount \in Nat
    BY PipeAssumption
  <2> QED BY <1>3, <2>1, Numbers, Zenon
<1>5. k \in 0 .. Used /\ k \in 0 .. PIPESIZE
  BY <1>3, <1>4 DEF Avail
<1> HIDE DEF k
<1>6. \A q \in Proc : pc[q] \notin {"wsleep", "rsleep"}
  BY <1>1, <1>3, PipeAssumption DEF CallOK
<1>7. count' \in [Proc -> 0 .. MaxCount] /\ \A q \in Proc : q # p => count'[q] = count[q]
  <2>1. count' = count \/ count' = [count EXCEPT ![p] = 0]
    BY <1>2, Zenon
  <2>2. 0 \in 0 .. MaxCount
    BY <1>4
  <2> QED BY <1>3, <2>1, <2>2
<1>8. pc' \in [Proc -> Place] /\ lock' \in Proc \cup {NoProc}
  <2>1. WakeWriters(pc) \in [Proc -> Place]
    BY <1>3 DEF WakeWriters, Place
  <2> QED BY <1>1, <1>2, <1>3, <2>1 DEF Place
<1>9. CASE nread' = nread /\ res' = res /\ ((pc' = [pc EXCEPT ![p] = "user"] /\ lock' = lock)
                  \/ (pc' = [pc EXCEPT ![p] = "rsleep"] /\ lock' = p /\ count' = count))
  <2>1. Used' = Used /\ Contents' = Contents /\ (IsFull(nwrite))' = IsFull(nwrite)
    BY <1>1, <1>9 DEF Used, Contents, IsFull
  <2>2. TypeOK'
    BY <1>1, <1>3, <1>7, <1>8, <1>9, Zenon DEF TypeOK
  <2>3. ASSUME NEW q \in Proc PROVE CallOK(q)'
    <3>1. CallOK(q)
      BY <1>3
    <3>2. CASE q = p
      BY <1>1, <1>3, <1>9, <3>1, <3>2 DEF CallOK
    <3>3. CASE q # p
      BY <1>1, <1>3, <1>6, <1>7, <1>9, <2>1, <3>1, <3>3 DEF CallOK
    <3> QED BY <3>2, <3>3
  <2>4. OpenFlags'
    BY <1>1, <1>3, <1>8, <2>3, SameFlags
  <2>5. lock' # NoProc => pc'[lock'] \in {"wsleep", "rsleep"}
    BY <1>1, <1>3, <1>9
  <2>6. PipeInv'
    BY <1>3, <2>1, <2>2, <2>3, <2>4, <2>5 DEF PipeInv
  <2> QED BY <1>1, <1>9, <2>1, <2>6
<1>10. CASE /\ res' = [res EXCEPT ![p] = [i \in 1 .. k |-> data[Index(nread + i - 1)]]]
            /\ nread' = Advance(nread, k)
            /\ pc' = [WakeWriters(pc) EXCEPT ![p] = "user"] /\ lock' = lock
  <2>1. /\ nread' \in 0 .. UINT - 1
        /\ Used' = Used - k
        /\ [i \in 1 .. k |-> data[Index(nread + i - 1)]] = SubSeq(Contents, 1, k)
        /\ SubSeq(Contents, 1, k) \in Seq(Byte)
        /\ Contents' = SubSeq(Contents, k + 1, Len(Contents))
    BY <1>1, <1>3, <1>5, <1>10, GetContents, Zenon
  <2>2. res' = [res EXCEPT ![p] = SubSeq(Contents, 1, k)]
    BY <1>10, <2>1, Zenon
  <2>3. res' \in [Proc -> Seq(Byte)]
    BY <1>3, <2>1, <2>2
  <2>4. TypeOK'
    BY <1>1, <1>3, <1>7, <1>8, <2>1, <2>3, Zenon DEF TypeOK
  <2>5. ASSUME NEW q \in Proc PROVE CallOK(q)'
    <3>1. CallOK(q)
      BY <1>3
    <3>2. pc'[q] = IF q = p THEN "user" ELSE IF pc[q] = "wasleep" THEN "write" ELSE pc[q]
      BY <1>3, <1>10 DEF WakeWriters
    <3>3. pc'[q] \notin {"wsleep", "rsleep", "wasleep"}
      BY <1>6, <3>2
    <3>4. CASE q = p
      BY <1>1, <3>1, <3>2, <3>4 DEF CallOK
    <3>5. CASE q # p
      BY <1>1, <1>7, <3>1, <3>2, <3>3, <3>5 DEF CallOK
    <3> QED BY <3>4, <3>5
  <2>6. OpenFlags'
    BY <1>1, <1>3, <1>8, <2>5, SameFlags
  <2>7. Used' <= PIPESIZE
    BY <1>3, <1>4, <1>5, <2>1
  <2>8. lock' = NoProc
    BY <1>1, <1>10
  <2>9. PipeInv'
    BY <2>4, <2>5, <2>6, <2>7, <2>8 DEF PipeInv
  <2>10. k <= Len(Contents)
    <3>1. Len(Contents) = Used
      BY <1>3, ContentsSeq, Zenon
    <3> QED BY <1>4, <1>5, <3>1
  <2>11. FIFO!Get(p, k)
    BY <1>1, <2>1, <2>2, <2>10, Zenon DEF FIFO!Get
  <2> QED BY <1>5, <2>9, <2>11
<1> QED BY <1>2, <1>9, <1>10

-----------------------------------------------------------------------------
(* Theorems                                                                *)

\* The invariant holds.
THEOREM PipeInvariant == Spec => []PipeInv
<1>1. PipeInv /\ [Next]_vars => PipeInv'
  <2> SUFFICES ASSUME PipeInv, [Next]_vars PROVE PipeInv'
    OBVIOUS
  <2>1. CASE UNCHANGED vars
    BY <2>1 DEF vars, PipeInv, TypeOK, Used, OpenFlags, CallOK, IsFull
  <2>2. ASSUME NEW p \in Proc,
               \/ Write(p) \/ Read(p) \/ Turn(p) \/ Kill(p)
               \/ \E e \in {"r", "w"} : Close(p, e)
        PROVE  PipeInv'
    BY <2>2, WriteInv, ReadInv, pipewriteInv, pipereadInv, SleepInv, KillInv, CloseInv, Zenon
       DEF Turn
  <2> QED BY <2>1, <2>2 DEF Next
<1> QED BY <1>1, PipeInit, PTL DEF Spec

\* The ring and its counters keep their types, and readopen, writeopen and the
\* freeing of the page follow the references to the ends.
THEOREM PipeFlags == Spec => [](TypeOK /\ OpenFlags)
<1>1. PipeInv => TypeOK /\ OpenFlags
  BY DEF PipeInv
<1> QED BY <1>1, PipeInvariant, PTL

\* A writer sleeps only while the pipe is full and somebody can empty it: no
\* wakeup() of pipewrite() by piperead() or pipeclose() is lost.
THEOREM PipeWriterSleeps == Spec => []WriterSleepsOnlyIfFull
<1>1. PipeInv => WriterSleepsOnlyIfFull
  BY DEF PipeInv, CallOK, WriterSleepsOnlyIfFull
<1> QED BY <1>1, PipeInvariant, PTL

\* End of file is final: read() returns no bytes to a process that is not killed
\* only when the pipe is empty and nobody holds its write end.
THEOREM PipeEndOfFile == Spec => EndOfFileIsFinal
<1> DEFINE Final == \A p \in Proc : piperead(p) /\ pc'[p] = "user" /\ res'[p] = <<>> /\ ~killed[p] =>
                       Contents = <<>> /\ \A q \in Proc : "w" \notin ends[q]
<1>1. ASSUME PipeInv, NEW p \in Proc, piperead(p), pc'[p] = "user", res'[p] = <<>>, ~killed[p]
      PROVE  Contents = <<>> /\ \A q \in Proc : "w" \notin ends[q]
  <2> DEFINE k == Avail(count[p])
  <2>1. /\ ~(IsEmpty /\ writeopen) /\ nread' = Advance(nread, k) /\ data' = data /\ nwrite' = nwrite
        /\ res' = [res EXCEPT ![p] = [i \in 1 .. k |-> data[Index(nread + i - 1)]]]
    <3>1. pc' # [pc EXCEPT ![p] = "rsleep"]
      BY <1>1 DEF PipeInv, TypeOK
    <3> QED BY <1>1, <3>1, Zenon DEF piperead
  <2>2. /\ TypeOK /\ OpenFlags /\ Used <= PIPESIZE /\ Used \in Nat /\ count[p] \in Nat /\ count[p] > 0
        /\ res \in [Proc -> Seq(Byte)]
    <3>1. TypeOK /\ OpenFlags /\ Used <= PIPESIZE /\ CallOK(p)
      BY <1>1 DEF PipeInv
    <3>2. count[p] \in Nat /\ res \in [Proc -> Seq(Byte)]
      BY <3>1, PipeAssumption DEF TypeOK
    <3>3. count[p] > 0
      BY <1>1, <3>1 DEF CallOK, piperead
    <3> QED BY <3>1, <3>2, <3>3, Numbers, Zenon
  <2>3. k \in 0 .. Used /\ (k = 0 => Used = 0)
    BY <2>2 DEF Avail
  <2> HIDE DEF k
  <2>4. [i \in 1 .. k |-> data[Index(nread + i - 1)]] = SubSeq(Contents, 1, k)
        /\ Len(SubSeq(Contents, 1, k)) = k
    BY <2>1, <2>2, <2>3, GetContents, Zenon
  <2>5. res'[p] = [i \in 1 .. k |-> data[Index(nread + i - 1)]]
    BY <2>1, <2>2, Zenon
  <2>6. k = 0
    <3>1. Len(<<>>) = 0
      BY EmptySeq
    <3> QED BY <1>1, <2>4, <2>5, <3>1, Zenon
  <2>7. Used = 0
    BY <2>3, <2>6
  <2>8. IsEmpty
    BY <2>2, <2>7, UsedIs, Numbers DEF IsEmpty
  <2>9. \A q \in Proc : "w" \notin ends[q]
    BY <2>1, <2>2, <2>8 DEF OpenFlags
  <2>10. Contents = <<>>
    <3>1. Contents \in Seq(Byte) /\ Len(Contents) = 0
      BY <2>2, <2>7, ContentsSeq, Zenon
    <3> QED BY <3>1, EmptySeq
  <2> QED BY <2>9, <2>10
<1>2. PipeInv => Final
  BY <1>1
<1> QED BY <1>2, PipeInvariant, PTL DEF EndOfFileIsFinal

\* The pipe implements the bounded first-in first-out channel: each turn of
\* pipewrite() puts bytes, piperead() gets the oldest, and sleep(), kill() and
\* close() lose, repeat or reorder none, also when the uints wrap.
THEOREM PipeImplements == Spec => Implements
<1>1. Init => FIFO!Init
  <2> SUFFICES ASSUME Init PROVE FIFO!Init
    OBVIOUS
  <2>1. PipeInv
    BY PipeInit
  <2>2. Contents \in Seq(Byte) /\ Len(Contents) = Used /\ TypeOK
    BY <2>1, ContentsSeq DEF PipeInv
  <2>3. Used = 0
    BY <2>2, UsedIs DEF Init
  <2>4. Contents = <<>>
    BY <2>2, <2>3, EmptySeq
  <2> QED BY <2>4 DEF Init, FIFO!Init
<1>2. PipeInv /\ [Next]_vars => [FIFO!Next]_FIFO!vars
  <2> SUFFICES ASSUME PipeInv, [Next]_vars PROVE FIFO!Next \/ UNCHANGED FIFO!vars
    OBVIOUS
  <2>1. CASE UNCHANGED <<data, nread, nwrite, addr, res>>
    BY <2>1 DEF FIFO!vars, Contents, Used
  <2>2. ASSUME NEW p \in Proc, Write(p) PROVE FIFO!Next
    <3>1. Contents' = Contents /\ res' = res
      BY <2>2 DEF Write, struct, Contents, Used
    <3>2. addr[p] = <<>>
      BY <2>2 DEF PipeInv, CallOK, Write
    <3>3. PipeInv'
      BY <2>2, WriteInv, Zenon
    <3>4. addr' \in [Proc -> Seq(Byte)] /\ addr \in [Proc -> Seq(Byte)]
      BY <3>3 DEF PipeInv, TypeOK
    <3>5. addr'[p] \in Seq(Byte)
      BY <3>4
    <3>6. addr' = [addr EXCEPT ![p] = addr'[p]]
      BY <2>2, <3>4 DEF Write
    <3>7. FIFO!Write(p)
      BY <3>1, <3>2, <3>5, <3>6, Zenon DEF FIFO!Write
    <3> QED BY <3>7, Zenon DEF FIFO!Next
  <2>3. ASSUME NEW p \in Proc, Read(p) PROVE FIFO!Next
    <3>1. Contents' = Contents
      BY <2>3 DEF Read, struct, Contents, Used
    <3>2. FIFO!Read(p)
      BY <2>3, <3>1 DEF Read, FIFO!Read
    <3> QED BY <3>2, Zenon DEF FIFO!Next
  <2>4. ASSUME NEW p \in Proc, pipewrite(p) PROVE FIFO!Next
    BY <2>4, pipewriteInv, Zenon DEF FIFO!Next
  <2>5. ASSUME NEW p \in Proc, piperead(p) PROVE FIFO!Next \/ UNCHANGED FIFO!vars
    BY <2>5, pipereadInv, Zenon DEF FIFO!Next, FIFO!vars
  <2>6. ASSUME NEW p \in Proc, Sleep(p) PROVE UNCHANGED <<data, nread, nwrite, addr, res>>
    BY <2>6 DEF Sleep, struct
  <2>7. ASSUME NEW p \in Proc, Kill(p) PROVE UNCHANGED <<data, nread, nwrite, addr, res>>
    BY <2>7 DEF Kill, struct
  <2>8. ASSUME NEW p \in Proc, NEW e \in {"r", "w"}, Close(p, e)
        PROVE  UNCHANGED <<data, nread, nwrite, addr, res>>
    BY <2>8 DEF Close, struct
  <2>9. UNCHANGED vars => UNCHANGED <<data, nread, nwrite, addr, res>>
    BY DEF vars
  <2> QED BY <2>1, <2>2, <2>3, <2>4, <2>5, <2>6, <2>7, <2>8, <2>9, Zenon DEF Next, Turn
<1> QED BY <1>1, <1>2, PipeInvariant, PTL DEF Spec, Implements, FIFO!Spec
=============================================================================
