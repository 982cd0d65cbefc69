--------------------------- MODULE MemoryAccounts ---------------------------
(***************************************************************************)
(* No physical page is lost, for any number of processes, pages and page   *)
(* tables: what deallocuvm()'s walk computes, and that every page is free, *)
(* mapped or in the hand of a call (Acc).                                  *)
(***************************************************************************)
EXTENDS MemoryProofs, WellFoundedInduction

-----------------------------------------------------------------------------
(* The walk of deallocuvm()                                                *)

\* Multiples of m are at least m apart.
LEMMA MulGap ==
  ASSUME NEW m \in Nat, m > 0, NEW a \in Int, NEW b \in Int, a > b
  PROVE  m * a >= m * b + m
<1>1. PICK d \in Nat : a = b + 1 + d
  <2>1. a - b - 1 \in Nat
    OBVIOUS
  <2> QED BY <2>1
<1>2. m * a = m * b + m + m * d
  BY <1>1
<1>3. m * d >= 0
  OBVIOUS
<1>4. m * b \in Int /\ m * d \in Int
  OBVIOUS
<1> QED BY <1>2, <1>3, <1>4

\* Division with remainder.
LEMMA DivMod ==
  ASSUME NEW m \in Nat, m > 0, NEW x \in Int
  PROVE  x \div m \in Int /\ x % m \in 0 .. m - 1 /\ x = m * (x \div m) + (x % m)
OBVIOUS

\* The quotient and the remainder are the only ones.
LEMMA DivModIs ==
  ASSUME NEW m \in Nat, m > 0, NEW x \in Int, NEW q \in Int, NEW r \in 0 .. m - 1, x = m * q + r
  PROVE  x \div m = q /\ x % m = r
<1> DEFINE q2 == x \div m
           r2 == x % m
<1>1. q2 \in Int /\ r2 \in 0 .. m - 1 /\ x = m * q2 + r2
  BY DivMod
<1> HIDE DEF q2, r2
<1>2. m * q \in Int /\ m * q2 \in Int
  BY <1>1
<1>3. ~(q > q2)
  <2> SUFFICES ASSUME q > q2 PROVE FALSE
    OBVIOUS
  <2>1. m * q >= m * q2 + m
    BY <1>1, MulGap
  <2> QED BY <1>1, <1>2, <2>1
<1>4. ~(q2 > q)
  <2> SUFFICES ASSUME q2 > q PROVE FALSE
    OBVIOUS
  <2>1. m * q2 >= m * q + m
    BY <1>1, MulGap
  <2> QED BY <1>1, <1>2, <2>1
<1>5. q = q2
  BY <1>1, <1>3, <1>4
<1>6. r = r2
  BY <1>1, <1>2, <1>5
<1> QED BY <1>5, <1>6 DEF q2, r2

\* The table of the next page is the same, or the next page is the first of one.
LEMMA NextPage ==
  ASSUME NEW m \in Nat, m > 0, NEW x \in Nat
  PROVE  \/ (x + 1) \div m = x \div m
         \/ (x + 1) % m = 0
<1> DEFINE q == x \div m
           r == x % m
<1>1. q \in Int /\ r \in 0 .. m - 1 /\ x = m * q + r
  BY DivMod
<1> HIDE DEF q, r
<1>2. m * q \in Int /\ m * (q + 1) = m * q + m /\ m * (q + 1) \in Int /\ q + 1 \in Int
  BY <1>1
<1>3. CASE r + 1 < m
  <2>1. x + 1 = m * q + (r + 1) /\ r + 1 \in 0 .. m - 1 /\ x + 1 \in Int
    BY <1>1, <1>2, <1>3
  <2>2. (x + 1) \div m = q
    BY <1>1, <2>1, DivModIs, Zenon
  <2> QED BY <2>2 DEF q
<1>4. CASE r + 1 = m
  <2>1. x + 1 = m * (q + 1) + 0 /\ 0 \in 0 .. m - 1 /\ x + 1 \in Int
    BY <1>1, <1>2, <1>4
  <2>2. (x + 1) % m = 0
    BY <1>2, <2>1, DivModIs, Zenon
  <2> QED BY <2>2
<1> QED BY <1>1, <1>3, <1>4

\* The first page of the table of a page.
LEMMA FirstPage ==
  ASSUME NEW m \in Nat, m > 0, NEW x \in Nat, NEW y \in Nat, x <= y, x % m = 0
  PROVE  \E c \in x .. y : c % m = 0 /\ c \div m = y \div m
<1> DEFINE qx == x \div m
           qy == y \div m
           ry == y % m
<1>1. qx \in Int /\ x = m * qx + 0
  BY DivMod
<1>2. qy \in Int /\ ry \in 0 .. m - 1 /\ y = m * qy + ry
  BY DivMod
<1> HIDE DEF qx, qy, ry
<1>3. m * qx \in Int /\ m * qy \in Int
  BY <1>1, <1>2
<1>4. m * qx <= m * qy
  <2> SUFFICES ASSUME m * qx > m * qy PROVE FALSE
    BY <1>3
  <2>1. CASE qx > qy
    <3>1. m * qx >= m * qy + m
      BY <1>1, <1>2, <2>1, MulGap
    <3> QED BY <1>1, <1>2, <1>3, <3>1
  <2>2. CASE qx = qy
    BY <1>3, <2>2
  <2>3. CASE qy > qx
    <3>1. m * qy >= m * qx + m
      BY <1>1, <1>2, <2>3, MulGap
    <3> QED BY <1>3, <3>1
  <2> QED BY <1>1, <1>2, <2>1, <2>2, <2>3
<1> DEFINE c == m * qy
<1>5. c \in x .. y
  BY <1>1, <1>2, <1>3, <1>4
<1>6. c = m * qy + 0 /\ 0 \in 0 .. m - 1 /\ c \in Int
  BY <1>2, <1>3
<1> HIDE DEF c
<1>7. c \div m = qy
  BY <1>2, <1>6, DivModIs
<1>8. c % m = 0
  BY <1>2, <1>6, DivModIs, Zenon
<1> QED BY <1>5, <1>7, <1>8 DEF qy

\* A table further on, at the same place in it.
LEMMA NextTable ==
  ASSUME NEW m \in Nat, m > 0, NEW x \in Nat
  PROVE  (x + m) % m = x % m
<1> DEFINE q == x \div m
           r == x % m
<1>1. q \in Int /\ r \in 0 .. m - 1 /\ x = m * q + r
  BY DivMod
<1> HIDE DEF q, r
<1>2. m * q \in Int /\ m * (q + 1) = m * q + m /\ m * (q + 1) \in Int /\ q + 1 \in Int
  BY <1>1
<1>3. x + m = m * (q + 1) + r /\ x + m \in Int
  BY <1>1, <1>2
<1>4. (x + m) % m = r
  BY <1>1, <1>2, <1>3, DivModIs, Zenon
<1> QED BY <1>4 DEF r

\* Different numbers with one remainder are at least m apart.
LEMMA ModDistinct ==
  ASSUME NEW m \in Nat, m > 0, NEW x \in Int, NEW y \in Int, x % m = y % m, x < y
  PROVE  y >= x + m
<1> DEFINE a == x \div m
           b == y \div m
           r == x % m
<1>1. a \in Int /\ b \in Int /\ r \in 0 .. m - 1 /\ x = m * a + r /\ y = m * b + r
  BY DivMod
<1> HIDE DEF a, b, r
<1>2. m * a \in Int /\ m * b \in Int
  BY <1>1
<1>3. m * a < m * b
  BY <1>1, <1>2
<1>4. b > a
  <2> SUFFICES ASSUME ~(b > a) PROVE FALSE
    OBVIOUS
  <2>1. a > b \/ a = b
    BY <1>1
  <2>2. CASE a > b
    <3>1. m * a >= m * b + m
      BY <1>1, <2>2, MulGap
    <3> QED BY <1>2, <1>3, <3>1
  <2>3. CASE a = b
    BY <1>2, <1>3, <2>3
  <2> QED BY <2>1, <2>2, <2>3
<1>5. m * b >= m * a + m
  BY <1>1, <1>4, MulGap
<1> QED BY <1>1, <1>2, <1>5

\* A set of numbers has a least one.
LEMMA LeastNat ==
  ASSUME NEW T, T \subseteq Nat, T # {}
  PROVE  \E x \in T : \A y \in T : x <= y
<1>1. PICK x \in T : \A y \in T : ~(<<y, x>> \in OpToRel(<, Nat))
  BY NatLessThanWellFounded, WFMin, Zenon
<1>2. ASSUME NEW y \in T PROVE x <= y
  <2>1. x \in Nat /\ y \in Nat
    OBVIOUS
  <2>2. ~(y < x)
    BY <1>1, <2>1 DEF OpToRel
  <2> QED BY <2>1, <2>2
<1> QED BY <1>2

\* One turn of the loop of deallocuvm(), and what the loop comes to from each
\* address: the pages in page tables, from the first address that the walk finds
\* in one.
Turn(pt, hi, lo, f) == [a \in lo .. hi + NPTE |->
                         IF a >= hi THEN {}
                         ELSE IF pt[a \div NPTE] = 0 THEN f[a + NPTE]
                         ELSE {a} \cup f[a + 1]]
Found(pt, a, b) == \E c \in a .. b : c % NPTE = a % NPTE /\ pt[c \div NPTE] # 0
From(pt, hi, a) == {b \in a .. hi - 1 : pt[b \div NPTE] # 0 /\ Found(pt, a, b)}
Walk(pt, hi, lo) == [a \in lo .. hi + NPTE |-> From(pt, hi, a)]

\* Dealloc() is a solution of that equation.
LEMMA DeallocDef ==
  ASSUME NEW d, NEW hi, NEW lo
  PROVE  Dealloc(d, hi, lo) = (CHOOSE f : f = Turn(vm[d].pt, hi, lo, f))[lo]
BY Zenon DEF Dealloc, Turn

\* Walk() solves the equation.
LEMMA WalkTurns ==
  ASSUME NEW pt, NEW hi \in Nat, NEW lo \in Nat
  PROVE  Walk(pt, hi, lo) = Turn(pt, hi, lo, Walk(pt, hi, lo))
<1> DEFINE w == Walk(pt, hi, lo)
<1>1. NPTE \in Nat /\ NPTE > 0
  BY MemoryAssumption
<1>2. SUFFICES ASSUME NEW a \in lo .. hi + NPTE
               PROVE  From(pt, hi, a) = IF a >= hi THEN {}
                                        ELSE IF pt[a \div NPTE] = 0 THEN w[a + NPTE]
                                        ELSE {a} \cup w[a + 1]
  BY DEF Walk, Turn
<1>3. a \in Nat
  BY <1>1
<1>4. CASE a >= hi
  BY <1>3, <1>4 DEF From
<1>5. CASE a < hi /\ pt[a \div NPTE] = 0
  <2>1. w[a + NPTE] = From(pt, hi, a + NPTE)
    <3>1. a + NPTE \in lo .. hi + NPTE
      BY <1>1, <1>3, <1>5
    <3> QED BY <3>1 DEF Walk
  <2>2. (a + NPTE) % NPTE = a % NPTE
    BY <1>1, <1>3, NextTable, Zenon
  <2>3. ASSUME NEW b \in From(pt, hi, a) PROVE b \in From(pt, hi, a + NPTE)
    <3>1. b \in a .. hi - 1 /\ pt[b \div NPTE] # 0
      BY DEF From
    <3>2. PICK c \in a .. b : c % NPTE = a % NPTE /\ pt[c \div NPTE] # 0
      BY DEF From, Found
    <3>3. a < c /\ c \in Int /\ a \in Int
      BY <1>3, <1>5, <3>1, <3>2
    <3>4. c >= a + NPTE
      BY <1>1, <3>2, <3>3, ModDistinct, Zenon
    <3>5. b \in a + NPTE .. hi - 1 /\ c \in a + NPTE .. b
      BY <1>1, <1>3, <3>1, <3>3, <3>4
    <3>6. c % NPTE = (a + NPTE) % NPTE
      BY <2>2, <3>2
    <3> QED BY <3>1, <3>2, <3>5, <3>6, Zenon DEF From, Found
  <2>4. ASSUME NEW b \in From(pt, hi, a + NPTE) PROVE b \in From(pt, hi, a)
    <3>1. b \in a + NPTE .. hi - 1 /\ pt[b \div NPTE] # 0
      BY DEF From
    <3>2. PICK c \in a + NPTE .. b : c % NPTE = (a + NPTE) % NPTE /\ pt[c \div NPTE] # 0
      BY DEF From, Found
    <3>3. b \in a .. hi - 1 /\ c \in a .. b
      BY <1>1, <1>3, <3>1
    <3>4. c % NPTE = a % NPTE
      BY <2>2, <3>2
    <3> QED BY <3>1, <3>2, <3>3, <3>4, Zenon DEF From, Found
  <2>5. From(pt, hi, a) = From(pt, hi, a + NPTE)
    BY <2>3, <2>4
  <2>6. ~(a >= hi)
    BY <1>3, <1>5
  <2> QED BY <1>5, <2>1, <2>5, <2>6
<1>6. CASE a < hi /\ pt[a \div NPTE] # 0
  <2>1. w[a + 1] = From(pt, hi, a + 1)
    <3>1. a + 1 \in lo .. hi + NPTE
      BY <1>1, <1>3, <1>6
    <3> QED BY <3>1 DEF Walk
  <2>2. ASSUME NEW b \in From(pt, hi, a) PROVE b = a \/ b \in From(pt, hi, a + 1)
    <3>1. b \in a .. hi - 1 /\ pt[b \div NPTE] # 0
      BY DEF From
    <3> SUFFICES ASSUME b # a PROVE b \in From(pt, hi, a + 1)
      OBVIOUS
    <3>2. b \in a + 1 .. hi - 1 /\ a + 1 \in a + 1 .. b /\ a + 1 <= b /\ b \in Nat /\ a + 1 \in Nat
      BY <1>3, <3>1
    <3>3. CASE (a + 1) \div NPTE = a \div NPTE
      <4>1. pt[(a + 1) \div NPTE] # 0
        BY <1>6, <3>3
      <4> QED BY <3>1, <3>2, <4>1, Zenon DEF From, Found
    <3>4. CASE (a + 1) % NPTE = 0
      <4>1. PICK c \in a + 1 .. b : c % NPTE = 0 /\ c \div NPTE = b \div NPTE
        BY <1>1, <3>2, <3>4, FirstPage, Zenon
      <4>2. c % NPTE = (a + 1) % NPTE /\ pt[c \div NPTE] # 0
        BY <3>1, <3>4, <4>1
      <4> QED BY <3>1, <3>2, <4>2, Zenon DEF From, Found
    <3> QED BY <1>1, <1>3, <3>3, <3>4, NextPage, Zenon
  <2>3. ASSUME NEW b, b = a \/ b \in From(pt, hi, a + 1) PROVE b \in From(pt, hi, a)
    <3>1. b \in a .. hi - 1 /\ pt[b \div NPTE] # 0
      <4>1. CASE b = a
        BY <1>3, <1>6, <4>1
      <4>2. CASE b \in From(pt, hi, a + 1)
        <5>1. b \in a + 1 .. hi - 1 /\ pt[b \div NPTE] # 0
          BY <4>2 DEF From
        <5> QED BY <1>3, <5>1
      <4> QED BY <2>3, <4>1, <4>2
    <3>2. a \in a .. b
      BY <1>3, <3>1
    <3>3. Found(pt, a, b)
      BY <1>6, <3>2, Zenon DEF Found
    <3> QED BY <3>1, <3>3, Zenon DEF From
  <2>4. From(pt, hi, a) = {a} \cup From(pt, hi, a + 1)
    BY <2>2, <2>3, Zenon
  <2>5. ~(a >= hi)
    BY <1>3, <1>6
  <2> QED BY <1>6, <2>1, <2>4, <2>5, Zenon
<1> QED BY <1>3, <1>4, <1>5, <1>6

\* The equation has one solution: the walk goes up and ends.
LEMMA TurnUnique ==
  ASSUME NEW pt, NEW hi \in Nat, NEW lo \in Nat, NEW f, f = Turn(pt, hi, lo, f),
         NEW w, w = Turn(pt, hi, lo, w), NEW a \in lo .. hi + NPTE
  PROVE  f[a] = w[a]
<1> DEFINE top == hi + NPTE
           Bad == {n \in Nat : \E b \in lo .. top : n = top - b /\ f[b] # w[b]}
<1>1. NPTE \in Nat /\ NPTE > 0 /\ top \in Nat
  BY MemoryAssumption
<1> SUFFICES ASSUME f[a] # w[a] PROVE FALSE
  OBVIOUS
<1>2. top - a \in Bad
  BY <1>1
<1>3. PICK n \in Bad : \A k \in Bad : n <= k
  <2>1. Bad \subseteq Nat /\ Bad # {}
    BY <1>2
  <2> HIDE DEF Bad
  <2> QED BY <2>1, LeastNat, Zenon
<1>4. PICK b \in lo .. top : n = top - b /\ f[b] # w[b]
  BY <1>3
<1>5. ASSUME NEW c \in lo .. top, c > b PROVE f[c] = w[c]
  <2> SUFFICES ASSUME f[c] # w[c] PROVE FALSE
    OBVIOUS
  <2>1. top - c \in Bad
    BY <1>1
  <2>2. n <= top - c
    BY <1>3, <2>1
  <2> QED BY <1>1, <1>4, <1>5, <2>2
<1>6. b \in Nat
  BY <1>1
<1>7. CASE b >= hi
  <2>1. f[b] = {} /\ w[b] = {}
    BY <1>7 DEF Turn
  <2> QED BY <1>4, <2>1
<1>8. CASE b < hi
  <2>1. b + NPTE \in lo .. top /\ b + NPTE > b /\ b + 1 \in lo .. top /\ b + 1 > b /\ ~(b >= hi)
    BY <1>1, <1>6, <1>8
  <2>2. f[b + NPTE] = w[b + NPTE] /\ f[b + 1] = w[b + 1]
    BY <1>5, <2>1
  <2>3. f[b] = IF pt[b \div NPTE] = 0 THEN f[b + NPTE] ELSE {b} \cup f[b + 1]
    BY <2>1, Zenon DEF Turn
  <2>4. w[b] = IF pt[b \div NPTE] = 0 THEN w[b + NPTE] ELSE {b} \cup w[b + 1]
    BY <2>1, Zenon DEF Turn
  <2> QED BY <1>4, <2>2, <2>3, <2>4
<1> QED BY <1>1, <1>6, <1>7, <1>8

\* What deallocuvm() frees: the pages that are in page tables, from the first
\* address on at which it meets a page table.
LEMMA DeallocIs ==
  ASSUME NEW d, NEW hi \in Nat, NEW lo \in Nat, lo <= hi
  PROVE  Dealloc(d, hi, lo) = From(vm[d].pt, hi, lo)
<1> DEFINE pt == vm[d].pt
           f == CHOOSE g : g = Turn(pt, hi, lo, g)
           w == Walk(pt, hi, lo)
<1>1. w = Turn(pt, hi, lo, w)
  BY WalkTurns, Zenon
<1>2. f = Turn(pt, hi, lo, f)
  <2> HIDE DEF w
  <2> QED BY <1>1, Zenon
<1>3. lo \in lo .. hi + NPTE
  BY MemoryAssumption
<1>4. Dealloc(d, hi, lo) = f[lo]
  BY DeallocDef, Zenon
<1>5. w[lo] = From(pt, hi, lo)
  BY <1>3 DEF Walk
<1> HIDE DEF f, w, pt
<1>6. f[lo] = w[lo]
  BY <1>1, <1>2, <1>3, TurnUnique
<1> QED BY <1>4, <1>5, <1>6 DEF pt

\* Nothing below lo is freed; everything from lo on is, if there is a page table
\* for lo, or if lo is the first page of one.
LEMMA DeallocAll ==
  ASSUME NEW d, NEW hi \in Nat, NEW lo \in Nat, lo <= hi
  PROVE  /\ Dealloc(d, hi, lo) \subseteq lo .. hi - 1
         /\ vm[d].pt[lo \div NPTE] # 0 \/ lo = 0 =>
              \A b \in lo .. hi - 1 : vm[d].pt[b \div NPTE] # 0 => b \in Dealloc(d, hi, lo)
<1> DEFINE pt == vm[d].pt
<1>1. Dealloc(d, hi, lo) = From(pt, hi, lo)
  BY DeallocIs, Zenon
<1>2. From(pt, hi, lo) \subseteq lo .. hi - 1
  BY Zenon DEF From
<1>3. ASSUME pt[lo \div NPTE] # 0 \/ lo = 0, NEW b \in lo .. hi - 1, pt[b \div NPTE] # 0
      PROVE  b \in From(pt, hi, lo)
  <2>1. CASE pt[lo \div NPTE] # 0
    <3>1. lo \in lo .. b
      OBVIOUS
    <3> QED BY <1>3, <2>1, <3>1, Zenon DEF From, Found
  <2>2. CASE lo = 0
    <3>1. NPTE \in Nat /\ NPTE > 0 /\ lo % NPTE = 0 /\ lo <= b /\ b \in Nat
      BY <2>2, MemoryAssumption
    <3>2. PICK c \in lo .. b : c % NPTE = 0 /\ c \div NPTE = b \div NPTE
      BY <3>1, FirstPage, Zenon
    <3>3. c % NPTE = lo % NPTE /\ pt[c \div NPTE] # 0
      BY <1>3, <3>1, <3>2
    <3> QED BY <1>3, <3>3, Zenon DEF From, Found
  <2> QED BY <1>3, <2>1, <2>2
<1> QED BY <1>1, <1>2, <1>3, Zenon

-----------------------------------------------------------------------------
(* No page is lost                                                         *)

Entries == \A d \in Page, va \in Va : vm[d].pte[va] # 0 => vm[d].pt[va \div NPTE] # 0
InUse(x) == \/ x \in freePages
            \/ \E q \in MemProc : job[q].mem = x
            \/ \E d \in Dirs : x \in Tables(d) \/ x \in Mapped(d)
Fine == mempanic = ""
Acc == /\ Fine /\ Entries
       /\ \A p \in MemProc : MapOK(p)
       /\ \A x \in Page : InUse(x)

\* AccInv, page by page.
LEMMA AccIs == MemTypeOK => (AccInv <=> (~noTable => Acc))
<1> SUFFICES ASSUME MemTypeOK PROVE ~noTable => (NoLeak <=> \A x \in Page : InUse(x))
  BY Zenon DEF AccInv, Acc, Fine, Entries
<1> DEFINE U == UNION {Owned(d) : d \in Dirs}
<1>1. \A x : x \in InFlight <=> x # 0 /\ \E q \in MemProc : job[q].mem = x
  BY DEF InFlight
<1>2. \A x : x \in U <=> \E d \in Dirs : x \in Tables(d) \/ x \in Mapped(d)
  BY DEF Owned, Mapped
<1>3. \A x \in Page : x # 0
  BY DEF Page
<1>4. \A x \in Page : InUse(x) <=> x \in freePages \cup InFlight \cup U
  BY <1>1, <1>2, <1>3 DEF InUse
<1>5. freePages \cup InFlight \cup U \subseteq Page
  <2>1. freePages \subseteq Page /\ \A q \in MemProc : job[q].mem \in Page \cup {0}
    BY DEF MemTypeOK
  <2>2. Dirs \subseteq Page /\ \A d \in Page : Tables(d) \subseteq Page /\ Mapped(d) \subseteq Page
    BY DirsDef, TablesNow DEF TablesAre
  <2>3. InFlight \subseteq Page
    BY <1>1, <2>1
  <2>4. U \subseteq Page
    BY <1>2, <2>2
  <2> QED BY <2>1, <2>3, <2>4
<1> HIDE DEF U
<1>6. (Page = freePages \cup InFlight \cup U) <=> \A x \in Page : InUse(x)
  BY <1>4, <1>5
<1> QED BY <1>6 DEF NoLeak, U

\* The same one step later.
LEMMA AccIsNext == MemTypeOK' => (AccInv' <=> (~noTable' => Acc'))
  BY AccIs, PTL

\* freevm() frees all that the directory has.
LEMMA FreedAll ==
  ASSUME MemTypeOK, Entries, NEW d \in Page
  PROVE  \A x : x \in Freed(d) <=> x \in Tables(d) \/ x \in Mapped(d)
<1>1. MaxSz \in Nat /\ 0 \in Nat /\ 0 <= MaxSz
  BY MemoryAssumption
<1>2. \A b \in 0 .. MaxSz - 1 : vm[d].pt[b \div NPTE] # 0 => b \in Dealloc(d, MaxSz, 0)
  BY <1>1, DeallocAll, Zenon
<1>3. \A x : x \in Mapped(d) <=> x # 0 /\ \E va \in Va : vm[d].pte[va] = x
  BY TablesNow DEF TablesAre
<1>4. ASSUME NEW x \in Mapped(d) PROVE x \in PagesAt(d, Dealloc(d, MaxSz, 0))
  <2>1. PICK va \in Va : vm[d].pte[va] = x
    BY <1>3
  <2>2. x # 0 /\ va \in Dealloc(d, MaxSz, 0)
    BY <1>2, <1>3, <2>1 DEF Entries, Va
  <2> QED BY <2>1, <2>2 DEF PagesAt
<1>5. ASSUME NEW x \in PagesAt(d, Dealloc(d, MaxSz, 0)) PROVE x \in Mapped(d)
  BY <1>3 DEF PagesAt
<1> QED BY <1>4, <1>5 DEF Freed

\* A process whose address spaces do not change.
LEMMA MapKept ==
  ASSUME NEW q \in MemProc, MapOK(q), job'[q] = job[q], dirOf'[q] = dirOf[q], sz'[q] = sz[q],
         dirOf[q] # 0 => vm'[dirOf[q]].pte = vm[dirOf[q]].pte,
         job[q].d # 0 => vm'[job[q].d].pte = vm[job[q].d].pte
  PROVE  MapOK(q)'
<1>1. Runs(q)' <=> Runs(q)
  BY DEF Runs, Alive
<1>2. dirOf[q] # 0 => (MappedIn(dirOf[q], sz[q])' <=> MappedIn(dirOf[q], sz[q]))
  BY DEF MappedIn
<1>3. job[q].d # 0 => (MappedIn(job[q].d, job[q].va)' <=> MappedIn(job[q].d, job[q].va))
  BY DEF MappedIn
<1>4. Runs(q) => dirOf[q] # 0
  BY DEF Runs, Alive
<1> QED BY <1>1, <1>2, <1>3, <1>4 DEF MapOK

\* The directories of two processes are different ones.
LEMMA Apart ==
  ASSUME MemTypeOK, JobsApart, NEW p \in MemProc, NEW q \in MemProc, p # q
  PROVE  /\ dirOf[q] # 0 => dirOf[q] # dirOf[p] /\ dirOf[q] # job[p].d
         /\ job[q].d # 0 => job[q].d # dirOf[p] /\ job[q].d # job[p].d
<1>1. ASSUME NEW r \in MemProc PROVE New(r) \/ job[r].d = 0 \/ (job[r].d = dirOf[r] /\ dirOf[r] # 0)
  <2>1. JobOK(r) /\ job[r].op \in {"none", "grow", "fork", "exec"}
    BY DEF JobsApart, MemTypeOK
  <2> QED BY <2>1 DEF JobOK, New, Alive
<1>2. JobOK(p) /\ JobOK(q) /\ JobsDiffer(p, q) /\ JobsDiffer(q, p)
  BY DEF JobsApart
<1>3. dirOf[q] # 0 => dirOf[q] # dirOf[p]
  BY <1>2 DEF JobsDiffer, Alive
<1>4. New(p) => dirOf[q] # job[p].d
  BY <1>2 DEF JobOK
<1>5. New(q) => dirOf[p] # job[q].d
  BY <1>2 DEF JobOK
<1>6. New(p) /\ New(q) => job[p].d # job[q].d
  BY <1>2 DEF JobsDiffer
<1>7. (New(p) \/ job[p].d = 0 \/ (job[p].d = dirOf[p] /\ dirOf[p] # 0)) /\ (New(q) \/ job[q].d = 0 \/ (job[q].d = dirOf[q] /\ dirOf[q] # 0))
  BY <1>1
<1> QED BY <1>3, <1>4, <1>5, <1>6, <1>7, Zenon

\* What the step of one process has to show: the address spaces of the others
\* stay, and no page gets out of use.
LEMMA AccStep ==
  ASSUME MemInv, Acc, NEW p \in MemProc, Fine', Entries', MapOK(p)',
         \A q \in MemProc : q # p => job'[q] = job[q] /\ dirOf'[q] = dirOf[q] /\ sz'[q] = sz[q],
         \A e \in Page : e # dirOf[p] /\ e # job[p].d => vm'[e].pte = vm[e].pte,
         \A x \in Page : InUse(x) => InUse(x)'
  PROVE  Acc'
<1>1. MemTypeOK /\ JobsApart
  BY MemInvParts
<1>2. ASSUME NEW q \in MemProc, q # p PROVE MapOK(q)'
  <2>1. /\ dirOf[q] # 0 => dirOf[q] # dirOf[p] /\ dirOf[q] # job[p].d
        /\ job[q].d # 0 => job[q].d # dirOf[p] /\ job[q].d # job[p].d
    BY <1>1, <1>2, Apart, Zenon
  <2>2. dirOf[q] \in Page \cup {0} /\ job[q].d \in Page \cup {0}
    BY <1>1 DEF MemTypeOK
  <2>3. /\ dirOf[q] # 0 => vm'[dirOf[q]].pte = vm[dirOf[q]].pte
        /\ job[q].d # 0 => vm'[job[q].d].pte = vm[job[q].d].pte
    BY <2>1, <2>2
  <2>4. MapOK(q) /\ job'[q] = job[q] /\ dirOf'[q] = dirOf[q] /\ sz'[q] = sz[q]
    BY <1>2 DEF Acc
  <2> QED BY <2>3, <2>4, MapKept, Zenon
<1>3. \A q \in MemProc : MapOK(q)'
  BY <1>2
<1>4. \A x \in Page : InUse(x)'
  BY DEF Acc
<1> QED BY <1>3, <1>4, Zenon DEF Acc

\* A process whose call is over.
LEMMA IdleOK ==
  ASSUME NEW p \in MemProc, job'[p] = NoJob, Runs(p)' => MappedIn(dirOf[p], sz[p])'
  PROVE  MapOK(p)'
<1>1. job'[p].op = "none" /\ job'[p].d = 0 /\ job'[p].va = 0
  BY DEF NoJob
<1> QED BY <1>1 DEF MapOK

\* What the pages of a directory are, in this state and in the next.
LEMMA MappedIff ==
  ASSUME MemTypeOK, NEW d \in Page
  PROVE  \A x : x \in Mapped(d) <=> x # 0 /\ \E va \in Va : vm[d].pte[va] = x
  BY TablesNow DEF TablesAre

\* The same one step later.
LEMMA MappedIffNext ==
  ASSUME MemTypeOK', NEW d \in Page
  PROVE  \A x : x \in Mapped(d)' <=> x # 0 /\ \E va \in Va : vm'[d].pte[va] = x
  BY TablesNext DEF TablesAre

\* deallocuvm(): the pages taken out are on the free list.
LEMMA UnmapUse ==
  ASSUME MemTypeOK, MemTypeOK', NEW d \in Page, d \in Dirs, NEW vas, Dirs' = Dirs,
         vm' = Unmap(d, vas), freePages' = freePages \cup PagesAt(d, vas),
         \A q \in MemProc : job[q].mem # 0 => job'[q].mem = job[q].mem
  PROVE  /\ \A e \in Page : e # d => vm'[e] = vm[e]
         /\ vm'[d].pt = vm[d].pt
         /\ \A v \in Va : vm'[d].pte[v] = IF v \in vas THEN 0 ELSE vm[d].pte[v]
         /\ Entries => Entries'
         /\ \A x \in Page : InUse(x) => InUse(x)'
<1>1. /\ \A e \in Page : e # d => vm'[e] = vm[e]
      /\ vm'[d].pt = vm[d].pt /\ vm'[d].kpt = vm[d].kpt
      /\ \A v \in Va : vm'[d].pte[v] = IF v \in vas THEN 0 ELSE vm[d].pte[v]
  BY DEF MemTypeOK, Unmap
<1>2. Entries => Entries'
  BY <1>1 DEF Entries
<1>3. \A x : x \in Mapped(d) <=> x # 0 /\ \E va \in Va : vm[d].pte[va] = x
  BY MappedIff
<1>4. \A x : x \in Mapped(d)' <=> x # 0 /\ \E va \in Va : vm'[d].pte[va] = x
  BY MappedIffNext
<1>5. ASSUME NEW x \in Page, InUse(x) PROVE InUse(x)'
  <2>1. CASE x \in freePages
    BY <2>1 DEF InUse
  <2>2. ASSUME NEW q \in MemProc, job[q].mem = x PROVE InUse(x)'
    BY <2>2 DEF InUse, Page
  <2>3. ASSUME NEW e \in Dirs, e # d, x \in Tables(e) \/ x \in Mapped(e) PROVE InUse(x)'
    <3>1. e \in Page
      BY DirsDef
    <3>2. Tables(e)' = Tables(e) /\ Mapped(e)' = Mapped(e)
      BY <1>1, <2>3, <3>1 DEF Tables, Mapped, Pages
    <3> QED BY <2>3, <3>2 DEF InUse
  <2>4. CASE x \in Tables(d)
    <3>1. Tables(d)' = Tables(d)
      BY <1>1 DEF Tables, Pages
    <3> QED BY <2>4, <3>1 DEF InUse
  <2>5. CASE x \in Mapped(d)
    <3>1. PICK v \in Va : vm[d].pte[v] = x /\ x # 0
      BY <1>3, <2>5
    <3>2. CASE v \in vas
      <4>1. x \in PagesAt(d, vas)
        BY <3>1, <3>2 DEF PagesAt
      <4> QED BY <4>1 DEF InUse
    <3>3. CASE v \notin vas
      <4>1. vm'[d].pte[v] = x
        BY <1>1, <3>1, <3>3
      <4>2. x \in Mapped(d)'
        BY <1>4, <3>1, <4>1
      <4> QED BY <4>2 DEF InUse
    <3> QED BY <3>2, <3>3
  <2> QED BY <1>5, <2>1, <2>2, <2>3, <2>4, <2>5, Zenon DEF InUse
<1> QED BY <1>1, <1>2, <1>5

\* freevm(): all the pages of the directory are on the free list.
LEMMA FreeUse ==
  ASSUME MemTypeOK, Entries, NEW d \in Page, \A e \in Dirs : e # d => e \in Dirs',
         vm' = freevm(d), freePages' = freePages \cup Freed(d),
         \A q \in MemProc : job[q].mem # 0 => job'[q].mem = job[q].mem
  PROVE  /\ \A e \in Page : e # d => vm'[e] = vm[e]
         /\ Entries'
         /\ \A x \in Page : InUse(x) => InUse(x)'
<1>1. (\A e \in Page : e # d => vm'[e] = vm[e]) /\ vm'[d] = EmptyDir
  BY DEF MemTypeOK, freevm
<1>2. Entries'
  BY <1>1 DEF Entries, EmptyDir
<1>3. ASSUME NEW x \in Page, InUse(x) PROVE InUse(x)'
  <2>1. CASE x \in freePages
    BY <2>1 DEF InUse
  <2>2. ASSUME NEW q \in MemProc, job[q].mem = x PROVE InUse(x)'
    BY <2>2 DEF InUse, Page
  <2>3. ASSUME NEW e \in Dirs, e # d, x \in Tables(e) \/ x \in Mapped(e) PROVE InUse(x)'
    <3>1. e \in Page
      BY DirsDef
    <3>2. Tables(e)' = Tables(e) /\ Mapped(e)' = Mapped(e)
      BY <1>1, <2>3, <3>1 DEF Tables, Mapped, Pages
    <3> QED BY <2>3, <3>2 DEF InUse
  <2>4. CASE x \in Tables(d) \/ x \in Mapped(d)
    <3>1. x \in Freed(d)
      BY <2>4, FreedAll, Zenon
    <3> QED BY <3>1 DEF InUse
  <2> QED BY <1>3, <2>1, <2>2, <2>3, <2>4, Zenon DEF InUse
<1> QED BY <1>1, <1>2, <1>3

\* kalloc() with a use for the page.
LEMMA TakeUse ==
  ASSUME NEW k, InUse(k)', \A x \in freePages : x = k \/ x \in freePages', Dirs \subseteq Dirs',
         \A d \in Dirs : Tables(d) \subseteq Tables(d)' /\ Mapped(d) \subseteq Mapped(d)',
         \A q \in MemProc : job[q].mem \in {0, k} \/ job'[q].mem = job[q].mem
  PROVE  \A x \in Page : InUse(x) => InUse(x)'
<1> SUFFICES ASSUME NEW x \in Page, InUse(x) PROVE InUse(x)'
  OBVIOUS
<1>1. x # 0
  BY DEF Page
<1>2. CASE x \in freePages
  BY <1>2 DEF InUse
<1>3. ASSUME NEW q \in MemProc, job[q].mem = x PROVE InUse(x)'
  <2>1. x = k \/ job'[q].mem = x
    BY <1>1, <1>3
  <2> QED BY <2>1 DEF InUse
<1>4. ASSUME NEW d \in Dirs, x \in Tables(d) \/ x \in Mapped(d) PROVE InUse(x)'
  BY <1>4 DEF InUse
<1> QED BY <1>2, <1>3, <1>4, Zenon DEF InUse

\* A call that fails gives back all it has taken.
LEMMA AbandonAcc ==
  ASSUME MemInv, Acc, NEW p \in MemProc, job[p].op # "none", job[p].mem = 0, Abandon(p),
         UNCHANGED <<dirOf, sz, mempanic>>
  PROVE  Acc'
<1> DEFINE j == job[p]
<1>1. MemTypeOK /\ JobsApart /\ PagesInv /\ MemTypeOK'
  BY AbandonOK, MemInvParts, MemInvPartsNext
<1>2. job' = [job EXCEPT ![p] = NoJob]
  BY DEF Abandon
<1>3. j.d \in Page \cup {0} /\ j.op \in {"grow", "fork", "exec"} /\ job \in [MemProc -> Job]
      /\ j.va \in Nat /\ j.end \in Nat /\ sz[p] \in Nat /\ 0 \notin Page
  BY <1>1 DEF MemTypeOK, Job, Page
<1>4. job'[p] = NoJob /\ \A q \in MemProc : q # p => job'[q] = job[q]
  BY <1>2, <1>3
<1>5. MapOK(p) /\ Entries /\ Fine'
  BY DEF Acc, Fine
<1>6. Runs(p) /\ j.va <= j.end /\ Alive(p)
  BY <1>5 DEF MapOK, Runs
<1>7. \A q \in MemProc : job[q].mem # 0 => job'[q].mem = job[q].mem
  BY <1>4
<1>8. CASE j.op = "grow"
  <2> DEFINE d == j.d
             gf == Dealloc(d, j.end, j.old)
  <2>1. d = dirOf[p] /\ d \in Page /\ d \in Dirs
    <3>1. d = dirOf[p]
      BY <1>1, <1>8 DEF JobsApart, JobOK
    <3> QED BY <1>1, <1>3, <1>6, <3>1, DirsDef DEF Alive
  <2>2. vm' = Unmap(d, gf) /\ freePages' = freePages \cup PagesAt(d, gf)
    BY <1>8 DEF Abandon, GrowFails
  <2>3. j.old = sz[p] /\ sz[p] <= j.va /\ MappedIn(d, j.va)
    BY <1>5, <1>3, <1>8, <2>1 DEF MapOK
  <2>4. /\ gf \subseteq j.old .. j.end - 1
        /\ vm[d].pt[j.old \div NPTE] # 0 \/ j.old = 0 =>
             \A b \in j.old .. j.end - 1 : vm[d].pt[b \div NPTE] # 0 => b \in gf
    <3>1. j.end \in Nat /\ j.old \in Nat /\ j.old <= j.end
      BY <1>3, <1>6, <2>3
    <3> QED BY <3>1, DeallocAll, Zenon
  <2> HIDE DEF gf
  <2>5. \A v \in Va : v < j.va /\ v >= sz[p] => v \in gf
    <3> SUFFICES ASSUME NEW v \in Va, v < j.va, v >= sz[p] PROVE v \in gf
      OBVIOUS
    <3>1. sz[p] \in Va /\ sz[p] < j.va /\ v \in j.old .. j.end - 1
      BY <1>3, <1>6, <2>3, MemoryAssumption DEF Va
    <3>2. vm[d].pte[sz[p]] # 0 /\ vm[d].pte[v] # 0
      BY <2>3, <3>1 DEF MappedIn
    <3>3. vm[d].pt[sz[p] \div NPTE] # 0 /\ vm[d].pt[v \div NPTE] # 0
      BY <1>5, <2>1, <3>1, <3>2 DEF Entries
    <3> QED BY <2>3, <2>4, <3>1, <3>3
  <2>10. Dirs' = Dirs
    BY <1>1, <1>2, <1>8, JobGone DEF New
  <2>6. /\ \A e \in Page : e # d => vm'[e] = vm[e]
        /\ \A v \in Va : vm'[d].pte[v] = IF v \in gf THEN 0 ELSE vm[d].pte[v]
        /\ Entries'
        /\ \A x \in Page : InUse(x) => InUse(x)'
    BY <1>1, <1>5, <1>7, <2>1, <2>2, <2>10, UnmapUse, Zenon
  <2>7. \A v \in Va : vm'[d].pte[v] # 0 <=> v < sz[p]
    <3> SUFFICES ASSUME NEW v \in Va PROVE vm'[d].pte[v] # 0 <=> v < sz[p]
      OBVIOUS
    <3>1. v \in Nat
      BY DEF Va
    <3>2. vm[d].pte[v] # 0 <=> v < j.va
      BY <2>3 DEF MappedIn
    <3>3. v \in gf => ~(v < sz[p])
      BY <1>3, <2>3, <2>4, <3>1
    <3>4. vm'[d].pte[v] = IF v \in gf THEN 0 ELSE vm[d].pte[v]
      BY <2>6
    <3> QED BY <1>3, <2>3, <2>5, <3>1, <3>2, <3>3, <3>4
  <2>8. MapOK(p)'
    <3>1. MappedIn(dirOf[p], sz[p])'
      BY <2>1, <2>7 DEF MappedIn
    <3> QED BY <1>4, <3>1, IdleOK
  <2>12. \A e \in Page : e # dirOf[p] /\ e # job[p].d => vm'[e].pte = vm[e].pte
    BY <2>6
  <2> QED BY <1>4, <1>5, <2>6, <2>8, <2>12, AccStep, Zenon
<1>9. CASE j.op # "grow" /\ j.d = 0
  <2>1. vm' = vm /\ freePages' = freePages
    BY <1>9 DEF Abandon, JobFails
  <2>2. Dirs' = Dirs
    BY <1>1, <1>2, <1>9, JobGone DEF New
  <2>3. \A e : Tables(e)' = Tables(e) /\ Mapped(e)' = Mapped(e)
    BY <2>1 DEF Tables, Mapped, Pages
  <2>4. ASSUME NEW x \in Page, InUse(x) PROVE InUse(x)'
    BY <1>3, <1>7, <2>1, <2>2, <2>3, <2>4 DEF InUse
  <2>5. Entries' /\ \A e \in Page : vm'[e].pte = vm[e].pte
    BY <1>5, <2>1 DEF Entries
  <2>6. MapOK(p)'
    <3>1. Runs(p)' => MappedIn(dirOf[p], sz[p])'
      BY <1>5, <1>6, <1>9, <2>1 DEF MapOK, MappedIn
    <3> QED BY <1>4, <3>1, IdleOK
  <2> QED BY <1>4, <1>5, <2>4, <2>5, <2>6, AccStep, Zenon
<1>10. CASE j.op # "grow" /\ j.d # 0
  <2> DEFINE d == j.d
  <2>1. d \in Page /\ d \in Dirs
    BY <1>1, <1>3, <1>10, DirsDef
  <2>2. vm' = freevm(d) /\ freePages' = freePages \cup Freed(d)
    BY <1>10 DEF Abandon, JobFails
  <2>3. New(p)
    BY <1>3, <1>10 DEF New
  <2>4. dirOf[p] # d
    BY <1>1, <2>3 DEF JobsApart, JobOK
  <2>6. \A e \in Dirs : e # d => e \in Dirs'
    BY <1>1, <1>2, JobGone
  <2>5. /\ \A e \in Page : e # d => vm'[e] = vm[e]
        /\ Entries'
        /\ \A x \in Page : InUse(x) => InUse(x)'
    BY <1>1, <1>5, <1>7, <2>1, <2>2, <2>6, FreeUse, Zenon
  <2>8. dirOf[p] \in Page
    BY <1>1, <1>6 DEF MemTypeOK, Alive
  <2>9. MapOK(p)'
    <3>1. MappedIn(dirOf[p], sz[p])
      BY <1>5, <1>6, <1>10 DEF MapOK
    <3>2. MappedIn(dirOf[p], sz[p])'
      BY <2>4, <2>5, <2>8, <3>1 DEF MappedIn
    <3> QED BY <1>4, <3>2, IdleOK
  <2>11. \A e \in Page : e # dirOf[p] /\ e # job[p].d => vm'[e].pte = vm[e].pte
    BY <2>5
  <2> QED BY <1>4, <1>5, <2>5, <2>9, <2>11, AccStep, Zenon
<1> QED BY <1>8, <1>9, <1>10

\* setupkvm(): the directory.
LEMMA SetupDirAcc == ASSUME MemInv, MemInv', Acc, NEW p \in MemProc, SetupDir(p) PROVE Acc'
<1>1. MemTypeOK /\ JobsApart /\ PagesInv /\ MemTypeOK'
  BY MemInvParts, MemInvPartsNext
<1>2. UNCHANGED <<dirOf, sz, mempanic>> /\ job[p].op \in {"fork", "exec"} /\ job[p].d = 0
  BY DEF SetupDir, NeedsDir
<1>3. job[p].mem = 0
  BY <1>1, <1>2 DEF JobsApart, JobOK
<1>4. CASE None
  <2>1. Abandon(p) /\ job[p].op # "none"
    BY <1>2, <1>4 DEF SetupDir
  <2> QED BY <1>2, <1>3, <2>1, AbandonAcc
<1>5. CASE ~None
  <2>0. PICK k : k = kalloc
    OBVIOUS
  <2>1. k \in freePages /\ k \in Page /\ k # 0
    BY <1>1, <1>5, <2>0, KallocFree
  <2>2. freePages' = freePages \ {k} /\ vm' = vm /\ job' = [job EXCEPT ![p].d = k]
    BY <1>5, <2>0 DEF SetupDir
  <2>3. job \in [MemProc -> Job]
    BY <1>1 DEF MemTypeOK, Job
  <2>4. job'[p] = [job[p] EXCEPT !.d = k] /\ \A q \in MemProc : q # p => job'[q] = job[q]
    BY <2>2, <2>3
  <2>5. job'[p].d = k /\ job'[p].op = job[p].op /\ job'[p].mem = 0 /\ job'[p].va = job[p].va
        /\ job'[p].end = job[p].end /\ job'[p].old = job[p].old
    BY <1>3, <2>3, <2>4 DEF Job
  <2>6. k \notin Dirs
    <3>1. Dirs \subseteq Page /\ \A d \in Page : d \in Tables(d)
      BY <1>1, DirsDef, TablesNow DEF TablesAre
    <3> QED BY <1>1, <2>1, <3>1, PagesInvNow DEF UsedOnce
  <2>7. \A x : x \in Dirs <=> x # 0 /\ \E q \in MemProc : dirOf[q] = x \/ job[q].d = x
    BY DEF Dirs, Building
  <2>8. \A x : x \in Dirs' <=> x # 0 /\ \E q \in MemProc : dirOf[q] = x \/ job'[q].d = x
    BY <1>2 DEF Dirs, Building
  <2>9. Dirs \subseteq Dirs' /\ k \in Dirs'
    <3>1. ASSUME NEW x \in Dirs PROVE x \in Dirs'
      <4>1. x # 0
        BY <2>7
      <4>2. PICK q \in MemProc : dirOf[q] = x \/ job[q].d = x
        BY <2>7
      <4>3. dirOf[q] = x \/ job'[q].d = x
        BY <1>2, <2>4, <4>1, <4>2
      <4> QED BY <2>8, <4>1, <4>3
    <3>2. k \in Dirs'
      BY <2>1, <2>5, <2>8
    <3> QED BY <3>1, <3>2
  <2>10. \A e : Tables(e)' = Tables(e) /\ Mapped(e)' = Mapped(e)
    BY <2>2 DEF Tables, Mapped, Pages
  <2>11. InUse(k)'
    <3>1. k \in Tables(k)'
      BY DEF Tables
    <3> QED BY <2>9, <3>1 DEF InUse
  <2>12. \A x \in Page : InUse(x) => InUse(x)'
    <3>1. \A x \in freePages : x = k \/ x \in freePages'
      BY <2>2
    <3>2. \A d \in Dirs : Tables(d) \subseteq Tables(d)' /\ Mapped(d) \subseteq Mapped(d)'
      BY <2>10
    <3>3. \A q \in MemProc : job[q].mem \in {0, k} \/ job'[q].mem = job[q].mem
      BY <1>3, <2>4, <2>5
    <3> QED BY <2>9, <2>11, <3>1, <3>2, <3>3, TakeUse, Zenon
  <2>13. Fine' /\ Entries' /\ MapOK(p) /\ \A e \in Page : vm'[e].pte = vm[e].pte
    BY <1>2, <2>2 DEF Acc, Fine, Entries
  <2>14. vm[k] = EmptyDir
    BY <1>1, <2>1, <2>6 DEF PagesInv
  <2>15. MapOK(p)'
    <3>1. Runs(p) /\ Runs(p)' /\ job[p].va = 0 /\ job[p].va <= job[p].end
      BY <1>2, <2>2, <2>13 DEF MapOK, Runs, Alive
    <3>2. MappedIn(dirOf[p], sz[p])'
      BY <1>2, <2>2, <2>13, <3>1 DEF MapOK, MappedIn
    <3>3. \A v \in Va : vm[k].pte[v] = 0 /\ ~(v < 0)
      BY <2>14 DEF EmptyDir, Va
    <3>4. MappedIn(job[p].d, job[p].va)'
      BY <2>2, <2>5, <3>1, <3>3 DEF MappedIn
    <3>5. job[p].op = "fork" => job[p].end = sz[p]
      BY <2>13 DEF MapOK
    <3> QED BY <1>2, <2>1, <2>5, <3>1, <3>2, <3>4, <3>5 DEF MapOK
  <2> QED BY <1>2, <2>4, <2>12, <2>13, <2>15, AccStep, Zenon
<1> QED BY <1>4, <1>5

\* setupkvm(): the kernel part, when there is a page for the table.
LEMMA SetupKptAcc == ASSUME MemInv, MemInv', Acc, ~noTable', NEW p \in MemProc, SetupKpt(p) PROVE Acc'
<1>0. PICK d, k : d = job[p].d /\ k = kalloc
  OBVIOUS
<1>1. MemTypeOK /\ JobsApart /\ PagesInv /\ MemTypeOK'
  BY MemInvParts, MemInvPartsNext
<1>2. UNCHANGED <<dirOf, sz, mempanic>> /\ d # 0
  BY <1>0 DEF SetupKpt, NeedsKpt
<1>3. d \in Page /\ d \in Dirs
  BY <1>0, <1>1, <1>2, DirsDef DEF MemTypeOK
<1>4. ~None
  BY DEF SetupKpt
<1>5. k \in freePages /\ k \in Page
  BY <1>0, <1>1, <1>4, KallocFree
<1>6. freePages' = freePages \ {k} /\ job' = job /\ vm' = [vm EXCEPT ![d].kpt = @ \cup {k}]
  BY <1>0, <1>4 DEF SetupKpt
<1>7. /\ \A e \in Page : e # d => vm'[e] = vm[e]
      /\ vm'[d] = [vm[d] EXCEPT !.kpt = @ \cup {k}]
  BY <1>1, <1>3, <1>6 DEF MemTypeOK
<1>8. vm'[d].pte = vm[d].pte /\ vm'[d].pt = vm[d].pt /\ vm'[d].kpt = vm[d].kpt \cup {k}
  BY <1>1, <1>3, <1>7 DEF MemTypeOK
<1>9. Dirs' = Dirs /\ Dirs \subseteq Page
  BY <1>1, <1>2, <1>6, DirsDef DEF Dirs, Building
<1>10. ASSUME NEW e \in Page
       PROVE  Tables(e) \subseteq Tables(e)' /\ Mapped(e) \subseteq Mapped(e)' /\ vm'[e].pte = vm[e].pte /\ vm'[e].pt = vm[e].pt
  <2>1. CASE e # d
    BY <1>7, <2>1 DEF Tables, Mapped, Pages
  <2>2. CASE e = d
    <3>1. Tables(d) \subseteq Tables(d)' /\ Mapped(d)' = Mapped(d)
      BY <1>8 DEF Tables, Mapped, Pages
    <3> QED BY <1>8, <2>2, <3>1
  <2> QED BY <2>1, <2>2
<1>11. InUse(k)'
  <2>1. k \in Tables(d)'
    BY <1>8 DEF Tables
  <2> QED BY <1>3, <1>9, <2>1 DEF InUse
<1>12. \A x \in Page : InUse(x) => InUse(x)'
  <2>1. \A x \in freePages : x = k \/ x \in freePages'
    BY <1>6
  <2>2. \A e \in Dirs : Tables(e) \subseteq Tables(e)' /\ Mapped(e) \subseteq Mapped(e)'
    BY <1>9, <1>10
  <2>3. \A q \in MemProc : job[q].mem \in {0, k} \/ job'[q].mem = job[q].mem
    BY <1>6
  <2>4. Dirs \subseteq Dirs'
    BY <1>9
  <2> QED BY <1>11, <2>1, <2>2, <2>3, <2>4, TakeUse, Zenon
<1>13. Fine' /\ Entries' /\ MapOK(p)
  BY <1>2, <1>10 DEF Acc, Fine, Entries
<1>14. MapOK(p)'
  <2>1. dirOf[p] # 0 => vm'[dirOf[p]].pte = vm[dirOf[p]].pte
    BY <1>1, <1>10 DEF MemTypeOK
  <2> QED BY <1>0, <1>2, <1>6, <1>8, <1>13, <2>1, MapKept
<1> QED BY <1>2, <1>6, <1>10, <1>12, <1>13, <1>14, AccStep, Zenon

\* walkpgdir(): a page table, when there is a page for it.
LEMMA AllocTableAcc == ASSUME MemInv, MemInv', Acc, ~noTable', NEW p \in MemProc, AllocTable(p) PROVE Acc'
<1>0. PICK d, k, t : d = job[p].d /\ k = kalloc /\ t = job[p].va \div NPTE
  OBVIOUS
<1>1. MemTypeOK /\ JobsApart /\ PagesInv /\ MemTypeOK'
  BY MemInvParts, MemInvPartsNext
<1>2. UNCHANGED <<dirOf, sz, mempanic>> /\ d # 0 /\ job[p].va < job[p].end /\ vm[d].pt[t] = 0
  BY <1>0, <1>1 DEF AllocTable, NeedsTable, JobsApart, JobOK
<1>3. d \in Page /\ d \in Dirs
  BY <1>0, <1>1, <1>2, DirsDef DEF MemTypeOK
<1>4. ~None
  BY DEF AllocTable
<1>5. k \in freePages /\ k \in Page /\ k # 0
  BY <1>0, <1>1, <1>4, KallocFree
<1>6. freePages' = freePages \ {k} /\ job' = job /\ vm' = [vm EXCEPT ![d].pt[t] = k]
  BY <1>0, <1>4 DEF AllocTable
<1>7. t \in PageTables
  <2>1. job[p].va \in Va
    BY <1>1, <1>2, MemoryAssumption DEF MemTypeOK, Va
  <2> QED BY <1>0, <2>1 DEF PageTables
<1>8. /\ \A e \in Page : e # d => vm'[e] = vm[e]
      /\ vm'[d] = [vm[d] EXCEPT !.pt = [@ EXCEPT ![t] = k]]
  BY <1>1, <1>3, <1>6 DEF MemTypeOK
<1>9. vm'[d].pte = vm[d].pte /\ vm'[d].kpt = vm[d].kpt /\ vm'[d].pt = [vm[d].pt EXCEPT ![t] = k]
      /\ vm[d].pt \in [PageTables -> Page \cup {0}]
  BY <1>1, <1>3, <1>8 DEF MemTypeOK
<1>10. vm'[d].pt[t] = k /\ \A u \in PageTables : u # t => vm'[d].pt[u] = vm[d].pt[u]
  BY <1>7, <1>9
<1>11. Dirs' = Dirs /\ Dirs \subseteq Page
  BY <1>1, <1>2, <1>6, DirsDef DEF Dirs, Building
<1>12. \A x : x \in Tables(d) <=> x = d \/ x \in vm[d].kpt \/ (x # 0 /\ \E u \in PageTables : vm[d].pt[u] = x)
  BY <1>1, <1>3, TablesNow DEF TablesAre
<1>13. \A x : x \in Tables(d)' <=> x = d \/ x \in vm'[d].kpt \/ (x # 0 /\ \E u \in PageTables : vm'[d].pt[u] = x)
  BY <1>1, <1>3, TablesNext DEF TablesAre
<1>14. Tables(d) \subseteq Tables(d)' /\ k \in Tables(d)'
  BY <1>2, <1>5, <1>7, <1>9, <1>10, <1>12, <1>13
<1>15. ASSUME NEW e \in Page PROVE Tables(e) \subseteq Tables(e)' /\ Mapped(e) \subseteq Mapped(e)' /\ vm'[e].pte = vm[e].pte
  <2>1. CASE e # d
    BY <1>8, <2>1 DEF Tables, Mapped, Pages
  <2>2. CASE e = d
    <3>1. Mapped(d)' = Mapped(d)
      BY <1>9 DEF Mapped, Pages
    <3> QED BY <1>9, <1>14, <2>2, <3>1
  <2> QED BY <2>1, <2>2
<1>16. InUse(k)'
  BY <1>3, <1>11, <1>14 DEF InUse
<1>17. \A x \in Page : InUse(x) => InUse(x)'
  <2>1. \A x \in freePages : x = k \/ x \in freePages'
    BY <1>6
  <2>2. \A e \in Dirs : Tables(e) \subseteq Tables(e)' /\ Mapped(e) \subseteq Mapped(e)'
    BY <1>11, <1>15
  <2>3. \A q \in MemProc : job[q].mem \in {0, k} \/ job'[q].mem = job[q].mem
    BY <1>6
  <2>4. Dirs \subseteq Dirs'
    BY <1>11
  <2> QED BY <1>16, <2>1, <2>2, <2>3, <2>4, TakeUse, Zenon
<1>18. Fine' /\ Entries /\ MapOK(p)
  BY <1>2 DEF Acc, Fine
<1>19. Entries'
  <2>1. \A e \in Page, u \in PageTables : vm[e].pt[u] # 0 => vm'[e].pt[u] # 0
    BY <1>5, <1>8, <1>10
  <2>2. \A va \in Va : va \div NPTE \in PageTables
    BY DEF PageTables
  <2> QED BY <1>15, <1>18, <2>1, <2>2 DEF Entries
<1>20. MapOK(p)'
  <2>1. dirOf[p] # 0 => vm'[dirOf[p]].pte = vm[dirOf[p]].pte
    BY <1>1, <1>15 DEF MemTypeOK
  <2> QED BY <1>0, <1>2, <1>6, <1>9, <1>18, <2>1, MapKept
<1> QED BY <1>2, <1>6, <1>15, <1>17, <1>18, <1>19, <1>20, AccStep, Zenon

\* allocuvm() and copyuvm(): a page.  The page that copyuvm() copies is mapped.
LEMMA AllocMemAcc == ASSUME MemInv, MemInv', Acc, NEW p \in MemProc, AllocMem(p) PROVE Acc'
<1> DEFINE j == job[p]
<1>1. MemTypeOK /\ JobsApart /\ PagesInv /\ MemTypeOK'
  BY MemInvParts, MemInvPartsNext
<1>2. UNCHANGED <<dirOf, sz>> /\ j.d # 0 /\ j.va < j.end /\ j.mem = 0
  BY DEF AllocMem, NeedsMem
<1>3. job \in [MemProc -> Job] /\ j.va \in Va
  BY <1>1, <1>2, MemoryAssumption DEF MemTypeOK, Job, Va
<1>4. j.op # "none" /\ MapOK(p) /\ Fine /\ Entries
  BY <1>1, <1>2 DEF JobsApart, JobOK, Acc
<1>5. ~(j.op = "fork" /\ vm[dirOf[p]].pte[j.va] = 0)
  <2> SUFFICES ASSUME j.op = "fork" PROVE vm[dirOf[p]].pte[j.va] # 0
    OBVIOUS
  <2>1. MappedIn(dirOf[p], sz[p]) /\ j.end = sz[p]
    BY <1>4 DEF MapOK
  <2> QED BY <1>2, <1>3, <2>1 DEF MappedIn
<1>6. mempanic' = mempanic
  BY <1>5 DEF AllocMem
<1>7. CASE None
  <2>1. Abandon(p)
    BY <1>5, <1>7 DEF AllocMem
  <2> QED BY <1>2, <1>4, <1>6, <2>1, AbandonAcc
<1>8. CASE ~None
  <2>0. PICK k : k = kalloc
    OBVIOUS
  <2>1. k \in freePages /\ k \in Page /\ k # 0
    BY <1>1, <1>8, <2>0, KallocFree
  <2>2. freePages' = freePages \ {k} /\ vm' = vm /\ job' = [job EXCEPT ![p].mem = k]
    BY <1>5, <1>8, <2>0 DEF AllocMem
  <2>3. job'[p] = [j EXCEPT !.mem = k] /\ \A q \in MemProc : q # p => job'[q] = job[q]
    BY <1>3, <2>2
  <2>4. job'[p].mem = k /\ job'[p].d = j.d /\ job'[p].op = j.op /\ job'[p].va = j.va
        /\ job'[p].end = j.end /\ job'[p].old = j.old
    BY <1>3, <2>3 DEF Job
  <2>5. \A q \in MemProc : job'[q].d = job[q].d
    BY <2>3, <2>4
  <2>6. Dirs' = Dirs
    BY <1>2, <2>5 DEF Dirs, Building
  <2>7. \A e : Tables(e)' = Tables(e) /\ Mapped(e)' = Mapped(e)
    BY <2>2 DEF Tables, Mapped, Pages
  <2>8. InUse(k)'
    BY <2>4 DEF InUse
  <2>9. \A x \in Page : InUse(x) => InUse(x)'
    <3>1. \A x \in freePages : x = k \/ x \in freePages'
      BY <2>2
    <3>2. \A d \in Dirs : Tables(d) \subseteq Tables(d)' /\ Mapped(d) \subseteq Mapped(d)'
      BY <2>7
    <3>3. \A q \in MemProc : job[q].mem \in {0, k} \/ job'[q].mem = job[q].mem
      BY <1>2, <2>3
    <3>4. Dirs \subseteq Dirs'
      BY <2>6
    <3> QED BY <2>8, <3>1, <3>2, <3>3, <3>4, TakeUse, Zenon
  <2>10. Fine' /\ Entries' /\ \A e \in Page : vm'[e].pte = vm[e].pte
    BY <1>4, <1>6, <2>2 DEF Fine, Entries
  <2>11. MapOK(p)'
    BY <1>2, <1>4, <2>2, <2>4 DEF MapOK, MappedIn, Runs, Alive
  <2> QED BY <1>2, <2>3, <2>9, <2>10, <2>11, AccStep, Zenon
<1> QED BY <1>7, <1>8

\* mappages(): the entry.  It is not in use yet.
LEMMA MapPageAcc == ASSUME MemInv, MemInv', Acc, NEW p \in MemProc, MapPage(p) PROVE Acc'
<1> DEFINE j == job[p]
<1>0. PICK d, va, x0 : d = job[p].d /\ va = job[p].va /\ x0 = job[p].mem
  OBVIOUS
<1>1. MemTypeOK /\ JobsApart /\ PagesInv /\ MemTypeOK'
  BY MemInvParts, MemInvPartsNext
<1>2. UNCHANGED <<freePages, dirOf, sz>> /\ x0 # 0 /\ d # 0 /\ va < j.end /\ vm[d].pt[va \div NPTE] # 0
  BY <1>0, <1>1 DEF MapPage, NeedsTable, JobsApart, JobOK
<1>3. job \in [MemProc -> Job] /\ va \in Va /\ va \in Nat /\ j.end \in Nat /\ x0 \in Page
  BY <1>0, <1>1, <1>2, MemoryAssumption DEF MemTypeOK, Job, Va
<1>4. d \in Page /\ d \in Dirs
  BY <1>0, <1>1, <1>2, DirsDef DEF MemTypeOK
<1>5. MapOK(p) /\ Fine /\ Entries /\ MappedIn(d, va) /\ j.op # "none" /\ Runs(p)
  BY <1>0, <1>1, <1>2 DEF JobsApart, JobOK, Acc, MapOK
<1>6. vm[d].pte[va] = 0
  BY <1>3, <1>5 DEF MappedIn
<1>7. mempanic' = mempanic /\ vm' = [vm EXCEPT ![d].pte[va] = x0] /\ job' = [job EXCEPT ![p].va = @ + 1, ![p].mem = 0]
  BY <1>0, <1>6 DEF MapPage
<1>8. job'[p] = [j EXCEPT !.va = va + 1, !.mem = 0] /\ \A q \in MemProc : q # p => job'[q] = job[q]
  BY <1>0, <1>3, <1>7 DEF Job
<1>9. job'[p].mem = 0 /\ job'[p].d = d /\ job'[p].op = j.op /\ job'[p].va = va + 1
      /\ job'[p].end = j.end /\ job'[p].old = j.old
  BY <1>0, <1>3, <1>8 DEF Job
<1>10. /\ \A e \in Page : e # d => vm'[e] = vm[e]
       /\ vm'[d] = [vm[d] EXCEPT !.pte = [@ EXCEPT ![va] = x0]]
  BY <1>1, <1>4, <1>7 DEF MemTypeOK
<1>11. vm'[d].pt = vm[d].pt /\ vm'[d].kpt = vm[d].kpt /\ vm'[d].pte = [vm[d].pte EXCEPT ![va] = x0]
       /\ vm[d].pte \in [Va -> Page \cup {0}]
  BY <1>1, <1>4, <1>10 DEF MemTypeOK
<1>12. vm'[d].pte[va] = x0 /\ \A v \in Va : v # va => vm'[d].pte[v] = vm[d].pte[v]
  BY <1>3, <1>11
<1>13. \A q \in MemProc : job'[q].d = job[q].d
  BY <1>0, <1>8, <1>9
<1>14. Dirs' = Dirs /\ Dirs \subseteq Page
  BY <1>1, <1>2, <1>13, DirsDef DEF Dirs, Building
<1>15. \A x : x \in Mapped(d) <=> x # 0 /\ \E v \in Va : vm[d].pte[v] = x
  BY <1>1, <1>4, MappedIff
<1>16. \A x : x \in Mapped(d)' <=> x # 0 /\ \E v \in Va : vm'[d].pte[v] = x
  BY <1>1, <1>4, MappedIffNext
<1>17. Mapped(d) \subseteq Mapped(d)' /\ x0 \in Mapped(d)'
  BY <1>2, <1>3, <1>6, <1>12, <1>15, <1>16
<1>18. ASSUME NEW e \in Page PROVE Tables(e) \subseteq Tables(e)' /\ Mapped(e) \subseteq Mapped(e)'
  <2>1. CASE e # d
    BY <1>10, <2>1 DEF Tables, Mapped, Pages
  <2>2. CASE e = d
    <3>1. Tables(d)' = Tables(d)
      BY <1>11 DEF Tables, Pages
    <3> QED BY <1>17, <2>2, <3>1
  <2> QED BY <2>1, <2>2
<1>19. \A x \in Page : InUse(x) => InUse(x)'
  <2>1. \A x \in freePages : x = x0 \/ x \in freePages'
    BY <1>2
  <2>2. \A e \in Dirs : Tables(e) \subseteq Tables(e)' /\ Mapped(e) \subseteq Mapped(e)'
    BY <1>14, <1>18
  <2>3. \A q \in MemProc : job[q].mem \in {0, x0} \/ job'[q].mem = job[q].mem
    BY <1>0, <1>8
  <2>4. Dirs \subseteq Dirs'
    BY <1>14
  <2>5. InUse(x0)'
    BY <1>4, <1>14, <1>17 DEF InUse
  <2> QED BY <2>1, <2>2, <2>3, <2>4, <2>5, TakeUse, Zenon
<1>20. Fine' /\ Entries'
  <2>1. vm[d].pt[va \div NPTE] # 0
    BY <1>2
  <2>2. \A e \in Page : vm'[e].pt = vm[e].pt
    BY <1>10, <1>11
  <2>3. Fine'
    BY <1>5, <1>7 DEF Fine
  <2>4. ASSUME NEW e \in Page, NEW v \in Va, vm'[e].pte[v] # 0 PROVE vm[e].pt[v \div NPTE] # 0
    <3>1. CASE e = d /\ v = va
      BY <2>1, <3>1
    <3>2. CASE ~(e = d /\ v = va)
      <4>1. vm[e].pte[v] # 0
        BY <1>10, <1>12, <2>4, <3>2
      <4> QED BY <1>5, <4>1 DEF Entries
    <3> QED BY <3>1, <3>2
  <2>5. Entries'
    BY <2>2, <2>4, Zenon DEF Entries
  <2> QED BY <2>3, <2>5
<1>21. \A v \in Va : vm'[d].pte[v] # 0 <=> v < va + 1
  <2> SUFFICES ASSUME NEW v \in Va PROVE vm'[d].pte[v] # 0 <=> v < va + 1
    OBVIOUS
  <2>1. v \in Nat
    BY DEF Va
  <2>2. v < va + 1 <=> v < va \/ v = va
    BY <1>3, <2>1
  <2>3. v # va => (vm[d].pte[v] # 0 <=> v < va)
    BY <1>5 DEF MappedIn
  <2>4. ~(va < va)
    BY <1>3
  <2> QED BY <1>2, <1>12, <2>2, <2>3, <2>4
<1>22. MappedIn(job[p].d, job[p].va)'
  BY <1>9, <1>21 DEF MappedIn
<1>23. dirOf[p] \in Page
  BY <1>1, <1>5 DEF Runs, Alive, MemTypeOK
<1>24. Runs(p)'
  <2>1. vm[dirOf[p]].pte[0] # 0 /\ 0 \in Va
    BY <1>5, MemoryAssumption DEF Runs, Va
  <2>2. vm'[dirOf[p]].pte[0] # 0
    BY <1>2, <1>10, <1>12, <1>23, <2>1
  <2> QED BY <1>2, <1>5, <2>2 DEF Runs, Alive
<1>25. j.op # "grow" => MappedIn(dirOf[p], sz[p])'
  <2>1. j.op # "grow" => dirOf[p] # d
    <3>1. j.op \in {"none", "grow", "fork", "exec"} /\ JobOK(p)
      BY <1>1 DEF JobsApart, MemTypeOK
    <3> QED BY <1>0, <1>2, <1>5, <3>1 DEF JobOK, New
  <2> QED BY <1>2, <1>5, <1>10, <1>23, <2>1 DEF MapOK, MappedIn
<1>26. va + 1 <= j.end /\ (j.op = "grow" => sz[p] <= va + 1)
  <2>1. j.op = "grow" => sz[p] <= va
    BY <1>0, <1>5 DEF MapOK
  <2>2. sz[p] \in Nat
    BY <1>1 DEF MemTypeOK
  <2> QED BY <1>2, <1>3, <2>1, <2>2
<1>27. MapOK(p)'
  <2>1. (j.op = "grow" => j.old = sz[p]) /\ (j.op = "fork" => j.end = sz[p])
    BY <1>5 DEF MapOK
  <2> QED BY <1>2, <1>5, <1>9, <1>22, <1>24, <1>25, <1>26, <2>1 DEF MapOK
<1>28. \A e \in Page : e # dirOf[p] /\ e # job[p].d => vm'[e].pte = vm[e].pte
  BY <1>0, <1>10
<1> QED BY <1>2, <1>8, <1>19, <1>20, <1>27, <1>28, AccStep, Zenon

\* A step that moves no page.
LEMMA SameUse ==
  ASSUME vm' = vm, freePages' = freePages, Dirs \subseteq Dirs',
         \A q \in MemProc : job[q].mem # 0 => job'[q].mem = job[q].mem
  PROVE  (\A x \in Page : InUse(x) => InUse(x)') /\ (Entries => Entries')
<1>1. Entries => Entries'
  BY DEF Entries
<1>2. \A d : Tables(d)' = Tables(d) /\ Mapped(d)' = Mapped(d)
  BY DEF Tables, Mapped, Pages
<1>3. ASSUME NEW x \in Page, InUse(x) PROVE InUse(x)'
  <2>1. x # 0
    BY DEF Page
  <2> QED BY <1>2, <1>3, <2>1 DEF InUse
<1> QED BY <1>1, <1>3

\* The end of allocuvm(), copyuvm(), and the two of exec(): the page tables that
\* loaduvm() and clearpteu() need are there.
LEMMA JobEndsAcc == ASSUME MemInv, MemInv', Acc, NEW p \in MemProc, JobEnds(p) PROVE Acc'
<1> DEFINE j == job[p]
<1>0. PICK d, od : d = job[p].d /\ od = dirOf[p]
  OBVIOUS
<1>1. MemTypeOK /\ JobsApart /\ PagesInv /\ MemTypeOK'
  BY MemInvParts, MemInvPartsNext
<1>2. job \in [MemProc -> Job] /\ j \in Job
  BY <1>1 DEF MemTypeOK, Job
<1>3. d # 0 /\ j.mem = 0 /\ j.va = j.end /\ d \in Dirs /\ d \in Page
  BY <1>0, <1>1, DirsDef DEF JobEnds, MemTypeOK
<1>4. j.op \in {"grow", "fork", "exec"} /\ (j.op = "exec" => j.end \in {ProgSz, ProgSz + 2} /\ ProgSz + 2 <= MaxSz)
  BY <1>0, <1>1, <1>2, <1>3 DEF JobsApart, JobOK, Job
<1>5. ProgSz # ProgSz + 2 /\ ProgSz \in Nat /\ ProgSz < ProgSz + 2 /\ MaxSz \in Nat /\ ProgSz >= 1
  BY MemoryAssumption
<1>6. MapOK(p) /\ Fine /\ Entries /\ MappedIn(d, j.end) /\ Runs(p) /\ j.end \in 0 .. MaxSz
  BY <1>0, <1>2, <1>3, <1>4 DEF Acc, MapOK, Job
<1>7. \A v \in Va : v < j.end => vm[d].pt[v \div NPTE] # 0
  BY <1>3, <1>6 DEF MappedIn, Entries
<1>8. od \in Page /\ od \in Dirs /\ od # 0
  BY <1>0, <1>1, <1>6, DirsDef DEF Runs, Alive, MemTypeOK
<1>9. \A x : x \in Dirs <=> x # 0 /\ \E q \in MemProc : dirOf[q] = x \/ job[q].d = x
  BY DEF Dirs, Building
<1>10. \A x : x \in Dirs' <=> x # 0 /\ \E q \in MemProc : dirOf'[q] = x \/ job'[q].d = x
  BY DEF Dirs, Building
<1>11. CASE j.op = "grow"
  <2>1. sz' = [sz EXCEPT ![p] = j.end] /\ job' = [job EXCEPT ![p] = NoJob] /\ UNCHANGED <<freePages, vm, dirOf, mempanic>>
    BY <1>11 DEF JobEnds
  <2>2. Dirs' = Dirs /\ d = od
    BY <1>0, <1>1, <1>11, <2>1, JobGone DEF New, JobsApart, JobOK
  <2>3. job'[p] = NoJob /\ sz'[p] = j.end /\ \A q \in MemProc : q # p => job'[q] = job[q] /\ sz'[q] = sz[q]
    BY <1>1, <1>2, <2>1 DEF MemTypeOK
  <2>4. (\A x \in Page : InUse(x) => InUse(x)') /\ Entries'
    BY <1>3, <1>6, <2>1, <2>2, <2>3, SameUse
  <2>5. MapOK(p)'
    <3>1. MappedIn(dirOf[p], sz[p])'
      BY <1>0, <1>6, <2>1, <2>2, <2>3 DEF MappedIn
    <3> QED BY <2>3, <3>1, IdleOK
  <2>6. Fine' /\ \A e \in Page : vm'[e].pte = vm[e].pte
    BY <1>6, <2>1 DEF Fine
  <2> QED BY <2>1, <2>3, <2>4, <2>5, <2>6, AccStep, Zenon
<1>12. CASE j.op = "fork"
  <2>0. PICK kid \in MemProc : kid = j.kid
    BY <1>2 DEF Job
  <2>1. /\ dirOf' = [dirOf EXCEPT ![kid] = d] /\ sz' = [sz EXCEPT ![kid] = j.end]
        /\ job' = [job EXCEPT ![p] = NoJob] /\ UNCHANGED <<freePages, vm, mempanic>>
    BY <1>0, <1>12, <2>0 DEF JobEnds
  <2>2. dirOf[kid] = 0 /\ kid # p /\ New(p)
    BY <1>0, <1>1, <1>3, <1>8, <1>12, <2>0 DEF JobsApart, JobOK, Alive, New
  <2>3. job'[p] = NoJob /\ \A q \in MemProc : q # p => job'[q] = job[q]
    BY <1>2, <2>1
  <2>4. /\ dirOf'[kid] = d /\ \A q \in MemProc : q # kid => dirOf'[q] = dirOf[q]
        /\ sz'[kid] = j.end /\ \A q \in MemProc : q # kid => sz'[q] = sz[q]
    BY <1>1, <2>1 DEF MemTypeOK
  <2>5. Dirs \subseteq Dirs'
    BY <1>0, <1>3, <1>9, <1>10, <2>2, <2>3, <2>4
  <2>6. (\A x \in Page : InUse(x) => InUse(x)') /\ Entries'
    BY <1>3, <1>6, <2>1, <2>3, <2>5, SameUse
  <2>7. MapOK(p)'
    <3>1. MappedIn(dirOf[p], sz[p])
      BY <1>6, <1>12 DEF MapOK
    <3>2. MappedIn(dirOf[p], sz[p])'
      BY <2>1, <2>2, <2>4, <3>1 DEF MappedIn
    <3> QED BY <2>3, <3>2, IdleOK
  <2>8. MapOK(kid)'
    <3>1. MappedIn(dirOf[kid], sz[kid])'
      BY <1>6, <2>1, <2>4 DEF MappedIn
    <3>2. JobOK(kid) /\ MapOK(kid)
      BY <1>1 DEF JobsApart, Acc
    <3>3. job[kid].op = "none" /\ job[kid].d = 0 /\ job[kid].va = 0
      BY <2>2, <3>2 DEF JobOK, Alive, MapOK
    <3>4. job'[kid] = job[kid]
      BY <2>2, <2>3
    <3> QED BY <3>1, <3>3, <3>4 DEF MapOK
  <2>9. ASSUME NEW q \in MemProc, q # p, q # kid PROVE MapOK(q)'
    <3>1. MapOK(q) /\ job'[q] = job[q] /\ dirOf'[q] = dirOf[q] /\ sz'[q] = sz[q]
      BY <2>3, <2>4, <2>9 DEF Acc
    <3> QED BY <2>1, <3>1, MapKept
  <2>10. \A q \in MemProc : MapOK(q)'
    BY <2>7, <2>8, <2>9
  <2>11. Fine' /\ \A x \in Page : InUse(x)'
    BY <1>6, <2>1, <2>6 DEF Fine, Acc
  <2> QED BY <2>6, <2>10, <2>11, Zenon DEF Acc
<1>13. CASE j.op = "exec" /\ j.end = ProgSz
  <2>1. \A v \in 0 .. ProgSz - 1 : vm[job[p].d].pt[v \div NPTE] # 0
    BY <1>0, <1>4, <1>5, <1>7, <1>13 DEF Va
  <2>2. UNCHANGED <<freePages, vm, dirOf, sz, mempanic>> /\ job' = [job EXCEPT ![p].end = ProgSz + 2, ![p].old = ProgSz]
    BY <1>5, <1>13, <2>1 DEF JobEnds
  <2>3. job'[p] = [j EXCEPT !.end = ProgSz + 2, !.old = ProgSz] /\ \A q \in MemProc : q # p => job'[q] = job[q]
    BY <1>2, <2>2
  <2>4. job'[p].mem = 0 /\ job'[p].d = d /\ job'[p].op = "exec" /\ job'[p].va = ProgSz /\ job'[p].end = ProgSz + 2
    BY <1>0, <1>2, <1>3, <1>13, <2>3 DEF Job
  <2>5. \A q \in MemProc : job'[q].d = job[q].d
    BY <1>0, <2>3, <2>4
  <2>6. Dirs' = Dirs
    BY <2>2, <2>5 DEF Dirs, Building
  <2>7. (\A x \in Page : InUse(x) => InUse(x)') /\ Entries'
    BY <1>3, <1>6, <2>2, <2>3, <2>6, SameUse
  <2>8. MapOK(p)'
    <3>1. MappedIn(dirOf[p], sz[p])' /\ Runs(p)'
      BY <1>6, <1>13, <2>2 DEF MapOK, MappedIn, Runs, Alive
    <3>2. MappedIn(job[p].d, job[p].va)'
      BY <1>6, <1>13, <2>2, <2>4 DEF MappedIn
    <3>3. ProgSz <= ProgSz + 2
      BY <1>5
    <3> QED BY <1>3, <2>4, <3>1, <3>2, <3>3 DEF MapOK
  <2>9. Fine' /\ \A e \in Page : vm'[e].pte = vm[e].pte
    BY <1>6, <2>2 DEF Fine
  <2> QED BY <2>2, <2>3, <2>7, <2>8, <2>9, AccStep, Zenon
<1>14. CASE j.op = "exec" /\ j.end = ProgSz + 2
  <2>1. vm[job[p].d].pt[ProgSz \div NPTE] # 0
    <3>1. ProgSz \in Va /\ ProgSz < j.end
      BY <1>4, <1>5, <1>14 DEF Va
    <3> QED BY <1>0, <1>7, <3>1
  <2>2. /\ dirOf' = [dirOf EXCEPT ![p] = d] /\ sz' = [sz EXCEPT ![p] = j.end]
        /\ freePages' = freePages \cup Freed(od) /\ vm' = freevm(od)
        /\ job' = [job EXCEPT ![p] = NoJob] /\ mempanic' = mempanic
    BY <1>0, <1>5, <1>14, <2>1 DEF JobEnds
  <2>3. job'[p] = NoJob /\ dirOf'[p] = d /\ sz'[p] = j.end
        /\ \A q \in MemProc : q # p => job'[q] = job[q] /\ dirOf'[q] = dirOf[q] /\ sz'[q] = sz[q]
    BY <1>1, <1>2, <2>2 DEF MemTypeOK
  <2>4. d # od
    BY <1>0, <1>1, <1>3, <1>14 DEF JobsApart, JobOK, New
  <2>5. \A e \in Dirs : e # od => e \in Dirs'
    BY <1>0, <1>3, <1>9, <1>10, <2>3
  <2>6. \A q \in MemProc : job[q].mem # 0 => job'[q].mem = job[q].mem
    BY <1>3, <2>3
  <2>7. /\ \A e \in Page : e # od => vm'[e] = vm[e]
        /\ Entries'
        /\ \A x \in Page : InUse(x) => InUse(x)'
    BY <1>1, <1>6, <1>8, <2>2, <2>5, <2>6, FreeUse, Zenon
  <2>8. MapOK(p)'
    <3>1. MappedIn(dirOf[p], sz[p])'
      BY <1>3, <1>6, <2>3, <2>4, <2>7 DEF MappedIn
    <3> QED BY <2>3, <3>1, IdleOK
  <2>9. Fine' /\ \A e \in Page : e # dirOf[p] /\ e # job[p].d => vm'[e].pte = vm[e].pte
    BY <1>0, <1>6, <2>2, <2>7 DEF Fine
  <2> QED BY <2>3, <2>7, <2>8, <2>9, AccStep, Zenon
<1> QED BY <1>4, <1>11, <1>12, <1>13, <1>14

\* A call that begins, with the job nj.
LEMMA BeginAcc ==
  ASSUME MemInv, Acc, NEW p \in MemProc, NEW nj \in Job, job' = [job EXCEPT ![p] = nj],
         UNCHANGED <<freePages, vm, dirOf, sz, mempanic>>, job[p].op = "none", Runs(p), nj.op # "none",
         nj.va <= nj.end, nj.op = "fork" => nj.end = sz[p],
         \/ nj.op = "grow" /\ nj.d = dirOf[p] /\ nj.va = sz[p] /\ nj.old = sz[p]
         \/ nj.op # "grow" /\ nj.d = 0 /\ nj.va = 0
  PROVE  Acc'
<1>1. MemTypeOK /\ JobsApart
  BY MemInvParts
<1>2. job \in [MemProc -> Job] /\ JobOK(p) /\ MapOK(p) /\ Fine /\ Entries
  BY <1>1 DEF MemTypeOK, Job, JobsApart, Acc
<1>3. job'[p] = nj /\ \A q \in MemProc : q # p => job'[q] = job[q]
  BY <1>2
<1>4. job[p].d = 0 /\ job[p].mem = 0
  BY <1>2 DEF JobOK
<1>5. Dirs \subseteq Dirs'
  <2>1. \A x : x \in Dirs <=> x # 0 /\ \E q \in MemProc : dirOf[q] = x \/ job[q].d = x
    BY DEF Dirs, Building
  <2>2. \A x : x \in Dirs' <=> x # 0 /\ \E q \in MemProc : dirOf'[q] = x \/ job'[q].d = x
    BY DEF Dirs, Building
  <2> QED BY <1>3, <1>4, <2>1, <2>2
<1>6. (\A x \in Page : InUse(x) => InUse(x)') /\ Entries'
  BY <1>2, <1>3, <1>4, <1>5, SameUse
<1>7. MapOK(p)'
  <2>1. MappedIn(dirOf[p], sz[p])
    BY <1>2 DEF MapOK
  <2>2. MappedIn(dirOf[p], sz[p])' /\ Runs(p)'
    BY <2>1 DEF MappedIn, Runs, Alive
  <2>3. CASE nj.op = "grow" /\ nj.d = dirOf[p] /\ nj.va = sz[p] /\ nj.old = sz[p]
    <3>1. MappedIn(job[p].d, job[p].va)'
      BY <1>3, <2>1, <2>3 DEF MappedIn
    <3>2. sz[p] <= sz[p] /\ dirOf[p] # 0
      BY <1>1 DEF MemTypeOK, Runs, Alive
    <3> QED BY <1>3, <2>2, <2>3, <3>1, <3>2 DEF MapOK
  <2>4. CASE nj.op # "grow" /\ nj.d = 0 /\ nj.va = 0
    BY <1>3, <2>2, <2>4 DEF MapOK
  <2> QED BY <2>3, <2>4
<1>8. Fine' /\ \A e \in Page : vm'[e].pte = vm[e].pte
  BY <1>2 DEF Fine
<1> QED BY <1>3, <1>6, <1>7, <1>8, AccStep, Zenon

\* growproc() begins.
LEMMA GrowAcc == ASSUME MemInv, Acc, NEW p \in MemProc, Grow(p) PROVE Acc'
<1>1. PICK n \in sz[p] + 1 .. MaxSz :
        job' = [job EXCEPT ![p] = [NoJob EXCEPT !.op = "grow", !.d = dirOf[p], !.va = sz[p], !.end = n, !.old = sz[p]]]
  BY DEF Grow
<1> DEFINE nj == [NoJob EXCEPT !.op = "grow", !.d = dirOf[p], !.va = sz[p], !.end = n, !.old = sz[p]]
<1>2. sz[p] \in Nat /\ n \in 0 .. MaxSz /\ dirOf[p] \in Page \cup {0} /\ sz[p] <= n
  BY MemInvParts, MemoryAssumption DEF MemTypeOK
<1>3. nj \in Job /\ nj.op = "grow" /\ nj.d = dirOf[p] /\ nj.va = sz[p] /\ nj.old = sz[p] /\ nj.end = n
  BY <1>2, MemoryAssumption DEF NoJob, Job
<1>4. UNCHANGED <<freePages, vm, dirOf, sz, mempanic>> /\ job[p].op = "none" /\ Runs(p)
  BY DEF Grow, Call, Doing
<1> HIDE DEF nj
<1>5. job' = [job EXCEPT ![p] = nj]
  BY <1>1 DEF nj
<1>6. nj.op # "none" /\ nj.va <= nj.end /\ nj.op # "fork"
  BY <1>2, <1>3
<1> QED BY <1>3, <1>4, <1>5, <1>6, BeginAcc

\* fork() begins.
LEMMA ForkMemAcc == ASSUME MemInv, Acc, NEW p \in MemProc, NEW kid \in MemProc, ForkMem(p, kid) PROVE Acc'
<1> DEFINE nj == [NoJob EXCEPT !.op = "fork", !.end = sz[p], !.kid = kid]
<1>1. UNCHANGED <<freePages, vm, dirOf, sz, mempanic>> /\ job[p].op = "none" /\ Runs(p) /\ job' = [job EXCEPT ![p] = nj]
  BY DEF ForkMem, Call, Doing
<1>2. sz[p] \in 0 .. MaxSz /\ 0 <= sz[p]
  BY MemInvParts DEF MemTypeOK
<1>3. nj \in Job /\ nj.op = "fork" /\ nj.d = 0 /\ nj.va = 0 /\ nj.end = sz[p]
  BY <1>2, MemoryAssumption DEF NoJob, Job
<1> HIDE DEF nj
<1>4. nj.op # "none" /\ nj.va <= nj.end /\ nj.op # "grow"
  BY <1>2, <1>3
<1> QED BY <1>1, <1>3, <1>4, BeginAcc

\* exec() begins.
LEMMA ExecMemAcc == ASSUME MemInv, Acc, NEW p \in MemProc, ExecMem(p) PROVE Acc'
<1> DEFINE nj == [NoJob EXCEPT !.op = "exec", !.end = ProgSz]
<1>1. UNCHANGED <<freePages, vm, dirOf, sz, mempanic>> /\ job[p].op = "none" /\ Runs(p) /\ job' = [job EXCEPT ![p] = nj]
  BY DEF ExecMem, Call, Doing
<1>2. ProgSz \in 0 .. MaxSz /\ 0 <= ProgSz
  BY MemoryAssumption
<1>3. nj \in Job /\ nj.op = "exec" /\ nj.d = 0 /\ nj.va = 0 /\ nj.end = ProgSz
  BY <1>2, MemoryAssumption DEF NoJob, Job
<1> HIDE DEF nj
<1>4. nj.op # "none" /\ nj.va <= nj.end /\ nj.op # "grow" /\ nj.op # "fork"
  BY <1>2, <1>3
<1> QED BY <1>1, <1>3, <1>4, BeginAcc

\* growproc() with a negative argument: all of what it was to free is free.
LEMMA ShrinkAcc == ASSUME MemInv, MemInv', Acc, NEW p \in MemProc, Shrink(p) PROVE Acc'
<1>0. PICK d : d = dirOf[p]
  OBVIOUS
<1>1. MemTypeOK /\ JobsApart /\ MemTypeOK'
  BY MemInvParts, MemInvPartsNext
<1>2. UNCHANGED <<dirOf, job, mempanic>> /\ Runs(p) /\ job[p].op = "none"
  BY DEF Shrink, Call, Doing
<1>3. PICK n \in 0 .. sz[p] - 1 :
        /\ sz' = [sz EXCEPT ![p] = IF n = 0 THEN @ ELSE n]
        /\ freePages' = freePages \cup PagesAt(dirOf[p], Dealloc(dirOf[p], sz[p], n))
        /\ vm' = Unmap(dirOf[p], Dealloc(dirOf[p], sz[p], n))
  BY DEF Shrink
<1>4. PICK vas : vas = Dealloc(d, sz[p], n)
  OBVIOUS
<1>5. d \in Page /\ d \in Dirs
  BY <1>0, <1>1, <1>2, DirsDef DEF Runs, Alive, MemTypeOK
<1>6. sz[p] \in 0 .. MaxSz /\ sz[p] \in Nat /\ n \in Nat /\ n <= sz[p] /\ n < sz[p] /\ n \in Va
  BY <1>1, MemoryAssumption DEF MemTypeOK, Va
<1>7. MapOK(p) /\ Fine /\ Entries /\ MappedIn(d, sz[p])
  BY <1>0, <1>2 DEF Acc, MapOK
<1>8. JobOK(p)
  BY <1>1 DEF JobsApart
<1>9. Dirs' = Dirs
  BY <1>2 DEF Dirs, Building
<1>10. /\ \A e \in Page : e # d => vm'[e] = vm[e]
       /\ \A v \in Va : vm'[d].pte[v] = IF v \in vas THEN 0 ELSE vm[d].pte[v]
       /\ Entries'
       /\ \A x \in Page : InUse(x) => InUse(x)'
  <2>1. vm' = Unmap(d, vas) /\ freePages' = freePages \cup PagesAt(d, vas)
    BY <1>0, <1>3, <1>4
  <2>2. \A q \in MemProc : job[q].mem # 0 => job'[q].mem = job[q].mem
    BY <1>2
  <2> QED BY <1>1, <1>5, <1>7, <1>9, <2>1, <2>2, UnmapUse, Zenon
<1>11. \A v \in Va : v \in vas <=> n <= v /\ v < sz[p]
  <2>1. /\ vas \subseteq n .. sz[p] - 1
        /\ vm[d].pt[n \div NPTE] # 0 \/ n = 0 =>
             \A b \in n .. sz[p] - 1 : vm[d].pt[b \div NPTE] # 0 => b \in vas
    BY <1>4, <1>6, DeallocAll, Zenon
  <2>2. \A v \in Va : v < sz[p] => vm[d].pt[v \div NPTE] # 0
    BY <1>5, <1>7 DEF Entries, MappedIn
  <2>3. vm[d].pt[n \div NPTE] # 0
    BY <1>6, <2>2
  <2>4. \A v \in Va : v \in Nat
    BY DEF Va
  <2> QED BY <1>6, <2>1, <2>2, <2>3, <2>4
<1>12. \A v \in Va : vm'[d].pte[v] # 0 <=> v < n
  <2> SUFFICES ASSUME NEW v \in Va PROVE vm'[d].pte[v] # 0 <=> v < n
    OBVIOUS
  <2>1. v \in Nat
    BY DEF Va
  <2>2. vm[d].pte[v] # 0 <=> v < sz[p]
    BY <1>7 DEF MappedIn
  <2>3. v \in vas <=> n <= v /\ v < sz[p]
    BY <1>11
  <2>4. vm'[d].pte[v] = IF v \in vas THEN 0 ELSE vm[d].pte[v]
    BY <1>10
  <2> QED BY <1>6, <2>1, <2>2, <2>3, <2>4
<1>13. MapOK(p)'
  <2>1. job[p].d = 0 /\ job[p].va = 0
    BY <1>2, <1>7, <1>8 DEF JobOK, MapOK
  <2>2. CASE n = 0
    <3>1. 0 \in Va /\ ~(0 < 0)
      BY <1>6, <2>2
    <3>2. ~Runs(p)'
      BY <1>0, <1>2, <1>12, <2>2, <3>1 DEF Runs
    <3> QED BY <1>2, <2>1, <3>2 DEF MapOK
  <2>3. CASE n # 0
    <3>1. sz'[p] = n
      BY <1>1, <1>3, <2>3 DEF MemTypeOK
    <3>2. MappedIn(dirOf[p], sz[p])'
      BY <1>0, <1>2, <1>12, <3>1 DEF MappedIn
    <3> QED BY <1>2, <2>1, <3>2 DEF MapOK
  <2> QED BY <2>2, <2>3
<1>14. Fine' /\ \A e \in Page : e # dirOf[p] /\ e # job[p].d => vm'[e].pte = vm[e].pte
  BY <1>0, <1>2, <1>7, <1>10 DEF Fine
<1>15. \A q \in MemProc : q # p => job'[q] = job[q] /\ dirOf'[q] = dirOf[q] /\ sz'[q] = sz[q]
  BY <1>1, <1>2, <1>3 DEF MemTypeOK
<1> QED BY <1>10, <1>13, <1>14, <1>15, AccStep, Zenon

\* exit(), and wait() by the parent.
LEMMA ExitWaitAcc == ASSUME MemInv, MemInv', Acc, NEW p \in MemProc, ExitWait(p) PROVE Acc'
<1>0. PICK d : d = dirOf[p]
  OBVIOUS
<1>1. MemTypeOK /\ JobsApart
  BY MemInvParts
<1>2. /\ job' = job /\ job[p].op = "none" /\ d # 0 /\ mempanic' = mempanic
      /\ freePages' = freePages \cup Freed(d) /\ vm' = freevm(d)
      /\ dirOf' = [dirOf EXCEPT ![p] = 0] /\ sz' = [sz EXCEPT ![p] = 0]
  BY <1>0 DEF ExitWait, Call, Doing, Alive
<1>3. d \in Page /\ MapOK(p) /\ JobOK(p) /\ Fine /\ Entries
  BY <1>0, <1>1, <1>2 DEF MemTypeOK, JobsApart, Acc
<1>4. dirOf'[p] = 0 /\ \A q \in MemProc : q # p => dirOf'[q] = dirOf[q] /\ sz'[q] = sz[q]
  BY <1>1, <1>2 DEF MemTypeOK
<1>5. \A e \in Dirs : e # d => e \in Dirs'
  <2>1. \A x : x \in Dirs <=> x # 0 /\ \E q \in MemProc : dirOf[q] = x \/ job[q].d = x
    BY DEF Dirs, Building
  <2>2. \A x : x \in Dirs' <=> x # 0 /\ \E q \in MemProc : dirOf'[q] = x \/ job'[q].d = x
    BY DEF Dirs, Building
  <2> QED BY <1>0, <1>2, <1>4, <2>1, <2>2
<1>6. /\ \A e \in Page : e # d => vm'[e] = vm[e]
      /\ Entries'
      /\ \A x \in Page : InUse(x) => InUse(x)'
  <2>1. \A q \in MemProc : job[q].mem # 0 => job'[q].mem = job[q].mem
    BY <1>2
  <2> QED BY <1>1, <1>2, <1>3, <1>5, <2>1, FreeUse, Zenon
<1>7. MapOK(p)'
  <2>1. job[p].d = 0 /\ job[p].va = 0
    BY <1>2, <1>3 DEF JobOK, MapOK
  <2>2. ~Runs(p)'
    BY <1>4 DEF Runs, Alive
  <2> QED BY <1>2, <2>1, <2>2 DEF MapOK
<1>8. Fine' /\ \A e \in Page : e # dirOf[p] /\ e # job[p].d => vm'[e].pte = vm[e].pte
  BY <1>0, <1>2, <1>3, <1>6 DEF Fine
<1>9. \A q \in MemProc : q # p => job'[q] = job[q] /\ dirOf'[q] = dirOf[q] /\ sz'[q] = sz[q]
  BY <1>2, <1>4
<1> QED BY <1>6, <1>7, <1>8, <1>9, AccStep, Zenon

\* exec() gives up.
LEMMA BadProgramAcc == ASSUME MemInv, Acc, NEW p \in MemProc, BadProgram(p) PROVE Acc'
  BY AbandonAcc DEF BadProgram, Doing

\* A step that changes nothing.
LEMMA StutterAcc == ASSUME Acc, UNCHANGED memvars PROVE Acc'
<1>1. UNCHANGED <<freePages, vm, dirOf, sz, job, mempanic>>
  BY DEF memvars
<1>2. Dirs \subseteq Dirs'
  BY <1>1 DEF Dirs, Building
<1>3. (\A x \in Page : InUse(x) => InUse(x)') /\ Entries'
  BY <1>1, <1>2, SameUse DEF Acc
<1>4. \A q \in MemProc : MapOK(q)'
  BY <1>1, MapKept DEF Acc
<1>5. Fine' /\ \A x \in Page : InUse(x)'
  BY <1>1, <1>3 DEF Acc, Fine
<1> QED BY <1>3, <1>4, <1>5, Zenon DEF Acc

\* A page table that could not be had stays missed.
LEMMA NoTableStays == ASSUME [MemNext]_memvars, ~noTable' PROVE ~noTable
<1>1. CASE UNCHANGED memvars
  BY <1>1 DEF memvars
<1>2. CASE MemNext
  <2>1. PICK p \in MemProc :
          \/ SetupDir(p) \/ SetupKpt(p) \/ AllocMem(p) \/ AllocTable(p) \/ MapPage(p) \/ JobEnds(p)
          \/ Grow(p) \/ Shrink(p) \/ ExecMem(p) \/ BadProgram(p) \/ ExitWait(p)
          \/ \E kid \in MemProc : ForkMem(p, kid)
    BY <1>2, Zenon DEF MemNext
  <2>2. CASE SetupKpt(p)
    <3>1. noTable' = TRUE \/ noTable' = noTable
      BY <2>2 DEF SetupKpt
    <3> QED BY <3>1
  <2>3. CASE AllocTable(p)
    <3>1. noTable' = TRUE \/ noTable' = noTable
      BY <2>3 DEF AllocTable
    <3> QED BY <3>1
  <2>4. CASE ~SetupKpt(p) /\ ~AllocTable(p)
    <3>1. noTable' = noTable
      BY <2>1, <2>4 DEF SetupDir, AllocMem, MapPage, JobEnds, Grow, Shrink, ExecMem, BadProgram, ExitWait, ForkMem
    <3> QED BY <3>1
  <2> QED BY <2>2, <2>3, <2>4
<1> QED BY <1>1, <1>2

\* kinit() and userinit(): every page is the first process's or free.
LEMMA AccInit == MemInit => Acc
<1> SUFFICES ASSUME MemInit PROVE Acc
  OBVIOUS
<1>1. /\ NKPT \in Nat /\ NKPT >= 1 /\ NPage \in Nat /\ NPage >= NKPT + 3
      /\ 0 \in Va /\ 0 \in PageTables /\ 0 \div NPTE = 0 /\ 0 \notin Page /\ 1 \in Page
  <2>1. 0 \in Va
    BY MemoryAssumption DEF Va
  <2>2. 0 \div NPTE = 0
    BY MemoryAssumption
  <2> QED BY <2>1, <2>2, MemoryAssumption DEF Page, PageTables
<1>2. MemTypeOK
  BY MemInitOK, MemInvParts
<1>3. /\ dirOf[firstproc] = 1 /\ sz[firstproc] = 1 /\ firstproc \in MemProc
      /\ \A p \in MemProc : p # firstproc => dirOf[p] = 0
      /\ \A p \in MemProc : job[p] = NoJob
  BY MemoryAssumption DEF MemInit
<1>4. /\ \A e \in Page : e # 1 => vm[e] = EmptyDir
      /\ vm[1].kpt = 2 .. NKPT + 1
      /\ vm[1].pt = [EmptyDir.pt EXCEPT ![0] = NKPT + 2]
      /\ vm[1].pte = [EmptyDir.pte EXCEPT ![0] = NKPT + 3]
  BY <1>1 DEF MemInit, EmptyDir
<1>5. vm[1].pt[0] = NKPT + 2 /\ \A v \in Va : vm[1].pte[v] = IF v = 0 THEN NKPT + 3 ELSE 0
  BY <1>1, <1>4 DEF EmptyDir
<1>6. \A e \in Page, v \in Va : e # 1 => vm[e].pte[v] = 0
  BY <1>4 DEF EmptyDir
<1>7. NKPT + 2 # 0 /\ NKPT + 3 # 0 /\ freePages = NKPT + 4 .. NPage
  <2>1. NKPT + 2 # 0 /\ NKPT + 3 # 0
    BY <1>1
  <2>2. freePages = NKPT + 4 .. NPage
    BY Zenon DEF MemInit
  <2> QED BY <2>1, <2>2
<1>8. Entries
  BY <1>1, <1>5, <1>6, <1>7 DEF Entries
<1>9. Fine
  BY DEF MemInit, Fine
<1>10. ASSUME NEW p \in MemProc PROVE MapOK(p)
  <2>1. job[p].op = "none" /\ job[p].d = 0 /\ job[p].va = 0
    BY <1>3 DEF NoJob
  <2>2. Runs(p) => MappedIn(dirOf[p], sz[p])
    <3> SUFFICES ASSUME Runs(p), NEW v \in Va PROVE vm[dirOf[p]].pte[v] # 0 <=> v < sz[p]
      BY DEF MappedIn
    <3>1. p = firstproc
      BY <1>3 DEF Runs, Alive
    <3>2. v < 1 <=> v = 0
      BY DEF Va
    <3> QED BY <1>3, <1>5, <1>7, <3>1, <3>2
  <2> QED BY <2>1, <2>2 DEF MapOK
<1>11. 1 \in Dirs
  BY <1>2, <1>3, DirsDef
<1>12. ASSUME NEW x \in Page PROVE InUse(x)
  <2>1. x = 1 \/ x \in 2 .. NKPT + 1 \/ x = NKPT + 2 \/ x = NKPT + 3 \/ x \in NKPT + 4 .. NPage
    BY <1>1 DEF Page
  <2>2. TablesAre!(1)
    BY <1>1, <1>2, TablesNow DEF TablesAre
  <2>3. CASE x = 1 \/ x \in 2 .. NKPT + 1 \/ x = NKPT + 2
    <3>1. x \in Tables(1)
      BY <1>1, <1>4, <1>5, <1>7, <2>2, <2>3
    <3> QED BY <1>11, <3>1 DEF InUse
  <2>4. CASE x = NKPT + 3
    <3>1. x \in Mapped(1)
      BY <1>1, <1>5, <1>7, <2>2, <2>4
    <3> QED BY <1>11, <3>1 DEF InUse
  <2>5. CASE x \in NKPT + 4 .. NPage
    BY <1>7, <2>5 DEF InUse
  <2> QED BY <2>1, <2>3, <2>4, <2>5
<1> QED BY <1>8, <1>9, <1>10, <1>12, Zenon DEF Acc

\* Where the pages and the calls are, until a page table is missing.
THEOREM MemAccInvariant == MemSpec => []AccInv
<1>1. MemInit => MemInv /\ AccInv
  <2> SUFFICES ASSUME MemInit PROVE MemInv /\ AccInv
    OBVIOUS
  <2>1. MemInv /\ Acc
    BY MemInitOK, AccInit
  <2>2. MemTypeOK
    BY <2>1, MemInvParts
  <2> QED BY <2>1, <2>2, AccIs, Zenon
<1>2. MemInv /\ AccInv /\ MemInv' /\ [MemNext]_memvars => AccInv'
  <2> SUFFICES ASSUME MemInv, AccInv, MemInv', [MemNext]_memvars, ~noTable' PROVE Acc'
    <3>1. MemInv' => MemTypeOK'
      BY MemInvPartsNext
    <3> QED BY <3>1, AccIsNext, Zenon
  <2>1. MemTypeOK /\ ~noTable
    BY MemInvParts, NoTableStays, Zenon
  <2>2. Acc
    BY <2>1, AccIs, Zenon
  <2>3. CASE UNCHANGED memvars
    BY <2>2, <2>3, StutterAcc
  <2>4. CASE MemNext
    <3>1. PICK p \in MemProc :
            \/ SetupDir(p) \/ SetupKpt(p) \/ AllocMem(p) \/ AllocTable(p) \/ MapPage(p) \/ JobEnds(p)
            \/ Grow(p) \/ Shrink(p) \/ ExecMem(p) \/ BadProgram(p) \/ ExitWait(p)
            \/ \E kid \in MemProc : ForkMem(p, kid)
      BY <2>4, Zenon DEF MemNext
    <3>2. CASE SetupDir(p) \/ SetupKpt(p) \/ AllocMem(p) \/ AllocTable(p)
      BY <2>2, <3>2, SetupDirAcc, SetupKptAcc, AllocMemAcc, AllocTableAcc, Zenon
    <3>3. CASE MapPage(p) \/ JobEnds(p) \/ Grow(p) \/ Shrink(p)
      BY <2>2, <3>3, MapPageAcc, JobEndsAcc, GrowAcc, ShrinkAcc, Zenon
    <3>4. CASE ExecMem(p) \/ BadProgram(p) \/ ExitWait(p)
      BY <2>2, <3>4, ExecMemAcc, BadProgramAcc, ExitWaitAcc, Zenon
    <3>5. CASE \E kid \in MemProc : ForkMem(p, kid)
      BY <2>2, <3>5, ForkMemAcc, Zenon
    <3> QED BY <3>1, <3>2, <3>3, <3>4, <3>5, Zenon
  <2> QED BY <2>3, <2>4, Zenon
<1> QED BY <1>1, <1>2, MemInvariant, PTL DEF MemSpec

\* A call of fork(), exec() or sbrk() that runs out of memory, at whichever
\* kalloc() and whatever the other processes do meanwhile, loses no page and leaves
\* exactly the size of the process mapped; the kernel does not panic.  This fails
\* only after a page table could not be allocated.
THEOREM MemPagesAccounted == MemSpec => []PagesAccounted
<1>1. AccInv => PagesAccounted
  <2> SUFFICES ASSUME AccInv PROVE PagesAccounted
    OBVIOUS
  <2>1. NoLeak
    BY Zenon DEF AccInv, NoLeak
  <2>2. PanicNeedsNoTable
    BY Zenon DEF AccInv, PanicNeedsNoTable
  <2>3. MappedToSize
    BY Zenon DEF AccInv, MappedToSize, MapOK, MappedIn
  <2> QED BY <2>1, <2>2, <2>3, Zenon DEF PagesAccounted
<1> QED BY <1>1, MemAccInvariant, PTL
=============================================================================
