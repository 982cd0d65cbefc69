-------------------------------- MODULE Heap --------------------------------
(***************************************************************************)
(* malloc() and free() of the user library (umalloc.c).  Free blocks form  *)
(* a circular list through base, in the order of their addresses.  Sizes   *)
(* and addresses are in units of one Header; a block's size counts its     *)
(* header.  base is a static variable and lies below the heap.             *)
(***************************************************************************)
EXTENDS Naturals, FiniteSets

CONSTANTS
  MaxHeap,     \* units that sbrk() can give
  NALLOC       \* the fewest units morecore() asks for (4096 in the code)

ASSUME HeapAssumption == MaxHeap \in Nat /\ NALLOC \in Nat \ {0}

VARIABLES
  brk,         \* end of the heap, which starts at 1
  ptr, size,   \* s.ptr and s.size of the headers of free blocks and of base
  freep,       \* "null" until the first malloc()
  used         \* blocks handed out: address -> size

heapvars == <<brk, ptr, size, freep, used>>

base == 0
Addr == 0 .. MaxHeap

HeapInit ==
  /\ brk = 1
  /\ ptr = [a \in Addr |-> 0] /\ size = [a \in Addr |-> 0]
  /\ freep = base    \* what the first malloc() sets, and ptr[base] = base
  /\ used = [a \in Addr |-> 0]

\* The list that free(bp) leaves, with the block's size in its header already.
FreeList(pt, sz, fp, bp) ==
  LET Fits(p) == bp > p /\ bp < pt[p]
      AtEnd(p) == p >= pt[p] /\ (bp > p \/ bp < pt[p])
      find[n \in 0 .. MaxHeap + 1, p \in Addr] ==
        IF n = 0 \/ Fits(p) \/ AtEnd(p) THEN p ELSE find[n - 1, pt[p]]
      p == find[MaxHeap + 1, fp]
      next == pt[p]
      up == bp + sz[bp] = next
      bsize == IF up THEN sz[bp] + sz[next] ELSE sz[bp]
      bptr == IF up THEN pt[next] ELSE next
      low == p + sz[p] = bp
      \* The headers of merged blocks are dead, and 0 here.
      pt1 == IF up THEN [pt EXCEPT ![next] = 0] ELSE pt
      sz1 == IF up THEN [sz EXCEPT ![next] = 0] ELSE sz
  IN  [ptr |-> IF low THEN [pt1 EXCEPT ![p] = bptr, ![bp] = 0]
                      ELSE [pt1 EXCEPT ![bp] = bptr, ![p] = bp],
       size |-> IF low THEN [sz1 EXCEPT ![p] = @ + bsize, ![bp] = 0]
                       ELSE [sz1 EXCEPT ![bp] = bsize],
       freep |-> p]

free(a) ==
  /\ used[a] # 0
  /\ LET l == FreeList(ptr, [size EXCEPT ![a] = used[a]], freep, a)
     IN  ptr' = l.ptr /\ size' = l.size /\ freep' = l.freep
  /\ used' = [used EXCEPT ![a] = 0]
  /\ UNCHANGED brk

\* First fit from the block after freep: prevp of the block found, or of none.
SearchFit(pt, sz, fp, n) ==
  LET find[k \in 0 .. MaxHeap + 1, prevp \in Addr] ==
        LET p == pt[prevp]
        IN  IF sz[p] >= n THEN [ok |-> TRUE, prevp |-> prevp]
            ELSE IF p = fp \/ k = 0 THEN [ok |-> FALSE, prevp |-> p]
            ELSE find[k - 1, p]
  IN  find[MaxHeap + 1, fp]

\* Mutant: the block returned is the lower part.
CarveLow(l, prevp, n) ==
  LET p == l.ptr[prevp]
  IN  IF l.size[p] = n THEN [at |-> p, ptr |-> [l.ptr EXCEPT ![prevp] = l.ptr[p]], size |-> l.size]
      ELSE [at |-> p, ptr |-> l.ptr, size |-> [l.size EXCEPT ![p] = @ - n]]

\* The tail end of the block, or all of it.
Carve(l, prevp, n) ==
  LET p == l.ptr[prevp]
  IN  IF l.size[p] = n
      THEN [at |-> p, ptr |-> [l.ptr EXCEPT ![prevp] = l.ptr[p], ![p] = IF p = prevp THEN @ ELSE 0],
            size |-> [l.size EXCEPT ![p] = 0]]
      ELSE [at |-> p + l.size[p] - n, ptr |-> l.ptr, size |-> [l.size EXCEPT ![p] = @ - n]]

Here == [ptr |-> ptr, size |-> size, freep |-> freep]

\* morecore(): sbrk() gave nu more units, which are freed.
More(nu) == FreeList(ptr, [size EXCEPT ![brk] = nu], freep, brk)

MoreUnits(n) == IF n < NALLOC THEN NALLOC ELSE n

Give(l, prevp, n) ==
  LET c == Carve(l, prevp, n)
  IN  /\ ptr' = c.ptr /\ size' = c.size /\ freep' = prevp
      /\ used' = [used EXCEPT ![c.at] = n]

\* malloc() of n units.  After morecore() the search goes on from the new freep.
malloc(n) ==
  /\ SearchFit(ptr, size, freep, n).ok
  /\ Give(Here, SearchFit(ptr, size, freep, n).prevp, n)
  /\ UNCHANGED brk

mallocMore(n) ==
  /\ ~SearchFit(ptr, size, freep, n).ok
  /\ brk + MoreUnits(n) <= MaxHeap + 1
  /\ LET l == More(MoreUnits(n))
         s == SearchFit(l.ptr, l.size, l.freep, n)
     IN  s.ok /\ Give(l, s.prevp, n)
  /\ brk' = brk + MoreUnits(n)

\* sbrk() failed: malloc() returns 0 and nothing has changed.
HeapNext ==
  \/ \E n \in 2 .. MaxHeap : malloc(n) \/ mallocMore(n)
  \/ \E a \in Addr : free(a)

-----------------------------------------------------------------------------
(* Properties                                                              *)

\* The free list, followed from base.
FreeBlocks ==
  LET follow[k \in 0 .. MaxHeap + 1, a \in Addr] ==
        IF k = 0 \/ a = base THEN {} ELSE {a} \cup follow[k - 1, ptr[a]]
  IN  follow[MaxHeap + 1, ptr[base]]

Cells(a, n) == a .. a + n - 1
UsedBlocks == {a \in Addr : used[a] # 0}

\* Every unit of the heap belongs to exactly one block, free or handed out: no
\* block overlaps another and none is lost, through any sequence of calls.
HeapPartition ==
  LET blocks == {<<a, size[a]>> : a \in FreeBlocks} \cup {<<a, used[a]>> : a \in UsedBlocks}
  IN  /\ UNION {Cells(b[1], b[2]) : b \in blocks} = 1 .. brk - 1
      /\ \A b, c \in blocks : b # c => Cells(b[1], b[2]) \cap Cells(c[1], c[2]) = {}
      /\ FreeBlocks \cap UsedBlocks = {}

\* The list is in the order of the addresses with one turn back to base, freep
\* is on it, and no two free blocks are neighbours: free() merged them, so that
\* what was freed can be handed out as one block again.
FreeListSorted ==
  /\ freep \in FreeBlocks \cup {base}
  /\ \A a \in FreeBlocks \cup {base} :
       \/ ptr[a] = base
       \/ ptr[a] > a /\ ptr[a] # a + size[a]

\* The allocator keeps its heap: blocks and free list, after any calls.
HeapSound == HeapPartition /\ FreeListSorted
=============================================================================
