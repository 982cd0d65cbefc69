------------------------------- MODULE Memory -------------------------------
(***************************************************************************)
(* Physical pages and address spaces: kalloc.c, vm.c, and the calls that   *)
(* build and free them: fork(), exec(), sbrk(), exit() with wait().        *)
(*                                                                         *)
(* One action is one kalloc() with the code up to the next one: between    *)
(* two of them other processes take and give back pages.  Freeing gives    *)
(* back all pages in one step.  Sizes are in pages.  A page directory is   *)
(* named by its page: vm[d] holds its user page tables (pt), its kernel    *)
(* page tables (kpt) and the user pages mapped (pte).                      *)
(***************************************************************************)
EXTENDS Naturals, FiniteSets

CONSTANTS
  MemProc,
  firstproc,  \* made by userinit()
  NPage,      \* physical pages
  NPTE,       \* pages that one page table maps (NPTENTRIES)
  NKPT,       \* page tables of the kernel part (kmap)
  MaxSz,      \* bound on the size of a process
  ProgSz,     \* size of the program that exec() loads
  MaxCalls    \* bound on the number of calls

ASSUME MemoryAssumption ==
  /\ firstproc \in MemProc
  /\ NPTE \in Nat \ {0} /\ NKPT \in Nat \ {0} /\ MaxSz \in Nat /\ ProgSz \in 1 .. MaxSz
  /\ MaxCalls \in Nat /\ NPage \in Nat /\ NPage >= NKPT + 3

Page == 1 .. NPage
Va == 0 .. MaxSz - 1
PageTables == {va \div NPTE : va \in Va}

VARIABLES
  freePages, \* kmem.freelist
  vm,        \* the page directories
  dirOf, sz, \* of each process
  job,       \* what each process is allocating
  mempanic,
  calls,     \* how many calls were made
  noTable    \* history: kalloc() had no page for a page table

memvars == <<freePages, vm, dirOf, sz, job, mempanic, calls, noTable>>

EmptyDir == [pt |-> [t \in PageTables |-> 0], kpt |-> {}, pte |-> [va \in Va |-> 0]]
\* op: what for; d: the directory; mem: a page not yet mapped; va .. end: what is
\* left to map; old: where to go back to on failure; kid: the child of fork().
NoJob == [op |-> "none", d |-> 0, mem |-> 0, va |-> 0, end |-> 0, old |-> 0, kid |-> firstproc]

\* kinit(), then userinit() with setupkvm() and inituvm().
MemInit ==
  LET d == 1
      kpt == 2 .. NKPT + 1
  IN  /\ vm = [p \in Page |-> IF p = d
                 THEN [EmptyDir EXCEPT !.kpt = kpt, !.pt[0] = NKPT + 2, !.pte[0] = NKPT + 3]
                 ELSE EmptyDir]
      /\ freePages = NKPT + 4 .. NPage
      /\ dirOf = [p \in MemProc |-> IF p = firstproc THEN d ELSE 0]
      /\ sz = [p \in MemProc |-> IF p = firstproc THEN 1 ELSE 0]
      /\ job = [p \in MemProc |-> NoJob]
      /\ mempanic = ""
      /\ calls = 0
      /\ noTable = FALSE

-----------------------------------------------------------------------------

\* Which page of the list kalloc() returns does not matter.
kalloc == CHOOSE p \in freePages : TRUE
None == freePages = {}

Doing(p, op) == mempanic = "" /\ job[p].op = op
Alive(p) == dirOf[p] # 0

Pages(f) == {f[x] : x \in DOMAIN f} \ {0}
Tables(d) == {d} \cup Pages(vm[d].pt) \cup vm[d].kpt
Owned(d) == Tables(d) \cup Pages(vm[d].pte)

\* The addresses whose pages deallocuvm(pgdir, hi, lo) frees.  Without a page
\* table at a it goes on NPTENTRIES pages after a, wherever a is in the table.
Dealloc(d, hi, lo) ==
  LET from[a \in lo .. hi + NPTE] ==
        IF a >= hi THEN {}
        ELSE IF vm[d].pt[a \div NPTE] = 0 THEN from[a + NPTE]
        ELSE {a} \cup from[a + 1]
  IN  from[lo]

\* Mutant: deallocuvm() leaves the entries in place.
UnmapNothing(d, vas) == vm

Unmap(d, vas) == [vm EXCEPT ![d].pte = [va \in Va |-> IF va \in vas THEN 0 ELSE @[va]]]
PagesAt(d, vas) == {vm[d].pte[va] : va \in vas \cap Va} \ {0}

\* freevm(): deallocuvm() of everything, the page tables and the directory.
Freed(d) == PagesAt(d, Dealloc(d, MaxSz, 0)) \cup Tables(d)
freevm(d) == [vm EXCEPT ![d] = EmptyDir]

\* What a job needs a page for, in the order of the code.
NeedsDir(j) == j.op \in {"fork", "exec"} /\ j.d = 0
NeedsKpt(j) == j.d # 0 /\ Cardinality(vm[j.d].kpt) < NKPT
NeedsMem(j) == j.d # 0 /\ ~NeedsKpt(j) /\ j.mem = 0 /\ j.va < j.end
NeedsTable(j) == j.mem # 0 /\ vm[j.d].pt[j.va \div NPTE] = 0

\* Mutant: a failed call frees only the directory and its tables.
JobFailsTables(j) == IF j.d = 0 THEN {} ELSE Freed(j.d) \ Pages(vm[j.d].pte)

\* The addresses a failed allocuvm() frees again.
GrowFails(j) == Dealloc(j.d, j.end, j.old)

\* fork() and exec() give everything back: copyuvm() and exec() call freevm().
JobFails(j) == IF j.d = 0 THEN {} ELSE Freed(j.d)

Abandon(p) ==
  LET j == job[p]
  IN  /\ IF j.op = "grow"
         THEN vm' = Unmap(j.d, GrowFails(j)) /\ freePages' = freePages \cup PagesAt(j.d, GrowFails(j))
         ELSE vm' = (IF j.d = 0 THEN vm ELSE freevm(j.d)) /\ freePages' = freePages \cup JobFails(j)
      /\ job' = [job EXCEPT ![p] = NoJob]

\* setupkvm(): the directory.
SetupDir(p) ==
  LET j == job[p]
  IN  /\ mempanic = "" /\ NeedsDir(j)
      /\ IF None THEN Abandon(p)
         ELSE /\ freePages' = freePages \ {kalloc}
              /\ job' = [job EXCEPT ![p].d = kalloc]
              /\ vm' = vm
      /\ UNCHANGED <<dirOf, sz, mempanic, calls, noTable>>

\* setupkvm(): mappages() of the kernel part.  Without a page for a table it
\* returns 0, and what it has built is lost.
SetupKpt(p) ==
  LET j == job[p]
  IN  /\ mempanic = "" /\ NeedsKpt(j)
      /\ IF None
         THEN /\ job' = [job EXCEPT ![p] = NoJob]
              /\ vm' = freevm(j.d)
              /\ noTable' = TRUE
              /\ UNCHANGED freePages
         ELSE /\ freePages' = freePages \ {kalloc}
              /\ vm' = [vm EXCEPT ![j.d].kpt = @ \cup {kalloc}]
              /\ UNCHANGED <<job, noTable>>
      /\ UNCHANGED <<dirOf, sz, calls, mempanic>>

\* The kalloc() of allocuvm() and copyuvm() for one user page.  copyuvm() first
\* looks at the page it copies.
AllocMem(p) ==
  LET j == job[p]
      from == vm[dirOf[p]]
  IN  /\ mempanic = "" /\ NeedsMem(j)
      /\ IF j.op = "fork" /\ from.pte[j.va] = 0
         THEN /\ mempanic' = IF from.pt[j.va \div NPTE] = 0 THEN "copyuvm: pte should exist"
                                                           ELSE "copyuvm: page not present"
              /\ UNCHANGED <<freePages, vm, job>>
         ELSE IF None THEN Abandon(p) /\ UNCHANGED mempanic
         ELSE /\ freePages' = freePages \ {kalloc}
              /\ job' = [job EXCEPT ![p].mem = kalloc]
              /\ UNCHANGED <<vm, mempanic>>
      /\ UNCHANGED <<dirOf, sz, calls, noTable>>

\* walkpgdir() makes a page table.  copyuvm() that has none frees the rest but
\* not the page it was about to map; allocuvm() goes on without mapping it.
AllocTable(p) ==
  LET j == job[p]
  IN  /\ mempanic = "" /\ NeedsTable(j)
      /\ IF None
         THEN /\ noTable' = TRUE
              /\ IF j.op = "fork" THEN Abandon(p)
                 ELSE /\ job' = [job EXCEPT ![p].va = @ + 1, ![p].mem = 0]
                      /\ UNCHANGED <<freePages, vm>>
         ELSE /\ freePages' = freePages \ {kalloc}
              /\ vm' = [vm EXCEPT ![j.d].pt[j.va \div NPTE] = kalloc]
              /\ UNCHANGED <<job, noTable>>
      /\ UNCHANGED <<dirOf, sz, calls, mempanic>>

\* mappages(): the entry.
MapPage(p) ==
  LET j == job[p]
  IN  /\ mempanic = "" /\ j.mem # 0 /\ ~NeedsTable(j)
      /\ IF vm[j.d].pte[j.va] # 0 THEN mempanic' = "remap" /\ UNCHANGED <<vm, job>>
         ELSE /\ vm' = [vm EXCEPT ![j.d].pte[j.va] = j.mem]
              /\ job' = [job EXCEPT ![p].va = @ + 1, ![p].mem = 0]
              /\ UNCHANGED mempanic
      /\ UNCHANGED <<freePages, dirOf, sz, calls, noTable>>

\* The loop has ended.  exec() allocates twice: loaduvm() after the program,
\* clearpteu() after the two pages of the stack; both need the page table.
JobEnds(p) ==
  LET j == job[p]
      Missing(va) == vm[j.d].pt[va \div NPTE] = 0
  IN  /\ mempanic = "" /\ j.d # 0 /\ ~NeedsKpt(j) /\ j.mem = 0 /\ j.va = j.end
      /\ CASE j.op = "grow" ->
                /\ sz' = [sz EXCEPT ![p] = j.end]
                /\ job' = [job EXCEPT ![p] = NoJob]
                /\ UNCHANGED <<freePages, vm, dirOf, mempanic>>
           [] j.op = "fork" ->
                /\ dirOf' = [dirOf EXCEPT ![j.kid] = j.d]
                /\ sz' = [sz EXCEPT ![j.kid] = j.end]
                /\ job' = [job EXCEPT ![p] = NoJob]
                /\ UNCHANGED <<freePages, vm, mempanic>>
           [] j.op = "exec" /\ j.end = ProgSz ->
                /\ IF \E va \in 0 .. ProgSz - 1 : Missing(va)
                   THEN mempanic' = "loaduvm: address should exist" /\ UNCHANGED job
                   ELSE job' = [job EXCEPT ![p].end = ProgSz + 2, ![p].old = ProgSz]
                        /\ UNCHANGED mempanic
                /\ UNCHANGED <<freePages, vm, dirOf, sz>>
           [] j.op = "exec" /\ j.end = ProgSz + 2 ->
                IF Missing(ProgSz)
                THEN mempanic' = "clearpteu" /\ UNCHANGED <<freePages, vm, dirOf, sz, job>>
                ELSE /\ dirOf' = [dirOf EXCEPT ![p] = j.d]
                     /\ sz' = [sz EXCEPT ![p] = j.end]
                     /\ freePages' = freePages \cup Freed(dirOf[p])
                     /\ vm' = freevm(dirOf[p])
                     /\ job' = [job EXCEPT ![p] = NoJob]
                     /\ UNCHANGED mempanic
      /\ UNCHANGED <<calls, noTable>>

-----------------------------------------------------------------------------
(* The calls                                                               *)

\* A process whose program is no longer mapped runs nothing: trap() kills it at
\* its next instruction.
Runs(p) == Alive(p) /\ vm[dirOf[p]].pte[0] # 0
Call(p) == Doing(p, "none") /\ calls < MaxCalls /\ calls' = calls + 1

\* growproc(): allocuvm(), or deallocuvm() at once.
Grow(p) ==
  /\ Call(p) /\ Runs(p)
  /\ \E n \in sz[p] + 1 .. MaxSz :
       job' = [job EXCEPT ![p] = [NoJob EXCEPT !.op = "grow", !.d = dirOf[p], !.va = sz[p],
                                               !.end = n, !.old = sz[p]]]
  /\ UNCHANGED <<freePages, vm, dirOf, sz, mempanic, noTable>>

\* To growproc() a new size of 0 is a failure: the pages are gone, sz stays.
Shrink(p) ==
  /\ Call(p) /\ Runs(p)
  /\ \E n \in 0 .. sz[p] - 1 :
       LET vas == Dealloc(dirOf[p], sz[p], n)
       IN  /\ sz' = [sz EXCEPT ![p] = IF n = 0 THEN @ ELSE n]
           /\ freePages' = freePages \cup PagesAt(dirOf[p], vas)
           /\ vm' = Unmap(dirOf[p], vas)
  /\ UNCHANGED <<dirOf, job, mempanic, noTable>>

ForkMem(p, kid) ==
  /\ Call(p) /\ Runs(p) /\ ~Alive(kid)
  /\ \A q \in MemProc : job[q].op = "fork" => job[q].kid # kid
  /\ job' = [job EXCEPT ![p] = [NoJob EXCEPT !.op = "fork", !.end = sz[p], !.kid = kid]]
  /\ UNCHANGED <<freePages, vm, dirOf, sz, mempanic, noTable>>

ExecMem(p) ==
  /\ Call(p) /\ Runs(p) /\ ProgSz + 2 <= MaxSz
  /\ job' = [job EXCEPT ![p] = [NoJob EXCEPT !.op = "exec", !.end = ProgSz]]
  /\ UNCHANGED <<freePages, vm, dirOf, sz, mempanic, noTable>>

\* exec() stops at a bad program header, or at arguments that do not fit.
BadProgram(p) ==
  /\ Doing(p, "exec") /\ job[p].d # 0 /\ ~NeedsKpt(job[p]) /\ job[p].mem = 0
  /\ job[p].va \in {0, job[p].end}
  /\ Abandon(p)
  /\ UNCHANGED <<dirOf, sz, mempanic, calls, noTable>>

\* exit(), and the freevm() of the parent's wait().
ExitWait(p) ==
  /\ Call(p) /\ Alive(p) /\ p # firstproc
  /\ freePages' = freePages \cup Freed(dirOf[p])
  /\ vm' = freevm(dirOf[p])
  /\ dirOf' = [dirOf EXCEPT ![p] = 0]
  /\ sz' = [sz EXCEPT ![p] = 0]
  /\ UNCHANGED <<job, mempanic, noTable>>

MemNext == \E p \in MemProc :
  \/ SetupDir(p) \/ SetupKpt(p) \/ AllocMem(p) \/ AllocTable(p) \/ MapPage(p) \/ JobEnds(p)
  \/ Grow(p) \/ Shrink(p) \/ ExecMem(p) \/ BadProgram(p) \/ ExitWait(p)
  \/ \E kid \in MemProc : ForkMem(p, kid)

MemSpec == MemInit /\ [][MemNext]_memvars

-----------------------------------------------------------------------------
(* Properties                                                              *)

Building == {job[p].d : p \in MemProc} \ {0}
Dirs == ({dirOf[p] : p \in MemProc} \ {0}) \cup Building
InFlight == {job[p].mem : p \in MemProc} \ {0}

\* A physical page has at most one use: it is on the free list, or in one
\* address space, where it is mapped once, or on its way into one.  A page freed
\* twice or too early breaks this long before anything else shows.
PagesUsedOnce ==
  /\ \A d \in Dirs : /\ freePages \cap Owned(d) = {} /\ InFlight \cap Owned(d) = {}
                     /\ \A e \in Dirs \ {d} : Owned(d) \cap Owned(e) = {}
                     /\ \A v, w \in Va : v # w /\ vm[d].pte[v] # 0 => vm[d].pte[v] # vm[d].pte[w]
  /\ freePages \cap InFlight = {}
  /\ \A p, q \in MemProc : p # q /\ job[p].mem # 0 => job[p].mem # job[q].mem

\* What carries it.  The types; which directories belong to whom: a call that
\* builds one is alone with it, and the child of a fork has none yet; and a page
\* that is no directory has no entries left from when it was one.
MemTypeOK ==
  /\ freePages \subseteq Page
  /\ vm \in [Page -> [pt : [PageTables -> Page \cup {0}], kpt : SUBSET Page, pte : [Va -> Page \cup {0}]]]
  /\ dirOf \in [MemProc -> Page \cup {0}]
  /\ sz \in [MemProc -> 0 .. MaxSz]
  /\ job \in [MemProc -> [op : {"none", "grow", "fork", "exec"}, d : Page \cup {0}, mem : Page \cup {0},
                          va : Nat, end : 0 .. MaxSz, old : Nat, kid : MemProc]]

New(p) == job[p].op \in {"fork", "exec"} /\ job[p].d # 0
JobOK(p) ==
  /\ job[p].op # "none" => Alive(p)
  /\ job[p].op = "none" => job[p].d = 0
  /\ job[p].op = "grow" => job[p].d = dirOf[p]
  /\ job[p].mem # 0 => job[p].d # 0 /\ job[p].va < job[p].end
  /\ job[p].op = "fork" => ~Alive(job[p].kid)
  /\ job[p].op = "exec" => ProgSz + 2 <= MaxSz /\ job[p].end \in {ProgSz, ProgSz + 2}
  /\ New(p) => \A q \in MemProc : dirOf[q] # job[p].d
JobsDiffer(p, q) ==
  /\ Alive(p) => dirOf[p] # dirOf[q]
  /\ New(p) /\ New(q) => job[p].d # job[q].d
  /\ job[p].op = "fork" /\ job[q].op = "fork" => job[p].kid # job[q].kid
JobsApart ==
  /\ \A p \in MemProc : JobOK(p)
  /\ \A p, q \in MemProc : p # q => JobsDiffer(p, q)

MemInv ==
  /\ MemTypeOK /\ JobsApart
  /\ \A d \in Page \ Dirs : vm[d] = EmptyDir
  /\ \A d \in Dirs : Tables(d) \cap Pages(vm[d].pte) = {}
  /\ PagesUsedOnce

\* No page is lost by a call that fails for want of memory, unless the missing
\* page was to be a page table: setupkvm() and copyuvm() then leak (vm.c:140, 328)
\* and allocuvm() ignores it (vm.c:240).
NoLeak == ~noTable => Page = freePages \cup InFlight \cup UNION {Owned(d) : d \in Dirs}

\* A process that can run and is not growing has exactly its size mapped, also
\* after calls that failed.
MappedToSize ==
  ~noTable => \A p \in MemProc : Runs(p) /\ job[p].op # "grow" =>
    \A va \in Va : vm[dirOf[p]].pte[va] # 0 <=> va < sz[p]

\* The kernel panics only after a page table could not be allocated.
PanicNeedsNoTable == mempanic # "" => noTable

\* Calls that run out of memory leave everything as it was: no page is lost, and
\* what is mapped is what the size says, unless it was a page table that was
\* missing; only then can the kernel panic.
PagesAccounted == NoLeak /\ MappedToSize /\ PanicNeedsNoTable

\* What carries it: where each call is.  Until a page table is missing, a process
\* in a call can run, what a call has mapped so far is va pages from the bottom,
\* and every entry is in a page table.
MappedIn(d, n) == \A va \in Va : vm[d].pte[va] # 0 <=> va < n
MapOK(p) ==
  LET j == job[p]
  IN  /\ Runs(p) /\ j.op # "grow" => MappedIn(dirOf[p], sz[p])
      /\ j.op # "none" => Runs(p) /\ j.va <= j.end
      /\ j.op = "grow" => j.old = sz[p] /\ sz[p] <= j.va
      /\ j.op = "fork" => j.end = sz[p]
      /\ j.d = 0 => j.va = 0
      /\ j.d # 0 => MappedIn(j.d, j.va)

AccInv == ~noTable =>
  /\ mempanic = ""
  /\ \A d \in Page, va \in Va : vm[d].pte[va] # 0 => vm[d].pt[va \div NPTE] # 0
  /\ \A p \in MemProc : MapOK(p)
  /\ NoLeak
=============================================================================
