---------------------------- MODULE MemoryProofs ----------------------------
(***************************************************************************)
(* A physical page has one use at a time, for any number of processes,     *)
(* pages and page tables.  First what the moves of a page do (PagesInv),   *)
(* then the actions, each of which makes one such move.                    *)
(***************************************************************************)
EXTENDS Memory, TLAPS

Mapped(d) == Pages(vm[d].pte)

PagesInv ==
  /\ \A d \in Page \ Dirs : vm[d] = EmptyDir
  /\ \A d \in Dirs : Tables(d) \cap Mapped(d) = {}
  /\ PagesUsedOnce

\* The parts of the invariant.
LEMMA MemInvParts == MemInv <=> MemTypeOK /\ JobsApart /\ PagesInv
  BY DEF MemInv, PagesInv, Mapped

\* The same one step later.
LEMMA MemInvPartsNext == MemInv' <=> MemTypeOK' /\ JobsApart' /\ PagesInv'
  BY MemInvParts, PTL

\* PagesUsedOnce, page by page.
UsedOnce ==
  /\ \A d \in Page \ Dirs : vm[d] = EmptyDir
  /\ \A d \in Dirs : \A x : x \in Tables(d) => x \notin Mapped(d)
  /\ \A d \in Dirs : \A x \in Tables(d) \cup Mapped(d) :
       /\ x \notin freePages
       /\ \A q \in MemProc : job[q].mem # 0 => job[q].mem # x
       /\ \A e \in Dirs : e # d => x \notin Tables(e) /\ x \notin Mapped(e)
  /\ \A d \in Dirs : \A v, w \in Va : v # w /\ vm[d].pte[v] # 0 => vm[d].pte[v] # vm[d].pte[w]
  /\ \A q \in MemProc : job[q].mem # 0 => job[q].mem \notin freePages
  /\ \A p, q \in MemProc : p # q /\ job[p].mem # 0 => job[p].mem # job[q].mem

\* PagesInv says just that, in a state and in the next.
LEMMA PagesInvNow == PagesInv <=> UsedOnce
<1>1. \A d : Owned(d) = Tables(d) \cup Mapped(d)
  BY DEF Owned, Mapped
<1>2. \A x : x \in InFlight <=> x # 0 /\ \E q \in MemProc : job[q].mem = x
  BY DEF InFlight
<1> QED BY <1>1, <1>2 DEF PagesInv, PagesUsedOnce, UsedOnce

\* The same one step later.
LEMMA PagesInvNext == PagesInv' <=> UsedOnce'
  BY PagesInvNow, PTL

\* The directories in use.
LEMMA DirsDef ==
  ASSUME MemTypeOK
  PROVE  /\ \A x : x \in Dirs <=> x # 0 /\ \E q \in MemProc : dirOf[q] = x \/ job[q].d = x
         /\ Dirs \subseteq Page
<1>1. \A x : x \in Dirs <=> x # 0 /\ \E q \in MemProc : dirOf[q] = x \/ job[q].d = x
  BY DEF Dirs, Building
<1>2. \A q \in MemProc : dirOf[q] \in Page \cup {0} /\ job[q].d \in Page \cup {0}
  BY DEF MemTypeOK
<1> QED BY <1>1, <1>2

\* The pages of tables, and the pages mapped.
TablesAre ==
  \A d \in Page :
    /\ \A x : x \in Tables(d) <=> x = d \/ x \in vm[d].kpt \/ (x # 0 /\ \E t \in PageTables : vm[d].pt[t] = x)
    /\ \A x : x \in Mapped(d) <=> x # 0 /\ \E va \in Va : vm[d].pte[va] = x
    /\ Tables(d) \subseteq Page /\ Mapped(d) \subseteq Page

\* The tables of a page directory, in every state of the right type.
LEMMA TablesNow == MemTypeOK => TablesAre
<1> SUFFICES ASSUME MemTypeOK, NEW d \in Page
             PROVE  TablesAre!(d)
  BY DEF TablesAre
<1>1. DOMAIN vm[d].pt = PageTables /\ DOMAIN vm[d].pte = Va /\ vm[d].kpt \subseteq Page
      /\ (\A t \in PageTables : vm[d].pt[t] \in Page \cup {0}) /\ (\A va \in Va : vm[d].pte[va] \in Page \cup {0})
  BY DEF MemTypeOK
<1> QED BY <1>1 DEF Tables, Mapped, Pages

\* The same one step later.
LEMMA TablesNext == MemTypeOK' => TablesAre'
  BY TablesNow, PTL

\* An empty directory.
LEMMA EmptyDirFacts ==
  /\ EmptyDir \in [pt : [PageTables -> Page \cup {0}], kpt : SUBSET Page, pte : [Va -> Page \cup {0}]]
  /\ \A d \in Page : vm[d] = EmptyDir => Tables(d) = {d} /\ Mapped(d) = {}
  /\ \A d \in Page : vm'[d] = EmptyDir => Tables(d)' = {d} /\ Mapped(d)' = {}
  BY DEF EmptyDir, Tables, Mapped, Pages

\* kalloc() returns a page of the list.
LEMMA KallocFree ==
  ASSUME MemTypeOK, ~None
  PROVE  kalloc \in freePages /\ kalloc \in Page /\ kalloc # 0
<1>1. \E x : x \in freePages
  BY DEF None
<1>2. kalloc \in freePages
  BY <1>1, Zenon DEF kalloc
<1>3. kalloc \in Page
  BY <1>2 DEF MemTypeOK
<1> QED BY <1>2, <1>3, MemoryAssumption DEF Page

-----------------------------------------------------------------------------
(* The moves                                                               *)

\* No page changes hands; a page on its way may be forgotten.
LEMMA MoveNothing ==
  ASSUME MemTypeOK, MemTypeOK', PagesInv, freePages' = freePages, vm' = vm, Dirs' = Dirs,
         \A q \in MemProc : job'[q].mem \in {job[q].mem, 0}
  PROVE  PagesInv'
<1>1. \A d : Tables(d)' = Tables(d) /\ Mapped(d)' = Mapped(d)
  BY DEF Tables, Mapped, Pages
<1>2. MemTypeOK' => PagesInv'
  BY <1>1, PagesInvNow, PagesInvNext DEF UsedOnce
<1> QED BY <1>2

\* Nothing moves at all.
LEMMA NothingMoves ==
  ASSUME MemInv, freePages' = freePages, vm' = vm, dirOf' = dirOf, sz' = sz, job' = job
  PROVE  MemInv'
<1>1. MemTypeOK /\ JobsApart /\ PagesInv
  BY MemInvParts
<1>2. MemTypeOK'
  BY <1>1, Zenon DEF MemTypeOK
<1>3. Dirs' = Dirs
  BY DEF Dirs, Building
<1>4. JobsApart'
  BY <1>1 DEF JobsApart, JobOK, JobsDiffer, New, Alive
<1>5. \A q \in MemProc : job'[q].mem \in {job[q].mem, 0}
  OBVIOUS
<1> QED BY <1>1, <1>2, <1>3, <1>4, <1>5, MoveNothing, MemInvPartsNext

\* A free page becomes a directory.
LEMMA MoveToDir ==
  ASSUME MemTypeOK, MemTypeOK', PagesInv, NEW g \in freePages,
         freePages' = freePages \ {g}, vm' = vm, Dirs' = Dirs \cup {g},
         \A q \in MemProc : job'[q].mem = job[q].mem
  PROVE  PagesInv'
<1>1. \A d : Tables(d)' = Tables(d) /\ Mapped(d)' = Mapped(d)
  BY DEF Tables, Mapped, Pages
<1>2. g \in Page /\ Dirs \subseteq Page
  BY DirsDef DEF MemTypeOK
<1>3. g \notin Dirs
  <2>1. \A d \in Dirs : d \in Tables(d)
    BY <1>2, TablesNow DEF TablesAre
  <2> QED BY <2>1, PagesInvNow DEF UsedOnce
<1>4. Tables(g) = {g} /\ Mapped(g) = {}
  BY <1>2, <1>3, PagesInvNow, EmptyDirFacts DEF UsedOnce
<1>5. \A v \in Va : vm[g].pte[v] = 0
  BY <1>2, <1>3, PagesInvNow DEF EmptyDir, UsedOnce
<1>6. \A d \in Dirs : g \notin Tables(d) /\ g \notin Mapped(d)
  BY PagesInvNow DEF UsedOnce
<1>7. \A q \in MemProc : job[q].mem # 0 => job[q].mem # g
  BY PagesInvNow DEF UsedOnce
<1> QED BY <1>1, <1>2, <1>4, <1>5, <1>6, <1>7, PagesInvNow, PagesInvNext DEF UsedOnce

\* A free page is on its way to be mapped.
LEMMA MoveToFlight ==
  ASSUME MemTypeOK, MemTypeOK', PagesInv, NEW g \in freePages, NEW p \in MemProc,
         freePages' = freePages \ {g}, vm' = vm, Dirs' = Dirs,
         job'[p].mem = g, \A q \in MemProc : q # p => job'[q].mem = job[q].mem
  PROVE  PagesInv'
<1>1. \A d : Tables(d)' = Tables(d) /\ Mapped(d)' = Mapped(d)
  BY DEF Tables, Mapped, Pages
<1>2. \A d \in Dirs : g \notin Tables(d) /\ g \notin Mapped(d)
  BY PagesInvNow DEF UsedOnce
<1>3. \A q \in MemProc : job[q].mem # 0 => job[q].mem # g
  BY PagesInvNow DEF UsedOnce
<1> QED BY <1>1, <1>2, <1>3, PagesInvNow, PagesInvNext DEF UsedOnce

\* A free page becomes a table of a directory.
LEMMA MoveToTable ==
  ASSUME MemTypeOK, MemTypeOK', PagesInv, NEW g \in freePages, NEW d \in Dirs,
         freePages' = freePages \ {g}, Dirs' = Dirs,
         \A e \in Page : e # d => vm'[e] = vm[e],
         vm'[d].pte = vm[d].pte,
         \A x \in Tables(d)' : x \in Tables(d) \/ x = g,
         \A q \in MemProc : job'[q].mem = job[q].mem
  PROVE  PagesInv'
<1>1. Dirs \subseteq Page
  BY DirsDef
<1>2. \A e \in Page : e # d => Tables(e)' = Tables(e) /\ Mapped(e)' = Mapped(e)
  BY DEF Tables, Mapped, Pages
<1>3. Mapped(d)' = Mapped(d)
  BY DEF Mapped, Pages
<1>4. \A e \in Dirs : g \notin Tables(e) /\ g \notin Mapped(e)
  BY PagesInvNow DEF UsedOnce
<1>5. \A q \in MemProc : job[q].mem # 0 => job[q].mem # g
  BY PagesInvNow DEF UsedOnce
<1>6. \A e \in Dirs : vm'[e].pte = vm[e].pte
  BY <1>1
<1> QED BY <1>1, <1>2, <1>3, <1>4, <1>5, <1>6, PagesInvNow, PagesInvNext DEF UsedOnce

\* A page on its way is mapped.
LEMMA MoveToMapped ==
  ASSUME MemTypeOK, MemTypeOK', PagesInv, NEW p \in MemProc, NEW d \in Dirs, NEW va \in Va,
         job[p].mem # 0,
         freePages' = freePages, Dirs' = Dirs, vm' = [vm EXCEPT ![d].pte[va] = job[p].mem],
         job'[p].mem = 0, \A q \in MemProc : q # p => job'[q].mem = job[q].mem
  PROVE  PagesInv'
<1> DEFINE g == job[p].mem
<1>1. Dirs \subseteq Page
  BY DirsDef
<1>2. /\ \A e \in Page : e # d => vm'[e] = vm[e]
      /\ vm'[d].pt = vm[d].pt /\ vm'[d].kpt = vm[d].kpt
      /\ vm'[d].pte = [vm[d].pte EXCEPT ![va] = g]
  BY <1>1 DEF MemTypeOK
<1>3. \A e \in Page : e # d => Tables(e)' = Tables(e) /\ Mapped(e)' = Mapped(e)
  BY <1>2 DEF Tables, Mapped, Pages
<1>4. Tables(d)' = Tables(d)
  BY <1>2 DEF Tables, Pages
<1>5. \A v \in Va : vm'[d].pte[v] = IF v = va THEN g ELSE vm[d].pte[v]
  BY <1>1, <1>2 DEF MemTypeOK
<1>6. \A x \in Mapped(d)' : x \in Mapped(d) \/ x = g
  <2>1. d \in Page
    BY <1>1
  <2> QED BY <1>5, <2>1, TablesNow, TablesNext DEF TablesAre
<1>7. \A e \in Dirs : g \notin Tables(e) /\ g \notin Mapped(e)
  BY PagesInvNow DEF UsedOnce
<1>8. g \notin freePages /\ \A q \in MemProc : q # p => job[q].mem # g
  BY PagesInvNow DEF UsedOnce
<1>9. \A v \in Va : vm[d].pte[v] # g
  <2>1. d \in Page
    BY <1>1
  <2> QED BY <1>7, <2>1, TablesNow DEF TablesAre
<1>10. \A e \in Dirs : \A v, w \in Va : v # w /\ vm'[e].pte[v] # 0 => vm'[e].pte[v] # vm'[e].pte[w]
  <2> SUFFICES ASSUME NEW e \in Dirs, NEW v \in Va, NEW w \in Va, v # w, vm'[e].pte[v] # 0
               PROVE  vm'[e].pte[v] # vm'[e].pte[w]
    OBVIOUS
  <2>1. CASE e # d
    BY <2>1, <1>1, <1>2, PagesInvNow DEF UsedOnce
  <2>2. CASE e = d
    BY <2>2, <1>5, <1>9, PagesInvNow DEF UsedOnce
  <2> QED BY <2>1, <2>2
<1> HIDE DEF g
<1>11. \A e \in Page \ Dirs : vm'[e] = EmptyDir
  BY <1>2, PagesInvNow DEF UsedOnce
<1> QED BY <1>1, <1>3, <1>4, <1>6, <1>7, <1>8, <1>10, <1>11, PagesInvNow, PagesInvNext DEF g, UsedOnce

\* Mapped pages are unmapped and free.
LEMMA MoveToFree ==
  ASSUME MemTypeOK, MemTypeOK', PagesInv, NEW d \in Dirs, NEW vas,
         freePages' = freePages \cup PagesAt(d, vas), Dirs' = Dirs,
         vm' = Unmap(d, vas),
         \A q \in MemProc : job'[q].mem \in {job[q].mem, 0}
  PROVE  PagesInv'
<1>1. Dirs \subseteq Page
  BY DirsDef
<1>2. /\ \A e \in Page : e # d => vm'[e] = vm[e]
      /\ vm'[d].pt = vm[d].pt /\ vm'[d].kpt = vm[d].kpt
      /\ \A v \in Va : vm'[d].pte[v] = IF v \in vas THEN 0 ELSE vm[d].pte[v]
  BY <1>1 DEF MemTypeOK, Unmap
<1>3. \A e \in Page : e # d => Tables(e)' = Tables(e) /\ Mapped(e)' = Mapped(e)
  BY <1>2 DEF Tables, Mapped, Pages
<1>4. Tables(d)' = Tables(d)
  BY <1>2 DEF Tables, Pages
<1>5. d \in Page
  BY <1>1
<1>6. \A x \in Mapped(d)' : x \in Mapped(d) /\ x \notin PagesAt(d, vas)
  <2> SUFFICES ASSUME NEW x, x \in Mapped(d)' PROVE x \in Mapped(d) /\ x \notin PagesAt(d, vas)
    OBVIOUS
  <2>1. x # 0 /\ \E v \in Va : vm'[d].pte[v] = x
    BY <1>5, TablesNext DEF TablesAre
  <2>5. PICK v \in Va : vm'[d].pte[v] = x
    BY <2>1
  <2>2. v \notin vas /\ vm[d].pte[v] = x
    BY <1>2, <2>1, <2>5
  <2>3. x \in Mapped(d)
    BY <1>5, <2>1, <2>2, TablesNow DEF TablesAre
  <2>4. \A w \in Va : w \in vas => vm[d].pte[w] # x
    BY <2>1, <2>2, PagesInvNow DEF UsedOnce
  <2> QED BY <2>3, <2>4 DEF PagesAt
<1>7. \A x \in PagesAt(d, vas) : x \in Mapped(d)
  BY <1>5, TablesNow DEF PagesAt, TablesAre
<1>8. \A e \in Dirs : \A v, w \in Va : v # w /\ vm'[e].pte[v] # 0 => vm'[e].pte[v] # vm'[e].pte[w]
  <2> SUFFICES ASSUME NEW e \in Dirs, NEW v \in Va, NEW w \in Va, v # w, vm'[e].pte[v] # 0
               PROVE  vm'[e].pte[v] # vm'[e].pte[w]
    OBVIOUS
  <2>1. CASE e # d
    BY <2>1, <1>1, <1>2, PagesInvNow DEF UsedOnce
  <2>2. CASE e = d
    BY <2>2, <1>2, PagesInvNow DEF UsedOnce
  <2> QED BY <2>1, <2>2
<1>9. \A e \in Page \ Dirs : vm'[e] = EmptyDir
  BY <1>2, PagesInvNow DEF UsedOnce
<1>10. \A e \in Dirs : \A x : x \in Tables(e)' \cup Mapped(e)' => x \in Tables(e) \cup Mapped(e) /\ x \notin PagesAt(d, vas)
  <2> SUFFICES ASSUME NEW e \in Dirs, NEW x, x \in Tables(e)' \cup Mapped(e)'
               PROVE  x \in Tables(e) \cup Mapped(e) /\ x \notin PagesAt(d, vas)
    OBVIOUS
  <2>1. CASE e # d
    BY <2>1, <1>1, <1>3, <1>7, PagesInvNow DEF UsedOnce
  <2>2. CASE e = d
    BY <2>2, <1>4, <1>6, <1>7, PagesInvNow DEF UsedOnce
  <2> QED BY <2>1, <2>2
<1>11. \A e \in Dirs : \A x : x \in Tables(e)' => x \notin Mapped(e)'
  BY <1>1, <1>3, <1>4, <1>6, PagesInvNow DEF UsedOnce
<1>12. \A q \in MemProc : job[q].mem # 0 => job[q].mem \notin PagesAt(d, vas)
  BY <1>7, PagesInvNow DEF UsedOnce
<1> QED BY <1>8, <1>9, <1>10, <1>11, <1>12, PagesInvNow, PagesInvNext DEF UsedOnce

\* An address space goes: its pages are free, or lost.
LEMMA MoveAll ==
  ASSUME MemTypeOK, MemTypeOK', PagesInv, NEW d \in Dirs,
         freePages' = freePages \cup Freed(d) \/ freePages' = freePages,
         vm' = freevm(d), Dirs' \subseteq Dirs, \A e \in Dirs : e # d => e \in Dirs',
         d \in Dirs' => freePages' = freePages,
         \A q \in MemProc : job'[q].mem \in {job[q].mem, 0}
  PROVE  PagesInv'
<1>1. Dirs \subseteq Page /\ d \in Page
  BY DirsDef
<1>2. (\A e \in Page : e # d => vm'[e] = vm[e]) /\ vm'[d] = EmptyDir
  BY <1>1 DEF MemTypeOK, freevm
<1>3. \A e \in Page : e # d => Tables(e)' = Tables(e) /\ Mapped(e)' = Mapped(e)
  BY <1>2 DEF Tables, Mapped, Pages
<1>4. Tables(d)' = {d} /\ Mapped(d)' = {}
  BY <1>1, <1>2, EmptyDirFacts
<1>5. \A x \in Freed(d) : x \in Tables(d) \/ x \in Mapped(d)
  BY <1>1, TablesNow DEF Freed, PagesAt, TablesAre
<1>6. d \in Tables(d)
  BY <1>1, TablesNow DEF TablesAre
<1>7. \A e \in Dirs : \A v, w \in Va : v # w /\ vm'[e].pte[v] # 0 => vm'[e].pte[v] # vm'[e].pte[w]
  <2> SUFFICES ASSUME NEW e \in Dirs, NEW v \in Va, NEW w \in Va, v # w, vm'[e].pte[v] # 0
               PROVE  vm'[e].pte[v] # vm'[e].pte[w]
    OBVIOUS
  <2>1. CASE e # d
    BY <2>1, <1>1, <1>2, PagesInvNow DEF UsedOnce
  <2>2. CASE e = d
    BY <2>2, <1>2 DEF EmptyDir
  <2> QED BY <2>1, <2>2
<1>8. \A e \in Page \ Dirs' : vm'[e] = EmptyDir
  BY <1>1, <1>2, PagesInvNow DEF UsedOnce
<1> QED BY <1>1, <1>3, <1>4, <1>5, <1>6, <1>7, <1>8, PagesInvNow, PagesInvNext DEF UsedOnce

-----------------------------------------------------------------------------
(* The actions                                                             *)

Job == [op : {"none", "grow", "fork", "exec"}, d : Page \cup {0}, mem : Page \cup {0},
        va : Nat, end : 0 .. MaxSz, old : Nat, kid : MemProc]
Dir == [pt : [PageTables -> Page \cup {0}], kpt : SUBSET Page, pte : [Va -> Page \cup {0}]]

\* A process without a job.
LEMMA NoJobFacts ==
  /\ NoJob \in Job
  /\ NoJob.op = "none" /\ NoJob.d = 0 /\ NoJob.mem = 0
  BY MemoryAssumption DEF NoJob, Job

\* What freeing gives back.
LEMMA FreedTypes ==
  ASSUME MemTypeOK, NEW d \in Page, NEW vas
  PROVE  /\ PagesAt(d, vas) \subseteq Page /\ Freed(d) \subseteq Page
         /\ Unmap(d, vas) \in [Page -> Dir] /\ freevm(d) \in [Page -> Dir]
<1>1. vm \in [Page -> Dir]
  BY DEF MemTypeOK, Dir
<1>2. \A w : PagesAt(d, w) \subseteq Page
  BY DEF MemTypeOK, PagesAt
<1>3. Tables(d) \subseteq Page
  BY TablesNow DEF TablesAre
<1>4. EmptyDir \in Dir
  BY EmptyDirFacts DEF Dir
<1>5. Unmap(d, vas) \in [Page -> Dir]
  <2>1. [va \in Va |-> IF va \in vas THEN 0 ELSE vm[d].pte[va]] \in [Va -> Page \cup {0}]
    BY <1>1 DEF Dir
  <2>2. Unmap(d, vas) = [vm EXCEPT ![d] = [vm[d] EXCEPT !.pte = [va \in Va |-> IF va \in vas THEN 0 ELSE vm[d].pte[va]]]]
    BY <1>1 DEF Unmap, Dir
  <2> QED BY <1>1, <2>1, <2>2 DEF Dir
<1> QED BY <1>1, <1>2, <1>3, <1>4, <1>5 DEF Freed, freevm

\* A call that ends leaves the other calls apart.
LEMMA JobGone ==
  ASSUME MemTypeOK, JobsApart, NEW p \in MemProc, job' = [job EXCEPT ![p] = NoJob], UNCHANGED dirOf
  PROVE  /\ JobsApart' /\ job' \in [MemProc -> Job]
         /\ \A q \in MemProc : job'[q].mem \in {job[q].mem, 0}
         /\ Dirs' \subseteq Dirs /\ \A e \in Dirs : e # job[p].d => e \in Dirs'
         /\ New(p) => job[p].d \notin Dirs'
         /\ ~New(p) => Dirs' = Dirs
<1>1. job \in [MemProc -> Job]
  BY DEF MemTypeOK, Job
<1>2. job'[p] = NoJob /\ \A q \in MemProc : q # p => job'[q] = job[q]
  BY <1>1
<1>3. job' \in [MemProc -> Job]
  BY <1>1, NoJobFacts
<1>4. JobsApart'
  BY <1>2, NoJobFacts DEF JobsApart, JobOK, JobsDiffer, New, Alive
<1>5. \A x : x \in Dirs <=> x # 0 /\ \E q \in MemProc : dirOf[q] = x \/ job[q].d = x
  BY DEF Dirs, Building
<1>6. \A x : x \in Dirs' <=> x # 0 /\ \E q \in MemProc : dirOf[q] = x \/ job'[q].d = x
  BY DEF Dirs, Building
<1>7. Dirs' \subseteq Dirs /\ \A e \in Dirs : e # job[p].d => e \in Dirs'
  BY <1>2, <1>5, <1>6, NoJobFacts
<1>8. New(p) => job[p].d \notin Dirs'
  <2> SUFFICES ASSUME New(p) PROVE \A q \in MemProc : dirOf[q] # job[p].d /\ job'[q].d # job[p].d
    BY <1>6
  <2>1. \A q \in MemProc : dirOf[q] # job[p].d
    BY DEF JobsApart, JobOK, JobsDiffer
  <2>2. job'[p].d # job[p].d
    BY <1>2, NoJobFacts DEF New
  <2>3. ASSUME NEW q \in MemProc, q # p PROVE job[q].d # job[p].d
    <3>1. job[q].op \in {"none", "grow", "fork", "exec"}
      BY <1>1 DEF Job
    <3> QED BY <2>1, <2>3, <3>1 DEF JobsApart, JobOK, JobsDiffer, New
  <2> QED BY <1>2, <2>1, <2>2, <2>3
<1>9. ~New(p) => Dirs' = Dirs
  <2> SUFFICES ASSUME ~New(p) PROVE job[p].d = 0 \/ job[p].d = dirOf[p]
    <3>1. ASSUME job[p].d = 0 \/ job[p].d = dirOf[p], NEW e \in Dirs PROVE e \in Dirs'
      BY <1>2, <1>5, <1>6, <3>1
    <3> QED BY <1>7, <3>1
  <2>1. job[p].op \in {"none", "grow", "fork", "exec"}
    BY <1>1 DEF Job
  <2> QED BY <2>1 DEF New, JobsApart, JobOK, JobsDiffer
<1> QED BY <1>2, <1>3, <1>4, <1>7, <1>8, <1>9, NoJobFacts

\* Abandon(p), for a call that has begun.
LEMMA AbandonOK ==
  ASSUME MemInv, NEW p \in MemProc, job[p].op # "none", Abandon(p), UNCHANGED <<dirOf, sz>>
  PROVE  MemInv'
<1> DEFINE j == job[p]
<1>1. MemTypeOK /\ JobsApart /\ PagesInv
  BY MemInvParts
<1>2. job' = [job EXCEPT ![p] = NoJob]
  BY DEF Abandon
<1>3. j.d \in Page \cup {0} /\ j.op \in {"none", "grow", "fork", "exec"}
  BY <1>1 DEF MemTypeOK
<1>4. vm \in [Page -> Dir] /\ freePages \subseteq Page
  BY <1>1 DEF MemTypeOK, Dir
<1>5. j.d # 0 => j.d \in Dirs
  BY <1>1, DirsDef
<1>6. CASE j.op = "grow"
  <2>1. j.d \in Page /\ j.d \in Dirs
    <3>1. Alive(p) /\ j.d = dirOf[p]
      BY <1>1, <1>6 DEF JobsApart, JobOK, JobsDiffer
    <3> QED BY <1>3, <1>5, <3>1 DEF Alive
  <2>2. vm' = Unmap(j.d, GrowFails(j)) /\ freePages' = freePages \cup PagesAt(j.d, GrowFails(j))
    BY <1>6 DEF Abandon
  <2>3. MemTypeOK'
    BY <1>1, <1>2, <1>4, <2>1, <2>2, JobGone, FreedTypes DEF MemTypeOK, Job, Dir
  <2>4. Dirs' = Dirs
    BY <1>1, <1>2, <1>6, JobGone DEF New
  <2> QED BY <1>1, <1>2, <2>1, <2>2, <2>3, <2>4, JobGone, MoveToFree, MemInvPartsNext
<1>7. CASE j.op # "grow" /\ j.d = 0
  <2>1. vm' = vm /\ freePages' = freePages
    BY <1>7 DEF Abandon, JobFails
  <2>2. MemTypeOK'
    BY <1>1, <1>2, <2>1, JobGone DEF MemTypeOK, Job
  <2>3. Dirs' = Dirs
    BY <1>1, <1>2, <1>7, JobGone DEF New
  <2> QED BY <1>1, <1>2, <2>1, <2>2, <2>3, JobGone, MoveNothing, MemInvPartsNext
<1>8. CASE j.op # "grow" /\ j.d # 0
  <2>1. j.d \in Page /\ j.d \in Dirs
    BY <1>3, <1>5, <1>8
  <2>2. vm' = freevm(j.d) /\ freePages' = freePages \cup Freed(j.d)
    BY <1>8 DEF Abandon, JobFails
  <2>3. MemTypeOK'
    BY <1>1, <1>2, <1>4, <2>1, <2>2, JobGone, FreedTypes DEF MemTypeOK, Job, Dir
  <2>4. New(p)
    BY <1>3, <1>8 DEF New
  <2> QED BY <1>1, <1>2, <2>1, <2>2, <2>3, <2>4, JobGone, MoveAll, MemInvPartsNext
<1> QED BY <1>6, <1>7, <1>8

\* A call that goes on with the same directory.
LEMMA JobKept ==
  ASSUME MemTypeOK, JobsApart, NEW p \in MemProc, NEW nj \in Job, job' = [job EXCEPT ![p] = nj],
         UNCHANGED dirOf, nj.op = job[p].op, nj.d = job[p].d, nj.kid = job[p].kid,
         nj.mem # 0 => nj.d # 0 /\ nj.va < nj.end,
         nj.op = "exec" => nj.end \in {ProgSz, ProgSz + 2}
  PROVE  /\ JobsApart' /\ job' \in [MemProc -> Job] /\ Dirs' = Dirs
         /\ job'[p] = nj /\ \A q \in MemProc : q # p => job'[q] = job[q]
<1>1. job \in [MemProc -> Job]
  BY DEF MemTypeOK, Job
<1>2. job'[p] = nj /\ \A q \in MemProc : q # p => job'[q] = job[q]
  BY <1>1
<1>3. \A q \in MemProc : job'[q].op = job[q].op /\ job'[q].d = job[q].d /\ job'[q].kid = job[q].kid
  BY <1>2
<1>4. \A q \in MemProc : job'[q].mem # 0 => job'[q].d # 0 /\ job'[q].va < job'[q].end
  BY <1>2 DEF JobsApart, JobOK, JobsDiffer
<1>7. \A q \in MemProc : job'[q].op = "exec" => job'[q].end \in {ProgSz, ProgSz + 2}
  BY <1>2 DEF JobsApart, JobOK
<1>5. JobsApart'
  BY <1>3, <1>4, <1>7 DEF JobsApart, JobOK, JobsDiffer, New, Alive
<1>6. Dirs' = Dirs
  BY <1>3 DEF Dirs, Building
<1> QED BY <1>1, <1>2, <1>5, <1>6

\* A call that begins.
LEMMA JobBegins ==
  ASSUME MemTypeOK, JobsApart, NEW p \in MemProc, NEW nj \in Job, job' = [job EXCEPT ![p] = nj],
         UNCHANGED dirOf, job[p].op = "none", nj.op # "none", Alive(p), nj.mem = 0,
         nj.op = "grow" => nj.d = dirOf[p],
         nj.op # "grow" => nj.d = 0,
         nj.op = "fork" => ~Alive(nj.kid) /\ \A q \in MemProc : job[q].op = "fork" => job[q].kid # nj.kid,
         nj.op = "exec" => ProgSz + 2 <= MaxSz /\ nj.end \in {ProgSz, ProgSz + 2}
  PROVE  /\ JobsApart' /\ job' \in [MemProc -> Job] /\ Dirs' = Dirs
         /\ \A q \in MemProc : job'[q].mem \in {job[q].mem, 0}
<1>1. job \in [MemProc -> Job]
  BY DEF MemTypeOK, Job
<1>2. job'[p] = nj /\ \A q \in MemProc : q # p => job'[q] = job[q]
  BY <1>1
<1>3. ~New(p)'
  BY <1>2 DEF New
<1>4. JobsApart'
  <2>1. \A q \in MemProc : q # p => New(q)' = New(q)
    BY <1>2 DEF New
  <2>2. ASSUME NEW q \in MemProc
        PROVE  JobOK(q)'
    <3>1. CASE q = p
      BY <3>1, <1>2, <1>3 DEF JobOK, Alive
    <3>2. CASE q # p
      BY <3>2, <1>2, <2>1 DEF JobsApart, JobOK, JobsDiffer, Alive
    <3> QED BY <3>1, <3>2
  <2>3. ASSUME NEW q \in MemProc, NEW r \in MemProc, q # r
        PROVE  JobsDiffer(q, r)'
    BY <2>3, <1>2, <1>3, <2>1 DEF JobsApart, JobOK, JobsDiffer, Alive
  <2> QED BY <2>2, <2>3 DEF JobsApart
<1>5. Dirs' = Dirs
  <2>1. \A q \in MemProc : (job'[q].d = job[q].d) \/ (q = p /\ job[q].d = 0 /\ job'[q].d \in {0, dirOf[q]})
    BY <1>2 DEF JobsApart, JobOK, JobsDiffer
  <2>2. \A x : x \in Dirs <=> x # 0 /\ \E q \in MemProc : dirOf[q] = x \/ job[q].d = x
    BY DEF Dirs, Building
  <2>3. \A x : x \in Dirs' <=> x # 0 /\ \E q \in MemProc : dirOf[q] = x \/ job'[q].d = x
    BY DEF Dirs, Building
  <2>4. \A x : x \in Dirs <=> x \in Dirs'
    BY <2>1, <2>2, <2>3
  <2> QED BY <2>4
<1> QED BY <1>1, <1>2, <1>4, <1>5

\* setupkvm(): the directory.
LEMMA SetupDirOK == ASSUME MemInv, NEW p \in MemProc, SetupDir(p) PROVE MemInv'
<1>1. MemTypeOK /\ JobsApart /\ PagesInv
  BY MemInvParts
<1>2. UNCHANGED <<dirOf, sz>> /\ job[p].op \in {"fork", "exec"} /\ job[p].d = 0
  BY DEF SetupDir, NeedsDir
<1>3. CASE None
  BY <1>2, <1>3, AbandonOK DEF SetupDir
<1>4. CASE ~None
  <2> DEFINE nj == [job[p] EXCEPT !.d = kalloc]
  <2>1. kalloc \in freePages /\ kalloc \in Page /\ kalloc # 0
    BY <1>1, <1>4, KallocFree
  <2>2. freePages' = freePages \ {kalloc} /\ vm' = vm /\ job' = [job EXCEPT ![p].d = kalloc]
    BY <1>4 DEF SetupDir
  <2>3. job \in [MemProc -> Job]
    BY <1>1 DEF MemTypeOK, Job
  <2>4. nj \in Job /\ job' = [job EXCEPT ![p] = nj] /\ job'[p] = nj
        /\ \A q \in MemProc : q # p => job'[q] = job[q]
    BY <2>1, <2>2, <2>3 DEF Job
  <2>5. nj.d = kalloc /\ nj.op = job[p].op /\ nj.mem = job[p].mem /\ nj.kid = job[p].kid /\ nj.va = job[p].va /\ nj.end = job[p].end
    BY <2>3 DEF Job
  <2> HIDE DEF nj
  <2>6. kalloc \notin Dirs
    <3>1. Dirs \subseteq Page /\ \A d \in Page : d \in Tables(d)
      BY <1>1, DirsDef, TablesNow DEF TablesAre
    <3> QED BY <1>1, <2>1, <3>1, PagesInvNow DEF UsedOnce
  <2>7. \A x : x \in Dirs <=> x # 0 /\ \E q \in MemProc : dirOf[q] = x \/ job[q].d = x
    BY DEF Dirs, Building
  <2>8. \A x : x \in Dirs' <=> x # 0 /\ \E q \in MemProc : dirOf[q] = x \/ job'[q].d = x
    BY <1>2 DEF Dirs, Building
  <2>9. Dirs' = Dirs \cup {kalloc}
    <3>1. \A x : x \in Dirs' <=> x \in Dirs \/ x = kalloc
      BY <1>2, <2>1, <2>4, <2>5, <2>7, <2>8
    <3> QED BY <3>1
  <2>10. \A q \in MemProc : dirOf[q] # kalloc /\ job[q].d # kalloc
    BY <2>1, <2>6, <2>7
  <2>11. JobsApart'
    <3>1. job[p].mem = 0
      BY <1>1, <1>2 DEF JobsApart, JobOK, JobsDiffer
    <3>2. \A q \in MemProc : q # p => New(q)' = New(q)
      BY <2>4 DEF New
    <3>3. ASSUME NEW q \in MemProc
          PROVE  JobOK(q)'
      <4>1. CASE q = p
        BY <4>1, <1>1, <1>2, <2>4, <2>5, <2>10, <3>1 DEF JobsApart, JobOK, JobsDiffer, Alive
      <4>2. CASE q # p
        BY <4>2, <1>1, <1>2, <2>4, <3>2 DEF JobsApart, JobOK, JobsDiffer, Alive
      <4> QED BY <4>1, <4>2
    <3>4. ASSUME NEW q \in MemProc, NEW r \in MemProc, q # r
          PROVE  JobsDiffer(q, r)'
      BY <3>4, <1>1, <1>2, <2>4, <2>5, <2>10, <3>2 DEF JobsApart, JobOK, JobsDiffer, Alive
    <3> QED BY <3>3, <3>4 DEF JobsApart
  <2>12. MemTypeOK'
    BY <1>1, <1>2, <2>2, <2>3, <2>4 DEF MemTypeOK, Job
  <2>13. \A q \in MemProc : job'[q].mem = job[q].mem
    BY <2>4, <2>5
  <2> QED BY <1>1, <2>1, <2>2, <2>9, <2>11, <2>12, <2>13, MoveToDir, MemInvPartsNext
<1> QED BY <1>3, <1>4

\* setupkvm(): the kernel part.
LEMMA SetupKptOK == ASSUME MemInv, NEW p \in MemProc, SetupKpt(p) PROVE MemInv'
<1> DEFINE d == job[p].d
<1>1. MemTypeOK /\ JobsApart /\ PagesInv
  BY MemInvParts
<1>2. UNCHANGED <<dirOf, sz>> /\ d # 0
  BY DEF SetupKpt, NeedsKpt
<1>3. d \in Page /\ d \in Dirs
  BY <1>1, <1>2, DirsDef DEF MemTypeOK
<1>4. CASE None
  <2>1. job' = [job EXCEPT ![p] = NoJob] /\ vm' = freevm(d) /\ freePages' = freePages
    BY <1>4 DEF SetupKpt
  <2>2. MemTypeOK'
    BY <1>1, <1>2, <1>3, <2>1, JobGone, FreedTypes DEF MemTypeOK, Job, Dir
  <2> QED BY <1>1, <1>2, <1>3, <2>1, <2>2, JobGone, MoveAll, MemInvPartsNext
<1>5. CASE ~None
  <2>1. kalloc \in freePages /\ kalloc \in Page
    BY <1>1, <1>5, KallocFree
  <2>2. freePages' = freePages \ {kalloc} /\ job' = job /\ vm' = [vm EXCEPT ![d].kpt = @ \cup {kalloc}]
    BY <1>5 DEF SetupKpt
  <2>3. /\ \A e \in Page : e # d => vm'[e] = vm[e]
        /\ vm'[d] = [vm[d] EXCEPT !.kpt = @ \cup {kalloc}]
    BY <1>1, <1>3, <2>2 DEF MemTypeOK
  <2>4. vm'[d].pte = vm[d].pte /\ vm'[d].pt = vm[d].pt /\ vm'[d].kpt = vm[d].kpt \cup {kalloc}
    BY <1>1, <1>3, <2>3 DEF MemTypeOK
  <2>5. MemTypeOK'
    BY <1>1, <1>2, <1>3, <2>1, <2>2 DEF MemTypeOK
  <2>6. \A x \in Tables(d)' : x \in Tables(d) \/ x = kalloc
    BY <2>2, <2>4 DEF Tables, Pages
  <2>7. Dirs' = Dirs /\ JobsApart'
    BY <1>1, <1>2, <2>2 DEF Dirs, Building, JobsApart, JobOK, JobsDiffer, New, Alive
  <2> QED BY <1>1, <1>3, <2>1, <2>2, <2>3, <2>4, <2>5, <2>6, <2>7, MoveToTable, MemInvPartsNext
<1> QED BY <1>4, <1>5

\* allocuvm() and copyuvm(): a page.
LEMMA AllocMemOK == ASSUME MemInv, NEW p \in MemProc, AllocMem(p) PROVE MemInv'
<1> DEFINE nj == [job[p] EXCEPT !.mem = kalloc]
<1>1. MemTypeOK /\ JobsApart /\ PagesInv
  BY MemInvParts
<1>2. UNCHANGED <<dirOf, sz>> /\ job[p].d # 0 /\ job[p].va < job[p].end
  BY DEF AllocMem, NeedsMem
<1>3. job \in [MemProc -> Job]
  BY <1>1 DEF MemTypeOK, Job
<1>4. CASE UNCHANGED <<freePages, vm, job>>
  BY <1>2, <1>4, NothingMoves
<1>5. CASE Abandon(p)
  <2>1. job[p].op # "none"
    BY <1>1, <1>2 DEF JobsApart, JobOK
  <2> QED BY <1>2, <1>5, <2>1, AbandonOK
<1>6. CASE ~None /\ freePages' = freePages \ {kalloc} /\ job' = [job EXCEPT ![p].mem = kalloc] /\ vm' = vm
  <2>1. kalloc \in freePages /\ kalloc \in Page
    BY <1>1, <1>6, KallocFree
  <2>2. nj \in Job /\ job' = [job EXCEPT ![p] = nj]
    BY <1>3, <1>6, <2>1 DEF Job
  <2>3. nj.d = job[p].d /\ nj.op = job[p].op /\ nj.mem = kalloc /\ nj.kid = job[p].kid
        /\ nj.va = job[p].va /\ nj.end = job[p].end
    BY <1>3 DEF Job
  <2>7. job[p].op = "exec" => job[p].end \in {ProgSz, ProgSz + 2}
    BY <1>1 DEF JobsApart, JobOK
  <2> HIDE DEF nj
  <2>4. JobsApart' /\ job' \in [MemProc -> Job] /\ Dirs' = Dirs
        /\ job'[p] = nj /\ \A q \in MemProc : q # p => job'[q] = job[q]
    BY <1>1, <1>2, <2>2, <2>3, <2>7, JobKept
  <2>5. MemTypeOK'
    BY <1>1, <1>2, <1>6, <2>4 DEF MemTypeOK, Job
  <2> QED BY <1>1, <1>6, <2>1, <2>3, <2>4, <2>5, MoveToFlight, MemInvPartsNext
<1> QED BY <1>4, <1>5, <1>6 DEF AllocMem

\* walkpgdir(): a page table.
LEMMA AllocTableOK == ASSUME MemInv, NEW p \in MemProc, AllocTable(p) PROVE MemInv'
<1> DEFINE d == job[p].d
           t == job[p].va \div NPTE
           nj == [job[p] EXCEPT !.va = @ + 1, !.mem = 0]
<1>1. MemTypeOK /\ JobsApart /\ PagesInv
  BY MemInvParts
<1>2. UNCHANGED <<dirOf, sz>> /\ d # 0 /\ job[p].va < job[p].end
  BY <1>1 DEF AllocTable, NeedsTable, JobsApart, JobOK
<1>3. job \in [MemProc -> Job]
  BY <1>1 DEF MemTypeOK, Job
<1>4. d \in Page /\ d \in Dirs
  BY <1>1, <1>2, DirsDef DEF MemTypeOK
<1>5. CASE None /\ job[p].op = "fork"
  BY <1>2, <1>5, AbandonOK DEF AllocTable
<1>6. CASE None /\ job[p].op # "fork"
  <2>1. job' = [job EXCEPT ![p].va = @ + 1, ![p].mem = 0] /\ freePages' = freePages /\ vm' = vm
    BY <1>6 DEF AllocTable
  <2>2. nj \in Job /\ job' = [job EXCEPT ![p] = nj]
    <3>1. job[p] \in Job /\ job[p].va + 1 \in Nat
      BY <1>3 DEF Job
    <3>2. nj \in Job
      BY <3>1 DEF Job
    <3>3. job' = [job EXCEPT ![p] = nj]
      BY <1>3, <3>1, <2>1 DEF Job
    <3> QED BY <3>2, <3>3
  <2>3. nj.d = job[p].d /\ nj.op = job[p].op /\ nj.mem = 0 /\ nj.kid = job[p].kid /\ nj.end = job[p].end
    BY <1>3 DEF Job
  <2>7. job[p].op = "exec" => job[p].end \in {ProgSz, ProgSz + 2}
    BY <1>1 DEF JobsApart, JobOK
  <2> HIDE DEF nj
  <2>4. JobsApart' /\ job' \in [MemProc -> Job] /\ Dirs' = Dirs
        /\ job'[p] = nj /\ \A q \in MemProc : q # p => job'[q] = job[q]
    BY <1>1, <1>2, <2>2, <2>3, <2>7, JobKept
  <2>5. MemTypeOK'
    BY <1>1, <1>2, <2>1, <2>4 DEF MemTypeOK, Job
  <2> QED BY <1>1, <2>1, <2>3, <2>4, <2>5, MoveNothing, MemInvPartsNext
<1>7. CASE ~None
  <2>1. kalloc \in freePages /\ kalloc \in Page
    BY <1>1, <1>7, KallocFree
  <2>2. freePages' = freePages \ {kalloc} /\ job' = job /\ vm' = [vm EXCEPT ![d].pt[t] = kalloc]
    BY <1>7 DEF AllocTable
  <2> HIDE DEF t
  <2>3. /\ \A e \in Page : e # d => vm'[e] = vm[e]
        /\ vm'[d] = [vm[d] EXCEPT !.pt = [@ EXCEPT ![t] = kalloc]]
    BY <1>1, <1>4, <2>2 DEF MemTypeOK
  <2>4. vm'[d].pte = vm[d].pte /\ vm'[d].kpt = vm[d].kpt /\ vm'[d].pt = [vm[d].pt EXCEPT ![t] = kalloc]
    BY <1>1, <1>4, <2>3 DEF MemTypeOK
  <2>5. MemTypeOK'
    BY <1>1, <1>2, <1>4, <2>1, <2>2 DEF MemTypeOK
  <2>6. \A x \in Tables(d)' : x \in Tables(d) \/ x = kalloc
    BY <2>2, <2>4 DEF Tables, Pages
  <2>7. Dirs' = Dirs /\ JobsApart'
    BY <1>1, <1>2, <2>2 DEF Dirs, Building, JobsApart, JobOK, JobsDiffer, New, Alive
  <2> QED BY <1>1, <1>4, <2>1, <2>2, <2>3, <2>4, <2>5, <2>6, <2>7, MoveToTable, MemInvPartsNext
<1> QED BY <1>5, <1>6, <1>7

\* mappages(): the entry.
LEMMA MapPageOK == ASSUME MemInv, NEW p \in MemProc, MapPage(p) PROVE MemInv'
<1> DEFINE d == job[p].d
           nj == [job[p] EXCEPT !.va = @ + 1, !.mem = 0]
<1>1. MemTypeOK /\ JobsApart /\ PagesInv
  BY MemInvParts
<1>2. UNCHANGED <<freePages, dirOf, sz>> /\ job[p].mem # 0 /\ d # 0 /\ job[p].va < job[p].end
  BY <1>1 DEF MapPage, JobsApart, JobOK
<1>3. job \in [MemProc -> Job]
  BY <1>1 DEF MemTypeOK, Job
<1>4. d \in Page /\ d \in Dirs
  BY <1>1, <1>2, DirsDef DEF MemTypeOK
<1>5. CASE UNCHANGED <<vm, job>>
  BY <1>2, <1>5, NothingMoves
<1>6. CASE vm' = [vm EXCEPT ![d].pte[job[p].va] = job[p].mem] /\ job' = [job EXCEPT ![p].va = @ + 1, ![p].mem = 0]
  <2>1. job[p].va \in Va
    BY <1>2, <1>3, MemoryAssumption DEF Job, Va
  <2>2. nj \in Job /\ job' = [job EXCEPT ![p] = nj]
    <3>1. job[p] \in Job /\ job[p].va + 1 \in Nat
      BY <1>3 DEF Job
    <3>2. nj \in Job
      BY <3>1 DEF Job
    <3>3. job' = [job EXCEPT ![p] = nj]
      BY <1>3, <3>1, <1>6 DEF Job
    <3> QED BY <3>2, <3>3
  <2>3. nj.d = job[p].d /\ nj.op = job[p].op /\ nj.mem = 0 /\ nj.kid = job[p].kid /\ nj.end = job[p].end
    BY <1>3 DEF Job
  <2>7. job[p].op = "exec" => job[p].end \in {ProgSz, ProgSz + 2}
    BY <1>1 DEF JobsApart, JobOK
  <2> HIDE DEF nj
  <2>4. JobsApart' /\ job' \in [MemProc -> Job] /\ Dirs' = Dirs
        /\ job'[p] = nj /\ \A q \in MemProc : q # p => job'[q] = job[q]
    BY <1>1, <1>2, <2>2, <2>3, <2>7, JobKept
  <2>5. job[p].mem \in Page
    BY <1>2, <1>3 DEF Job
  <2>6. MemTypeOK'
    BY <1>1, <1>2, <1>4, <1>6, <2>4, <2>5 DEF MemTypeOK, Job
  <2> QED BY <1>1, <1>2, <1>4, <1>6, <2>1, <2>3, <2>4, <2>6, MoveToMapped, MemInvPartsNext
<1> QED BY <1>5, <1>6 DEF MapPage

\* The end of allocuvm(), copyuvm(), and the two of exec().
LEMMA JobEndsOK == ASSUME MemInv, NEW p \in MemProc, JobEnds(p) PROVE MemInv'
<1> DEFINE j == job[p]
<1>1. MemTypeOK /\ JobsApart /\ PagesInv
  BY MemInvParts
<1>2. job \in [MemProc -> Job] /\ j \in Job
  BY <1>1 DEF MemTypeOK, Job
<1>3. j.d # 0 /\ j.mem = 0 /\ j.d \in Dirs /\ j.d \in Page
  BY <1>1, DirsDef DEF JobEnds, MemTypeOK
<1>4. j.op \in {"grow", "fork", "exec"} /\ (j.op = "exec" => j.end \in {ProgSz, ProgSz + 2} /\ ProgSz + 2 <= MaxSz)
  BY <1>1, <1>2, <1>3 DEF JobsApart, JobOK, Job
<1>5. ProgSz # ProgSz + 2 /\ ProgSz \in Nat
  BY MemoryAssumption
<1>6. \A x : x \in Dirs <=> x # 0 /\ \E q \in MemProc : dirOf[q] = x \/ job[q].d = x
  BY DEF Dirs, Building
<1>7. \A x : x \in Dirs' <=> x # 0 /\ \E q \in MemProc : dirOf'[q] = x \/ job'[q].d = x
  BY DEF Dirs, Building
<1>8. CASE j.op = "grow"
  <2>1. sz' = [sz EXCEPT ![p] = j.end] /\ job' = [job EXCEPT ![p] = NoJob] /\ UNCHANGED <<freePages, vm, dirOf>>
    BY <1>8 DEF JobEnds
  <2>2. MemTypeOK'
    BY <1>1, <1>2, <2>1, JobGone DEF MemTypeOK, Job
  <2>3. Dirs' = Dirs
    BY <1>1, <1>8, <2>1, JobGone DEF New
  <2> QED BY <1>1, <2>1, <2>2, <2>3, JobGone, MoveNothing, MemInvPartsNext
<1>9. CASE j.op = "fork"
  <2>1. /\ dirOf' = [dirOf EXCEPT ![j.kid] = j.d] /\ sz' = [sz EXCEPT ![j.kid] = j.end]
        /\ job' = [job EXCEPT ![p] = NoJob] /\ UNCHANGED <<freePages, vm>>
    BY <1>9 DEF JobEnds
  <2>2. j.kid \in MemProc /\ dirOf[j.kid] = 0 /\ New(p)
    BY <1>1, <1>2, <1>3, <1>9 DEF JobsApart, JobOK, Alive, New, Job
  <2>3. job' \in [MemProc -> Job] /\ job'[p] = NoJob /\ \A q \in MemProc : q # p => job'[q] = job[q]
    BY <1>2, <2>1, NoJobFacts
  <2>4. MemTypeOK'
    BY <1>1, <1>2, <1>3, <2>1, <2>3 DEF MemTypeOK, Job
  <2>5. dirOf'[j.kid] = j.d /\ \A q \in MemProc : q # j.kid => dirOf'[q] = dirOf[q]
    BY <1>1, <2>1, <2>2 DEF MemTypeOK
  <2>6. \A x : x \in Dirs' <=> x \in Dirs
    BY <1>3, <1>6, <1>7, <2>2, <2>3, <2>5, NoJobFacts
  <2>7. \A q \in MemProc : dirOf[q] # j.d /\ (q # p /\ New(q) => job[q].d # j.d)
    BY <1>1, <2>2 DEF JobsApart, JobOK, JobsDiffer
  <2>8. ASSUME NEW q \in MemProc, q # p
        PROVE  job[q].op = "fork" => job[q].kid # j.kid
    BY <1>1, <1>9, <2>8 DEF JobsApart, JobsDiffer
  <2>9. ~New(p)' /\ \A q \in MemProc : q # p => (New(q)' <=> New(q))
    BY <2>3, NoJobFacts DEF New
  <2>10. ASSUME NEW q \in MemProc PROVE JobOK(q)'
    <3>1. CASE q = p
      BY <3>1, <2>3, <2>9, NoJobFacts DEF JobOK
    <3>2. CASE q # p
      <4>1. JobOK(q) /\ job'[q] = job[q] /\ (New(q)' <=> New(q))
        BY <3>2, <1>1, <2>3, <2>9 DEF JobsApart
      <4>2. q # j.kid \/ job[q].op = "none"
        BY <4>1, <2>2 DEF JobOK, Alive
      <4>3. job[q].op = "none" => job[q].mem = 0 /\ ~New(q)
        BY <4>1 DEF JobOK, New
      <4>4. job[q].kid \in MemProc
        BY <1>2 DEF Job
      <4> QED BY <4>1, <4>2, <4>3, <4>4, <3>2, <2>5, <2>7, <2>8 DEF JobOK, Alive
    <3> QED BY <3>1, <3>2
  <2>11. ASSUME NEW q \in MemProc, NEW r \in MemProc, q # r PROVE JobsDiffer(q, r)'
    <3>1. JobsDiffer(q, r)
      BY <1>1, <2>11 DEF JobsApart
    <3> QED BY <3>1, <1>3, <2>2, <2>3, <2>5, <2>7, <2>9, <2>11, NoJobFacts DEF JobsDiffer, Alive
  <2>12. JobsApart'
    BY <2>10, <2>11 DEF JobsApart
  <2>13. \A q \in MemProc : job'[q].mem \in {job[q].mem, 0}
    BY <2>3, NoJobFacts
  <2>14. Dirs' = Dirs
    BY <2>6
  <2> QED BY <1>1, <2>1, <2>4, <2>12, <2>13, <2>14, MoveNothing, MemInvPartsNext
<1>10. CASE j.op = "exec" /\ j.end = ProgSz
  <2> DEFINE nj == [j EXCEPT !.end = ProgSz + 2, !.old = ProgSz]
  <2>1. UNCHANGED <<freePages, vm, dirOf, sz>>
        /\ (UNCHANGED job \/ job' = [job EXCEPT ![p].end = ProgSz + 2, ![p].old = ProgSz])
    BY <1>10, <1>5 DEF JobEnds
  <2>2. CASE UNCHANGED job
    BY <2>1, <2>2, NothingMoves
  <2>3. CASE job' = [job EXCEPT ![p].end = ProgSz + 2, ![p].old = ProgSz]
    <3>1. ProgSz + 2 \in 0 .. MaxSz
      BY <1>4, <1>5, <1>10, MemoryAssumption
    <3>2. nj \in Job
      BY <1>2, <1>5, <3>1 DEF Job
    <3>3. job' = [job EXCEPT ![p] = nj]
      BY <1>2, <2>3 DEF Job
    <3>4. nj.d = j.d /\ nj.op = j.op /\ nj.mem = 0 /\ nj.kid = j.kid /\ nj.end = ProgSz + 2
      BY <1>2, <1>3 DEF Job
    <3> HIDE DEF nj
    <3>5. JobsApart' /\ job' \in [MemProc -> Job] /\ Dirs' = Dirs
          /\ job'[p] = nj /\ \A q \in MemProc : q # p => job'[q] = job[q]
      BY <1>1, <2>1, <3>2, <3>3, <3>4, JobKept
    <3>6. MemTypeOK'
      BY <1>1, <2>1, <3>5 DEF MemTypeOK, Job
    <3> QED BY <1>1, <2>1, <3>4, <3>5, <3>6, MoveNothing, MemInvPartsNext
  <2> QED BY <2>1, <2>2, <2>3
<1>11. CASE j.op = "exec" /\ j.end = ProgSz + 2
  <2> DEFINE d == dirOf[p]
  <2>1. \/ UNCHANGED <<freePages, vm, dirOf, sz, job>>
        \/ /\ dirOf' = [dirOf EXCEPT ![p] = j.d] /\ sz' = [sz EXCEPT ![p] = j.end]
           /\ freePages' = freePages \cup Freed(d) /\ vm' = freevm(d)
           /\ job' = [job EXCEPT ![p] = NoJob]
    BY <1>11, <1>5 DEF JobEnds
  <2>2. CASE UNCHANGED <<freePages, vm, dirOf, sz, job>>
    BY <2>2, NothingMoves
  <2>3. CASE ~UNCHANGED <<freePages, vm, dirOf, sz, job>>
    <3>1. /\ dirOf' = [dirOf EXCEPT ![p] = j.d] /\ sz' = [sz EXCEPT ![p] = j.end]
          /\ freePages' = freePages \cup Freed(d) /\ vm' = freevm(d)
          /\ job' = [job EXCEPT ![p] = NoJob]
      BY <2>1, <2>3
    <3>2. d # 0 /\ d \in Page /\ d \in Dirs /\ New(p)
      BY <1>1, <1>3, <1>6, <1>11 DEF JobsApart, JobOK, Alive, New, MemTypeOK
    <3>3. job' \in [MemProc -> Job] /\ job'[p] = NoJob /\ \A q \in MemProc : q # p => job'[q] = job[q]
      BY <1>2, <3>1, NoJobFacts
    <3>4. MemTypeOK'
      BY <1>1, <1>2, <1>3, <3>1, <3>2, <3>3, FreedTypes DEF MemTypeOK, Job, Dir
    <3>5. dirOf'[p] = j.d /\ \A q \in MemProc : q # p => dirOf'[q] = dirOf[q]
      BY <1>1, <3>1 DEF MemTypeOK
    <3>6. \A q \in MemProc : dirOf[q] # j.d /\ (q # p => dirOf[q] # d)
      BY <1>1, <3>2 DEF JobsApart, JobOK, JobsDiffer, Alive
    <3>7. ~New(p)' /\ \A q \in MemProc : q # p => (New(q)' <=> New(q))
      BY <3>3, NoJobFacts DEF New
    <3>8. ASSUME NEW q \in MemProc, q # p PROVE job[q].d # d /\ (New(q) => job[q].d # j.d)
      <4>1. JobOK(q) /\ JobsDiffer(p, q) /\ JobsDiffer(q, p)
        BY <1>1, <3>8 DEF JobsApart
      <4>2. job[q].op \in {"none", "grow", "fork", "exec"}
        BY <1>2 DEF Job
      <4>3. CASE New(q)
        BY <4>1, <4>3, <3>2 DEF JobOK, JobsDiffer
      <4>4. CASE ~New(q)
        BY <4>1, <4>2, <4>4, <3>2, <3>6, <3>8 DEF JobOK, New
      <4> QED BY <4>3, <4>4
    <3>9. d \notin Dirs' /\ Dirs' \subseteq Dirs /\ \A e \in Dirs : e # d => e \in Dirs'
      <4>1. d \notin Dirs'
        BY <1>7, <3>2, <3>3, <3>5, <3>6, <3>8, NoJobFacts
      <4>2. \A x \in Dirs' : x \in Dirs
        BY <1>6, <1>7, <3>3, <3>5, NoJobFacts
      <4>3. \A e \in Dirs : e # d => e \in Dirs'
        BY <1>3, <1>6, <1>7, <3>3, <3>5
      <4> QED BY <4>1, <4>2, <4>3
    <3>10. ASSUME NEW q \in MemProc PROVE JobOK(q)'
      <4>1. CASE q = p
        BY <4>1, <3>3, <3>7, NoJobFacts DEF JobOK
      <4>2. CASE q # p
        <5>1. JobOK(q) /\ job'[q] = job[q] /\ (New(q)' <=> New(q))
          BY <4>2, <1>1, <3>3, <3>7 DEF JobsApart
        <5>2. job[q].kid \in MemProc
          BY <1>2 DEF Job
        <5>3. job[q].op = "fork" => job[q].kid # p
          BY <5>1, <3>2 DEF JobOK, Alive
        <5> QED BY <5>1, <5>2, <5>3, <4>2, <3>5, <3>8 DEF JobOK, Alive
      <4> QED BY <4>1, <4>2
    <3>11. ASSUME NEW q \in MemProc, NEW r \in MemProc, q # r PROVE JobsDiffer(q, r)'
      <4>1. JobsDiffer(q, r)
        BY <1>1, <3>11 DEF JobsApart
      <4> QED BY <4>1, <3>3, <3>5, <3>6, <3>7, <3>11, NoJobFacts DEF JobsDiffer, Alive
    <3>12. JobsApart'
      BY <3>10, <3>11 DEF JobsApart
    <3>13. \A q \in MemProc : job'[q].mem \in {job[q].mem, 0}
      BY <3>3, NoJobFacts
    <3> QED BY <1>1, <3>1, <3>2, <3>4, <3>9, <3>12, <3>13, MoveAll, MemInvPartsNext
  <2> QED BY <2>2, <2>3
<1> QED BY <1>4, <1>8, <1>9, <1>10, <1>11

\* growproc(), fork() and exec() begin.
LEMMA GrowOK == ASSUME MemInv, NEW p \in MemProc, Grow(p) PROVE MemInv'
<1>1. MemTypeOK /\ JobsApart /\ PagesInv
  BY MemInvParts
<1>2. UNCHANGED <<freePages, vm, dirOf, sz>> /\ job[p].op = "none" /\ Alive(p)
  BY DEF Grow, Call, Doing, Runs
<1>3. PICK n \in sz[p] + 1 .. MaxSz :
        job' = [job EXCEPT ![p] = [NoJob EXCEPT !.op = "grow", !.d = dirOf[p], !.va = sz[p], !.end = n, !.old = sz[p]]]
  BY DEF Grow
<1> DEFINE nj == [NoJob EXCEPT !.op = "grow", !.d = dirOf[p], !.va = sz[p], !.end = n, !.old = sz[p]]
<1>4. sz[p] \in Nat /\ n \in 0 .. MaxSz /\ dirOf[p] \in Page \cup {0}
  BY <1>1, MemoryAssumption DEF MemTypeOK
<1>5. nj \in Job /\ nj.op = "grow" /\ nj.d = dirOf[p] /\ nj.mem = 0
  BY <1>4, MemoryAssumption DEF NoJob, Job
<1> HIDE DEF nj
<1>6. job' = [job EXCEPT ![p] = nj]
  BY <1>3 DEF nj
<1>7. JobsApart' /\ job' \in [MemProc -> Job] /\ Dirs' = Dirs /\ \A q \in MemProc : job'[q].mem \in {job[q].mem, 0}
  BY <1>1, <1>2, <1>5, <1>6, JobBegins
<1>8. MemTypeOK'
  BY <1>1, <1>2, <1>7 DEF MemTypeOK, Job
<1> QED BY <1>1, <1>2, <1>7, <1>8, MoveNothing, MemInvPartsNext

\* fork() starts to copy the address space.
LEMMA ForkMemOK == ASSUME MemInv, NEW p \in MemProc, NEW kid \in MemProc, ForkMem(p, kid) PROVE MemInv'
<1> DEFINE nj == [NoJob EXCEPT !.op = "fork", !.end = sz[p], !.kid = kid]
<1>1. MemTypeOK /\ JobsApart /\ PagesInv
  BY MemInvParts
<1>2. /\ UNCHANGED <<freePages, vm, dirOf, sz>> /\ job[p].op = "none" /\ Alive(p) /\ ~Alive(kid)
      /\ \A q \in MemProc : job[q].op = "fork" => job[q].kid # kid
      /\ job' = [job EXCEPT ![p] = nj]
  BY DEF ForkMem, Call, Doing, Runs
<1>3. nj \in Job /\ nj.op = "fork" /\ nj.d = 0 /\ nj.mem = 0 /\ nj.kid = kid
  BY <1>1, MemoryAssumption DEF NoJob, Job, MemTypeOK
<1> HIDE DEF nj
<1>4. JobsApart' /\ job' \in [MemProc -> Job] /\ Dirs' = Dirs /\ \A q \in MemProc : job'[q].mem \in {job[q].mem, 0}
  BY <1>1, <1>2, <1>3, JobBegins
<1>5. MemTypeOK'
  BY <1>1, <1>2, <1>4 DEF MemTypeOK, Job
<1> QED BY <1>1, <1>2, <1>4, <1>5, MoveNothing, MemInvPartsNext

\* exec() starts a new address space.
LEMMA ExecMemOK == ASSUME MemInv, NEW p \in MemProc, ExecMem(p) PROVE MemInv'
<1> DEFINE nj == [NoJob EXCEPT !.op = "exec", !.end = ProgSz]
<1>1. MemTypeOK /\ JobsApart /\ PagesInv
  BY MemInvParts
<1>2. /\ UNCHANGED <<freePages, vm, dirOf, sz>> /\ job[p].op = "none" /\ Alive(p) /\ ProgSz + 2 <= MaxSz
      /\ job' = [job EXCEPT ![p] = nj]
  BY DEF ExecMem, Call, Doing, Runs
<1>3. nj \in Job /\ nj.op = "exec" /\ nj.d = 0 /\ nj.mem = 0 /\ nj.end = ProgSz
  <2>1. ProgSz \in 0 .. MaxSz
    BY MemoryAssumption
  <2>2. NoJob \in Job
    BY NoJobFacts
  <2> QED BY <2>1, <2>2, NoJobFacts DEF Job
<1> HIDE DEF nj
<1>4. JobsApart' /\ job' \in [MemProc -> Job] /\ Dirs' = Dirs /\ \A q \in MemProc : job'[q].mem \in {job[q].mem, 0}
  BY <1>1, <1>2, <1>3, JobBegins
<1>5. MemTypeOK'
  BY <1>1, <1>2, <1>4 DEF MemTypeOK, Job
<1> QED BY <1>1, <1>2, <1>4, <1>5, MoveNothing, MemInvPartsNext

\* growproc() with a negative argument.
LEMMA ShrinkOK == ASSUME MemInv, NEW p \in MemProc, Shrink(p) PROVE MemInv'
<1>1. MemTypeOK /\ JobsApart /\ PagesInv
  BY MemInvParts
<1>2. UNCHANGED <<dirOf, job>> /\ Alive(p)
  BY DEF Shrink, Runs
<1>3. PICK n \in 0 .. sz[p] - 1 :
        /\ sz' = [sz EXCEPT ![p] = IF n = 0 THEN @ ELSE n]
        /\ freePages' = freePages \cup PagesAt(dirOf[p], Dealloc(dirOf[p], sz[p], n))
        /\ vm' = Unmap(dirOf[p], Dealloc(dirOf[p], sz[p], n))
  BY DEF Shrink
<1>4. dirOf[p] \in Page /\ dirOf[p] \in Dirs
  BY <1>1, <1>2, DirsDef DEF Alive, MemTypeOK
<1>5. sz' \in [MemProc -> 0 .. MaxSz]
  <2>1. sz[p] \in 0 .. MaxSz
    BY <1>1 DEF MemTypeOK
  <2>2. n \in 0 .. MaxSz
    BY <2>1, MemoryAssumption
  <2> QED BY <1>1, <1>3, <2>2 DEF MemTypeOK
<1>6. MemTypeOK'
  BY <1>1, <1>2, <1>3, <1>4, <1>5, FreedTypes DEF MemTypeOK, Dir
<1>7. JobsApart' /\ Dirs' = Dirs
  BY <1>1, <1>2 DEF Dirs, Building, JobsApart, JobOK, JobsDiffer, New, Alive
<1> QED BY <1>1, <1>2, <1>3, <1>4, <1>6, <1>7, MoveToFree, MemInvPartsNext

\* exec() gives up.
LEMMA BadProgramOK == ASSUME MemInv, NEW p \in MemProc, BadProgram(p) PROVE MemInv'
  BY AbandonOK DEF BadProgram, Doing

\* exit(), and wait() by the parent.
LEMMA ExitWaitOK == ASSUME MemInv, NEW p \in MemProc, ExitWait(p) PROVE MemInv'
<1> DEFINE d == dirOf[p]
<1>1. MemTypeOK /\ JobsApart /\ PagesInv
  BY MemInvParts
<1>2. /\ job' = job /\ job[p].op = "none" /\ d # 0
      /\ freePages' = freePages \cup Freed(d) /\ vm' = freevm(d)
      /\ dirOf' = [dirOf EXCEPT ![p] = 0] /\ sz' = [sz EXCEPT ![p] = 0]
  BY DEF ExitWait, Call, Doing, Alive
<1>3. d \in Page /\ d \in Dirs
  BY <1>1, <1>2, DirsDef DEF MemTypeOK
<1>4. dirOf'[p] = 0 /\ \A q \in MemProc : q # p => dirOf'[q] = dirOf[q]
  BY <1>1, <1>2 DEF MemTypeOK
<1>5. MemTypeOK'
  <2>1. 0 \in 0 .. MaxSz
    BY MemoryAssumption
  <2>2. dirOf' \in [MemProc -> Page \cup {0}] /\ sz' \in [MemProc -> 0 .. MaxSz]
    BY <1>1, <1>2, <2>1 DEF MemTypeOK
  <2> QED BY <1>1, <1>2, <1>3, <2>2, FreedTypes DEF MemTypeOK, Dir
<1>6. \A q \in MemProc : q # p => dirOf[q] # d
  BY <1>1, <1>2 DEF JobsApart, JobsDiffer, Alive
<1>7. ASSUME NEW q \in MemProc PROVE job[q].d # d
  <2>1. JobOK(q) /\ job[q].op \in {"none", "grow", "fork", "exec"}
    BY <1>1 DEF JobsApart, MemTypeOK
  <2> QED BY <2>1, <1>2, <1>6 DEF JobOK, New
<1>8. \A x : x \in Dirs <=> x # 0 /\ \E q \in MemProc : dirOf[q] = x \/ job[q].d = x
  BY DEF Dirs, Building
<1>9. \A x : x \in Dirs' <=> x # 0 /\ \E q \in MemProc : dirOf'[q] = x \/ job'[q].d = x
  BY DEF Dirs, Building
<1>10. d \notin Dirs' /\ Dirs' \subseteq Dirs /\ \A e \in Dirs : e # d => e \in Dirs'
  BY <1>2, <1>4, <1>6, <1>7, <1>8, <1>9
<1>11. \A q \in MemProc : New(q)' <=> New(q)
  BY <1>2 DEF New
<1>12. ASSUME NEW q \in MemProc PROVE JobOK(q)'
  <2>1. JobOK(q) /\ job[q].kid \in MemProc
    BY <1>1 DEF JobsApart, MemTypeOK
  <2> QED BY <2>1, <1>2, <1>4, <1>11 DEF JobOK, Alive, New
<1>13. ASSUME NEW q \in MemProc, NEW r \in MemProc, q # r PROVE JobsDiffer(q, r)'
  <2>1. JobsDiffer(q, r)
    BY <1>1, <1>13 DEF JobsApart
  <2> QED BY <2>1, <1>2, <1>4, <1>11 DEF JobsDiffer, Alive
<1>14. JobsApart'
  BY <1>12, <1>13 DEF JobsApart
<1> QED BY <1>1, <1>2, <1>3, <1>5, <1>10, <1>14, MoveAll, MemInvPartsNext

-----------------------------------------------------------------------------

\* kinit() and userinit() leave each page with one use.
LEMMA MemInitOK == MemInit => MemInv
<1> SUFFICES ASSUME MemInit PROVE MemInv
  OBVIOUS
<1>1. /\ NKPT \in Nat /\ NKPT >= 1 /\ NPage \in Nat /\ NPage >= NKPT + 3
      /\ 0 \in Va /\ 0 \in PageTables /\ 0 \notin Page /\ 1 \in Page
      /\ NKPT + 2 \in Page /\ NKPT + 3 \in Page /\ 2 .. NKPT + 1 \subseteq Page
  <2>1. 0 \in Va
    BY MemoryAssumption DEF Va
  <2>2. 0 \div NPTE = 0
    BY MemoryAssumption
  <2> QED BY <2>1, <2>2, MemoryAssumption DEF Page, PageTables
<1>2. /\ dirOf[firstproc] = 1 /\ \A p \in MemProc : p # firstproc => dirOf[p] = 0
      /\ \A p \in MemProc : job[p] = NoJob
  BY MemoryAssumption DEF MemInit
<1>3. /\ \A e \in Page : e # 1 => vm[e] = EmptyDir
      /\ vm[1].kpt = 2 .. NKPT + 1
      /\ vm[1].pt = [EmptyDir.pt EXCEPT ![0] = NKPT + 2]
      /\ vm[1].pte = [EmptyDir.pte EXCEPT ![0] = NKPT + 3]
  BY <1>1 DEF MemInit, EmptyDir
<1>4. MemTypeOK
  <2>1. freePages \subseteq Page
    <3>1. freePages = NKPT + 4 .. NPage
      BY DEF MemInit
    <3> QED BY <1>1, <3>1 DEF Page
  <2>2. vm \in [Page -> Dir]
    <3>1. [EmptyDir EXCEPT !.kpt = 2 .. NKPT + 1, !.pt[0] = NKPT + 2, !.pte[0] = NKPT + 3] \in Dir
      BY <1>1 DEF EmptyDir, Dir
    <3>2. EmptyDir \in Dir
      BY EmptyDirFacts DEF Dir
    <3> QED BY <3>1, <3>2 DEF MemInit
  <2>3. dirOf \in [MemProc -> Page \cup {0}] /\ sz \in [MemProc -> 0 .. MaxSz]
    <3>1. 0 \in 0 .. MaxSz /\ 1 \in 0 .. MaxSz
      BY MemoryAssumption
    <3> QED BY <1>1, <3>1 DEF MemInit
  <2>4. job \in [MemProc -> Job]
    BY NoJobFacts DEF MemInit
  <2> QED BY <2>1, <2>2, <2>3, <2>4 DEF MemTypeOK, Job, Dir
<1>5. JobsApart
  BY <1>2, NoJobFacts DEF JobsApart, JobOK, JobsDiffer, Alive, New
<1>6. Dirs = {1}
  <2>1. \A x : x \in Dirs <=> x = 1
    BY <1>2, NoJobFacts, MemoryAssumption DEF Dirs, Building
  <2> QED BY <2>1
<1>7. \A x : x \in Tables(1) => x \in 1 .. NKPT + 2
  <2>1. \A t \in PageTables : vm[1].pt[t] \in {0, NKPT + 2}
    BY <1>1, <1>3 DEF EmptyDir
  <2>3. 1 \in Page /\ TablesAre /\ vm[1].kpt = 2 .. NKPT + 1
    BY <1>1, <1>3, <1>4, TablesNow
  <2>4. \A x : x \in Tables(1) => x = 1 \/ x \in vm[1].kpt \/ (x # 0 /\ \E t \in PageTables : vm[1].pt[t] = x)
    BY <2>3, Zenon DEF TablesAre
  <2>2. \A x : x \in Tables(1) => x = 1 \/ x \in 2 .. NKPT + 1 \/ x = NKPT + 2
    BY <2>1, <2>3, <2>4, Zenon
  <2> QED BY <1>1, <2>2
<1>8. \A va \in Va : vm[1].pte[va] = IF va = 0 THEN NKPT + 3 ELSE 0
  BY <1>1, <1>3 DEF EmptyDir
<1>9. \A x : x \in Mapped(1) => x = NKPT + 3
  BY <1>1, <1>4, <1>8, TablesNow DEF TablesAre
<1>10. freePages = NKPT + 4 .. NPage
  BY DEF MemInit
<1>11. UsedOnce
  <2>1. \A x \in Tables(1) : x \notin Mapped(1) /\ x \notin freePages
    BY <1>1, <1>7, <1>9, <1>10
  <2>2. \A x \in Mapped(1) : x \notin freePages
    BY <1>1, <1>9, <1>10
  <2>3. \A q \in MemProc : job[q].mem = 0
    BY <1>2, NoJobFacts
  <2>4. \A v, w \in Va : v # w /\ vm[1].pte[v] # 0 => vm[1].pte[v] # vm[1].pte[w]
    BY <1>1, <1>8
  <2> QED BY <1>3, <1>6, <2>1, <2>2, <2>3, <2>4 DEF UsedOnce
<1> QED BY <1>4, <1>5, <1>11, PagesInvNow, MemInvParts

\* The invariant of the page allocator and the address spaces, for any number of
\* processes and pages, whatever call runs out of memory and where.
THEOREM MemInvariant == MemSpec => []MemInv
<1>1. MemInv /\ [MemNext]_memvars => MemInv'
  <2> SUFFICES ASSUME MemInv, [MemNext]_memvars PROVE MemInv'
    OBVIOUS
  <2>1. CASE UNCHANGED memvars
    BY <2>1, NothingMoves DEF memvars
  <2>2. ASSUME NEW p \in MemProc,
               \/ SetupDir(p) \/ SetupKpt(p) \/ AllocMem(p) \/ AllocTable(p) \/ MapPage(p) \/ JobEnds(p)
               \/ Grow(p) \/ Shrink(p) \/ ExecMem(p) \/ BadProgram(p) \/ ExitWait(p)
        PROVE  MemInv'
    BY <2>2, SetupDirOK, SetupKptOK, AllocMemOK, AllocTableOK, MapPageOK, JobEndsOK,
       GrowOK, ShrinkOK, ExecMemOK, BadProgramOK, ExitWaitOK
  <2>3. ASSUME NEW p \in MemProc, NEW kid \in MemProc, ForkMem(p, kid) PROVE MemInv'
    BY <2>3, ForkMemOK
  <2> QED BY <2>1, <2>2, <2>3 DEF MemNext
<1> QED BY <1>1, MemInitOK, PTL DEF MemSpec

\* A physical page is free, or in one place of one address space, or on its way
\* into one: never two of these, whichever kalloc() of fork(), exec() and sbrk()
\* fails and whatever other processes do meanwhile.
THEOREM MemPagesUsedOnce == MemSpec => []PagesUsedOnce
<1>1. MemInv => PagesUsedOnce
  BY DEF MemInv
<1> QED BY <1>1, MemInvariant, PTL
=============================================================================
