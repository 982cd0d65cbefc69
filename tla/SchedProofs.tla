---------------------------- MODULE SchedProofs ----------------------------
(***************************************************************************)
(* Proofs about Sched for any set of CPUs, any number of processes and any *)
(* sleeps: no panic of the spin locks or of sched() is reached, a kernel   *)
(* stack is used by one CPU at a time, no wakeup is lost, and interrupts   *)
(* are on again wherever no lock is held.                                  *)
(***************************************************************************)
EXTENDS Sched, TLAPS

Locks == {"tickslock", "ptable"}
CpuRec == [on : BOOLEAN, ncli : Int, intena : BOOLEAN]

\* A process whose wait is over.
LEMMA NotPositive == ~(0 > 0)
  OBVIOUS

\* The flags a CPU has at the location l.
Flags(r, l) == /\ r \in CpuRec
               /\ r.ncli = Depth(l)
               /\ r.on <=> l \in Open
               /\ l \in FromOpen => r.intena

\* A step after which c holds the locks of l; nobody else gains or loses one.
OwnLocks(c, l) == /\ lock' \in [Locks -> CPU \cup {Free}]
                  /\ \A d \in CPU, m \in Locks : d # c => (lock'[m] = d <=> lock[m] = d)
                  /\ lock'["tickslock"] = c <=> l \in HoldsTicks
                  /\ lock'["ptable"] = c <=> l \in HoldsPtable

\* A step after which p is at l and has the ticks left that it needs there.
OwnTicks(p, l) == /\ left' \in [Proc -> 0 .. MaxSleep]
                  /\ \A q \in Proc : q # p => left'[q] = left[q]
                  /\ l \in {"spin_sleep", "sleep_rel"} => left'[p] > 0
                  /\ l \in {"sleep_set", "sched_sleep"} => left'[p] > 0 \/ ipc[cpu0] = "spin_wakeup"

Resumes == [Proc -> {"user", "reacquire"}]

-----------------------------------------------------------------------------
(* spinlock.c                                                              *)

\* pushcli() turns interrupts off and remembers, outermost, whether they were on.
LEMMA Push ==
  ASSUME NEW r \in CpuRec
  PROVE  /\ pushcli(r) \in CpuRec
         /\ ~pushcli(r).on
         /\ pushcli(r).ncli = r.ncli + 1
         /\ r.ncli = 0 => pushcli(r).intena = r.on
         /\ r.ncli # 0 => pushcli(r).intena = r.intena
BY DEF pushcli, CpuRec

\* popcli() turns them on again at the outermost level, if they were.
LEMMA Pop ==
  ASSUME NEW r \in CpuRec
  PROVE  /\ popcli(r) \in CpuRec
         /\ popcli(r).ncli = r.ncli - 1
         /\ popcli(r).on <=> r.on \/ (r.ncli = 1 /\ r.intena)
         /\ popcli(r).intena = r.intena
<1> DEFINE b == r.on \/ (r.ncli = 1 /\ r.intena)
<1>1. popcli(r) = [[r EXCEPT !.ncli = r.ncli - 1] EXCEPT !.on = b]
  BY DEF popcli, CpuRec
<1>2. b \in BOOLEAN /\ r.ncli - 1 \in Int /\ (b <=> r.on \/ (r.ncli = 1 /\ r.intena))
  BY DEF CpuRec
<1> HIDE DEF b
<1>3. [[r EXCEPT !.ncli = r.ncli - 1] EXCEPT !.on = b] \in CpuRec
  BY <1>2, Zenon DEF CpuRec
<1> QED BY <1>1, <1>2, <1>3 DEF CpuRec

\* The same, with interrupts turned on by iret or by sti().
LEMMA PopOn ==
  ASSUME NEW r \in CpuRec
  PROVE  /\ [popcli(r) EXCEPT !.on = TRUE] \in CpuRec
         /\ [popcli(r) EXCEPT !.on = TRUE].ncli = r.ncli - 1
         /\ [popcli(r) EXCEPT !.on = TRUE].on = TRUE
BY Pop, Zenon DEF CpuRec

\* Whoever takes a lock or lets go of it changes what it holds and nothing else.
LEMMA TakeOwn ==
  ASSUME TypeOK, NEW c \in CPU, NEW l \in Locks, Take(l, c)
  PROVE  /\ lock' \in [Locks -> CPU \cup {Free}]
         /\ lock'[l] = c
         /\ \A m \in Locks : m # l => lock'[m] = lock[m]
         /\ \A d \in CPU, m \in Locks : d # c => (lock'[m] = d <=> lock[m] = d)
BY SchedAssumption DEF Take, Locks, TypeOK

\* The same for release().
LEMMA DropOwn ==
  ASSUME TypeOK, NEW c \in CPU, NEW l \in Locks, lock[l] = c, Drop(l)
  PROVE  /\ lock' \in [Locks -> CPU \cup {Free}]
         /\ lock'[l] # c
         /\ \A m \in Locks : m # l => lock'[m] = lock[m]
         /\ \A d \in CPU, m \in Locks : d # c => (lock'[m] = d <=> lock[m] = d)
BY SchedAssumption DEF Drop, Locks, TypeOK

-----------------------------------------------------------------------------
(* Steps of a kernel thread                                                *)

\* What the invariant says of a thread that executes at l.
LEMMA AtFacts ==
  ASSUME SchedInv, NEW c \in CPU, NEW p \in Proc, NEW l, At(c, p, l)
  PROVE  /\ TypeOK
         /\ cur[c] = p /\ kpc[p] = l /\ ipc[c] = "none" /\ l \in PC
         /\ cpu[c] \in CpuRec
         /\ lock["tickslock"] = c <=> l \in HoldsTicks
         /\ lock["ptable"] = c <=> l \in HoldsPtable
         /\ cpu[c].ncli = Depth(l)
         /\ cpu[c].on <=> l \in Open
         /\ l \in FromOpen => cpu[c].intena
         /\ l # "dead"
         /\ state[p] = StateAt(l)
         /\ \A d \in CPU : cur[d] = p => d = c
         /\ resume \in Resumes
<1>1. TypeOK /\ CpuOK(c) /\ StateOK(p)
  BY DEF SchedInv
<1>2. cur[c] = p /\ kpc[p] = l /\ ipc[c] = "none" /\ p # NoProc
  BY SchedAssumption DEF At, Proc
<1>3. Here(c) = l
  BY <1>2 DEF Here
<1>4. cpu[c] \in CpuRec /\ l \in PC
  BY <1>1, <1>2 DEF TypeOK, CpuRec
<1>5. resume \in Resumes
  BY DEF SchedInv, StateOK, TypeOK, Resumes
<1>6. /\ lock["tickslock"] = c <=> l \in HoldsTicks
      /\ lock["ptable"] = c <=> l \in HoldsPtable
      /\ cpu[c].ncli = Depth(l)
      /\ cpu[c].on <=> l \in Open
      /\ l \in FromOpen => cpu[c].intena
  BY <1>1, <1>3 DEF CpuOK
<1>7. l # "dead" /\ state[p] = StateAt(l) /\ \A d \in CPU : cur[d] = p => d = c
  BY <1>1, <1>2 DEF StateOK
<1> QED BY <1>1, <1>2, <1>4, <1>5, <1>6, <1>7

\* The other CPUs notice nothing of a step of c that leaves their threads,
\* flags and locks alone.
LEMMA OtherCpus ==
  ASSUME SchedInv, NEW c \in CPU,
         \A d \in CPU : d # c =>
           /\ cur'[d] = cur[d] /\ ipc'[d] = ipc[d] /\ spc'[d] = spc[d] /\ cpu'[d] = cpu[d]
           /\ cur[d] # NoProc => kpc'[cur[d]] = kpc[cur[d]],
         \A d \in CPU, m \in Locks : d # c => (lock'[m] = d <=> lock[m] = d),
         CpuOK(c)'
  PROVE  \A d \in CPU : CpuOK(d)'
<1> SUFFICES ASSUME NEW d \in CPU, d # c PROVE CpuOK(d)'
  OBVIOUS
<1>1. CpuOK(d)
  BY DEF SchedInv
<1>2. Here(d)' = Here(d) /\ Below(d)' = Below(d)
  BY DEF Here, Below
<1>3. /\ lock'["tickslock"] = d <=> lock["tickslock"] = d
      /\ lock'["ptable"] = d <=> lock["ptable"] = d
  BY DEF Locks
<1> QED BY <1>1, <1>2, <1>3 DEF CpuOK

\* A step of the thread p on c to the location l.
LEMMA ThreadCpu ==
  ASSUME SchedInv, NEW c \in CPU, NEW p \in Proc, NEW l, NEW r,
         ipc[c] = "none", cur[c] = p, \A d \in CPU : cur[d] = p => d = c,
         UNCHANGED <<cur, spc, ipc>>, Goto(p, l), SetCpu(c, r), Flags(r, l), OwnLocks(c, l)
  PROVE  \A d \in CPU : CpuOK(d)'
<1>1. TypeOK /\ CpuOK(c)
  BY DEF SchedInv
<1>2. p # NoProc
  BY SchedAssumption DEF Proc
<1>3. kpc'[p] = l /\ \A q \in Proc : q # p => kpc'[q] = kpc[q]
  BY <1>1 DEF Goto, TypeOK
<1>4. cpu'[c] = r /\ \A d \in CPU : d # c => cpu'[d] = cpu[d]
  BY <1>1 DEF TypeOK, SetCpu
<1>5. Here(c)' = l
  BY <1>2, <1>3 DEF Here
<1>6. CpuOK(c)'
  BY <1>1, <1>2, <1>4, <1>5 DEF CpuOK, Flags, OwnLocks
<1>7. \A d \in CPU : d # c /\ cur[d] # NoProc => kpc'[cur[d]] = kpc[cur[d]]
  BY <1>1, <1>3 DEF TypeOK
<1>8. \A d \in CPU, m \in Locks : d # c => (lock'[m] = d <=> lock[m] = d)
  BY DEF OwnLocks
<1> QED BY <1>2, <1>4, <1>6, <1>7, <1>8, OtherCpus

\* The states of processes after a step of the thread p, which stays on c.
LEMMA ThreadState ==
  ASSUME SchedInv, NEW c \in CPU, NEW p \in Proc, NEW l, l # "dead",
         cur[c] = p, cur' = cur, intena' = intena, Goto(p, l),
         state' = [state EXCEPT ![p] = StateAt(l)], resume' \in Resumes
  PROVE  \A q \in Proc : StateOK(q)'
<1>1. TypeOK
  BY DEF SchedInv
<1>2. kpc'[p] = l /\ state'[p] = StateAt(l)
  BY <1>1 DEF Goto, TypeOK
<1>3. \A q \in Proc : q # p => kpc'[q] = kpc[q] /\ state'[q] = state[q]
  BY <1>1 DEF Goto, TypeOK
<1> SUFFICES ASSUME NEW q \in Proc PROVE StateOK(q)'
  OBVIOUS
<1>4. StateOK(q) /\ resume'[q] \in {"user", "reacquire"}
  BY DEF SchedInv, Resumes
<1>5. CASE q = p
  BY <1>2, <1>4, <1>5 DEF StateOK
<1>6. CASE q # p
  BY <1>3, <1>4, <1>6 DEF StateOK
<1> QED BY <1>5, <1>6

\* The ticks of processes after such a step.
LEMMA ThreadTicks ==
  ASSUME SchedInv, NEW p \in Proc, NEW l, ipc' = ipc, Goto(p, l), OwnTicks(p, l),
         state' = [state EXCEPT ![p] = StateAt(l)]
  PROVE  \A q \in Proc : TicksOK(q)'
<1>1. TypeOK
  BY DEF SchedInv
<1>2. kpc'[p] = l /\ state'[p] = StateAt(l)
  BY <1>1 DEF Goto, TypeOK
<1>3. \A q \in Proc : q # p => kpc'[q] = kpc[q] /\ state'[q] = state[q]
  BY <1>1 DEF Goto, TypeOK
<1>4. StateAt(l) = "SLEEPING" => l = "sched_sleep"
  BY DEF StateAt
<1> SUFFICES ASSUME NEW q \in Proc PROVE TicksOK(q)'
  OBVIOUS
<1>5. TicksOK(q)
  BY DEF SchedInv
<1> QED BY <1>2, <1>3, <1>4, <1>5 DEF TicksOK, OwnTicks

\* The types after a step of a thread.
LEMMA ThreadType ==
  ASSUME TypeOK, NEW c \in CPU, NEW p \in Proc, NEW l \in PC, NEW r, Flags(r, l),
         UNCHANGED <<sch, ipc>>, Goto(p, l), SetCpu(c, r), OwnLocks(c, l),
         state' \in [Proc -> State], killed' \in [Proc -> BOOLEAN], resume' \in Resumes,
         intena' = intena, left' \in [Proc -> 0 .. MaxSleep]
  PROVE  TypeOK'
<1>1. {"user", "reacquire"} \subseteq PC
  BY DEF PC
<1>2. cur' = cur /\ spc' = spc /\ pos' = pos /\ ipc' = ipc
  BY DEF sch
<1>3. kpc' \in [Proc -> PC]
  BY DEF TypeOK, Goto
<1>4. cpu' \in [CPU -> [on : BOOLEAN, ncli : Int, intena : BOOLEAN]]
  BY DEF TypeOK, SetCpu, Flags, CpuRec
<1>5. resume' \in [Proc -> PC]
  BY <1>1 DEF Resumes
<1>6. lock' \in [{"tickslock", "ptable"} -> CPU \cup {Free}]
  BY DEF OwnLocks, Locks
<1> QED BY <1>2, <1>3, <1>4, <1>5, <1>6 DEF TypeOK

\* A step of the thread p on c from one location to the next, with everything
\* the location l requires: the form of most steps below.
LEMMA ThreadStep ==
  ASSUME SchedInv, NEW c \in CPU, NEW p \in Proc, NEW o, At(c, p, o),
         NEW l \in PC, l # "dead", NEW r, UNCHANGED <<sch, ipc, killed, intena>>,
         Goto(p, l), SetCpu(c, r), Flags(r, l), OwnLocks(c, l), OwnTicks(p, l),
         state' = [state EXCEPT ![p] = StateAt(l)], resume' \in Resumes
  PROVE  SchedInv'
<1>1. TypeOK /\ cur[c] = p /\ ipc[c] = "none" /\ \A d \in CPU : cur[d] = p => d = c
  BY AtFacts
<1>2. /\ cur' = cur /\ ipc' = ipc /\ intena' = intena /\ killed' = killed
      /\ UNCHANGED <<cur, spc, ipc>> /\ UNCHANGED <<sch, ipc>>
  BY DEF sch
<1>3. \A d \in CPU : CpuOK(d)'
  BY <1>1, <1>2, ThreadCpu, Zenon
<1>4. \A q \in Proc : StateOK(q)'
  BY <1>1, <1>2, ThreadState, Zenon
<1>5. \A q \in Proc : TicksOK(q)'
  BY <1>1, <1>2, ThreadTicks, Zenon
<1>6. state' \in [Proc -> State] /\ killed' \in [Proc -> BOOLEAN] /\ left' \in [Proc -> 0 .. MaxSleep]
  BY <1>1, <1>2 DEF TypeOK, StateAt, State, OwnTicks
<1>7. TypeOK'
  BY <1>1, <1>2, <1>6, ThreadType, Zenon
<1> QED BY <1>3, <1>4, <1>5, <1>7 DEF SchedInv

\* A process whose location is not in sched() is RUNNING before and after.
LEMMA StateKept ==
  ASSUME SchedInv, NEW c \in CPU, NEW p \in Proc, NEW o, At(c, p, o), NEW l,
         o \notin SchedPC, l \notin SchedPC, state' = state
  PROVE  state' = [state EXCEPT ![p] = StateAt(l)]
<1>1. TypeOK /\ state[p] = StateAt(o)
  BY AtFacts
<1>2. StateAt(o) = "RUNNING" /\ StateAt(l) = "RUNNING"
  BY DEF StateAt, SchedPC
<1> QED BY <1>1, <1>2 DEF TypeOK

\* acquire() of k by c: the xchg() succeeds.
LEMMA TakesLock ==
  ASSUME SchedInv, NEW c \in CPU, NEW p \in Proc, NEW o, At(c, p, o), NEW l,
         NEW k \in Locks, Take(k, c),
         l \in HoldsTicks <=> (k = "tickslock" \/ o \in HoldsTicks),
         l \in HoldsPtable <=> (k = "ptable" \/ o \in HoldsPtable)
  PROVE  OwnLocks(c, l) /\ lock[k] = Free
<1>1. /\ TypeOK
      /\ lock["tickslock"] = c <=> o \in HoldsTicks
      /\ lock["ptable"] = c <=> o \in HoldsPtable
  BY AtFacts
<1>2. /\ lock' \in [Locks -> CPU \cup {Free}]
      /\ lock'[k] = c
      /\ \A m \in Locks : m # k => lock'[m] = lock[m]
      /\ \A d \in CPU, m \in Locks : d # c => (lock'[m] = d <=> lock[m] = d)
  BY <1>1, TakeOwn
<1>3. lock'["tickslock"] = c <=> l \in HoldsTicks
  BY <1>1, <1>2 DEF Locks
<1>4. lock'["ptable"] = c <=> l \in HoldsPtable
  BY <1>1, <1>2 DEF Locks
<1> QED BY <1>2, <1>3, <1>4 DEF OwnLocks, Take

\* release() of k by c.
LEMMA DropsLock ==
  ASSUME SchedInv, NEW c \in CPU, NEW p \in Proc, NEW o, At(c, p, o), NEW l,
         NEW k \in Locks, k = "tickslock" => o \in HoldsTicks, k = "ptable" => o \in HoldsPtable, Drop(k),
         l \in HoldsTicks <=> (k # "tickslock" /\ o \in HoldsTicks),
         l \in HoldsPtable <=> (k # "ptable" /\ o \in HoldsPtable)
  PROVE  OwnLocks(c, l)
<1>1. /\ TypeOK
      /\ lock["tickslock"] = c <=> o \in HoldsTicks
      /\ lock["ptable"] = c <=> o \in HoldsPtable
  BY AtFacts
<1>2. lock[k] = c
  BY <1>1 DEF Locks
<1>3. /\ lock' \in [Locks -> CPU \cup {Free}]
      /\ lock'[k] # c
      /\ \A m \in Locks : m # k => lock'[m] = lock[m]
      /\ \A d \in CPU, m \in Locks : d # c => (lock'[m] = d <=> lock[m] = d)
  BY <1>1, <1>2, DropOwn
<1>4. lock'["tickslock"] = c <=> l \in HoldsTicks
  BY <1>1, <1>3 DEF Locks
<1>5. lock'["ptable"] = c <=> l \in HoldsPtable
  BY <1>1, <1>3 DEF Locks
<1> QED BY <1>3, <1>4, <1>5 DEF OwnLocks

\* Steps that leave the ticks alone and go where none are needed.
LEMMA TicksKept ==
  ASSUME SchedInv, NEW p \in Proc, NEW l, left' = left,
         l \notin {"spin_sleep", "sleep_rel", "sleep_set", "sched_sleep"}
  PROVE  OwnTicks(p, l)
BY DEF OwnTicks, SchedInv, TypeOK

\* acquire(): the thread goes on with one more lock.
LEMMA Takes ==
  ASSUME SchedInv, NEW c \in CPU, NEW p \in Proc, NEW o, At(c, p, o),
         NEW l \in PC, l # "dead", NEW k \in Locks, Take(k, c), Goto(p, l),
         UNCHANGED <<cpu, sch, ipc, killed, resume, intena>>,
         l \in HoldsTicks <=> (k = "tickslock" \/ o \in HoldsTicks),
         l \in HoldsPtable <=> (k = "ptable" \/ o \in HoldsPtable),
         Depth(l) = Depth(o), o \notin Open, l \notin Open, l \in FromOpen => o \in FromOpen,
         state' = [state EXCEPT ![p] = StateAt(l)], OwnTicks(p, l)
  PROVE  SchedInv'
<1>1. /\ TypeOK
      /\ cpu[c] \in CpuRec /\ cpu[c].ncli = Depth(o)
      /\ cpu[c].on <=> o \in Open
      /\ o \in FromOpen => cpu[c].intena
      /\ resume \in Resumes
  BY AtFacts
<1>2. OwnLocks(c, l)
  BY TakesLock, Zenon
<1>3. Flags(cpu[c], l)
  BY <1>1 DEF Flags
<1>4. SetCpu(c, cpu[c]) /\ resume' \in Resumes
  BY <1>1 DEF TypeOK, SetCpu
<1>5. UNCHANGED <<sch, ipc, killed, intena>>
  OBVIOUS
<1> QED BY <1>2, <1>3, <1>4, <1>5, ThreadStep, Zenon

\* pushcli(), on the way to a "spin" location.
LEMMA Pushes ==
  ASSUME SchedInv, NEW c \in CPU, NEW p \in Proc, NEW o, At(c, p, o),
         NEW l \in PC, l # "dead", Goto(p, l), SetCpu(c, pushcli(cpu[c])),
         UNCHANGED <<lock, sch, ipc, killed, resume, intena, state>>,
         Depth(l) = Depth(o) + 1, l \notin Open, l \in FromOpen => o \in FromOpen \cup Open,
         l \in HoldsTicks <=> o \in HoldsTicks, l \in HoldsPtable <=> o \in HoldsPtable,
         o \notin SchedPC, l \notin SchedPC, OwnTicks(p, l)
  PROVE  SchedInv'
<1> DEFINE r == pushcli(cpu[c])
<1>1. /\ TypeOK
      /\ cpu[c] \in CpuRec /\ cpu[c].ncli = Depth(o)
      /\ lock["tickslock"] = c <=> o \in HoldsTicks
      /\ lock["ptable"] = c <=> o \in HoldsPtable
      /\ cpu[c].on <=> o \in Open
      /\ o \in FromOpen => cpu[c].intena
      /\ resume \in Resumes
  BY AtFacts
<1>2. /\ r \in CpuRec /\ ~r.on /\ r.ncli = cpu[c].ncli + 1
      /\ cpu[c].ncli = 0 => r.intena = cpu[c].on
      /\ cpu[c].ncli # 0 => r.intena = cpu[c].intena
  BY <1>1, Push
<1> HIDE DEF r
<1>3. o \in Open => cpu[c].ncli = 0
  BY <1>1 DEF Depth
<1>4. o \in FromOpen => cpu[c].ncli # 0
  BY <1>1 DEF Depth, FromOpen, Open
<1>5. Flags(r, l)
  BY <1>1, <1>2, <1>3, <1>4 DEF Flags
<1>6. state' = [state EXCEPT ![p] = StateAt(l)]
  BY StateKept
<1>7. OwnLocks(c, l)
  BY <1>1 DEF OwnLocks, TypeOK, Locks
<1>8. UNCHANGED <<sch, ipc, killed, intena>> /\ resume' \in Resumes /\ SetCpu(c, r)
  BY <1>1 DEF r
<1> QED BY <1>5, <1>6, <1>7, <1>8, ThreadStep, Zenon

\* release() of the only lock, with interrupts on afterwards.
LEMMA Opens ==
  ASSUME SchedInv, NEW c \in CPU, NEW p \in Proc, NEW o, At(c, p, o),
         NEW l \in PC, l # "dead", NEW k \in Locks, Drop(k), Goto(p, l),
         SetCpu(c, [popcli(cpu[c]) EXCEPT !.on = TRUE]),
         UNCHANGED <<sch, ipc, killed, intena, state>>, resume' \in Resumes,
         Depth(o) = 1, l \in Open, o \notin SchedPC,
         o \in HoldsTicks <=> k = "tickslock", o \in HoldsPtable <=> k = "ptable", OwnTicks(p, l)
  PROVE  SchedInv'
<1> DEFINE r == [popcli(cpu[c]) EXCEPT !.on = TRUE]
<1>1. cpu[c] \in CpuRec /\ cpu[c].ncli = Depth(o)
  BY AtFacts
<1>2. r \in CpuRec /\ r.ncli = 0 /\ r.on = TRUE
  BY <1>1, PopOn
<1> HIDE DEF r
<1>3. Depth(l) = 0 /\ l \notin FromOpen /\ l \notin HoldsTicks /\ l \notin HoldsPtable /\ l \notin SchedPC
  BY DEF Depth, Open, FromOpen, HoldsTicks, HoldsPtable, SchedPC
<1>4. Flags(r, l)
  BY <1>2, <1>3 DEF Flags
<1>5. OwnLocks(c, l)
  BY <1>3, DropsLock, Zenon
<1>6. state' = [state EXCEPT ![p] = StateAt(l)]
  BY <1>3, StateKept
<1>7. UNCHANGED <<sch, ipc, killed, intena>> /\ SetCpu(c, r)
  BY DEF r
<1> QED BY <1>4, <1>5, <1>6, <1>7, ThreadStep, Zenon

-----------------------------------------------------------------------------
(* The actions of sys_sleep() and sleep()                                  *)

\* The pushcli() of acquire(&tickslock).
LEMMA SysSleepOK ==
  ASSUME SchedInv, NEW c \in CPU, NEW p \in Proc, SysSleep(c, p)
  PROVE  SchedInv'
<1>1. /\ At(c, p, "user") /\ Goto(p, "spin_new") /\ SetCpu(c, pushcli(cpu[c])) /\ left' = left
      /\ UNCHANGED <<lock, sch, ipc, killed, resume, intena, state>>
  BY DEF SysSleep
<1>2. /\ "spin_new" \in PC /\ "spin_new" \notin SchedPC /\ "user" \notin SchedPC
      /\ "spin_new" \notin Open /\ Depth("spin_new") = Depth("user") + 1
      /\ "spin_new" \in FromOpen => "user" \in FromOpen \cup Open
      /\ "spin_new" \in HoldsTicks <=> "user" \in HoldsTicks
      /\ "spin_new" \in HoldsPtable <=> "user" \in HoldsPtable
      /\ "spin_new" \notin {"dead", "spin_sleep", "sleep_rel", "sleep_set", "sched_sleep"}
  BY DEF PC, SchedPC, WaitPC, HoldsTicks, HoldsPtable, Depth, Open, Nested, FromOpen, Locks
<1>3. OwnTicks(p, "spin_new")
  BY <1>1, <1>2, TicksKept
<1> QED BY <1>1, <1>2, <1>3, Pushes, Zenon

\* The pushcli() of acquire(lk) at the end of sleep().
LEMMA ReacquireOK ==
  ASSUME SchedInv, NEW c \in CPU, NEW p \in Proc, Reacquire(c, p)
  PROVE  SchedInv'
<1>1. /\ At(c, p, "reacquire") /\ Goto(p, "spin_lk") /\ SetCpu(c, pushcli(cpu[c])) /\ left' = left
      /\ UNCHANGED <<lock, sch, ipc, killed, resume, intena, state>>
  BY DEF Reacquire
<1>2. /\ "spin_lk" \in PC /\ "spin_lk" \notin SchedPC /\ "reacquire" \notin SchedPC
      /\ "spin_lk" \notin Open /\ Depth("spin_lk") = Depth("reacquire") + 1
      /\ "spin_lk" \in FromOpen => "reacquire" \in FromOpen \cup Open
      /\ "spin_lk" \in HoldsTicks <=> "reacquire" \in HoldsTicks
      /\ "spin_lk" \in HoldsPtable <=> "reacquire" \in HoldsPtable
      /\ "spin_lk" \notin {"dead", "spin_sleep", "sleep_rel", "sleep_set", "sched_sleep"}
  BY DEF PC, SchedPC, WaitPC, HoldsTicks, HoldsPtable, Depth, Open, Nested, FromOpen, Locks
<1>3. OwnTicks(p, "spin_lk")
  BY <1>1, <1>2, TicksKept
<1> QED BY <1>1, <1>2, <1>3, Pushes, Zenon


\* acquire(&tickslock) and ticks0 = ticks.
LEMMA ReadTicks0OK ==
  ASSUME SchedInv, NEW c \in CPU, NEW p \in Proc, ReadTicks0(c, p)
  PROVE  SchedInv'
<1>1. /\ At(c, p, "spin_new") /\ Goto(p, "check") /\ Take("tickslock", c)
      /\ UNCHANGED <<cpu, sch, ipc, killed, resume, intena>> /\ state' = state
  BY DEF ReadTicks0
<1>2. /\ "tickslock" \in Locks /\ "check" \in PC /\ "check" # "dead"
      /\ "check" \in HoldsTicks <=> ("tickslock" = "tickslock" \/ "spin_new" \in HoldsTicks)
      /\ "check" \in HoldsPtable <=> ("tickslock" = "ptable" \/ "spin_new" \in HoldsPtable)
      /\ Depth("check") = Depth("spin_new") /\ "spin_new" \notin Open /\ "check" \notin Open
      /\ "check" \in FromOpen => "spin_new" \in FromOpen
  BY DEF PC, SchedPC, WaitPC, HoldsTicks, HoldsPtable, Depth, Open, Nested, FromOpen, Locks
<1>3. state' = [state EXCEPT ![p] = StateAt("check")]
  BY <1>1, StateKept DEF SchedPC
<1>4. OwnTicks(p, "check")
  BY DEF OwnTicks, ReadTicks0, SchedInv, TypeOK
<1> QED BY <1>1, <1>2, <1>3, <1>4, Takes, Zenon

\* The loop condition of sys_sleep(): it returns, or goes to sleep().
LEMMA CheckTicksOK ==
  ASSUME SchedInv, NEW c \in CPU, NEW p \in Proc, CheckTicks(c, p)
  PROVE  SchedInv'
<1>1. At(c, p, "check") /\ state' = state /\ resume' = resume /\ UNCHANGED <<sch, ipc, killed, intena>>
  BY DEF CheckTicks
<1>2. TypeOK /\ resume' \in Resumes
  BY <1>1, AtFacts
<1>3. CASE /\ Drop("tickslock") /\ SetCpu(c, [popcli(cpu[c]) EXCEPT !.on = TRUE])
           /\ Goto(p, "user") /\ left' = [left EXCEPT ![p] = 0]
  <2>1. /\ "tickslock" \in Locks /\ "user" \in PC /\ "user" # "dead" /\ "user" \in Open
        /\ Depth("check") = 1 /\ "check" \notin SchedPC
        /\ "check" \in HoldsTicks <=> "tickslock" = "tickslock"
        /\ "check" \in HoldsPtable <=> "tickslock" = "ptable"
    BY DEF PC, SchedPC, WaitPC, HoldsTicks, HoldsPtable, Depth, Open, Nested, FromOpen, Locks
  <2>2. OwnTicks(p, "user")
    BY <1>2, <1>3, SchedAssumption DEF OwnTicks, TypeOK
  <2>3. UNCHANGED <<sch, ipc, killed, intena, state>>
    BY <1>1
  <2> QED BY <1>1, <1>2, <1>3, <2>1, <2>2, <2>3, Opens, Zenon
<1>4. CASE /\ left[p] > 0 /\ SetCpu(c, pushcli(cpu[c]))
           /\ Goto(p, "spin_sleep") /\ UNCHANGED <<lock, left>>
  <2>1. /\ "spin_sleep" \in PC /\ "spin_sleep" \notin SchedPC /\ "check" \notin SchedPC
        /\ "spin_sleep" \notin Open /\ Depth("spin_sleep") = Depth("check") + 1
        /\ "spin_sleep" \in FromOpen => "check" \in FromOpen \cup Open
        /\ "spin_sleep" \in HoldsTicks <=> "check" \in HoldsTicks
        /\ "spin_sleep" \in HoldsPtable <=> "check" \in HoldsPtable /\ "spin_sleep" # "dead"
    BY DEF PC, SchedPC, WaitPC, HoldsTicks, HoldsPtable, Depth, Open, Nested, FromOpen, Locks
  <2>2. OwnTicks(p, "spin_sleep")
    BY <1>2, <1>4 DEF OwnTicks, TypeOK
  <2>3. UNCHANGED <<lock, sch, ipc, killed, resume, intena, state>>
    BY <1>1, <1>4
  <2> QED BY <1>1, <1>4, <2>1, <2>2, <2>3, Pushes, Zenon
<1> QED BY <1>3, <1>4 DEF CheckTicks

\* sleep(): acquire(&ptable.lock), with tickslock held.
LEMMA SleepLockOK ==
  ASSUME SchedInv, NEW c \in CPU, NEW p \in Proc, SleepLock(c, p)
  PROVE  SchedInv'
<1>1. /\ At(c, p, "spin_sleep") /\ Goto(p, "sleep_rel") /\ Take("ptable", c)
      /\ UNCHANGED <<cpu, sch, ipc, killed, resume, intena>> /\ state' = state /\ left' = left
  BY DEF SleepLock
<1>2. /\ "ptable" \in Locks /\ "sleep_rel" \in PC /\ "sleep_rel" # "dead"
      /\ "sleep_rel" \in HoldsTicks <=> ("ptable" = "tickslock" \/ "spin_sleep" \in HoldsTicks)
      /\ "sleep_rel" \in HoldsPtable <=> ("ptable" = "ptable" \/ "spin_sleep" \in HoldsPtable)
      /\ Depth("sleep_rel") = Depth("spin_sleep") /\ "spin_sleep" \notin Open /\ "sleep_rel" \notin Open
      /\ "sleep_rel" \in FromOpen => "spin_sleep" \in FromOpen
  BY DEF PC, SchedPC, WaitPC, HoldsTicks, HoldsPtable, Depth, Open, Nested, FromOpen, Locks
<1>3. state' = [state EXCEPT ![p] = StateAt("sleep_rel")]
  BY <1>1, StateKept DEF SchedPC
<1>4. OwnTicks(p, "sleep_rel")
  BY <1>1 DEF OwnTicks, SchedInv, TypeOK, TicksOK, At
<1> QED BY <1>1, <1>2, <1>3, <1>4, Takes, Zenon

\* sleep(): release(lk), with ptable.lock held.
LEMMA SleepReleaseOK ==
  ASSUME SchedInv, NEW c \in CPU, NEW p \in Proc, SleepRelease(c, p)
  PROVE  SchedInv'
<1> DEFINE r == popcli(cpu[c])
<1>1. /\ At(c, p, "sleep_rel") /\ Goto(p, "sleep_set") /\ Drop("tickslock") /\ SetCpu(c, r)
      /\ UNCHANGED <<sch, ipc, killed, intena>> /\ state' = state /\ left' = left /\ resume' = resume
  BY DEF SleepRelease
<1>2. /\ TypeOK /\ resume' \in Resumes
      /\ cpu[c] \in CpuRec /\ cpu[c].ncli = 2 /\ ~cpu[c].on /\ cpu[c].intena
  BY <1>1, AtFacts DEF Depth, Open, Nested, FromOpen
<1>3. r \in CpuRec /\ r.ncli = 1 /\ ~r.on /\ r.intena
  BY <1>2, Pop
<1> HIDE DEF r
<1>4. Flags(r, "sleep_set")
  BY <1>3 DEF Flags, Depth, Open, Nested
<1>5. OwnLocks(c, "sleep_set")
  BY <1>1, DropsLock DEF HoldsTicks, HoldsPtable, Locks, SchedPC
<1>6. state' = [state EXCEPT ![p] = StateAt("sleep_set")]
  BY <1>1, StateKept DEF SchedPC
<1>7. OwnTicks(p, "sleep_set")
  BY <1>1, <1>2 DEF OwnTicks, SchedInv, TypeOK, TicksOK, At
<1>8. "sleep_set" \in PC /\ "sleep_set" # "dead"
  BY DEF PC
<1> QED BY <1>1, <1>2, <1>4, <1>5, <1>6, <1>7, <1>8, ThreadStep, Zenon

\* sleep(): the process is SLEEPING, and only ptable.lock is held.
LEMMA SleepSetOK ==
  ASSUME SchedInv, NEW c \in CPU, NEW p \in Proc, SleepSet(c, p)
  PROVE  SchedInv'
<1>1. /\ At(c, p, "sleep_set") /\ Goto(p, "sched_sleep") /\ UNCHANGED <<sch, ipc, killed, intena>>
      /\ lock' = lock /\ cpu' = cpu /\ left' = left /\ resume' = resume
      /\ state' = [state EXCEPT ![p] = "SLEEPING"]
  BY DEF SleepSet, hw
<1>2. /\ TypeOK /\ resume' \in Resumes /\ cpu[c] \in CpuRec /\ cpu[c].ncli = 1 /\ ~cpu[c].on
      /\ lock["tickslock"] # c /\ lock["ptable"] = c
      /\ "sleep_set" \in FromOpen => cpu[c].intena
  BY <1>1, AtFacts DEF Depth, Open, Nested, HoldsTicks, HoldsPtable, SchedPC
<1>3. Flags(cpu[c], "sched_sleep")
  BY <1>2 DEF Flags, Depth, Open, Nested, FromOpen
<1>4. OwnLocks(c, "sched_sleep")
  BY <1>1, <1>2 DEF OwnLocks, TypeOK, Locks, HoldsTicks, HoldsPtable, SchedPC
<1>5. state' = [state EXCEPT ![p] = StateAt("sched_sleep")] /\ SetCpu(c, cpu[c])
  BY <1>1, <1>2 DEF StateAt, SetCpu, TypeOK
<1>6. OwnTicks(p, "sched_sleep")
  BY <1>1, <1>2 DEF OwnTicks, SchedInv, TypeOK, TicksOK, At
<1>7. "sched_sleep" \in PC /\ "sched_sleep" # "dead"
  BY DEF PC, SchedPC
<1> QED BY <1>1, <1>2, <1>3, <1>4, <1>5, <1>6, <1>7, ThreadStep, Zenon

\* sleep() goes on: release(&ptable.lock), which turns interrupts on.
LEMMA WokenOK ==
  ASSUME SchedInv, NEW c \in CPU, NEW p \in Proc, Woken(c, p)
  PROVE  SchedInv'
<1> DEFINE r == popcli(cpu[c])
<1>1. /\ At(c, p, "woken") /\ Goto(p, "reacquire") /\ Drop("ptable") /\ SetCpu(c, r)
      /\ UNCHANGED <<sch, ipc, killed, intena>> /\ state' = state /\ left' = left /\ resume' = resume
  BY DEF Woken
<1>2. /\ TypeOK /\ resume' \in Resumes
      /\ cpu[c] \in CpuRec /\ cpu[c].ncli = 1 /\ cpu[c].intena
  BY <1>1, AtFacts DEF Depth, Open, Nested, FromOpen
<1>3. r \in CpuRec /\ r.ncli = 0 /\ r.on
  BY <1>2, Pop
<1> HIDE DEF r
<1>4. Flags(r, "reacquire")
  BY <1>3 DEF Flags, Depth, Open, FromOpen
<1>5. OwnLocks(c, "reacquire")
  BY <1>1, DropsLock DEF HoldsTicks, HoldsPtable, Locks, SchedPC
<1>6. state' = [state EXCEPT ![p] = StateAt("reacquire")]
  BY <1>1, StateKept DEF SchedPC
<1>7. OwnTicks(p, "reacquire")
  BY <1>1, TicksKept
<1>8. "reacquire" \in PC /\ "reacquire" # "dead"
  BY DEF PC
<1> QED BY <1>1, <1>2, <1>4, <1>5, <1>6, <1>7, <1>8, ThreadStep, Zenon

\* sleep(): acquire(lk) succeeds.
LEMMA ReacquireLockOK ==
  ASSUME SchedInv, NEW c \in CPU, NEW p \in Proc, ReacquireLock(c, p)
  PROVE  SchedInv'
<1>1. /\ At(c, p, "spin_lk") /\ Goto(p, "check") /\ Take("tickslock", c)
      /\ UNCHANGED <<cpu, sch, ipc, killed, resume, intena>> /\ state' = state /\ left' = left
  BY DEF ReacquireLock
<1>2. /\ "tickslock" \in Locks /\ "check" \in PC /\ "check" # "dead"
      /\ "check" \in HoldsTicks <=> ("tickslock" = "tickslock" \/ "spin_lk" \in HoldsTicks)
      /\ "check" \in HoldsPtable <=> ("tickslock" = "ptable" \/ "spin_lk" \in HoldsPtable)
      /\ Depth("check") = Depth("spin_lk") /\ "spin_lk" \notin Open /\ "check" \notin Open
      /\ "check" \in FromOpen => "spin_lk" \in FromOpen
  BY DEF PC, SchedPC, WaitPC, HoldsTicks, HoldsPtable, Depth, Open, Nested, FromOpen, Locks
<1>3. state' = [state EXCEPT ![p] = StateAt("check")]
  BY <1>1, StateKept DEF SchedPC
<1>4. OwnTicks(p, "check")
  BY <1>1, TicksKept
<1> QED BY <1>1, <1>2, <1>3, <1>4, Takes, Zenon

-----------------------------------------------------------------------------
(* exit(), wait(), kill() and yield()                                      *)

\* A system call that starts with acquire(&ptable.lock).
LEMMA SysPtableOK ==
  ASSUME SchedInv, NEW c \in CPU, NEW p \in Proc, SysPtable(c, p)
  PROVE  SchedInv'
<1>1. PICK l \in {"spin_exit", "spin_wait", "spin_kill"} :
        /\ At(c, p, "user") /\ Goto(p, l) /\ SetCpu(c, pushcli(cpu[c])) /\ left' = left
        /\ UNCHANGED <<lock, sch, ipc, killed, resume, intena, state>>
  BY DEF SysPtable
<1>2. /\ l \in PC /\ l \notin SchedPC /\ "user" \notin SchedPC
      /\ l \notin Open /\ Depth(l) = Depth("user") + 1
      /\ l \in FromOpen => "user" \in FromOpen \cup Open
      /\ l \in HoldsTicks <=> "user" \in HoldsTicks
      /\ l \in HoldsPtable <=> "user" \in HoldsPtable
      /\ l \notin {"dead", "spin_sleep", "sleep_rel", "sleep_set", "sched_sleep"}
  BY DEF PC, SchedPC, WaitPC, HoldsTicks, HoldsPtable, Depth, Open, Nested, FromOpen, Locks
<1>3. OwnTicks(p, l)
  BY <1>1, <1>2, TicksKept
<1> QED BY <1>1, <1>2, <1>3, Pushes, Zenon

\* exit(): acquire(&ptable.lock).
LEMMA ExitLockOK ==
  ASSUME SchedInv, NEW c \in CPU, NEW p \in Proc, ExitLock(c, p)
  PROVE  SchedInv'
<1>1. /\ At(c, p, "spin_exit") /\ Goto(p, "exiting") /\ Take("ptable", c)
      /\ UNCHANGED <<cpu, sch, ipc, killed, resume, intena>> /\ state' = state /\ left' = left
  BY DEF ExitLock
<1>2. /\ "ptable" \in Locks /\ "exiting" \in PC /\ "exiting" # "dead"
      /\ "exiting" \in HoldsTicks <=> ("ptable" = "tickslock" \/ "spin_exit" \in HoldsTicks)
      /\ "exiting" \in HoldsPtable <=> ("ptable" = "ptable" \/ "spin_exit" \in HoldsPtable)
      /\ Depth("exiting") = Depth("spin_exit") /\ "spin_exit" \notin Open /\ "exiting" \notin Open
      /\ "exiting" \in FromOpen => "spin_exit" \in FromOpen
  BY DEF PC, SchedPC, WaitPC, HoldsTicks, HoldsPtable, Depth, Open, Nested, FromOpen, Locks
<1>3. state' = [state EXCEPT ![p] = StateAt("exiting")]
  BY <1>1, StateKept DEF SchedPC
<1>4. OwnTicks(p, "exiting")
  BY <1>1, TicksKept
<1> QED BY <1>1, <1>2, <1>3, <1>4, Takes, Zenon

\* exit(): the process is a ZOMBIE, and ptable.lock is still held.
LEMMA ExitZombieOK ==
  ASSUME SchedInv, NEW c \in CPU, NEW p \in Proc, ExitZombie(c, p)
  PROVE  SchedInv'
<1>1. /\ At(c, p, "exiting") /\ Goto(p, "sched_exit") /\ UNCHANGED <<sch, ipc, killed, intena>>
      /\ lock' = lock /\ cpu' = cpu /\ left' = left /\ resume' = resume
      /\ state' = [state EXCEPT ![p] = "ZOMBIE"]
  BY DEF ExitZombie, hw
<1>2. /\ TypeOK /\ resume' \in Resumes /\ cpu[c] \in CpuRec /\ cpu[c].ncli = 1 /\ ~cpu[c].on
      /\ lock["tickslock"] # c /\ lock["ptable"] = c
      /\ "exiting" \in FromOpen => cpu[c].intena
  BY <1>1, AtFacts DEF Depth, Open, Nested, HoldsTicks, HoldsPtable, SchedPC
<1>3. Flags(cpu[c], "sched_exit")
  BY <1>2 DEF Flags, Depth, Open, Nested, FromOpen
<1>4. OwnLocks(c, "sched_exit")
  BY <1>1, <1>2 DEF OwnLocks, TypeOK, Locks, HoldsTicks, HoldsPtable, SchedPC
<1>5. state' = [state EXCEPT ![p] = StateAt("sched_exit")] /\ SetCpu(c, cpu[c])
  BY <1>1, <1>2 DEF StateAt, SetCpu, TypeOK
<1>6. OwnTicks(p, "sched_exit")
  BY <1>1, <1>2 DEF OwnTicks, SchedInv, TypeOK, TicksOK, At
<1>7. "sched_exit" \in PC /\ "sched_exit" # "dead"
  BY DEF PC, SchedPC
<1> QED BY <1>1, <1>2, <1>3, <1>4, <1>5, <1>6, <1>7, ThreadStep, Zenon

\* wait() and kill(): release(&ptable.lock) and the return to user mode.
LEMMA UnlockOK ==
  ASSUME SchedInv, NEW c \in CPU, NEW p \in Proc, Unlock(c, p)
  PROVE  SchedInv'
<1>1. /\ At(c, p, "unlock") /\ Goto(p, "user") /\ Drop("ptable") /\ left' = left
      /\ SetCpu(c, [popcli(cpu[c]) EXCEPT !.on = TRUE])
      /\ UNCHANGED <<sch, ipc, killed, intena, state>> /\ resume' = resume
  BY DEF Unlock
<1>2. /\ "ptable" \in Locks /\ "user" \in PC /\ "user" # "dead" /\ "user" \in Open
      /\ Depth("unlock") = 1 /\ "unlock" \notin SchedPC
      /\ "unlock" \in HoldsTicks <=> "ptable" = "tickslock"
      /\ "unlock" \in HoldsPtable <=> "ptable" = "ptable"
  BY DEF PC, SchedPC, WaitPC, HoldsTicks, HoldsPtable, Depth, Open, Nested, FromOpen, Locks
<1>3. resume' \in Resumes /\ OwnTicks(p, "user")
  BY <1>1, AtFacts, TicksKept
<1> QED BY <1>1, <1>2, <1>3, Opens, Zenon

\* forkret(): release(&ptable.lock) and the first return to user mode.
LEMMA forkretOK ==
  ASSUME SchedInv, NEW c \in CPU, NEW p \in Proc, forkret(c, p)
  PROVE  SchedInv'
<1>1. /\ At(c, p, "forkret") /\ Goto(p, "user") /\ Drop("ptable") /\ left' = left
      /\ SetCpu(c, [popcli(cpu[c]) EXCEPT !.on = TRUE])
      /\ UNCHANGED <<sch, ipc, killed, intena, state>> /\ resume' = resume
  BY DEF forkret
<1>2. /\ "ptable" \in Locks /\ "user" \in PC /\ "user" # "dead" /\ "user" \in Open
      /\ Depth("forkret") = 1 /\ "forkret" \notin SchedPC
      /\ "forkret" \in HoldsTicks <=> "ptable" = "tickslock"
      /\ "forkret" \in HoldsPtable <=> "ptable" = "ptable"
  BY DEF PC, SchedPC, WaitPC, HoldsTicks, HoldsPtable, Depth, Open, Nested, FromOpen, Locks
<1>3. resume' \in Resumes /\ OwnTicks(p, "user")
  BY <1>1, AtFacts, TicksKept
<1> QED BY <1>1, <1>2, <1>3, Opens, Zenon

\* yield(): acquire(&ptable.lock) and RUNNABLE.
LEMMA YieldLockOK ==
  ASSUME SchedInv, NEW c \in CPU, NEW p \in Proc, YieldLock(c, p)
  PROVE  SchedInv'
<1>1. /\ At(c, p, "spin_yield") /\ Goto(p, "sched_yield") /\ Take("ptable", c)
      /\ UNCHANGED <<cpu, sch, ipc, killed, resume, intena>> /\ left' = left
      /\ state' = [state EXCEPT ![p] = "RUNNABLE"]
  BY DEF YieldLock
<1>2. /\ "ptable" \in Locks /\ "sched_yield" \in PC /\ "sched_yield" # "dead"
      /\ "sched_yield" \in HoldsTicks <=> ("ptable" = "tickslock" \/ "spin_yield" \in HoldsTicks)
      /\ "sched_yield" \in HoldsPtable <=> ("ptable" = "ptable" \/ "spin_yield" \in HoldsPtable)
      /\ Depth("sched_yield") = Depth("spin_yield") /\ "spin_yield" \notin Open /\ "sched_yield" \notin Open
      /\ "sched_yield" \in FromOpen => "spin_yield" \in FromOpen
  BY DEF PC, SchedPC, WaitPC, HoldsTicks, HoldsPtable, Depth, Open, Nested, FromOpen, Locks
<1>3. state' = [state EXCEPT ![p] = StateAt("sched_yield")]
  BY <1>1 DEF StateAt
<1>4. OwnTicks(p, "sched_yield")
  BY <1>1, TicksKept
<1> QED BY <1>1, <1>2, <1>3, <1>4, Takes, Zenon

\* yield() goes on: release(&ptable.lock), the last test of trap(), and iret.
LEMMA YieldedOK ==
  ASSUME SchedInv, NEW c \in CPU, NEW p \in Proc, Yielded(c, p)
  PROVE  SchedInv'
<1>1. /\ At(c, p, "yielded") /\ Drop("ptable") /\ UNCHANGED <<sch, ipc, state, killed, intena>>
      /\ left' = left /\ resume' = [resume EXCEPT ![p] = "user"]
  BY DEF Yielded
<1>2. /\ TypeOK /\ resume \in Resumes /\ resume' \in Resumes /\ resume[p] \in {"user", "reacquire"}
      /\ cpu[c] \in CpuRec /\ cpu[c].ncli = 1
  BY <1>1, AtFacts DEF Depth, Open, Nested, Resumes
<1>3. CASE SetCpu(c, pushcli(popcli(cpu[c]))) /\ Goto(p, "spin_exit")
  <2> DEFINE r == pushcli(popcli(cpu[c]))
  <2>1. popcli(cpu[c]) \in CpuRec /\ popcli(cpu[c]).ncli = 0
    BY <1>2, Pop
  <2>2. r \in CpuRec /\ ~r.on /\ r.ncli = 1
    BY <2>1, Push
  <2> HIDE DEF r
  <2>3. Flags(r, "spin_exit")
    BY <2>2 DEF Flags, Depth, Open, Nested, FromOpen
  <2>4. OwnLocks(c, "spin_exit")
    BY <1>1, DropsLock DEF HoldsTicks, HoldsPtable, Locks, SchedPC
  <2>5. state' = [state EXCEPT ![p] = StateAt("spin_exit")]
    BY <1>1, StateKept DEF SchedPC
  <2>6. OwnTicks(p, "spin_exit")
    BY <1>1, TicksKept
  <2>7. /\ "spin_exit" \in PC /\ "spin_exit" # "dead" /\ SetCpu(c, r)
        /\ UNCHANGED <<sch, ipc, killed, intena>>
    BY <1>1, <1>3 DEF PC, r
  <2> QED BY <1>1, <1>2, <1>3, <2>3, <2>4, <2>5, <2>6, <2>7, ThreadStep, Zenon
<1>4. CASE SetCpu(c, [popcli(cpu[c]) EXCEPT !.on = TRUE]) /\ Goto(p, resume[p])
  <2>1. PICK l \in {"user", "reacquire"} : l = resume[p]
    BY <1>2
  <2>2. /\ "ptable" \in Locks /\ l \in PC /\ l # "dead" /\ l \in Open
        /\ Depth("yielded") = 1 /\ "yielded" \notin SchedPC
        /\ "yielded" \in HoldsTicks <=> "ptable" = "tickslock"
        /\ "yielded" \in HoldsPtable <=> "ptable" = "ptable"
    BY DEF PC, SchedPC, WaitPC, HoldsTicks, HoldsPtable, Depth, Open, Nested, FromOpen, Locks
  <2>3. OwnTicks(p, l)
    BY <1>1, TicksKept
  <2>4. UNCHANGED <<sch, ipc, killed, intena, state>> /\ Goto(p, l)
    BY <1>1, <1>4, <2>1
  <2> QED BY <1>1, <1>2, <1>4, <2>2, <2>3, <2>4, Opens, Zenon
<1> QED BY <1>3, <1>4 DEF Yielded

\* While ptable.lock is free every process on a CPU is RUNNING: the states that
\* precede a swtch() are hidden by the lock.
LEMMA Hidden ==
  ASSUME SchedInv, lock["ptable"] = Free, NEW d \in CPU, cur[d] # NoProc
  PROVE  state[cur[d]] = "RUNNING" /\ kpc[cur[d]] \notin SchedPC \cup {"sleep_set"}
<1>1. TypeOK /\ CpuOK(d) /\ cur[d] \in Proc
  BY DEF SchedInv, TypeOK
<1>2. StateOK(cur[d])
  BY <1>1 DEF SchedInv
<1>3. lock["ptable"] # d
  BY SchedAssumption
<1>4. kpc[cur[d]] \notin SchedPC \cup {"sleep_set"}
  BY <1>1, <1>3 DEF CpuOK, Here, Below, HoldsPtable, Open, SchedPC
<1>5. StateAt(kpc[cur[d]]) = "RUNNING"
  BY <1>4 DEF StateAt, SchedPC
<1> QED BY <1>2, <1>4, <1>5 DEF StateOK

\* What may happen to the states of processes under ptable.lock: a zombie is
\* freed, a sleeper becomes RUNNABLE.  Neither is on a CPU.
LEMMA TableState ==
  ASSUME SchedInv, lock["ptable"] = Free, cur' = cur, intena' = intena, resume' \in Resumes,
         \A q \in Proc : \/ state'[q] = state[q]
                         \/ state[q] = "ZOMBIE" /\ state'[q] = "UNUSED"
                         \/ state[q] = "SLEEPING" /\ state'[q] = "RUNNABLE",
         \A q \in Proc : \/ kpc'[q] = kpc[q]
                         \/ (\E d \in CPU : cur[d] = q) /\ kpc'[q] \notin SchedPC \cup {"dead"}
  PROVE  \A q \in Proc : StateOK(q)'
<1> SUFFICES ASSUME NEW q \in Proc PROVE StateOK(q)'
  OBVIOUS
<1>1. StateOK(q) /\ resume'[q] \in {"user", "reacquire"} /\ q # NoProc
  BY SchedAssumption DEF SchedInv, Resumes, Proc
<1>2. CASE \E d \in CPU : cur[d] = q
  <2>1. state[q] = "RUNNING" /\ kpc[q] \notin SchedPC /\ kpc[q] # "dead"
    BY <1>1, <1>2, Hidden DEF StateOK
  <2>2. state'[q] = "RUNNING" /\ kpc'[q] \notin SchedPC /\ kpc'[q] # "dead"
    BY <2>1
  <2>3. StateAt(kpc'[q]) = "RUNNING"
    BY <2>2 DEF StateAt, SchedPC
  <2> QED BY <1>1, <1>2, <2>2, <2>3 DEF StateOK
<1>3. CASE ~ \E d \in CPU : cur[d] = q
  BY <1>1, <1>3 DEF StateOK
<1> QED BY <1>2, <1>3

\* wait() or kill() under ptable.lock, which it has just taken.
LEMMA TableStep ==
  ASSUME SchedInv, NEW c \in CPU, NEW p \in Proc, NEW o \in {"spin_wait", "spin_kill"}, At(c, p, o),
         Take("ptable", c), Goto(p, "unlock"), UNCHANGED <<cpu, sch, ipc, resume, intena, left>>,
         state' \in [Proc -> State], killed' \in [Proc -> BOOLEAN],
         \A q \in Proc : \/ state'[q] = state[q]
                         \/ state[q] = "ZOMBIE" /\ state'[q] = "UNUSED"
                         \/ state[q] = "SLEEPING" /\ state'[q] = "RUNNABLE"
  PROVE  SchedInv'
<1>1. /\ TypeOK /\ cur[c] = p /\ ipc[c] = "none" /\ \A d \in CPU : cur[d] = p => d = c
      /\ cpu[c] \in CpuRec /\ cpu[c].ncli = Depth(o) /\ resume \in Resumes
      /\ cpu[c].on <=> o \in Open
  BY AtFacts
<1>2. OwnLocks(c, "unlock") /\ lock["ptable"] = Free
  BY TakesLock DEF HoldsTicks, HoldsPtable, SchedPC, Locks
<1>3. Flags(cpu[c], "unlock")
  BY <1>1 DEF Flags, Depth, Open, Nested, FromOpen
<1>4. /\ SetCpu(c, cpu[c]) /\ resume' \in Resumes /\ UNCHANGED <<sch, ipc>> /\ UNCHANGED <<cur, spc, ipc>>
      /\ cur' = cur /\ intena' = intena
  BY <1>1 DEF SetCpu, TypeOK, sch
<1>5. left' \in [Proc -> 0 .. MaxSleep] /\ "unlock" \in PC
  BY <1>1 DEF TypeOK, PC
<1>6. \A d \in CPU : CpuOK(d)'
  BY <1>1, <1>2, <1>3, <1>4, ThreadCpu, Zenon
<1>7. TypeOK'
  BY <1>1, <1>2, <1>3, <1>4, <1>5, ThreadType, Zenon
<1>8. kpc'[p] = "unlock" /\ \A q \in Proc : q # p => kpc'[q] = kpc[q]
  BY <1>1 DEF TypeOK, Goto
<1>9. \A q \in Proc : StateOK(q)'
  <2>1. \A q \in Proc : \/ kpc'[q] = kpc[q]
                        \/ (\E d \in CPU : cur[d] = q) /\ kpc'[q] \notin SchedPC \cup {"dead"}
    BY <1>1, <1>8 DEF SchedPC
  <2> QED BY <1>2, <1>4, <2>1, TableState, Zenon
<1>10. \A q \in Proc : TicksOK(q)'
  <2> SUFFICES ASSUME NEW q \in Proc PROVE TicksOK(q)'
    OBVIOUS
  <2>1. TicksOK(q) /\ (state'[q] = "SLEEPING" => state[q] = "SLEEPING")
    BY DEF SchedInv
  <2> QED BY <1>8, <2>1 DEF TicksOK
<1> QED BY <1>6, <1>7, <1>9, <1>10 DEF SchedInv

\* wait() frees a zombie or finds none.
LEMMA ReapOK ==
  ASSUME SchedInv, NEW c \in CPU, NEW p \in Proc, Reap(c, p)
  PROVE  SchedInv'
<1>1. /\ At(c, p, "spin_wait") /\ Take("ptable", c) /\ Goto(p, "unlock")
      /\ UNCHANGED <<cpu, sch, ipc, resume, intena, left>> /\ "spin_wait" \in {"spin_wait", "spin_kill"}
  BY DEF Reap
<1>2. TypeOK
  BY DEF SchedInv
<1>3. /\ state' \in [Proc -> State] /\ killed' \in [Proc -> BOOLEAN]
      /\ \A q \in Proc : state'[q] = state[q] \/ (state[q] = "ZOMBIE" /\ state'[q] = "UNUSED")
  <2>1. CASE UNCHANGED <<state, killed>>
    BY <1>2, <2>1 DEF TypeOK
  <2>2. ASSUME NEW z \in Proc, state[z] = "ZOMBIE", state' = [state EXCEPT ![z] = "UNUSED"],
               killed' = [killed EXCEPT ![z] = FALSE]
        PROVE  /\ state' \in [Proc -> State] /\ killed' \in [Proc -> BOOLEAN]
               /\ \A q \in Proc : state'[q] = state[q] \/ (state[q] = "ZOMBIE" /\ state'[q] = "UNUSED")
    BY <1>2, <2>2 DEF TypeOK, State
  <2> QED BY <2>1, <2>2 DEF Reap
<1> QED BY <1>1, <1>3, TableStep, Zenon

\* kill() marks a process and wakes it if it sleeps.
LEMMA KillOK ==
  ASSUME SchedInv, NEW c \in CPU, NEW p \in Proc, Kill(c, p)
  PROVE  SchedInv'
<1>1. /\ At(c, p, "spin_kill") /\ Take("ptable", c) /\ Goto(p, "unlock")
      /\ UNCHANGED <<cpu, sch, ipc, resume, intena, left>> /\ "spin_kill" \in {"spin_wait", "spin_kill"}
  BY DEF Kill
<1>2. TypeOK
  BY DEF SchedInv
<1>3. /\ state' \in [Proc -> State] /\ killed' \in [Proc -> BOOLEAN]
      /\ \A q \in Proc : state'[q] = state[q] \/ (state[q] = "SLEEPING" /\ state'[q] = "RUNNABLE")
  <2>1. CASE UNCHANGED <<state, killed>>
    BY <1>2, <2>1 DEF TypeOK
  <2>2. ASSUME NEW z \in Proc, killed' = [killed EXCEPT ![z] = TRUE],
               state' = [state EXCEPT ![z] = IF @ = "SLEEPING" THEN "RUNNABLE" ELSE @]
        PROVE  /\ state' \in [Proc -> State] /\ killed' \in [Proc -> BOOLEAN]
               /\ \A q \in Proc : state'[q] = state[q] \/ (state[q] = "SLEEPING" /\ state'[q] = "RUNNABLE")
    BY <1>2, <2>2 DEF TypeOK, State
  <2> QED BY <2>1, <2>2 DEF Kill
<1> QED BY <1>1, <1>3, TableStep, Zenon

-----------------------------------------------------------------------------
(* swtch(): the scheduler and sched()                                      *)

\* sched(): the CPU is in its scheduler again, with ptable.lock, and the process
\* is where it will go on.
LEMMA schedOK ==
  ASSUME SchedInv, NEW c \in CPU, NEW p \in Proc, sched(c, p)
  PROVE  SchedInv'
<1>1. PICK o \in SchedPC : At(c, p, o) /\ Goto(p, AfterSwtch(o))
  BY DEF sched
<1>2. /\ intena' = [intena EXCEPT ![p] = cpu[c].intena] /\ cur' = [cur EXCEPT ![c] = NoProc]
      /\ lock' = lock /\ cpu' = cpu
      /\ UNCHANGED <<spc, pos, ipc, state, killed, resume, left>>
  BY DEF sched, hw
<1>3. /\ TypeOK /\ cur[c] = p /\ kpc[p] = o /\ ipc[c] = "none" /\ cpu[c] \in CpuRec
      /\ lock["tickslock"] = c <=> o \in HoldsTicks
      /\ lock["ptable"] = c <=> o \in HoldsPtable
      /\ cpu[c].ncli = Depth(o)
      /\ cpu[c].on <=> o \in Open
      /\ o \in FromOpen => cpu[c].intena
      /\ state[p] = StateAt(o)
      /\ \A d \in CPU : cur[d] = p => d = c
  BY <1>1, AtFacts
<1>4. CpuOK(c) /\ StateOK(p) /\ p # NoProc
  BY SchedAssumption DEF SchedInv, Proc
<1>5. /\ o = "sched_sleep" => AfterSwtch(o) = "woken" /\ StateAt(o) = "SLEEPING"
      /\ o = "sched_yield" => AfterSwtch(o) = "yielded" /\ StateAt(o) = "RUNNABLE"
      /\ o = "sched_exit" => AfterSwtch(o) = "dead" /\ StateAt(o) = "ZOMBIE"
      /\ o \in {"sched_sleep", "sched_yield", "sched_exit"}
  BY DEF AfterSwtch, StateAt, SchedPC
<1>6. kpc'[p] = AfterSwtch(o) /\ \A q \in Proc : q # p => kpc'[q] = kpc[q]
  BY <1>1, <1>3 DEF TypeOK, Goto
<1>7. TypeOK'
  <2>1. kpc' \in [Proc -> PC]
    BY <1>1, <1>3, <1>5 DEF TypeOK, Goto, PC, WaitPC
  <2>2. intena' \in [Proc -> BOOLEAN]
    BY <1>2, <1>3 DEF TypeOK, CpuRec
  <2>3. cur' \in [CPU -> Proc \cup {NoProc}]
    BY <1>2, <1>3 DEF TypeOK
  <2> QED BY <1>2, <1>3, <2>1, <2>2, <2>3 DEF TypeOK
<1>8. \A d \in CPU : CpuOK(d)'
  <2>1. cur'[c] = NoProc /\ \A d \in CPU : d # c => cur'[d] = cur[d]
    BY <1>2, <1>3 DEF TypeOK
  <2>2. Here(c)' = "scan" /\ spc[c] = "scan"
    BY <1>2, <1>3, <1>4, <2>1, Zenon DEF Here, CpuOK
  <2>3. CpuOK(c)'
    BY <1>2, <1>3, <1>5, <2>1, <2>2
       DEF CpuOK, Depth, Open, Nested, FromOpen, HoldsTicks, HoldsPtable, SchedPC
  <2>4. \A d \in CPU : d # c /\ cur[d] # NoProc => kpc'[cur[d]] = kpc[cur[d]]
    BY <1>3, <1>6 DEF TypeOK
  <2> QED BY <1>2, <2>1, <2>3, <2>4, OtherCpus
<1>9. \A q \in Proc : StateOK(q)'
  <2> SUFFICES ASSUME NEW q \in Proc PROVE StateOK(q)'
    OBVIOUS
  <2>1. StateOK(q)
    BY DEF SchedInv
  <2>2. cur'[c] = NoProc /\ \A d \in CPU : d # c => cur'[d] = cur[d]
    BY <1>2, <1>3 DEF TypeOK
  <2>3. CASE q = p
    <3>1. \A d \in CPU : cur'[d] # p
      BY <1>3, <1>4, <2>2
    <3>2. intena'[p] = cpu[c].intena
      BY <1>2, <1>3 DEF TypeOK
    <3>3. o = "sched_sleep" => intena'[p]
      BY <1>3, <3>2 DEF FromOpen
    <3> QED BY <1>2, <1>3, <1>5, <1>6, <2>1, <2>3, <3>1, <3>3 DEF StateOK
  <2>4. CASE q # p
    <3>1. kpc'[q] = kpc[q] /\ intena'[q] = intena[q]
      BY <1>2, <1>3, <1>6, <2>4 DEF TypeOK
    <3>2. \A d \in CPU : cur'[d] = q <=> cur[d] = q
      BY <1>3, <2>2, <2>4, SchedAssumption DEF Proc
    <3> QED BY <1>2, <2>1, <3>1, <3>2 DEF StateOK
  <2> QED BY <2>3, <2>4
<1>10. \A q \in Proc : TicksOK(q)'
  <2> SUFFICES ASSUME NEW q \in Proc PROVE TicksOK(q)'
    OBVIOUS
  <2>1. TicksOK(q)
    BY DEF SchedInv
  <2> QED BY <1>2, <1>5, <1>6, <2>1 DEF TicksOK
<1> QED BY <1>7, <1>8, <1>9, <1>10 DEF SchedInv

\* What the invariant says of a CPU in its scheduler() at l.
LEMMA SchedulerFacts ==
  ASSUME SchedInv, NEW c \in CPU, InScheduler(c)
  PROVE  /\ TypeOK /\ CpuOK(c) /\ cpu[c] \in CpuRec
         /\ Here(c) = spc[c] /\ cur[c] = NoProc /\ ipc[c] = "none"
BY DEF SchedInv, InScheduler, Here, TypeOK, CpuRec

\* A step of scheduler() that runs no process, to the location l.
LEMMA SchedulerStep ==
  ASSUME SchedInv, NEW c \in CPU, InScheduler(c), NEW l \in {"loop", "spin", "scan"}, NEW r,
         spc' = [spc EXCEPT ![c] = l], SetCpu(c, r), Flags(r, l), OwnLocks(c, l),
         pos' \in [CPU -> 1 .. NPROC + 1], UNCHANGED <<cur, ipc, state, killed, thread>>
  PROVE  SchedInv'
<1>1. TypeOK /\ cur[c] = NoProc /\ ipc[c] = "none"
  BY SchedulerFacts
<1>2. /\ kpc' = kpc /\ resume' = resume /\ intena' = intena /\ left' = left
      /\ cur' = cur /\ ipc' = ipc /\ state' = state /\ killed' = killed
  BY DEF thread
<1>3. cpu'[c] = r /\ spc'[c] = l /\ \A d \in CPU : d # c => cpu'[d] = cpu[d] /\ spc'[d] = spc[d]
  BY <1>1 DEF TypeOK, SetCpu
<1>4. Here(c)' = l
  BY <1>1, <1>2, <1>3 DEF Here
<1>5. CpuOK(c)'
  BY <1>1, <1>2, <1>3, <1>4, Zenon DEF CpuOK, Flags, OwnLocks
<1>6. \A d \in CPU, m \in Locks : d # c => (lock'[m] = d <=> lock[m] = d)
  BY DEF OwnLocks
<1>7. \A d \in CPU : CpuOK(d)'
  BY <1>2, <1>3, <1>5, <1>6, OtherCpus
<1>8. \A q \in Proc : StateOK(q)' /\ TicksOK(q)'
  BY <1>2 DEF SchedInv, StateOK, TicksOK
<1>9. TypeOK'
  <2>1. cpu' \in [CPU -> [on : BOOLEAN, ncli : Int, intena : BOOLEAN]]
    BY <1>1 DEF TypeOK, SetCpu, Flags, CpuRec
  <2>2. lock' \in [{"tickslock", "ptable"} -> CPU \cup {Free}]
    BY DEF OwnLocks, Locks
  <2> QED BY <1>1, <1>2, <2>1, <2>2 DEF TypeOK
<1> QED BY <1>7, <1>8, <1>9 DEF SchedInv

\* scheduler(): sti() and the pushcli() of acquire().
LEMMA SchedulerLoopOK ==
  ASSUME SchedInv, NEW c \in CPU, SchedulerLoop(c)
  PROVE  SchedInv'
<1> DEFINE r == pushcli(cpu[c])
<1>1. /\ InScheduler(c) /\ spc[c] = "loop" /\ spc' = [spc EXCEPT ![c] = "spin"] /\ SetCpu(c, r)
      /\ lock' = lock /\ pos' = pos /\ UNCHANGED <<cur, ipc, state, killed, thread>>
  BY DEF SchedulerLoop
<1>2. TypeOK /\ CpuOK(c) /\ cpu[c] \in CpuRec /\ Here(c) = "loop"
  BY <1>1, SchedulerFacts
<1>3. cpu[c].ncli = 0 /\ lock["tickslock"] # c /\ lock["ptable"] # c
  BY <1>2 DEF CpuOK, Depth, Open, HoldsTicks, HoldsPtable, SchedPC
<1>4. r \in CpuRec /\ ~r.on /\ r.ncli = 1
  BY <1>2, <1>3, Push
<1> HIDE DEF r
<1>5. Flags(r, "spin")
  BY <1>4 DEF Flags, Depth, Open, Nested, FromOpen
<1>6. OwnLocks(c, "spin")
  BY <1>1, <1>2, <1>3 DEF OwnLocks, TypeOK, Locks, HoldsTicks, HoldsPtable, SchedPC
<1>7. pos' \in [CPU -> 1 .. NPROC + 1] /\ "spin" \in {"loop", "spin", "scan"}
  BY <1>1, <1>2 DEF TypeOK
<1> QED BY <1>1, <1>5, <1>6, <1>7, SchedulerStep, Zenon

\* scheduler(): acquire(&ptable.lock) succeeds.
LEMMA SchedulerLockOK ==
  ASSUME SchedInv, NEW c \in CPU, SchedulerLock(c)
  PROVE  SchedInv'
<1>1. /\ InScheduler(c) /\ spc[c] = "spin" /\ spc' = [spc EXCEPT ![c] = "scan"] /\ Take("ptable", c)
      /\ cpu' = cpu /\ pos' = pos /\ UNCHANGED <<cur, ipc, state, killed, thread>>
  BY DEF SchedulerLock
<1>2. TypeOK /\ CpuOK(c) /\ cpu[c] \in CpuRec /\ Here(c) = "spin"
  BY <1>1, SchedulerFacts
<1>3. cpu[c].ncli = 1 /\ ~cpu[c].on /\ lock["tickslock"] # c
  BY <1>2 DEF CpuOK, Depth, Open, Nested, HoldsTicks
<1>4. Flags(cpu[c], "scan") /\ SetCpu(c, cpu[c])
  BY <1>1, <1>2, <1>3 DEF Flags, Depth, Open, Nested, FromOpen, SetCpu, TypeOK
<1>5. /\ lock' \in [Locks -> CPU \cup {Free}] /\ lock'["ptable"] = c /\ lock'["tickslock"] = lock["tickslock"]
      /\ \A d \in CPU, m \in Locks : d # c => (lock'[m] = d <=> lock[m] = d)
  BY <1>1, <1>2, TakeOwn DEF Locks
<1>6. OwnLocks(c, "scan")
  BY <1>3, <1>5 DEF OwnLocks, HoldsTicks, HoldsPtable
<1>7. pos' \in [CPU -> 1 .. NPROC + 1] /\ "scan" \in {"loop", "spin", "scan"}
  BY <1>1, <1>2 DEF TypeOK
<1> QED BY <1>1, <1>4, <1>6, <1>7, SchedulerStep, Zenon

\* scheduler(): the end of the table, release(&ptable.lock).
LEMMA SchedulerUnlockOK ==
  ASSUME SchedInv, NEW c \in CPU, SchedulerUnlock(c)
  PROVE  SchedInv'
<1> DEFINE r == [popcli(cpu[c]) EXCEPT !.on = TRUE]
<1>1. /\ InScheduler(c) /\ spc[c] = "scan" /\ spc' = [spc EXCEPT ![c] = "loop"] /\ Drop("ptable")
      /\ SetCpu(c, r) /\ pos' = [pos EXCEPT ![c] = 1] /\ UNCHANGED <<cur, ipc, state, killed, thread>>
  BY DEF SchedulerUnlock
<1>2. TypeOK /\ CpuOK(c) /\ cpu[c] \in CpuRec /\ Here(c) = "scan"
  BY <1>1, SchedulerFacts
<1>3. cpu[c].ncli = 1 /\ lock["tickslock"] # c /\ lock["ptable"] = c
  BY <1>2 DEF CpuOK, Depth, Open, Nested, HoldsTicks, HoldsPtable
<1>4. r \in CpuRec /\ r.on = TRUE /\ r.ncli = 0
  BY <1>2, <1>3, PopOn
<1> HIDE DEF r
<1>5. Flags(r, "loop")
  BY <1>4 DEF Flags, Depth, Open, Nested, FromOpen
<1>6. /\ lock' \in [Locks -> CPU \cup {Free}] /\ lock'["ptable"] # c /\ lock'["tickslock"] = lock["tickslock"]
      /\ \A d \in CPU, m \in Locks : d # c => (lock'[m] = d <=> lock[m] = d)
  BY <1>1, <1>2, <1>3, DropOwn DEF Locks
<1>7. OwnLocks(c, "loop")
  BY <1>3, <1>6 DEF OwnLocks, HoldsTicks, HoldsPtable, SchedPC
<1>8. pos' \in [CPU -> 1 .. NPROC + 1] /\ "loop" \in {"loop", "spin", "scan"}
  BY <1>1, <1>2, SchedAssumption DEF TypeOK
<1> QED BY <1>1, <1>5, <1>7, <1>8, SchedulerStep, Zenon

\* scheduler(): swtch() to a RUNNABLE process, which is on no CPU.
LEMMA SchedulerRunOK ==
  ASSUME SchedInv, NEW c \in CPU, SchedulerRun(c)
  PROVE  SchedInv'
<1>1. InScheduler(c) /\ spc[c] = "scan" /\ lock' = lock /\ UNCHANGED <<spc, ipc, killed, thread>>
  BY DEF SchedulerRun
<1>2. PICK p \in Proc : /\ state[p] = "RUNNABLE"
                        /\ cur' = [cur EXCEPT ![c] = p]
                        /\ state' = [state EXCEPT ![p] = "RUNNING"]
                        /\ pos' = [pos EXCEPT ![c] = p + 1]
                        /\ SetCpu(c, IF kpc[p] = "forkret" THEN cpu[c]
                                     ELSE [cpu[c] EXCEPT !.intena = intena[p]])
  BY Zenon DEF SchedulerRun, Candidates
<1>3. /\ TypeOK /\ CpuOK(c) /\ cpu[c] \in CpuRec /\ Here(c) = "scan" /\ cur[c] = NoProc /\ ipc[c] = "none"
      /\ p # NoProc /\ StateOK(p)
  BY <1>1, SchedulerFacts, SchedAssumption DEF SchedInv, Proc
<1>4. cpu[c].ncli = 1 /\ ~cpu[c].on /\ lock["tickslock"] # c /\ lock["ptable"] = c
  BY <1>3 DEF CpuOK, Depth, Open, Nested, HoldsTicks, HoldsPtable
<1>5. \A d \in CPU : cur[d] # p
  <2> SUFFICES ASSUME NEW d \in CPU, cur[d] = p PROVE FALSE
    OBVIOUS
  <2>1. CpuOK(d) /\ d # c
    BY <1>3 DEF SchedInv
  <2>2. StateAt(kpc[p]) = "RUNNABLE"
    BY <1>2, <1>3 DEF StateOK
  <2>3. kpc[p] = "sched_yield"
    BY <2>2 DEF StateAt
  <2>4. Below(d) = "sched_yield" /\ (ipc[d] = "none" => Here(d) = "sched_yield")
    BY <1>3, <2>3 DEF Below, Here
  <2> QED BY <1>4, <2>1, <2>4 DEF CpuOK, Open, HoldsPtable, SchedPC
<1>6. kpc[p] \in {"forkret", "yielded", "woken"} /\ (kpc[p] = "woken" => intena[p])
  BY <1>2, <1>3, <1>5 DEF StateOK
<1>7. /\ kpc' = kpc /\ resume' = resume /\ intena' = intena /\ left' = left
      /\ spc' = spc /\ ipc' = ipc /\ killed' = killed /\ lock' = lock
  BY <1>1 DEF thread
<1> DEFINE r == IF kpc[p] = "forkret" THEN cpu[c] ELSE [cpu[c] EXCEPT !.intena = intena[p]]
<1>8. intena[p] \in BOOLEAN
  BY <1>3 DEF TypeOK
<1>9. r \in CpuRec /\ r.ncli = 1 /\ ~r.on /\ (kpc[p] = "woken" => r.intena)
  <2>1. CASE kpc[p] = "forkret"
    BY <1>3, <1>4, <2>1
  <2>2. CASE kpc[p] # "forkret"
    <3>1. r = [cpu[c] EXCEPT !.intena = intena[p]]
      BY <2>2
    <3>2. /\ [cpu[c] EXCEPT !.intena = intena[p]] \in CpuRec
          /\ [cpu[c] EXCEPT !.intena = intena[p]].ncli = cpu[c].ncli
          /\ [cpu[c] EXCEPT !.intena = intena[p]].on = cpu[c].on
          /\ [cpu[c] EXCEPT !.intena = intena[p]].intena = intena[p]
      BY <1>3, <1>8 DEF CpuRec
    <3> QED BY <1>4, <1>6, <3>1, <3>2
  <2> QED BY <2>1, <2>2
<1>10. SetCpu(c, r)
  BY <1>2
<1> HIDE DEF r
<1>11. cpu'[c] = r /\ cur'[c] = p /\ \A d \in CPU : d # c => cpu'[d] = cpu[d] /\ cur'[d] = cur[d]
  BY <1>2, <1>3, <1>10 DEF SetCpu, TypeOK
<1>12. \A d \in CPU : CpuOK(d)'
  <2>1. Here(c)' = kpc[p]
    BY <1>3, <1>7, <1>11 DEF Here
  <2>2. CpuOK(c)'
    BY <1>1, <1>3, <1>4, <1>6, <1>7, <1>9, <1>11, <2>1
       DEF CpuOK, Depth, Open, Nested, FromOpen, HoldsTicks, HoldsPtable
  <2> QED BY <1>7, <1>11, <2>2, OtherCpus
<1>13. \A q \in Proc : StateOK(q)'
  <2> SUFFICES ASSUME NEW q \in Proc PROVE StateOK(q)'
    OBVIOUS
  <2>1. StateOK(q) /\ q # NoProc
    BY SchedAssumption DEF SchedInv, Proc
  <2>2. CASE q = p
    <3>1. \A d \in CPU : cur'[d] = p <=> d = c
      BY <1>5, <1>11
    <3>2. state'[p] = "RUNNING" /\ StateAt(kpc[p]) = "RUNNING" /\ kpc[p] # "dead"
      BY <1>2, <1>3, <1>6 DEF TypeOK, StateAt
    <3> QED BY <1>7, <2>1, <2>2, <3>1, <3>2 DEF StateOK
  <2>3. CASE q # p
    <3>1. state'[q] = state[q] /\ \A d \in CPU : cur'[d] = q <=> cur[d] = q
      BY <1>2, <1>3, <1>11, <2>1, <2>3 DEF TypeOK
    <3> QED BY <1>7, <2>1, <3>1 DEF StateOK
  <2> QED BY <2>2, <2>3
<1>14. \A q \in Proc : TicksOK(q)'
  <2> SUFFICES ASSUME NEW q \in Proc PROVE TicksOK(q)'
    OBVIOUS
  <2>1. TicksOK(q) /\ (state'[q] = "SLEEPING" => state[q] = "SLEEPING")
    BY <1>2, <1>3 DEF SchedInv, TypeOK
  <2> QED BY <1>7, <2>1 DEF TicksOK
<1>15. TypeOK'
  <2>1. cpu' \in [CPU -> [on : BOOLEAN, ncli : Int, intena : BOOLEAN]]
    BY <1>3, <1>9, <1>10 DEF TypeOK, SetCpu, CpuRec
  <2>2. cur' \in [CPU -> Proc \cup {NoProc}] /\ state' \in [Proc -> State]
    BY <1>2, <1>3 DEF TypeOK, State
  <2>3. pos' \in [CPU -> 1 .. NPROC + 1]
    BY <1>2, <1>3, SchedAssumption DEF TypeOK, Proc
  <2> QED BY <1>3, <1>7, <2>1, <2>2, <2>3 DEF TypeOK
<1> QED BY <1>12, <1>13, <1>14, <1>15 DEF SchedInv

-----------------------------------------------------------------------------
(* trap(): the timer interrupt                                             *)

\* What the invariant says of a CPU that executes the handler at l.
LEMMA HandlerFacts ==
  ASSUME SchedInv, NEW c \in CPU, NEW l, ipc[c] = l, l # "none"
  PROVE  /\ TypeOK /\ c = cpu0 /\ Below(c) \in Open /\ cpu[c] \in CpuRec
         /\ lock["tickslock"] = c <=> l \in HoldsTicks
         /\ lock["ptable"] = c <=> l \in HoldsPtable
         /\ cpu[c].ncli = Depth(l)
         /\ cpu[c].on <=> l \in Open
<1>1. TypeOK /\ CpuOK(c) /\ Here(c) = l
  BY Zenon DEF SchedInv, Here
<1>2. cpu[c] \in CpuRec
  BY <1>1 DEF TypeOK, CpuRec
<1> QED BY <1>1, <1>2 DEF CpuOK

\* The CPUs after a step of c into or inside the handler, to the location l.
LEMMA HandlerCpu ==
  ASSUME SchedInv, NEW c \in CPU, c = cpu0, Below(c) \in Open, NEW l, l # "none",
         NEW r, SetCpu(c, r), Flags(r, l), OwnLocks(c, l),
         ipc' = [ipc EXCEPT ![c] = l], UNCHANGED <<cur, spc, kpc>>
  PROVE  \A d \in CPU : CpuOK(d)'
<1>1. TypeOK /\ CpuOK(c)
  BY DEF SchedInv
<1>2. /\ cpu'[c] = r /\ ipc'[c] = l
      /\ \A d \in CPU : d # c => cpu'[d] = cpu[d] /\ ipc'[d] = ipc[d]
  BY <1>1 DEF TypeOK, SetCpu
<1>3. Here(c)' = l /\ Below(c)' = Below(c)
  BY <1>2 DEF Here, Below
<1>4. CpuOK(c)'
  BY <1>1, <1>2, <1>3 DEF CpuOK, Flags, OwnLocks
<1>5. \A d \in CPU, m \in Locks : d # c => (lock'[m] = d <=> lock[m] = d)
  BY DEF OwnLocks
<1> QED BY <1>2, <1>4, <1>5, OtherCpus

\* The types after such a step.
LEMMA HandlerType ==
  ASSUME TypeOK, NEW c \in CPU, NEW l \in {"spin_tick", "spin_wakeup", "wakeup", "tick"},
         NEW r, SetCpu(c, r), Flags(r, l), OwnLocks(c, l), ipc' = [ipc EXCEPT ![c] = l],
         UNCHANGED <<sch, killed, kpc, resume, intena>>,
         state' \in [Proc -> State], left' \in [Proc -> 0 .. MaxSleep]
  PROVE  TypeOK'
<1>1. cpu' \in [CPU -> [on : BOOLEAN, ncli : Int, intena : BOOLEAN]]
  BY DEF TypeOK, SetCpu, Flags, CpuRec
<1>2. lock' \in [{"tickslock", "ptable"} -> CPU \cup {Free}]
  BY DEF OwnLocks, Locks
<1>3. ipc' \in [CPU -> {"none", "spin_tick", "spin_wakeup", "wakeup", "tick"}]
  BY DEF TypeOK
<1> QED BY <1>1, <1>2, <1>3 DEF TypeOK, sch

\* A step that leaves the states, the contexts and the processors' processes alone.
LEMMA StateStays ==
  ASSUME SchedInv, NEW q \in Proc,
         cur' = cur, kpc' = kpc, state' = state, intena' = intena, resume' = resume
  PROVE  StateOK(q)'
<1>1. StateOK(q)
  BY Zenon DEF SchedInv
<1>2. /\ \A c, d \in CPU : cur'[c] = q /\ cur'[d] = q => c = d
      /\ resume'[q] \in {"user", "reacquire"}
  BY <1>1 DEF StateOK
<1>3. IF \E c \in CPU : cur'[c] = q
      THEN kpc'[q] # "dead" /\ state'[q] = StateAt(kpc'[q])
      ELSE \/ kpc'[q] \in {"forkret", "yielded"} /\ state'[q] = "RUNNABLE"
           \/ kpc'[q] = "woken" /\ state'[q] \in {"SLEEPING", "RUNNABLE"} /\ intena'[q]
           \/ kpc'[q] = "dead" /\ state'[q] \in {"ZOMBIE", "UNUSED"}
  BY <1>1 DEF StateOK
<1> QED BY <1>2, <1>3 DEF StateOK

\* ticks++ while nobody else holds tickslock: whoever is on the way to sleep
\* with it still has ticks to wait for.
LEMMA TickOK ==
  ASSUME SchedInv, NEW c \in CPU, Tick(c)
  PROVE  SchedInv'
<1> DEFINE r == pushcli(cpu[c])
<1>1. /\ ipc[c] = "spin_tick" /\ Take("tickslock", c) /\ SetCpu(c, r)
      /\ left' = [p \in Proc |-> IF left[p] > 0 THEN left[p] - 1 ELSE 0]
      /\ ipc' = [ipc EXCEPT ![c] = "spin_wakeup"]
      /\ UNCHANGED <<sch, killed, kpc, resume, intena>> /\ state' = state
  BY DEF Tick
<1>2. /\ TypeOK /\ c = cpu0 /\ Below(c) \in Open /\ cpu[c] \in CpuRec
      /\ cpu[c].ncli = 1 /\ lock["ptable"] # c
  BY <1>1, HandlerFacts DEF Depth, Open, Nested, HoldsPtable, SchedPC
<1>3. r \in CpuRec /\ ~r.on /\ r.ncli = 2
  BY <1>2, Push
<1> HIDE DEF r
<1>4. Flags(r, "spin_wakeup")
  BY <1>3 DEF Flags, Depth, Open, Nested, FromOpen
<1>5. /\ lock' \in [Locks -> CPU \cup {Free}] /\ lock'["tickslock"] = c /\ lock'["ptable"] = lock["ptable"]
      /\ \A d \in CPU, m \in Locks : d # c => (lock'[m] = d <=> lock[m] = d)
  BY <1>1, <1>2, TakeOwn DEF Locks
<1>6. OwnLocks(c, "spin_wakeup")
  BY <1>2, <1>5 DEF OwnLocks, HoldsTicks, HoldsPtable, SchedPC
<1>7. left' \in [Proc -> 0 .. MaxSleep] /\ state' \in [Proc -> State]
  BY <1>1, <1>2, SchedAssumption DEF TypeOK
<1>8. \A d \in CPU : CpuOK(d)'
  BY <1>1, <1>2, <1>4, <1>6, HandlerCpu, Zenon DEF sch
<1>9. TypeOK'
  BY <1>1, <1>2, <1>4, <1>6, <1>7, HandlerType, Zenon
<1>10. \A q \in Proc : StateOK(q)'
  <2>1. cur' = cur /\ kpc' = kpc /\ state' = state /\ intena' = intena /\ resume' = resume
    BY <1>1 DEF sch
  <2> QED BY <2>1, StateStays, Zenon
<1>11. \A q \in Proc : TicksOK(q)'
  <2> SUFFICES ASSUME NEW q \in Proc PROVE TicksOK(q)'
    OBVIOUS
  <2>1. kpc[q] \notin {"spin_sleep", "sleep_rel"}
    <3> SUFFICES ASSUME kpc[q] \in {"spin_sleep", "sleep_rel"} PROVE FALSE
      OBVIOUS
    <3>1. PICK d \in CPU : cur[d] = q
      BY DEF SchedInv, StateOK
    <3>2. CpuOK(d) /\ q # NoProc
      BY SchedAssumption DEF SchedInv, Proc
    <3>3. Below(d) = kpc[q] /\ (ipc[d] = "none" => Here(d) = kpc[q])
      BY <3>1, <3>2 DEF Below, Here
    <3>4. lock["tickslock"] = d
      BY <3>2, <3>3 DEF CpuOK, Open, HoldsTicks
    <3> QED BY <1>1, <3>4, SchedAssumption DEF Take
  <2>2. ipc'[cpu0] = "spin_wakeup"
    BY <1>1, <1>2 DEF TypeOK
  <2> QED BY <1>1, <2>1, <2>2 DEF TicksOK
<1> QED BY <1>8, <1>9, <1>10, <1>11 DEF SchedInv

\* wakeup(&ticks): with ptable.lock nobody is between the test and SLEEPING.
LEMMA WakeupOK ==
  ASSUME SchedInv, NEW c \in CPU, Wakeup(c)
  PROVE  SchedInv'
<1>1. /\ ipc[c] = "spin_wakeup" /\ Take("ptable", c) /\ cpu' = cpu
      /\ state' = [p \in Proc |-> IF state[p] = "SLEEPING" THEN "RUNNABLE" ELSE state[p]]
      /\ ipc' = [ipc EXCEPT ![c] = "wakeup"]
      /\ UNCHANGED <<sch, killed, kpc, resume, intena>> /\ left' = left
      /\ cur' = cur /\ kpc' = kpc /\ intena' = intena /\ resume' = resume
  BY DEF Wakeup, thread, sch
<1>2. /\ TypeOK /\ c = cpu0 /\ Below(c) \in Open /\ cpu[c] \in CpuRec
      /\ cpu[c].ncli = 2 /\ ~cpu[c].on /\ lock["tickslock"] = c
  BY <1>1, HandlerFacts DEF Depth, Open, Nested, HoldsTicks
<1>3. Flags(cpu[c], "wakeup") /\ SetCpu(c, cpu[c])
  BY <1>1, <1>2 DEF Flags, Depth, Open, Nested, FromOpen, SetCpu, TypeOK
<1>4. /\ lock' \in [Locks -> CPU \cup {Free}] /\ lock'["ptable"] = c /\ lock'["tickslock"] = lock["tickslock"]
      /\ \A d \in CPU, m \in Locks : d # c => (lock'[m] = d <=> lock[m] = d)
  BY <1>1, <1>2, TakeOwn DEF Locks
<1>5. OwnLocks(c, "wakeup") /\ lock["ptable"] = Free
  BY <1>1, <1>2, <1>4 DEF OwnLocks, HoldsTicks, HoldsPtable, Take
<1>6. left' \in [Proc -> 0 .. MaxSleep] /\ state' \in [Proc -> State]
  BY <1>1, <1>2 DEF TypeOK, State
<1>7. \A d \in CPU : CpuOK(d)'
  BY <1>1, <1>2, <1>3, <1>5, HandlerCpu, Zenon DEF sch
<1>8. TypeOK'
  BY <1>1, <1>2, <1>3, <1>5, <1>6, HandlerType, Zenon
<1>9. \A q \in Proc : StateOK(q)'
  <2>1. resume' \in Resumes
    BY <1>1, <1>2 DEF SchedInv, StateOK, TypeOK, Resumes
  <2>2. \A q \in Proc : state'[q] = state[q] \/ (state[q] = "SLEEPING" /\ state'[q] = "RUNNABLE")
    BY <1>1
  <2> QED BY <1>1, <1>5, <2>1, <2>2, TableState
<1>10. \A q \in Proc : TicksOK(q)'
  <2> SUFFICES ASSUME NEW q \in Proc PROVE TicksOK(q)'
    OBVIOUS
  <2>1. kpc[q] # "sleep_set"
    <3> SUFFICES ASSUME kpc[q] = "sleep_set" PROVE FALSE
      OBVIOUS
    <3>1. PICK d \in CPU : cur[d] = q
      BY DEF SchedInv, StateOK
    <3>2. q # NoProc
      BY SchedAssumption DEF Proc
    <3> QED BY <1>5, <3>1, <3>2, Hidden
  <2>2. TicksOK(q) /\ state'[q] # "SLEEPING"
    BY <1>1 DEF SchedInv
  <2> QED BY <1>1, <2>1, <2>2 DEF TicksOK
<1> QED BY <1>7, <1>8, <1>9, <1>10 DEF SchedInv

\* The end of wakeup(): release(&ptable.lock).
LEMMA WakeupUnlockOK ==
  ASSUME SchedInv, NEW c \in CPU, WakeupUnlock(c)
  PROVE  SchedInv'
<1> DEFINE r == popcli(cpu[c])
<1>1. /\ ipc[c] = "wakeup" /\ Drop("ptable") /\ SetCpu(c, r) /\ ipc' = [ipc EXCEPT ![c] = "tick"]
      /\ UNCHANGED <<sch, killed, kpc, resume, intena>> /\ left' = left /\ state' = state
  BY DEF WakeupUnlock, thread
<1>2. /\ TypeOK /\ c = cpu0 /\ Below(c) \in Open /\ cpu[c] \in CpuRec
      /\ cpu[c].ncli = 2 /\ ~cpu[c].on /\ lock["tickslock"] = c /\ lock["ptable"] = c
  BY <1>1, HandlerFacts DEF Depth, Open, Nested, HoldsTicks, HoldsPtable
<1>3. r \in CpuRec /\ ~r.on /\ r.ncli = 1
  BY <1>2, Pop
<1> HIDE DEF r
<1>4. Flags(r, "tick")
  BY <1>3 DEF Flags, Depth, Open, Nested, FromOpen
<1>5. /\ lock' \in [Locks -> CPU \cup {Free}] /\ lock'["ptable"] # c /\ lock'["tickslock"] = lock["tickslock"]
      /\ \A d \in CPU, m \in Locks : d # c => (lock'[m] = d <=> lock[m] = d)
  BY <1>1, <1>2, DropOwn DEF Locks
<1>6. OwnLocks(c, "tick")
  BY <1>2, <1>5 DEF OwnLocks, HoldsTicks, HoldsPtable, SchedPC
<1>7. left' \in [Proc -> 0 .. MaxSleep] /\ state' \in [Proc -> State]
  BY <1>1, <1>2 DEF TypeOK
<1>8. \A d \in CPU : CpuOK(d)'
  BY <1>1, <1>2, <1>4, <1>6, HandlerCpu, Zenon DEF sch
<1>9. TypeOK'
  BY <1>1, <1>2, <1>4, <1>6, <1>7, HandlerType, Zenon
<1>10. \A q \in Proc : StateOK(q)'
  <2>1. cur' = cur /\ kpc' = kpc /\ state' = state /\ intena' = intena /\ resume' = resume
    BY <1>1 DEF sch
  <2> QED BY <2>1, StateStays, Zenon
<1>11. \A q \in Proc : TicksOK(q)'
  <2>1. ipc[cpu0] # "spin_wakeup"
    BY <1>1, <1>2
  <2> QED BY <1>1, <2>1, Zenon DEF SchedInv, TicksOK
<1> QED BY <1>8, <1>9, <1>10, <1>11, Zenon DEF SchedInv

\* The tail of trap(), on a CPU that holds nothing any more: back to the
\* scheduler, or on to exit() or yield().
LEMMA TrapTailOK ==
  ASSUME SchedInv, NEW c \in CPU, Below(c) \in Open, NEW r \in CpuRec, r.ncli = 0, TrapTail(c, r),
         ipc[c] # "spin_wakeup", OwnLocks(c, "user"), UNCHANGED <<sch, state, killed, intena, left>>
  PROVE  SchedInv'
<1>1. TypeOK /\ CpuOK(c)
  BY DEF SchedInv
<1>2. /\ ipc' = [ipc EXCEPT ![c] = "none"] /\ cur' = cur /\ spc' = spc /\ pos' = pos
      /\ state' = state /\ killed' = killed /\ intena' = intena /\ left' = left
  BY DEF TrapTail, sch
<1>3. ipc'[c] = "none" /\ \A d \in CPU : d # c => ipc'[d] = ipc[d]
  BY <1>1, <1>2 DEF TypeOK
<1>4. lock'["tickslock"] # c /\ lock'["ptable"] # c
  BY DEF OwnLocks, HoldsTicks, HoldsPtable, SchedPC
<1>5. \A d \in CPU, m \in Locks : d # c => (lock'[m] = d <=> lock[m] = d)
  BY DEF OwnLocks
<1>6. lock' \in [{"tickslock", "ptable"} -> CPU \cup {Free}]
  BY DEF OwnLocks, Locks
<1>7. ipc' \in [CPU -> {"none", "spin_tick", "spin_wakeup", "wakeup", "tick"}]
  BY <1>1, <1>2 DEF TypeOK
<1>8. CASE cur[c] = NoProc
  <2>1. SetCpu(c, [r EXCEPT !.on = TRUE]) /\ kpc' = kpc /\ resume' = resume
    BY <1>8, SchedAssumption DEF TrapTail, Proc
  <2> DEFINE u == [r EXCEPT !.on = TRUE]
  <2>2. u \in CpuRec /\ u.ncli = 0 /\ u.on = TRUE
    BY Zenon DEF CpuRec
  <2> HIDE DEF u
  <2>3. cpu'[c] = u /\ \A d \in CPU : d # c => cpu'[d] = cpu[d]
    BY <1>1, <2>1 DEF TypeOK, SetCpu, u
  <2>4. Here(c)' = "loop"
    BY <1>1, <1>2, <1>3, <1>8 DEF Here, Below, Open, TypeOK
  <2>5. CpuOK(c)'
    BY Zenon, <1>2, <1>3, <1>4, <1>8, <2>2, <2>3, <2>4
       DEF CpuOK, Depth, Open, FromOpen, HoldsTicks, HoldsPtable, SchedPC
  <2>6. \A d \in CPU : CpuOK(d)'
    BY <1>2, <1>3, <1>5, <2>1, <2>3, <2>5, OtherCpus
  <2>7. cpu' \in [CPU -> [on : BOOLEAN, ncli : Int, intena : BOOLEAN]]
    BY <1>1, <2>1, <2>2 DEF TypeOK, SetCpu, CpuRec, u
  <2>8. TypeOK'
    BY <1>1, <1>2, <1>6, <1>7, <2>1, <2>7 DEF TypeOK
  <2>9. \A q \in Proc : StateOK(q)'
    BY <1>2, <2>1 DEF SchedInv, StateOK
  <2>10. \A q \in Proc : TicksOK(q)'
    BY <1>2, <1>3, <2>1, SchedAssumption DEF SchedInv, TicksOK
  <2> QED BY <2>6, <2>8, <2>9, <2>10 DEF SchedInv
<1>9. ASSUME NEW p \in Proc, cur[c] = p PROVE SchedInv'
  <2> DEFINE u == pushcli(r)
  <2>1. p # NoProc
    BY SchedAssumption DEF Proc
  <2>2. PICK l \in {"spin_exit", "spin_yield"} :
          /\ SetCpu(c, u) /\ Goto(p, l)
          /\ resume' = resume \/ resume' = [resume EXCEPT ![p] = kpc[p]]
    BY <1>9, <2>1 DEF TrapTail
  <2>3. u \in CpuRec /\ ~u.on /\ u.ncli = 1
    BY Push
  <2> HIDE DEF u
  <2>4. Flags(u, l)
    BY <2>3 DEF Flags, Depth, Open, Nested, FromOpen
  <2>5. cpu'[c] = u /\ \A d \in CPU : d # c => cpu'[d] = cpu[d]
    BY <1>1, <2>2 DEF TypeOK, SetCpu
  <2>6. kpc'[p] = l /\ \A q \in Proc : q # p => kpc'[q] = kpc[q]
    BY <1>1, <2>2 DEF TypeOK, Goto
  <2>7. kpc[p] \in {"user", "reacquire"} /\ StateOK(p)
    BY <1>1, <1>9, <2>1 DEF Below, Open, TypeOK, PC, SchedPC, WaitPC, SchedInv
  <2>8. resume \in Resumes
    BY <1>1, Zenon DEF SchedInv, StateOK, TypeOK, Resumes
  <2>9. resume' \in Resumes
    BY <2>2, <2>7, <2>8 DEF Resumes
  <2>10. Here(c)' = l
    BY <1>2, <1>3, <1>9, <2>1, <2>6 DEF Here
  <2>11. CpuOK(c)'
    BY Zenon, <1>1, <1>2, <1>3, <1>4, <1>9, <2>1, <2>4, <2>5, <2>10
       DEF CpuOK, Flags, HoldsTicks, HoldsPtable, SchedPC
  <2>12. \A d \in CPU : d # c /\ cur[d] # NoProc => kpc'[cur[d]] = kpc[cur[d]]
    BY <1>1, <1>9, <2>6, <2>7 DEF TypeOK, StateOK
  <2>13. \A d \in CPU : CpuOK(d)'
    BY <1>2, <1>3, <1>5, <2>5, <2>11, <2>12, OtherCpus, Zenon
  <2>14. TypeOK'
    <3>1. cpu' \in [CPU -> [on : BOOLEAN, ncli : Int, intena : BOOLEAN]]
      BY <1>1, <2>2, <2>3 DEF TypeOK, SetCpu, CpuRec
    <3>2. kpc' \in [Proc -> PC]
      BY <1>1, <2>2 DEF TypeOK, Goto, PC
    <3>3. resume' \in [Proc -> PC]
      BY <2>9 DEF Resumes, PC
    <3> QED BY <1>1, <1>2, <1>6, <1>7, <3>1, <3>2, <3>3 DEF TypeOK
  <2>15. \A q \in Proc : StateOK(q)'
    <3>1. StateAt(l) = "RUNNING" /\ StateAt(kpc[p]) = "RUNNING"
      BY <2>7 DEF StateAt
    <3>2. state[p] = "RUNNING"
      BY <1>9, <2>7, <3>1, Zenon DEF StateOK
    <3>3. state' = [state EXCEPT ![p] = StateAt(l)]
      BY <1>1, <1>2, <3>1, <3>2 DEF TypeOK
    <3>4. l # "dead" /\ Goto(p, l)
      BY <2>2
    <3> QED BY <1>2, <1>9, <2>9, <3>3, <3>4, ThreadState, Zenon
  <2>16. \A q \in Proc : TicksOK(q)'
    BY <1>2, <1>3, <2>6, SchedAssumption DEF SchedInv, TicksOK
  <2> QED BY <2>13, <2>14, <2>15, <2>16 DEF SchedInv
<1> QED BY <1>1, <1>8, <1>9 DEF TypeOK

\* The timer interrupts whatever runs with interrupts on.
LEMMA TimerOK ==
  ASSUME SchedInv, NEW c \in CPU, Timer(c)
  PROVE  SchedInv'
<1> DEFINE r == [cpu[c] EXCEPT !.on = FALSE]
<1>1. ipc[c] = "none" /\ cpu[c].on /\ lock' = lock /\ UNCHANGED <<sch, state, killed, intena, left>>
  BY DEF Timer
<1>2. TypeOK /\ CpuOK(c) /\ cpu[c] \in CpuRec
  BY DEF SchedInv, TypeOK, CpuRec
<1>3. Here(c) = Below(c) /\ Here(c) \in Open
  BY <1>1, <1>2 DEF Here, Below, CpuOK
<1>4. cpu[c].ncli = 0 /\ lock["tickslock"] # c /\ lock["ptable"] # c
  BY <1>2, <1>3, Zenon DEF CpuOK, Depth, Open, HoldsTicks, HoldsPtable, SchedPC
<1>5. r \in CpuRec /\ r.ncli = 0
  BY <1>2, <1>4, Zenon DEF CpuRec
<1> HIDE DEF r
<1>6. CASE c = cpu0
  <2> DEFINE u == pushcli(r)
  <2>1. ipc' = [ipc EXCEPT ![c] = "spin_tick"] /\ SetCpu(c, u) /\ kpc' = kpc /\ resume' = resume
    BY <1>6 DEF Timer, r, u
  <2>2. u \in CpuRec /\ ~u.on /\ u.ncli = 1
    <3>1. pushcli(r) \in CpuRec /\ ~pushcli(r).on /\ pushcli(r).ncli = r.ncli + 1
      BY <1>5, Push, Zenon
    <3> QED BY <1>5, <3>1 DEF u
  <2> HIDE DEF u
  <2>3. Flags(u, "spin_tick")
    BY <2>2 DEF Flags, Depth, Open, Nested, FromOpen
  <2>4. OwnLocks(c, "spin_tick")
    BY <1>1, <1>2, <1>4 DEF OwnLocks, TypeOK, Locks, HoldsTicks, HoldsPtable, SchedPC
  <2>5. \A d \in CPU : CpuOK(d)'
    BY <1>1, <1>3, <1>6, <2>1, <2>3, <2>4, HandlerCpu, Zenon DEF sch
  <2>6. /\ UNCHANGED <<sch, killed, kpc, resume, intena>> /\ state' = state /\ left' = left
        /\ state' \in [Proc -> State] /\ left' \in [Proc -> 0 .. MaxSleep]
    BY <1>1, <1>2, <2>1 DEF TypeOK
  <2>7. TypeOK'
    BY <1>2, <2>1, <2>3, <2>4, <2>6, HandlerType, Zenon
  <2>8. \A q \in Proc : StateOK(q)'
    BY <2>6 DEF SchedInv, StateOK, sch
  <2>9. \A q \in Proc : TicksOK(q)'
    BY <1>1, <1>2, <1>6, <2>1, <2>6, Zenon DEF SchedInv, TicksOK, TypeOK
  <2> QED BY <2>5, <2>7, <2>8, <2>9 DEF SchedInv
<1>7. CASE c # cpu0
  <2>1. TrapTail(c, r)
    BY <1>7 DEF Timer, r
  <2>2. OwnLocks(c, "user")
    BY <1>1, <1>2, <1>4 DEF OwnLocks, TypeOK, Locks, HoldsTicks, HoldsPtable, SchedPC
  <2>3. Below(c) \in Open /\ ipc[c] # "spin_wakeup"
    BY <1>1, <1>3, Zenon
  <2> QED BY <1>1, <1>5, <2>1, <2>2, <2>3, TrapTailOK, Zenon
<1> QED BY <1>6, <1>7

\* The end of the handler: release(&tickslock).
LEMMA TickUnlockOK ==
  ASSUME SchedInv, NEW c \in CPU, TickUnlock(c)
  PROVE  SchedInv'
<1> DEFINE r == popcli(cpu[c])
<1>1. /\ ipc[c] = "tick" /\ Drop("tickslock") /\ TrapTail(c, r)
      /\ UNCHANGED <<sch, state, killed, intena, left>>
  BY Zenon DEF TickUnlock
<1>2. /\ TypeOK /\ Below(c) \in Open /\ cpu[c] \in CpuRec
      /\ cpu[c].ncli = 1 /\ lock["tickslock"] = c /\ lock["ptable"] # c
  BY <1>1, HandlerFacts DEF Depth, Open, Nested, HoldsTicks, HoldsPtable, SchedPC
<1>3. r \in CpuRec /\ r.ncli = 0
  BY <1>2, Pop
<1> HIDE DEF r
<1>4. /\ lock' \in [Locks -> CPU \cup {Free}] /\ lock'["tickslock"] # c /\ lock'["ptable"] = lock["ptable"]
      /\ \A d \in CPU, m \in Locks : d # c => (lock'[m] = d <=> lock[m] = d)
  BY <1>1, <1>2, DropOwn DEF Locks
<1>5. OwnLocks(c, "user") /\ ipc[c] # "spin_wakeup"
  BY <1>1, <1>2, <1>4 DEF OwnLocks, HoldsTicks, HoldsPtable, SchedPC
<1> QED BY <1>1, <1>2, <1>3, <1>5, TrapTailOK, Zenon

-----------------------------------------------------------------------------
(* The theorems                                                            *)

\* At the start every CPU is at the beginning of scheduler().
LEMMA SchedInitOK == Init => SchedInv
<1> SUFFICES ASSUME Init PROVE SchedInv
  OBVIOUS
<1>1. TypeOK
  BY SchedAssumption DEF Init, TypeOK, State, PC, Proc
<1>2. ASSUME NEW c \in CPU PROVE CpuOK(c)
  <2>1. Here(c) = "loop" /\ lock["tickslock"] # c /\ lock["ptable"] # c
    BY SchedAssumption DEF Init, Here
  <2>2. cpu[c].ncli = 0 /\ cpu[c].on /\ ipc[c] = "none" /\ cur[c] = NoProc
    BY DEF Init
  <2> QED BY <2>1, <2>2, Zenon DEF CpuOK, Depth, Open, FromOpen, HoldsTicks, HoldsPtable, SchedPC
<1>3. ASSUME NEW p \in Proc PROVE StateOK(p) /\ TicksOK(p)
  BY SchedAssumption DEF Init, StateOK, TicksOK, Proc
<1> QED BY <1>1, <1>2, <1>3 DEF SchedInv

\* The inductive invariant: wherever a CPU is, it holds the locks of that place,
\* is nested as deep in pushcli(), and its process has the state of that place.
THEOREM SchedInvariant == Spec => []SchedInv
<1>1. SchedInv /\ [Next]_vars => SchedInv'
  <2> SUFFICES ASSUME SchedInv, [Next]_vars PROVE SchedInv'
    OBVIOUS
  <2>1. CASE UNCHANGED vars
    <3>1. \A c \in CPU : CpuOK(c)'
      BY <2>1, Zenon DEF vars, SchedInv, CpuOK, Here, Below
    <3>2. \A p \in Proc : StateOK(p)' /\ TicksOK(p)'
      BY <2>1 DEF vars, SchedInv, StateOK, TicksOK
    <3>3. TypeOK'
      BY <2>1 DEF vars, SchedInv, TypeOK
    <3> QED BY <3>1, <3>2, <3>3 DEF SchedInv
  <2>2. ASSUME NEW c \in CPU, Scheduler(c) PROVE SchedInv'
    BY <2>2, SchedulerLoopOK, SchedulerLockOK, SchedulerRunOK, SchedulerUnlockOK DEF Scheduler
  <2>3. ASSUME NEW c \in CPU, Timer(c) PROVE SchedInv'
    BY <2>3, TimerOK
  <2>4. ASSUME NEW c \in CPU, Handler(c) PROVE SchedInv'
    BY <2>4, TickOK, WakeupOK, WakeupUnlockOK, TickUnlockOK DEF Handler
  <2>5. ASSUME NEW c \in CPU, NEW p \in Proc, Thread(c, p) PROVE SchedInv'
    BY <2>5, schedOK, forkretOK, ReadTicks0OK, CheckTicksOK, SleepLockOK, SleepReleaseOK, SleepSetOK,
       WokenOK, ReacquireOK, ReacquireLockOK, ExitLockOK, ExitZombieOK, ReapOK, KillOK, UnlockOK,
       YieldLockOK, YieldedOK DEF Thread
  <2>6. ASSUME NEW c \in CPU, NEW p \in Proc, Call(c, p) PROVE SchedInv'
    BY <2>6, SysSleepOK, SysPtableOK DEF Call
  <2> QED BY <2>1, <2>2, <2>3, <2>4, <2>5, <2>6 DEF Next
<1> QED BY <1>1, SchedInitOK, PTL DEF Spec

\* CPUs, locks and processes keep their types.
THEOREM SchedTypeOK == Spec => []TypeOK
<1>1. SchedInv => TypeOK
  BY DEF SchedInv
<1> QED BY <1>1, SchedInvariant, PTL

\* No panic of acquire(), release(), popcli() or sched() is reached, on any
\* number of CPUs.
THEOREM SchedNoPanic == Spec => []NoPanic
<1>1. SchedInv => NoPanic
  <2> SUFFICES ASSUME SchedInv, NEW c \in CPU
               PROVE  /\ \A l \in {"tickslock", "ptable"} :
                           /\ Here(c) \in Wanted[l] => lock[l] # c
                           /\ Here(c) \in Released[l] => lock[l] = c /\ ~cpu[c].on /\ cpu[c].ncli > 0
                      /\ Here(c) \in SchedPC =>
                           lock["ptable"] = c /\ cpu[c].ncli = 1 /\ ~cpu[c].on /\ state[cur[c]] # "RUNNING"
    BY Zenon DEF NoPanic
  <2>1. TypeOK /\ CpuOK(c)
    BY DEF SchedInv
  <2>2. /\ Wanted["tickslock"] = {"spin_new", "spin_lk", "spin_tick"}
        /\ Wanted["ptable"] = {"spin_sleep", "spin_yield", "spin_exit", "spin_wait", "spin_kill",
                               "spin_wakeup", "spin"}
        /\ Released["tickslock"] = {"check", "sleep_rel", "tick"}
        /\ Released["ptable"] = {"forkret", "woken", "yielded", "unlock", "wakeup", "scan"}
    BY DEF Wanted, Released
  <2>3. \A l \in {"tickslock", "ptable"} : Here(c) \in Wanted[l] => lock[l] # c
    BY <2>1, <2>2, Zenon DEF CpuOK, HoldsTicks, HoldsPtable, SchedPC
  <2>4. \A l \in {"tickslock", "ptable"} : Here(c) \in Released[l] => lock[l] = c
    BY <2>1, <2>2, Zenon DEF CpuOK, HoldsTicks, HoldsPtable
  <2>5. \A l \in {"tickslock", "ptable"} : Here(c) \in Released[l] => ~cpu[c].on /\ cpu[c].ncli > 0
    BY <2>1, <2>2 DEF CpuOK, Open, Depth
  <2>6. ASSUME Here(c) \in SchedPC
        PROVE  lock["ptable"] = c /\ cpu[c].ncli = 1 /\ ~cpu[c].on /\ state[cur[c]] # "RUNNING"
    <3>1. lock["ptable"] = c /\ cpu[c].ncli = 1 /\ ~cpu[c].on
      BY <2>1, <2>6 DEF CpuOK, HoldsPtable, Depth, Open, Nested, SchedPC
    <3>2. cur[c] \in Proc /\ kpc[cur[c]] = Here(c)
      BY <2>1, <2>6 DEF Here, SchedPC, TypeOK
    <3>3. StateOK(cur[c]) /\ StateAt(kpc[cur[c]]) # "RUNNING"
      BY <2>6, <3>2 DEF SchedInv, StateAt, SchedPC
    <3> QED BY <3>1, <3>2, <3>3 DEF StateOK
  <2> QED BY <2>3, <2>4, <2>5, <2>6, Zenon
<1> QED BY <1>1, SchedInvariant, PTL

\* A kernel stack is used by one CPU at a time.
THEOREM SchedOneCpu == Spec => []OneCpuPerStack
<1>1. SchedInv => OneCpuPerStack
  <2> SUFFICES ASSUME SchedInv PROVE OneCpuPerStack
    OBVIOUS
  <2>1. \A c, d \in CPU : cur[c] = cur[d] /\ cur[c] # NoProc => c = d
    BY DEF SchedInv, TypeOK, StateOK
  <2>2. ASSUME NEW c \in CPU, cur[c] # NoProc
        PROVE  \/ state[cur[c]] = "RUNNING"
               \/ state[cur[c]] # "UNUSED" /\ lock["ptable"] = c /\ kpc[cur[c]] \in SchedPC
    <3>1. cur[c] \in Proc /\ CpuOK(c)
      BY <2>2 DEF SchedInv, TypeOK
    <3>2. state[cur[c]] = StateAt(kpc[cur[c]])
      BY <3>1, Zenon DEF SchedInv, StateOK
    <3>3. StateAt(kpc[cur[c]]) # "UNUSED"
      BY DEF StateAt
    <3>4. kpc[cur[c]] \notin SchedPC => StateAt(kpc[cur[c]]) = "RUNNING"
      BY DEF StateAt, SchedPC
    <3>5. kpc[cur[c]] \in SchedPC => lock["ptable"] = c
      BY <2>2, <3>1 DEF CpuOK, Here, Below, Open, HoldsPtable, SchedPC
    <3> QED BY <3>2, <3>3, <3>4, <3>5
  <2>3. ASSUME NEW p \in Proc, state[p] = "RUNNING" PROVE \E c \in CPU : cur[c] = p
    BY <2>3, Zenon DEF SchedInv, StateOK
  <2> QED BY <2>1, <2>2, <2>3, Zenon DEF OneCpuPerStack
<1> QED BY <1>1, SchedInvariant, PTL

\* sleep() misses no wakeup, wherever the timer interrupts it.
THEOREM SchedNoLostWakeup == Spec => []NoLostWakeup
<1>1. SchedInv => NoLostWakeup
  <2> SUFFICES ASSUME SchedInv, NEW p \in Proc, state[p] = "SLEEPING", left[p] = 0
               PROVE  ipc[cpu0] = "spin_wakeup"
    BY Zenon DEF NoLostWakeup
  <2>1. TicksOK(p)
    BY Zenon DEF SchedInv
  <2>2. ~(left[p] > 0)
    BY NotPositive, Zenon
  <2> QED BY <2>1, <2>2, Zenon DEF TicksOK
<1> QED BY <1>1, SchedInvariant, PTL

\* Interrupts are on wherever no lock is held, after any nesting and any swtch().
THEOREM SchedInterrupts == Spec => []InterruptsRestored
<1>1. SchedInv => InterruptsRestored
  <2> SUFFICES ASSUME SchedInv, NEW c \in CPU, Here(c) \in {"user", "reacquire", "loop"}
               PROVE  cpu[c].on /\ cpu[c].ncli = 0
    BY Zenon DEF InterruptsRestored
  <2>1. cpu[c].ncli = Depth(Here(c)) /\ (cpu[c].on <=> Here(c) \in Open)
    BY Zenon DEF SchedInv, CpuOK
  <2>2. Here(c) \in Open
    BY Zenon DEF Open
  <2>3. Depth(Here(c)) = 0
    BY <2>2, Zenon DEF Depth
  <2> QED BY <2>1, <2>2, <2>3, Zenon
<1> QED BY <1>1, SchedInvariant, PTL
=============================================================================
