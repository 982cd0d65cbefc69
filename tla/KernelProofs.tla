--------------------------- MODULE KernelProofs ----------------------------
(***************************************************************************)
(* Proofs about four smaller components of the kernel, a section for each: *)
(* no process is orphaned, no wait() misses its children and no stack or   *)
(* page table is freed early or forgotten, for any number of slots; the    *)
(* queue of messages delivers in order, for any length of the ring; and    *)
(* what the keyboard and the mouse tell, for any keys and movements,       *)
(* whatever bytes come, are lost or are missing.                           *)
(***************************************************************************)
EXTENDS ProcTable, MsgQueue, Mouse, Keyboard, TLAPS

-----------------------------------------------------------------------------
(* The process table                                                       *)

\* The table that userinit() leaves satisfies the invariant.
LEMMA InitIInv == Init => IInv
<1> SUFFICES ASSUME Init PROVE IInv
  OBVIOUS
<1> USE ProcAssumption DEF Init, Slot, initproc
<1>1. TypeOK
  BY DEF TypeOK, State
<1>2. EmbryoInv
  BY DEF EmbryoInv, Forking
<1>3. TreeInv
  BY DEF TreeInv, Live
<1>4. ParentAlive /\ WaitersHaveLiveChildren /\ MemoryOfProcesses
  BY DEF ParentAlive, WaitersHaveLiveChildren, MemoryOfProcesses, Live
<1> QED  BY <1>1, <1>2, <1>3, <1>4 DEF IInv

\* What init.c remembers of a fork() is a pid, whether it succeeded ...
LEMMA AfterForkType ==
  ASSUME TypeOK, NEW p \in Slot, NEW n \in Nat
  PROVE  AfterFork(p, n) \in [at : {"gui", "sh", "wait"}, pid : Nat]
BY DEF TypeOK, AfterFork

\* ... or failed.
LEMMA ForkFailsType ==
  ASSUME TypeOK, NEW p \in Slot, ForkFails(p)
  PROVE  init' \in [at : {"gui", "sh", "wait"}, pid : Nat]
BY AfterForkType DEF ForkFails

\* allocproc() takes a slot that no process and no other fork() has.
LEMMA AllocProcIInv ==
  ASSUME IInv, NEW p \in Slot, AllocProc(p)
  PROVE  IInv'
<1> USE ProcAssumption DEF IInv
<1>0. PICK q \in Slot : /\ First(q, Unused)
                        /\ state' = [state EXCEPT ![q] = "EMBRYO"]
                        /\ pid' = [pid EXCEPT ![q] = nextpid]
                        /\ new' = [new EXCEPT ![p] = q]
  BY DEF AllocProc
<1>a. /\ state[p] = "RUNNABLE" /\ pc[p] = "user" /\ state[q] = "UNUSED"
      /\ pc' = [pc EXCEPT ![p] = "kalloc"]
      /\ nextpid' = nextpid + 1
      /\ UNCHANGED <<parent, killed, kstack, pgdir, init, panicked>>
  BY <1>0 DEF AllocProc, At, Goto, First, Unused
<1>1. TypeOK'
  BY <1>0, <1>a DEF TypeOK, State
<1>2. EmbryoInv'
  <2>1. \A r \in Slot : Forking(r)' <=> r = p \/ Forking(r)
    BY <1>0, <1>a DEF TypeOK, Forking
  <2>2. ~Forking(p) /\ ~kstack[q]
    BY <1>a DEF Forking, MemoryOfProcesses
  <2>3. \A r \in Slot : Forking(r) => new[r] # q
    BY <1>a DEF EmbryoInv
  <2> QED  BY <1>0, <1>a, <2>1, <2>2, <2>3 DEF TypeOK, EmbryoInv
<1>3. TreeInv'
  BY <1>0, <1>a DEF TypeOK, TreeInv, Live
<1>4. ParentAlive'
  BY <1>0, <1>a DEF TypeOK, ParentAlive, Live
<1>5. WaitersHaveLiveChildren'
  BY <1>0, <1>a DEF TypeOK, WaitersHaveLiveChildren, Children, Zombies
<1>6. MemoryOfProcesses'
  BY <1>0, <1>a DEF TypeOK, EmbryoInv, MemoryOfProcesses, Forking, Live
<1> QED  BY <1>1, <1>2, <1>3, <1>4, <1>5, <1>6

\* A fork() that finds the table full changes no slot.
LEMMA TableFullIInv ==
  ASSUME IInv, NEW p \in Slot, TableFull(p)
  PROVE  IInv'
<1> USE ProcAssumption DEF IInv, TableFull, table, ForkFails, AfterFork, At, Goto, initproc
<1>1. TypeOK'
  BY DEF TypeOK, State, EmbryoInv, Forking, Slot
<1>2. EmbryoInv'
  BY DEF TypeOK, EmbryoInv, Forking
<1>3. TreeInv'
  BY DEF TypeOK, EmbryoInv, TreeInv, Forking, Live, Slot
<1>4. ParentAlive'
  BY DEF TypeOK, EmbryoInv, TreeInv, ParentAlive, Forking, Live, Slot
<1>5. WaitersHaveLiveChildren'
  BY DEF TypeOK, EmbryoInv, TreeInv, WaitersHaveLiveChildren, Forking, Children, Zombies
<1>6. MemoryOfProcesses'
  BY DEF TypeOK, EmbryoInv, TreeInv, MemoryOfProcesses, Forking, Live
<1> QED  BY <1>1, <1>2, <1>3, <1>4, <1>5, <1>6

\* allocproc() gives the EMBRYO a stack or frees its slot.
LEMMA AllocStackIInv ==
  ASSUME IInv, NEW p \in Slot, AllocStack(p)
  PROVE  IInv'
<1> USE ProcAssumption DEF IInv
<1>a. /\ state[p] = "RUNNABLE" /\ pc[p] = "kalloc"
      /\ UNCHANGED <<pid, parent, killed, pgdir, nextpid, panicked>>
  BY DEF AllocStack, At
<1>b. new[p] \in Slot /\ state[new[p]] = "EMBRYO" /\ ~kstack[new[p]]
  BY <1>a DEF EmbryoInv, Forking
<1>c. \A r \in Slot : Forking(r) /\ r # p => new[r] # new[p]
  BY <1>a DEF EmbryoInv, Forking
<1>d. CASE /\ kstack' = [kstack EXCEPT ![new[p]] = TRUE]
           /\ pc' = [pc EXCEPT ![p] = "copyuvm"]
           /\ UNCHANGED <<state, new, init>>
  <2>1. TypeOK'
    BY <1>a, <1>b, <1>d DEF TypeOK
  <2>2. EmbryoInv'
    BY <1>a, <1>b, <1>c, <1>d DEF TypeOK, EmbryoInv, Forking
  <2>3. TreeInv' /\ ParentAlive' /\ WaitersHaveLiveChildren'
    BY <1>a, <1>d DEF TypeOK, TreeInv, ParentAlive, WaitersHaveLiveChildren, Live, Children, Zombies
  <2>4. MemoryOfProcesses'
    BY <1>a, <1>b, <1>d DEF TypeOK, MemoryOfProcesses, Live
  <2> QED  BY <2>1, <2>2, <2>3, <2>4
<1>e. CASE /\ state' = [state EXCEPT ![new[p]] = "UNUSED"]
           /\ new' = [new EXCEPT ![p] = 0]
           /\ ForkFails(p)
           /\ UNCHANGED kstack
  <2>0. pc' \in [Slot -> {"user", "kalloc", "copyuvm", "exit", "wait"}]
        /\ (\A r \in Slot \ {p} : pc'[r] = pc[r]) /\ pc'[p] \in {"user", "exit"}
    BY <1>e DEF TypeOK, ForkFails, Goto
  <2>1. TypeOK'
    BY <1>a, <1>b, <1>e, <2>0, ForkFailsType DEF TypeOK, State
  <2>2. EmbryoInv'
    <3>1. \A r \in Slot : Forking(r)' <=> r # p /\ Forking(r)
      BY <1>a, <1>b, <1>e, <2>0 DEF TypeOK, Forking
    <3> QED  BY <1>a, <1>b, <1>c, <1>e, <2>0, <3>1 DEF TypeOK, EmbryoInv
  <2>3. TreeInv' /\ ParentAlive' /\ WaitersHaveLiveChildren'
    BY <1>a, <1>b, <1>e, <2>0
    DEF TypeOK, TreeInv, ParentAlive, WaitersHaveLiveChildren, Live, Children, Zombies
  <2>4. MemoryOfProcesses'
    BY <1>a, <1>b, <1>c, <1>e DEF TypeOK, EmbryoInv, TreeInv, MemoryOfProcesses, Forking, Live
  <2> QED  BY <2>1, <2>2, <2>3, <2>4
<1> QED  BY <1>d, <1>e DEF AllocStack, Goto

\* fork() makes the EMBRYO a child of its caller or frees what it had.
LEMMA ForkChildIInv ==
  ASSUME IInv, NEW p \in Slot, ForkChild(p)
  PROVE  IInv'
<1> USE ProcAssumption DEF IInv
<1> DEFINE q == new[p]
<1>a. /\ state[p] = "RUNNABLE" /\ pc[p] = "copyuvm"
      /\ new' = [new EXCEPT ![p] = 0]
      /\ UNCHANGED <<pid, killed, nextpid, panicked>>
  BY DEF ForkChild, At
<1>b. q \in Slot /\ state[q] = "EMBRYO" /\ kstack[q] /\ q # p /\ parent[q] = 0
  BY <1>a DEF EmbryoInv, Forking, TreeInv
<1>c. \A r \in Slot : Forking(r) /\ r # p => new[r] # q
  BY <1>a DEF EmbryoInv, Forking
<1> HIDE DEF q
<1>d. CASE /\ pgdir' = [pgdir EXCEPT ![q] = TRUE]
           /\ parent' = [parent EXCEPT ![q] = p]
           /\ state' = [state EXCEPT ![q] = "RUNNABLE"]
           /\ pc' = [pc EXCEPT ![p] = "user", ![q] = "user"]
           /\ init' = AfterFork(p, pid[q])
           /\ UNCHANGED kstack
  <2>1. TypeOK'
    <3>1. init' \in [at : {"gui", "sh", "wait"}, pid : Nat]
      BY <1>b, <1>d, AfterForkType DEF TypeOK
    <3> QED  BY <1>a, <1>b, <1>d, <3>1 DEF TypeOK, State
  <2>2. EmbryoInv'
    <3>1. \A r \in Slot : Forking(r)' <=> r # p /\ Forking(r)
      BY <1>a, <1>b, <1>d DEF TypeOK, Forking
    <3> QED  BY <1>a, <1>b, <1>c, <1>d, <3>1 DEF TypeOK, EmbryoInv, Forking, q
  <2>3. TreeInv'
    BY <1>a, <1>b, <1>d DEF TypeOK, TreeInv, Live
  <2>4. ParentAlive'
    BY <1>a, <1>b, <1>d DEF TypeOK, ParentAlive, Live
  <2>5. WaitersHaveLiveChildren'
    <3> SUFFICES ASSUME NEW r \in Slot, state'[r] = "SLEEPING"
                 PROVE  Children(r)' # {} /\ Zombies(r)' = {}
      BY DEF WaitersHaveLiveChildren
    <3>1. state[r] = "SLEEPING" /\ r # p /\ r # 0
      BY <1>a, <1>b, <1>d DEF TypeOK, Slot
    <3>2. Children(r)' = Children(r)
      BY <1>b, <1>d, <3>1 DEF TypeOK, Children
    <3>3. Zombies(r)' = Zombies(r)
      BY <1>b, <1>d, <3>2 DEF TypeOK, Zombies
    <3> QED  BY <3>1, <3>2, <3>3 DEF WaitersHaveLiveChildren
  <2>6. MemoryOfProcesses'
    BY <1>a, <1>b, <1>c, <1>d DEF TypeOK, EmbryoInv, MemoryOfProcesses, Forking, Live, q
  <2> QED  BY <2>1, <2>2, <2>3, <2>4, <2>5, <2>6
<1>e. CASE /\ kstack' = [kstack EXCEPT ![q] = FALSE]
           /\ state' = [state EXCEPT ![q] = "UNUSED"]
           /\ ForkFails(p)
           /\ UNCHANGED <<pgdir, parent>>
  <2>0. pc' \in [Slot -> {"user", "kalloc", "copyuvm", "exit", "wait"}]
        /\ (\A r \in Slot \ {p} : pc'[r] = pc[r]) /\ pc'[p] \in {"user", "exit"}
    BY <1>e DEF TypeOK, ForkFails, Goto
  <2>1. TypeOK'
    BY <1>a, <1>b, <1>e, <2>0, ForkFailsType DEF TypeOK, State
  <2>2. EmbryoInv'
    <3>1. \A r \in Slot : Forking(r)' <=> r # p /\ Forking(r)
      BY <1>a, <1>b, <1>e, <2>0 DEF TypeOK, Forking
    <3> QED  BY <1>a, <1>b, <1>c, <1>e, <2>0, <3>1 DEF TypeOK, EmbryoInv, q
  <2>3. TreeInv' /\ ParentAlive' /\ WaitersHaveLiveChildren'
    BY <1>a, <1>b, <1>e, <2>0
    DEF TypeOK, TreeInv, ParentAlive, WaitersHaveLiveChildren, Live, Children, Zombies
  <2>4. MemoryOfProcesses'
    BY <1>a, <1>b, <1>c, <1>e DEF TypeOK, EmbryoInv, TreeInv, MemoryOfProcesses, Forking, Live, q
  <2> QED  BY <2>1, <2>2, <2>3, <2>4
<1> QED  BY <1>d, <1>e DEF ForkChild, q

\* Entering exit() changes no slot.
LEMMA ExitIInv ==
  ASSUME IInv, NEW p \in Slot, Exit(p)
  PROVE  IInv'
<1> USE ProcAssumption DEF IInv, Exit, table, At, Goto, initproc
<1>1. TypeOK'
  BY DEF TypeOK, State, EmbryoInv, Forking, Slot
<1>2. EmbryoInv'
  BY DEF TypeOK, EmbryoInv, Forking
<1>3. TreeInv'
  BY DEF TypeOK, EmbryoInv, TreeInv, Forking, Live, Slot
<1>4. ParentAlive'
  BY DEF TypeOK, EmbryoInv, TreeInv, ParentAlive, Forking, Live, Slot
<1>5. WaitersHaveLiveChildren'
  BY DEF TypeOK, EmbryoInv, TreeInv, WaitersHaveLiveChildren, Forking, Children, Zombies
<1>6. MemoryOfProcesses'
  BY DEF TypeOK, EmbryoInv, TreeInv, MemoryOfProcesses, Forking, Live
<1> QED  BY <1>1, <1>2, <1>3, <1>4, <1>5, <1>6

\* The panic changes no slot.
LEMMA InitExitsIInv ==
  ASSUME IInv, NEW p \in Slot, InitExits(p)
  PROVE  IInv'
<1> USE ProcAssumption DEF IInv, InitExits, table, At, initproc
<1>1. TypeOK'
  BY DEF TypeOK, State, EmbryoInv, Forking, Slot
<1>2. EmbryoInv'
  BY DEF TypeOK, EmbryoInv, Forking
<1>3. TreeInv'
  BY DEF TypeOK, EmbryoInv, TreeInv, Forking, Live, Slot
<1>4. ParentAlive'
  BY DEF TypeOK, EmbryoInv, TreeInv, ParentAlive, Forking, Live, Slot
<1>5. WaitersHaveLiveChildren'
  BY DEF TypeOK, EmbryoInv, TreeInv, WaitersHaveLiveChildren, Forking, Children, Zombies
<1>6. MemoryOfProcesses'
  BY DEF TypeOK, EmbryoInv, TreeInv, MemoryOfProcesses, Forking, Live
<1> QED  BY <1>1, <1>2, <1>3, <1>4, <1>5, <1>6

\* exit() leaves its children to init, which lives, and wakes whoever waits for it.
LEMMA ExitZombieIInv ==
  ASSUME IInv, NEW p \in Slot, ExitZombie(p)
  PROVE  IInv'
<1> USE ProcAssumption DEF IInv
<1>a. /\ state[p] = "RUNNABLE" /\ pc[p] = "exit" /\ p # initproc
      /\ UNCHANGED <<pid, killed, kstack, pgdir, nextpid, pc, new, init, panicked>>
  BY DEF ExitZombie, At
<1>b. /\ state' \in [Slot -> State] /\ state'[p] = "ZOMBIE"
      /\ \A r \in Slot \ {p} :
           \/ state'[r] = state[r]
           \/ state[r] = "SLEEPING" /\ state'[r] = "RUNNABLE"
  BY DEF ExitZombie, TypeOK, State
<1>c. /\ initproc \in Slot
      /\ parent' \in [Slot -> Slot \cup {0}]
      /\ \A r \in Slot : parent'[r] = IF parent[r] = p THEN initproc ELSE parent[r]
  BY DEF ExitZombie, TypeOK, Children, initproc, Slot
<1>1. TypeOK'
  BY <1>a, <1>b, <1>c DEF TypeOK
<1>f. \A r \in Slot : Forking(r)' <=> Forking(r)
  BY <1>a, <1>b DEF TypeOK, TreeInv, Forking
<1>2. EmbryoInv'
  BY <1>a, <1>b, <1>f DEF TypeOK, EmbryoInv
<1>3. TreeInv'
  <2>1. \A r \in Slot : parent'[r] # r
    BY <1>c DEF TreeInv, initproc, Slot
  <2>2. initproc \in Live' /\ parent'[initproc] = 0
    BY <1>a, <1>b, <1>c DEF TreeInv, Live, Slot
  <2>3. \A r \in Slot : state'[r] \in {"UNUSED", "EMBRYO"} => parent'[r] = 0
    BY <1>b, <1>c DEF TreeInv, Slot
  <2>4. \A r \in Slot : state'[r] = "SLEEPING" => pc'[r] = "wait"
    BY <1>a, <1>b DEF TreeInv
  <2> QED  BY <2>1, <2>2, <2>3, <2>4 DEF TreeInv
<1>4. ParentAlive'
  BY <1>a, <1>b, <1>c DEF TypeOK, TreeInv, ParentAlive, Live
<1>5. WaitersHaveLiveChildren'
  BY <1>a DEF TypeOK, EmbryoInv, TreeInv, WaitersHaveLiveChildren, Children, Zombies, ExitZombie, ToWake, initproc
<1>6. MemoryOfProcesses'
  <2>1. \A r \in Slot : state'[r] = "EMBRYO" => \E q \in Live' : new[q] = r
    BY <1>a, <1>b, <1>f DEF EmbryoInv, Forking, Live
  <2> QED  BY <1>a, <1>b, <1>c, <2>1 DEF MemoryOfProcesses, Slot
<1> QED  BY <1>1, <1>2, <1>3, <1>4, <1>5, <1>6

\* Entering wait() changes no slot.
LEMMA WaitIInv ==
  ASSUME IInv, NEW p \in Slot, Wait(p)
  PROVE  IInv'
<1> USE ProcAssumption DEF IInv, Wait, table, At, Goto, initproc
<1>1. TypeOK'
  BY DEF TypeOK, State, EmbryoInv, Forking, Slot
<1>2. EmbryoInv'
  BY DEF TypeOK, EmbryoInv, Forking
<1>3. TreeInv'
  BY DEF TypeOK, EmbryoInv, TreeInv, Forking, Live, Slot
<1>4. ParentAlive'
  BY DEF TypeOK, EmbryoInv, TreeInv, ParentAlive, Forking, Live, Slot
<1>5. WaitersHaveLiveChildren'
  BY DEF TypeOK, EmbryoInv, TreeInv, WaitersHaveLiveChildren, Forking, Children, Zombies
<1>6. MemoryOfProcesses'
  BY DEF TypeOK, EmbryoInv, TreeInv, MemoryOfProcesses, Forking, Live
<1> QED  BY <1>1, <1>2, <1>3, <1>4, <1>5, <1>6

\* wait() frees a zombie, which is nobody's parent.
LEMMA WaitReapIInv ==
  ASSUME IInv, NEW p \in Slot, WaitReap(p)
  PROVE  IInv'
<1> USE ProcAssumption DEF IInv
<1>0. PICK q \in Slot : /\ First(q, Zombies(p))
                        /\ kstack' = [kstack EXCEPT ![q] = FALSE]
                        /\ pgdir' = [pgdir EXCEPT ![q] = FALSE]
                        /\ state' = [state EXCEPT ![q] = "UNUSED"]
                        /\ pid' = [pid EXCEPT ![q] = 0]
                        /\ parent' = [parent EXCEPT ![q] = 0]
                        /\ killed' = [killed EXCEPT ![q] = FALSE]
                        /\ init' = IF p = initproc /\ pid[q] = init.pid
                                   THEN [init EXCEPT !.at = "gui"] ELSE init
  BY DEF WaitReap
<1>a. /\ state[p] = "RUNNABLE" /\ pc[p] = "wait" /\ state[q] = "ZOMBIE" /\ parent[q] = p
      /\ pc' = [pc EXCEPT ![p] = "user"]
      /\ UNCHANGED <<nextpid, new, panicked>>
  BY <1>0 DEF WaitReap, At, Goto, First, Zombies, Children
<1>1. TypeOK'
  <2>1. init' \in [at : {"gui", "sh", "wait"}, pid : Nat]
    BY <1>0 DEF TypeOK
  <2> QED  BY <1>0, <1>a, <2>1 DEF TypeOK, State
<1>f. \A r \in Slot : Forking(r)' <=> Forking(r)
  BY <1>0, <1>a DEF TypeOK, Forking
<1>2. EmbryoInv'
  BY <1>0, <1>a, <1>f DEF TypeOK, EmbryoInv, Forking
<1>3. TreeInv'
  BY <1>0, <1>a DEF TypeOK, TreeInv, Live, Slot
<1>4. ParentAlive'
  BY <1>0, <1>a DEF TypeOK, ParentAlive, Live
<1>5. WaitersHaveLiveChildren'
  BY <1>0, <1>a DEF TypeOK, WaitersHaveLiveChildren, Children, Zombies
<1>6. MemoryOfProcesses'
  BY <1>0, <1>a DEF TypeOK, EmbryoInv, TreeInv, MemoryOfProcesses, Live
<1> QED  BY <1>1, <1>2, <1>3, <1>4, <1>5, <1>6

\* A wait() that returns -1 changes no slot.
LEMMA WaitFailsIInv ==
  ASSUME IInv, NEW p \in Slot, WaitFails(p)
  PROVE  IInv'
<1> USE ProcAssumption DEF IInv, WaitFails, table, At, Goto, initproc
<1>1. TypeOK'
  BY DEF TypeOK, State, EmbryoInv, Forking, Slot
<1>2. EmbryoInv'
  BY DEF TypeOK, EmbryoInv, Forking
<1>3. TreeInv'
  BY DEF TypeOK, EmbryoInv, TreeInv, Forking, Live, Slot
<1>4. ParentAlive'
  BY DEF TypeOK, EmbryoInv, TreeInv, ParentAlive, Forking, Live, Slot
<1>5. WaitersHaveLiveChildren'
  BY DEF TypeOK, EmbryoInv, TreeInv, WaitersHaveLiveChildren, Forking, Children, Zombies
<1>6. MemoryOfProcesses'
  BY DEF TypeOK, EmbryoInv, TreeInv, MemoryOfProcesses, Forking, Live
<1> QED  BY <1>1, <1>2, <1>3, <1>4, <1>5, <1>6

\* wait() sleeps after a scan that found a child and no zombie.
LEMMA WaitSleepIInv ==
  ASSUME IInv, NEW p \in Slot, WaitSleep(p)
  PROVE  IInv'
<1> USE ProcAssumption DEF IInv, WaitSleep, At, initproc
<1>1. TypeOK'
  BY DEF TypeOK, State, EmbryoInv, Forking, Slot
<1>2. EmbryoInv'
  BY DEF TypeOK, EmbryoInv, Forking
<1>3. TreeInv'
  BY DEF TypeOK, EmbryoInv, TreeInv, Forking, Live, Slot
<1>4. ParentAlive'
  BY DEF TypeOK, EmbryoInv, TreeInv, ParentAlive, Forking, Live, Slot
<1>5. WaitersHaveLiveChildren'
  BY DEF TypeOK, EmbryoInv, TreeInv, WaitersHaveLiveChildren, Forking, Children, Zombies
<1>6. MemoryOfProcesses'
  BY DEF TypeOK, EmbryoInv, TreeInv, MemoryOfProcesses, Forking, Live
<1> QED  BY <1>1, <1>2, <1>3, <1>4, <1>5, <1>6

\* kill() marks a process and makes a sleeper runnable: it frees and moves
\* nothing.
LEMMA KillIInv ==
  ASSUME IInv, NEW p \in Slot, NEW n \in KillArgs, Kill(p, n)
  PROVE  IInv'
<1> USE ProcAssumption DEF IInv
<1>0. PICK q \in Slot :
         /\ killed' = [killed EXCEPT ![q] = TRUE]
         /\ state' = [state EXCEPT ![q] = IF @ = "SLEEPING" THEN "RUNNABLE" ELSE @]
  BY DEF Kill
<1>a. UNCHANGED <<pid, parent, kstack, pgdir, nextpid, pc, new, init, panicked>>
  BY DEF Kill
<1>b. \A r \in Slot : \/ state'[r] = state[r]
                      \/ state[r] = "SLEEPING" /\ state'[r] = "RUNNABLE"
  BY <1>0 DEF TypeOK
<1>1. TypeOK'
  BY <1>0, <1>a DEF TypeOK, State
<1>f. \A r \in Slot : Forking(r)' <=> Forking(r)
  BY <1>a, <1>b DEF TreeInv, Forking
<1>2. EmbryoInv'
  BY <1>a, <1>b, <1>f DEF EmbryoInv
<1>3. TreeInv'
  BY <1>a, <1>b DEF TreeInv, Live
<1>4. ParentAlive'
  BY <1>a, <1>b DEF ParentAlive, Live
<1>5. WaitersHaveLiveChildren'
  BY <1>a, <1>b DEF WaitersHaveLiveChildren, Children, Zombies
<1>6. MemoryOfProcesses'
  BY <1>a, <1>b DEF MemoryOfProcesses, Live
<1> QED  BY <1>1, <1>2, <1>3, <1>4, <1>5, <1>6

\* Every step keeps the invariant.
LEMMA NextIInv == IInv /\ [Next]_vars => IInv'
<1> SUFFICES ASSUME IInv, [Next]_vars PROVE IInv'
  OBVIOUS
<1>1. CASE UNCHANGED vars
  BY <1>1 DEF IInv, TypeOK, EmbryoInv, TreeInv, ParentAlive, WaitersHaveLiveChildren,
              MemoryOfProcesses, Forking, Live, Children, Zombies, vars, table
<1>2. ASSUME NEW p \in Slot,
             AllocProc(p) \/ TableFull(p) \/ Exit(p) \/ Wait(p) \/ Inside(p)
      PROVE  IInv'
  BY <1>2, AllocProcIInv, TableFullIInv, ExitIInv, WaitIInv, AllocStackIInv, ForkChildIInv,
     InitExitsIInv, ExitZombieIInv, WaitReapIInv, WaitFailsIInv, WaitSleepIInv DEF Inside
<1>3. ASSUME NEW p \in Slot, NEW n \in KillArgs, Kill(p, n)
      PROVE  IInv'
  BY <1>3, KillIInv
<1> QED  BY <1>1, <1>2, <1>3 DEF Next

-----------------------------------------------------------------------------

\* The inductive invariant holds in every reachable state of the table.
THEOREM ProcInvariant == Spec => []IInv
<1> QED  BY InitIInv, NextIInv, PTL DEF Spec

\* exit() leaves no orphan: the parent of every process can still wait() for it.
THEOREM ProcParentAlive == Spec => []ParentAlive
<1>1. IInv => ParentAlive
  BY DEF IInv
<1> QED  BY <1>1, ProcInvariant, PTL

\* wait() never sleeps on a zombie, nor without a child.
THEOREM ProcWaiters == Spec => []WaitersHaveLiveChildren
<1>1. IInv => WaitersHaveLiveChildren
  BY DEF IInv
<1> QED  BY <1>1, ProcInvariant, PTL

\* fork(), its error paths, and wait() keep stacks and page tables exactly with
\* the processes that need them.
THEOREM ProcMemory == Spec => []MemoryOfProcesses
<1>1. IInv => MemoryOfProcesses
  BY DEF IInv
<1> QED  BY <1>1, ProcInvariant, PTL

\* The slots keep their types.
THEOREM ProcTypeOK == Spec => []TypeOK
<1>1. IInv => TypeOK
  BY DEF IInv
<1> QED  BY <1>1, ProcInvariant, PTL
-----------------------------------------------------------------------------
(* The message queue                                                       *)

\* The queue starts empty.
LEMMA QueueInitInv == QueueInit => QueueInv
  BY QueueAssumption, SMT DEF QueueInit, QueueInv, QueueTypeOK, FifoUnlessOverrun, Unread, SlotAt

\* Storing a message: tail is its slot, and no unread message has it while the
\* ring is not full.
LEMMA StoreInv == QueueInv /\ Store => QueueInv'
<1> SUFFICES ASSUME QueueInv, Store PROVE QueueInv'
  OBVIOUS
<1> USE QueueAssumption
<1> PICK m \in {0, Len(sent) + 1} : message' = [message EXCEPT ![tail] = m] /\ sent' = Append(sent, m)
  BY DEF Store
<1>0. m \in Nat /\ Len(sent) \in Nat /\ Len(got) \in Nat /\ QueueTypeOK
  BY DEF QueueInv, QueueTypeOK
<1>1. QueueTypeOK'
  BY <1>0 DEF Store, QueueTypeOK
<1>2. /\ Len(sent') = Len(sent) + 1 /\ sent'[Len(sent) + 1] = m
      /\ \A k \in 1 .. Len(sent) : sent'[k] = sent[k]
  BY <1>0 DEF QueueTypeOK
<1>a. ~overrun' => ~overrun /\ Unread # KBD_C_QUEUE_LENGTH - 1
  BY DEF Store
<1>3. FifoUnlessOverrun'
  <2> SUFFICES ASSUME ~overrun' PROVE FifoUnlessOverrun'
    BY DEF FifoUnlessOverrun
  <2>1. (\A k \in 1 .. Len(got) : got[k] = sent[k]) /\ Len(sent) = Len(got) + Unread + storing
    BY <1>a DEF QueueInv, FifoUnlessOverrun
  <2>2. Unread' = Unread /\ Unread \in Nat /\ got' = got /\ storing = 0 /\ storing' = 1
    BY <1>0 DEF Store, Unread, QueueTypeOK
  <2> QED BY <1>0, <1>2, <2>1, <2>2 DEF FifoUnlessOverrun
<1>4. ASSUME ~overrun', NEW k \in 0 .. Len(sent') - Len(got') - 1
      PROVE  message'[SlotAt(k)'] = sent'[Len(got') + 1 + k]
  <2>1. ~overrun /\ Len(sent) = Len(got) + Unread /\ storing = 0 /\ Unread # KBD_C_QUEUE_LENGTH - 1
    BY <1>0, <1>4, <1>a DEF Store, QueueInv, FifoUnlessOverrun, QueueTypeOK, Unread
  <2>2. k \in 0 .. Unread /\ Unread \in 0 .. KBD_C_QUEUE_LENGTH - 1
    BY <1>0, <1>2, <2>1 DEF Store, QueueTypeOK, Unread
  <2>3. SlotAt(k)' = SlotAt(k) /\ got' = got
    BY DEF Store, SlotAt
  <2>4. CASE k = Unread
    <3>1. SlotAt(k) = tail
      BY <1>0, <2>4 DEF SlotAt, Unread, QueueTypeOK
    <3>2. message'[tail] = m
      BY <1>0 DEF QueueTypeOK
    <3> QED BY <1>0, <1>2, <2>1, <2>2, <2>3, <2>4, <3>1, <3>2
  <2>5. CASE k # Unread
    <3>1. SlotAt(k) # tail /\ SlotAt(k) \in 0 .. KBD_C_QUEUE_LENGTH - 1
      BY <1>0, <2>2, <2>5 DEF SlotAt, Unread, QueueTypeOK
    <3>2. message'[SlotAt(k)] = message[SlotAt(k)]
      BY <1>0, <3>1 DEF QueueTypeOK
    <3>3. message[SlotAt(k)] = sent[Len(got) + 1 + k]
      BY <1>0, <2>1, <2>2, <2>5 DEF QueueInv
    <3> QED BY <1>0, <1>2, <2>1, <2>2, <2>3, <2>5, <3>2, <3>3
  <2> QED BY <2>4, <2>5
<1>5. ~overrun' => (storing' = 1 => Unread' < KBD_C_QUEUE_LENGTH - 1) /\ (loop' = "read" => front' # tail')
  BY <1>0, <1>a DEF Store, QueueInv, Unread, QueueTypeOK
<1>6. loop' = "wait" \/ (loop' = "read" /\ back' = "wait") => ~dirty'
  BY DEF Store, QueueInv
<1> QED BY <1>1, <1>3, <1>4, <1>5, <1>6 DEF QueueInv

\* Publishing moves tail over the message stored.
LEMMA PublishInv == QueueInv /\ Publish => QueueInv'
<1> SUFFICES ASSUME QueueInv, Publish PROVE QueueInv'
  OBVIOUS
<1> USE QueueAssumption
<1>0. Len(sent) \in Nat /\ Len(got) \in Nat /\ QueueTypeOK
  BY DEF QueueInv, QueueTypeOK
<1>1. QueueTypeOK'
  BY <1>0 DEF Publish, Wrap, QueueTypeOK
<1>2. ~overrun => Unread' = Unread + 1
  BY <1>0 DEF Publish, Wrap, QueueInv, QueueTypeOK, Unread
<1>3. FifoUnlessOverrun'
  <2> SUFFICES ASSUME ~overrun PROVE FifoUnlessOverrun'
    BY DEF Publish, FifoUnlessOverrun
  <2>1. (\A k \in 1 .. Len(got) : got[k] = sent[k]) /\ Len(sent) = Len(got) + Unread + storing
    BY DEF QueueInv, FifoUnlessOverrun
  <2>2. Unread \in Nat /\ storing = 1 /\ storing' = 0 /\ sent' = sent /\ got' = got
    BY <1>0 DEF Publish, Unread, QueueTypeOK
  <2> QED BY <1>0, <1>2, <2>1, <2>2 DEF FifoUnlessOverrun
<1>4. ~overrun' => \A k \in 0 .. Len(sent') - Len(got') - 1 : message'[SlotAt(k)'] = sent'[Len(got') + 1 + k]
  BY DEF Publish, QueueInv, SlotAt
<1>5. ~overrun' => (storing' = 1 => Unread' < KBD_C_QUEUE_LENGTH - 1) /\ (loop' = "read" => front' # tail')
  BY <1>0, <1>2 DEF Publish, QueueInv, QueueTypeOK, Unread, Wrap
<1>6. loop' = "wait" \/ (loop' = "read" /\ back' = "wait") => ~dirty'
  BY DEF Publish, QueueInv
<1> QED BY <1>1, <1>3, <1>4, <1>5, <1>6 DEF QueueInv

\* Polling and drawing leave the ring alone.
LEMMA PollDrawInv == QueueInv /\ (Poll \/ Draw) => QueueInv'
<1> SUFFICES ASSUME QueueInv, Poll \/ Draw PROVE QueueInv'
  OBVIOUS
<1>1. QueueTypeOK'
  BY DEF QueueInv, QueueTypeOK, Poll, Draw, AfterNone
<1>2. FifoUnlessOverrun' /\ (~overrun' /\ storing' = 1 => Unread' < KBD_C_QUEUE_LENGTH - 1)
  BY DEF QueueInv, FifoUnlessOverrun, Unread, Poll, Draw
<1>3. ~overrun' => \A k \in 0 .. Len(sent') - Len(got') - 1 : message'[SlotAt(k)'] = sent'[Len(got') + 1 + k]
  BY DEF QueueInv, SlotAt, Poll, Draw
<1>4. /\ ~overrun' /\ loop' = "read" => front' # tail'
      /\ loop' = "wait" \/ (loop' = "read" /\ back' = "wait") => ~dirty'
  BY DEF QueueInv, QueueTypeOK, Poll, Draw, AfterNone
<1> QED BY <1>1, <1>2, <1>3, <1>4 DEF QueueInv

\* get_msg() returns the oldest message that was not returned.
LEMMA TakeInv == QueueInv /\ Take => QueueInv'
<1> SUFFICES ASSUME QueueInv, Take PROVE QueueInv'
  OBVIOUS
<1> USE QueueAssumption
<1>0. Len(sent) \in Nat /\ Len(got) \in Nat /\ QueueTypeOK /\ message[front] \in Nat
  BY DEF QueueInv, QueueTypeOK
<1>1. QueueTypeOK'
  <2>1. dirty' \in BOOLEAN /\ loop' \in {"draw", "next", "wait", "read"}
    BY <1>0 DEF Take, QueueTypeOK
  <2>2. front' \in 0 .. KBD_C_QUEUE_LENGTH - 1 /\ got' \in Seq(Nat)
    BY <1>0 DEF Take, Wrap, QueueTypeOK
  <2> QED BY <1>0, <2>1, <2>2 DEF Take, QueueTypeOK
<1>2. /\ Len(got') = Len(got) + 1 /\ got'[Len(got) + 1] = message[front]
      /\ \A k \in 1 .. Len(got) : got'[k] = got[k]
  BY <1>0 DEF Take, QueueTypeOK
<1>3. ~overrun => Unread > 0 /\ Unread' = Unread - 1
  BY <1>0 DEF Take, Wrap, QueueInv, QueueTypeOK, Unread
<1>4. ~overrun => message[front] = sent[Len(got) + 1]
  <2> SUFFICES ASSUME ~overrun PROVE message[front] = sent[Len(got) + 1]
    OBVIOUS
  <2>1. SlotAt(0) = front /\ 0 \in 0 .. Len(sent) - Len(got) - 1
    BY <1>0, <1>3 DEF SlotAt, QueueInv, QueueTypeOK, FifoUnlessOverrun, Unread
  <2>2. message[SlotAt(0)] = sent[Len(got) + 1 + 0]
    BY <2>1 DEF QueueInv
  <2> QED BY <1>0, <2>1, <2>2
<1>5. FifoUnlessOverrun'
  <2> SUFFICES ASSUME ~overrun PROVE FifoUnlessOverrun'
    BY DEF Take, FifoUnlessOverrun
  <2>1. (\A k \in 1 .. Len(got) : got[k] = sent[k]) /\ Len(sent) = Len(got) + Unread + storing
    BY DEF QueueInv, FifoUnlessOverrun
  <2>2. Unread \in Nat /\ storing \in Nat /\ storing' = storing /\ sent' = sent
    BY <1>0 DEF Take, Unread, QueueTypeOK
  <2>3. \A k \in 1 .. Len(got') : got'[k] = sent'[k]
    BY <1>0, <1>2, <1>4, <2>1, <2>2
  <2>4. Len(sent') = Len(got') + Unread' + storing'
    BY <1>0, <1>2, <1>3, <2>1, <2>2
  <2> QED BY <2>3, <2>4 DEF FifoUnlessOverrun
<1>6. ASSUME ~overrun', NEW k \in 0 .. Len(sent') - Len(got') - 1
      PROVE  message'[SlotAt(k)'] = sent'[Len(got') + 1 + k]
  <2>1. k + 1 \in 0 .. Len(sent) - Len(got) - 1
    BY <1>0, <1>2 DEF Take
  <2>2. SlotAt(k)' = SlotAt(k + 1)
    <3>1. Len(sent) - Len(got) <= KBD_C_QUEUE_LENGTH
      <4>1. ~overrun /\ Unread \in 0 .. KBD_C_QUEUE_LENGTH - 1 /\ storing \in {0, 1}
        BY <1>0, <1>6 DEF Take, QueueTypeOK, Unread
      <4>2. Len(sent) = Len(got) + Unread + storing
        BY <4>1 DEF QueueInv, FifoUnlessOverrun
      <4> QED BY <1>0, <4>1, <4>2
    <3> QED BY <1>0, <2>1, <3>1 DEF Take, Wrap, SlotAt, QueueTypeOK
  <2>3. message[SlotAt(k + 1)] = sent[Len(got) + 1 + (k + 1)]
    BY <1>6, <2>1 DEF Take, QueueInv
  <2> QED BY <1>0, <1>2, <2>1, <2>2, <2>3 DEF Take
<1>7. ~overrun' => (storing' = 1 => Unread' < KBD_C_QUEUE_LENGTH - 1) /\ (loop' = "read" => front' # tail')
  BY <1>0, <1>3 DEF Take, QueueInv, QueueTypeOK, Unread
<1>8. loop' = "wait" \/ (loop' = "read" /\ back' = "wait") => ~dirty'
  BY <1>0 DEF Take, QueueInv, QueueTypeOK
<1> QED BY <1>1, <1>5, <1>6, <1>7, <1>8 DEF QueueInv

\* The invariant of the queue of sys_get_msg.c and the main loop of Gui.c holds
\* in every reachable state.
THEOREM QueueInvariant == QueueSpec => []QueueInv
<1>1. QueueInv /\ UNCHANGED queuevars => QueueInv'
  BY DEF QueueInv, QueueTypeOK, FifoUnlessOverrun, Unread, SlotAt, queuevars
<1>2. QueueInv /\ [QueueNext]_queuevars => QueueInv'
  BY <1>1, StoreInv, PublishInv, PollDrawInv, TakeInv DEF QueueNext
<1> QED BY QueueInitInv, <1>2, PTL DEF QueueSpec

\* get_msg() returns the messages in the order of the interrupts, each once,
\* while none was stored over an unread one, and main() waits only with everything
\* it handled on the screen, for any length of the ring.
THEOREM QueueMessages == QueueSpec => []MessagesHandled
<1>1. QueueInv => MessagesHandled
  BY DEF QueueInv, MessagesHandled, ShownWhenWaiting
<1> QED BY QueueInvariant, <1>1, PTL

-----------------------------------------------------------------------------
(* The mouse                                                               *)

\* One message for a packet: it is about the left button exactly when that
\* changed.
LEMMA EdgeLeft ==
  ASSUME LeftInv
  PROVE  /\ Edge = "LEFT_PRESS" <=> btn.l /\ ~down.l
         /\ Edge = "LEFT_RELEASE" <=> ~btn.l /\ down.l
  BY DEF Edge, LeftInv

\* A third byte tells what changed, or drops the packet with the buttons as
\* they were told.
LEMMA ThirdByteInv ==
  ASSUME LeftInv, NEW b, ThirdByte(b)
  PROVE  /\ LeftInv'
         /\ msg' = "LEFT_PRESS" => ~leftOn
         /\ msg' = "LEFT_RELEASE" => leftOn
<1>1. btn' = Up /\ Up \in [l : BOOLEAN, r : BOOLEAN]
  BY DEF ThirdByte, Forget, Up
<1>2. CASE msg' = "" /\ down' = down /\ leftOn' = leftOn
  BY <1>1, <1>2 DEF LeftInv
<1>3. CASE /\ msg' = Edge /\ down' = btn
           /\ leftOn' = (msg' = "LEFT_PRESS" \/ (leftOn /\ msg' # "LEFT_RELEASE"))
  <2>1. down'.l = btn.l /\ btn.l \in BOOLEAN /\ leftOn \in BOOLEAN /\ leftOn = down.l /\ leftOn' \in BOOLEAN
    BY <1>3 DEF LeftInv
  <2>2. leftOn' <=> btn.l
    BY <1>3, <2>1, EdgeLeft
  <2>3. leftOn' = down'.l
    BY <2>1, <2>2
  <2>4. down' \in [l : BOOLEAN, r : BOOLEAN]
    BY <1>3 DEF LeftInv
  <2>5. (msg' = "LEFT_PRESS" => ~leftOn) /\ (msg' = "LEFT_RELEASE" => leftOn)
    BY <1>3, <2>1, EdgeLeft
  <2> QED BY <1>1, <2>1, <2>3, <2>4, <2>5 DEF LeftInv
<1> QED BY <1>2, <1>3 DEF ThirdByte, DownDropped

\* The other bytes, a lost byte and an interrupt without one send no message.
LEMMA OtherInv ==
  ASSUME LeftInv, Send \/ Lose \/ Spurious \/ (\E b : FirstByte(b) \/ SecondByte(b))
  PROVE  LeftInv' /\ msg' = ""
<1>1. msg' = "" /\ down' = down /\ leftOn' = leftOn
  BY DEF Send, Lose, Spurious, FirstByte, SecondByte
<1>2. btn' \in [l : BOOLEAN, r : BOOLEAN]
  <2>1. CASE btn' = btn
    BY <2>1 DEF LeftInv
  <2>2. CASE btn' = Up
    BY <2>2 DEF Up
  <2>3. CASE \E b : btn' = [l |-> Bit(b, 1) = 1, r |-> Bit(b, 2) = 1]
    <3> PICK b : btn' = [l |-> Bit(b, 1) = 1, r |-> Bit(b, 2) = 1]
      BY <2>3
    <3> DEFINE lb == Bit(b, 1) = 1
               rb == Bit(b, 2) = 1
    <3>1. lb \in BOOLEAN /\ rb \in BOOLEAN
      OBVIOUS
    <3> HIDE DEF lb, rb
    <3>2. [l |-> lb, r |-> rb] \in [l : BOOLEAN, r : BOOLEAN]
      BY <3>1
    <3> QED BY <3>2 DEF lb, rb
  <2>4. (btn' = btn) \/ (btn' = Up) \/ (\E b : btn' = [l |-> Bit(b, 1) = 1, r |-> Bit(b, 2) = 1])
    <3>1. CASE Send \/ Lose \/ Spurious
      BY <3>1, Zenon DEF Send, Lose, Spurious, Forget
    <3>2. CASE \E b : SecondByte(b)
      BY <3>2, Zenon DEF SecondByte
    <3>3. CASE \E b : FirstByte(b)
      BY <3>3, Zenon DEF FirstByte
    <3> QED BY <3>1, <3>2, <3>3
  <2> QED BY <2>1, <2>2, <2>3, <2>4
<1> QED BY <1>1, <1>2 DEF LeftInv

\* mouseintr() of mouse.c: a press of the left button is only told after a
\* release, and a release after a press, for all movements and screen sizes.
THEOREM MouseLeftAlternates == MouseSpec => [][LeftAlternates]_mousevars
<1>1. MouseInit => LeftInv
  <2>1. Up \in [l : BOOLEAN, r : BOOLEAN] /\ Up.l = FALSE
    BY DEF Up
  <2> QED BY <2>1 DEF MouseInit, LeftInv
<1>2. LeftInv /\ MouseNext => LeftInv' /\ LeftAlternates
  <2> SUFFICES ASSUME LeftInv, MouseNext PROVE LeftInv' /\ LeftAlternates
    OBVIOUS
  <2>1. CASE \E b : ThirdByte(b)
    BY <2>1, ThirdByteInv DEF LeftAlternates
  <2>2. CASE Send \/ Lose \/ Spurious \/ (\E b : FirstByte(b) \/ SecondByte(b))
    BY <2>2, OtherInv DEF LeftAlternates
  <2> QED BY <2>1, <2>2 DEF MouseNext, mouseintr
<1>3. LeftInv /\ UNCHANGED mousevars => LeftInv'
  BY DEF LeftInv, mousevars
<1>4. LeftInv /\ [MouseNext]_mousevars => LeftInv' /\ [LeftAlternates]_mousevars
  BY <1>2, <1>3
<1> QED BY <1>1, <1>4, PTL DEF MouseSpec

\* The first byte of a packet, decoded: it passes, and gives the buttons back.
LEMMA FirstDecoded ==
  ASSUME NEW now \in [l : BOOLEAN, r : BOOLEAN], NEW m, NEW b, b = FirstCode(now, 0, m)
  PROVE  FirstOK(b) /\ now = [l |-> Bit(b, 1) = 1, r |-> Bit(b, 2) = 1]
<1>1. PICK l \in {0, 1}, r \in {0, 1}, x \in {0, 1}, y \in {0, 1} :
        b = l + 2 * r + 8 + 16 * x + 32 * y /\ l = Num(now.l) /\ r = Num(now.r)
  BY DEF FirstCode, Num
<1>2. Bit(b, 8) = 1 /\ Bit(b, 4) = 0 /\ Bit(b, 1) = l /\ Bit(b, 2) = r
  <2>1. b \div 8 = 1 + 2 * x + 4 * y /\ b \div 4 = 2 + 4 * x + 8 * y
    BY <1>1
  <2>2. b \div 2 = r + 4 + 8 * x + 16 * y /\ b \div 1 = b
    BY <1>1
  <2>3. (1 + 2 * x + 4 * y) % 2 = 1 /\ (2 + 4 * x + 8 * y) % 2 = 0
    OBVIOUS
  <2>4. (r + 4 + 8 * x + 16 * y) % 2 = r /\ b % 2 = l
    BY <1>1
  <2> QED BY <2>1, <2>2, <2>3, <2>4 DEF Bit
<1>3. now.l \in BOOLEAN /\ now.r \in BOOLEAN /\ now = [l |-> now.l, r |-> now.r]
  OBVIOUS
<1>4. (now.l <=> l = 1) /\ (now.r <=> r = 1)
  BY <1>1, <1>3 DEF Num
<1>5. (Bit(b, 1) = 1) = now.l /\ (Bit(b, 2) = 1) = now.r
  BY <1>2, <1>3, <1>4
<1> QED BY <1>2, <1>3, <1>5 DEF FirstOK

\* Once a byte is lost only the left button is followed.
LEMMA LostInv ==
  ASSUME MouseInv, LeftInv', packet' \in Seq(Int), LoseTrack
  PROVE  MouseInv'
BY DEF LoseTrack, MouseInv, Up

\* The mouse sends a packet.
LEMMA SendInv ==
  ASSUME MouseInv, Send
  PROVE  MouseInv'
<1>1. LeftInv'
  BY OtherInv DEF MouseInv
<1>2. PICK now \in [l : BOOLEAN, r : BOOLEAN], m \in Move, mid \in {0, 1} :
        /\ packet' = <<FirstCode(now, mid, m), m[1] % 256, m[2] % 256>>
        /\ IF lost \/ mid = 1 THEN LoseTrack
           ELSE real' = now /\ UNCHANGED <<lost, rightOn, both, dropped>>
  BY DEF Send
<1>3. m[1] \in Int /\ m[2] \in Int
  BY MouseAssumption
<1>4. FirstCode(now, mid, m) \in Int /\ m[1] % 256 \in Int /\ m[2] % 256 \in Int
  BY <1>3 DEF FirstCode, Num
<1>5. packet' \in Seq(Int) /\ Len(packet') = 3 /\ Head(packet') = FirstCode(now, mid, m)
  BY <1>2, <1>4
<1>6. CASE lost \/ mid = 1
  BY <1>1, <1>2, <1>5, <1>6, LostInv
<1>7. CASE ~(lost \/ mid = 1)
  <2>1. mid = 0 /\ real' = now /\ UNCHANGED <<lost, rightOn, both, dropped, count, down>>
    BY <1>2, <1>7 DEF Send
  <2>2. count = 0
    <3>1. Len(packet) = 0 /\ InStep
      BY <1>7 DEF MouseInv, Send
    <3> QED BY <3>1 DEF InStep
  <2>3. InStep'
    BY <1>5, <2>1, <2>2 DEF InStep
  <2> QED BY <1>1, <1>5, <2>1, <2>3 DEF MouseInv
<1> QED BY <1>6, <1>7

\* A first or second byte of a packet in step.
LEMMA ByteInv ==
  ASSUME MouseInv, packet # <<>>, packet' = Tail(packet), UNCHANGED <<real, lost>>,
         FirstByte(Head(packet)) \/ SecondByte(Head(packet))
  PROVE  MouseInv'
<1> DEFINE b == Head(packet)
<1>1. LeftInv' /\ UNCHANGED <<down, rightOn, both, dropped>>
  BY OtherInv DEF MouseInv, FirstByte, SecondByte
<1>2. packet \in Seq(Int) /\ packet' \in Seq(Int) /\ Len(packet') = Len(packet) - 1
  BY DEF MouseInv
<1>3. ASSUME ~lost PROVE InStep'
  <2>1. CASE FirstByte(b)
    <3>1. count = 0
      BY <2>1 DEF FirstByte
    <3>2. Len(packet) = 3 /\ \E m \in Move : b = FirstCode(real, 0, m)
      <4>1. InStep
        BY <1>3, Zenon DEF MouseInv
      <4> QED BY <3>1, <4>1 DEF InStep
    <3>3. FirstOK(b) /\ real = [l |-> Bit(b, 1) = 1, r |-> Bit(b, 2) = 1]
      <4>1. PICK m \in Move : b = FirstCode(real, 0, m)
        BY <3>2
      <4>2. real \in [l : BOOLEAN, r : BOOLEAN]
        BY DEF MouseInv
      <4> QED BY <4>1, <4>2, FirstDecoded
    <3>4. count' = 1 /\ btn' = real
      BY <2>1, <3>3 DEF FirstByte
    <3> QED BY <1>2, <3>2, <3>4 DEF InStep
  <2>2. CASE SecondByte(b)
    <3>1. count = 1 /\ count' = 2 /\ btn' = btn
      BY <2>2 DEF SecondByte
    <3>2. Len(packet) = 2 /\ btn = real
      BY <1>3, <3>1 DEF MouseInv, InStep
    <3> QED BY <1>2, <3>1, <3>2 DEF InStep
  <2> QED BY <2>1, <2>2
<1> QED BY <1>1, <1>2, <1>3 DEF MouseInv

\* The third byte of a packet in step: it is the last one.
LEMMA LastByteInv ==
  ASSUME MouseInv, packet # <<>>, packet' = Tail(packet), UNCHANGED <<real, lost>>,
         NEW b, ThirdByte(b)
  PROVE  MouseInv'
<1>1. LeftInv' /\ LeftInv
  BY ThirdByteInv DEF MouseInv
<1>2. packet \in Seq(Int) /\ packet' \in Seq(Int) /\ Len(packet') = Len(packet) - 1
  BY DEF MouseInv
<1>3. count = 2 /\ count' = 0
  BY DEF ThirdByte, Forget
<1>4. ~lost => btn = real /\ packet' = <<>>
  <2> SUFFICES ASSUME ~lost PROVE btn = real /\ packet' = <<>>
    OBVIOUS
  <2>1. InStep
    BY Zenon DEF MouseInv
  <2>2. btn = real /\ Len(packet) = 1
    BY <1>3, <2>1 DEF InStep
  <2> QED BY <1>2, <2>2
<1>5. CASE dropped' = ~lost /\ down' = down /\ UNCHANGED <<rightOn, both>>
  <2>1. dropped' \in BOOLEAN
    BY <1>5, Zenon DEF MouseInv
  <2>2. ~lost => InStep'
    BY <1>3, <1>4, <1>5 DEF InStep
  <2> QED BY <1>1, <1>2, <1>5, <2>1, <2>2 DEF MouseInv
<1>6. CASE /\ msg' = Edge /\ down' = btn /\ dropped' = FALSE
           /\ rightOn' = (~lost /\ (msg' = "RIGHT_PRESS" \/ (rightOn /\ msg' # "RIGHT_RELEASE")))
           /\ both' = (~lost /\ (both \/ (btn.l # down.l /\ btn.r # down.r)))
  <2>1. rightOn' \in BOOLEAN /\ both' \in BOOLEAN
    BY <1>6
  <2>2. ~lost => InStep'
    BY <1>3, <1>4, <1>6 DEF InStep
  <2>3. ASSUME ~lost, ~both' PROVE rightOn' = down'.r
    <3>1. btn.l \in BOOLEAN /\ btn.r \in BOOLEAN /\ down.l \in BOOLEAN /\ down.r \in BOOLEAN
      BY <1>1 DEF LeftInv
    <3>2. ~both /\ (btn.l = down.l \/ btn.r = down.r) /\ rightOn = down.r
      BY <1>6, <2>3 DEF MouseInv
    <3>3. rightOn' <=> (Edge = "RIGHT_PRESS" \/ (rightOn /\ Edge # "RIGHT_RELEASE"))
      BY <1>6, <2>3
    <3>4. CASE btn.r = down.r
      <4>1. Edge # "RIGHT_PRESS" /\ Edge # "RIGHT_RELEASE"
        BY <3>1, <3>4 DEF Edge
      <4> QED BY <1>6, <2>1, <3>1, <3>2, <3>3, <3>4, <4>1
    <3>5. CASE btn.r # down.r
      <4>1. btn.l = down.l
        BY <3>2, <3>5
      <4>2. Edge = (IF btn.r THEN "RIGHT_PRESS" ELSE "RIGHT_RELEASE")
        BY <3>1, <3>5, <4>1 DEF Edge
      <4>3. rightOn' <=> btn.r
        BY <3>1, <3>3, <4>2
      <4> QED BY <1>6, <2>1, <3>1, <4>3
    <3> QED BY <3>4, <3>5
  <2> QED BY <1>1, <1>2, <1>6, <2>1, <2>2, <2>3 DEF MouseInv
<1> QED BY <1>5, <1>6 DEF ThirdByte, DownDropped

\* The invariant of mouseintr(): with no byte lost, the decoder is in step.
THEOREM MouseInvariant == MouseSpec => []MouseInv
<1>1. MouseInit => MouseInv
  <2> SUFFICES ASSUME MouseInit PROVE MouseInv
    OBVIOUS
  <2>1. Up \in [l : BOOLEAN, r : BOOLEAN] /\ Up.l = FALSE /\ Up.r = FALSE
    BY DEF Up
  <2>2. LeftInv /\ InStep
    BY <2>1 DEF MouseInit, LeftInv, InStep
  <2>3. /\ real \in [l : BOOLEAN, r : BOOLEAN]
        /\ {lost, rightOn, both, dropped} \subseteq BOOLEAN /\ rightOn = down.r
    BY <2>1, Zenon DEF MouseInit
  <2>4. packet \in Seq(Int)
    <3>1. packet = <<>>
      BY Zenon DEF MouseInit
    <3> QED BY <3>1
  <2> QED BY <2>2, <2>3, <2>4 DEF MouseInv
<1>2. MouseInv /\ [MouseNext]_mousevars => MouseInv'
  <2> SUFFICES ASSUME MouseInv, [MouseNext]_mousevars PROVE MouseInv'
    OBVIOUS
  <2>1. CASE Send
    BY <2>1, SendInv
  <2>2. CASE Lose \/ Spurious
    <3>1. LeftInv'
      BY <2>2, OtherInv DEF MouseInv
    <3>2. LoseTrack /\ packet' \in Seq(Int)
      <4>1. packet \in Seq(Int)
        BY DEF MouseInv
      <4>2. packet' = packet \/ (packet # <<>> /\ packet' = Tail(packet))
        BY <2>2, Zenon DEF Lose, Spurious
      <4>3. packet' \in Seq(Int)
        <5>1. packet # <<>> => Tail(packet) \in Seq(Int)
          BY <4>1
        <5> QED BY <4>1, <4>2, <5>1, Zenon
      <4>4. LoseTrack
        BY <2>2, Zenon DEF Lose, Spurious
      <4> QED BY <4>3, <4>4
    <3> QED BY <3>1, <3>2, LostInv
  <2>3. CASE mouseintr
    BY <2>3, ByteInv, LastByteInv DEF mouseintr
  <2>4. CASE UNCHANGED mousevars
    BY <2>4 DEF mousevars, MouseInv, LeftInv, InStep
  <2> QED BY <2>1, <2>2, <2>3, <2>4 DEF MouseNext
<1> QED BY <1>1, <1>2, PTL DEF MouseSpec

\* What the messages of mouseintr() tell: presses and releases of the left button
\* alternate, and without lost bytes both buttons are where they are told to be.
THEOREM MouseTells == MouseSpec => ButtonMessages
<1>1. MouseInv => ButtonsTold
  <2> SUFFICES ASSUME MouseInv, ~lost, packet = <<>>, count = 0, ~dropped
               PROVE  leftOn = real.l /\ (~both => rightOn = real.r)
    BY DEF ButtonsTold
  <2>1. down = real
    BY DEF MouseInv, InStep
  <2> QED BY <2>1 DEF MouseInv, LeftInv
<1>2. MouseSpec => []ButtonsTold
  BY <1>1, MouseInvariant, PTL
<1> QED BY <1>2, MouseLeftAlternates, PTL DEF ButtonMessages

-----------------------------------------------------------------------------
(* The keyboard                                                            *)

\* Mods, by its members.
LEMMA ModsHas ==
  ASSUME NEW s, NEW b
  PROVE  b \in Mods(s) <=> b = "CAPSLOCK" \/ \E k \in s : b \in BitOf(k)
BY Zenon DEF Mods

\* E0ESC is the bit of no key.
LEMMA NoEscape ==
  ASSUME NEW s
  PROVE  "E0ESC" \notin Mods(s)
<1>1. \A c, h : "E0ESC" \notin shiftcode(c, h)
  BY DEF shiftcode
<1>2. \A k : "E0ESC" \notin BitOf(k)
  BY <1>1, Zenon DEF BitOf
<1>3. "E0ESC" # "CAPSLOCK"
  OBVIOUS
<1> QED BY <1>2, <1>3, ModsHas, Zenon

\* The first code of a key, and the rest.
LEMMA CodesHead ==
  ASSUME NEW k, NEW kind
  PROVE  /\ Codes(k, kind) # <<>>
         /\ KeyCode(k).e0 => /\ Head(Codes(k, kind)) = [kind |-> "E0", code |-> "E0"]
                             /\ Tail(Codes(k, kind)) = <<[kind |-> kind, code |-> KeyCode(k).code]>>
         /\ ~KeyCode(k).e0 => Codes(k, kind) = <<[kind |-> kind, code |-> KeyCode(k).code]>>
<1> DEFINE last == [kind |-> kind, code |-> KeyCode(k).code]
           first == [kind |-> "E0", code |-> "E0"]
<1>1. \A x, y : <<y>> # <<>> /\ <<x, y>> # <<>> /\ Head(<<x, y>>) = x /\ Tail(<<x, y>>) = <<y>>
  OBVIOUS
<1>2. CASE KeyCode(k).e0
  <2>1. Codes(k, kind) = <<first, last>>
    BY <1>1, <1>2, Zenon DEF Codes
  <2> QED BY <1>1, <1>2, <2>1, Zenon
<1>3. CASE ~KeyCode(k).e0
  <2>1. Codes(k, kind) = <<last>>
    BY <1>1, <1>3, Zenon DEF Codes
  <2> QED BY <1>1, <1>3, <2>1, Zenon
<1> QED BY <1>2, <1>3

\* Before its first code is read there is something to read.
LEMMA CodesLeft ==
  ASSUME KbdInv, bytes = <<>>
  PROVE  shift \subseteq Mods(held)
<1>1. \A x : <<x>> # <<>>
  OBVIOUS
<1> QED BY <1>1, CodesHead, Zenon DEF KbdInv

\* The last code of a key: its bits come, or go.
LEMMA LastCode ==
  ASSUME KbdInv, kbdgetc, NEW k \in Key, NEW kind \in {"make", "break"},
         kind = "make" => k \in held, shift \ {"E0ESC"} \subseteq Mods(held \cup {k}),
         bytes = <<[kind |-> kind, code |-> KeyCode(k).code]>>,
         "E0ESC" \in shift <=> KeyCode(k).e0
  PROVE  KbdInv'
<1> DEFINE c == KeyCode(k).code
           high == "E0ESC" \in shift
<1>1. /\ Head(bytes) = [kind |-> kind, code |-> c] /\ Tail(bytes) = <<>>
      /\ Head(bytes).kind = kind /\ Head(bytes).code = c
  OBVIOUS
<1>2. bytes' = <<>> /\ held' = held
  BY <1>1 DEF kbdgetc
<1>3. shiftcode(c, high) = BitOf(k)
  <2>1. KeyCode(k).e0 \in BOOLEAN
    BY KeyAssumption DEF KeyCode
  <2>2. high = KeyCode(k).e0
    BY <2>1
  <2> QED BY <2>2, Zenon DEF BitOf
<1>4. CASE kind = "break"
  <2>1. shift' = shift \ (shiftcode(c, high) \cup {"E0ESC"})
    BY <1>1, <1>4 DEF kbdgetc, BreakShift, BreakIndex
  <2>2. shift' \subseteq Mods(held)
    <3> SUFFICES ASSUME NEW b \in shift' PROVE b \in Mods(held)
      OBVIOUS
    <3>1. b \in shift \ {"E0ESC"} /\ b \notin BitOf(k)
      BY <1>3, <2>1
    <3>2. b = "CAPSLOCK" \/ \E j \in held \cup {k} : b \in BitOf(j)
      BY <3>1, ModsHas, Zenon
    <3>3. b = "CAPSLOCK" \/ \E j \in held : b \in BitOf(j)
      BY <3>1, <3>2, Zenon
    <3> QED BY <3>3, ModsHas, Zenon
  <2> QED BY <1>2, <2>2, Zenon DEF KbdInv
<1>5. CASE kind = "make"
  <2>1. shift' = Xor((shift \ {"E0ESC"}) \cup shiftcode(c, high), togglecode(c, high))
    BY <1>1, <1>5 DEF kbdgetc
  <2>2. shift' \subseteq (shift \ {"E0ESC"}) \cup shiftcode(c, high) \cup {"CAPSLOCK"}
    BY <2>1 DEF Xor, togglecode
  <2>3. shift' \subseteq Mods(held)
    BY <1>3, <1>5, <2>2, ModsHas, Zenon
  <2> QED BY <1>2, <2>3, Zenon DEF KbdInv
<1> QED BY <1>4, <1>5

\* kbdgetc() reads a code.
LEMMA kbdgetcInv ==
  ASSUME KbdInv, kbdgetc
  PROVE  KbdInv'
<1>1. bytes # <<>>
  BY DEF kbdgetc
<1>2. PICK k \in Key, kind \in {"make", "break"} :
        /\ kind = "make" => k \in held
        /\ shift \ {"E0ESC"} \subseteq Mods(held \cup {k})
        /\ \/ bytes = Codes(k, kind) /\ "E0ESC" \notin shift
           \/ /\ KeyCode(k).e0 /\ "E0ESC" \in shift
              /\ bytes = <<[kind |-> kind, code |-> KeyCode(k).code]>>
  BY <1>1, Zenon DEF KbdInv
<1>3. CASE KeyCode(k).e0 /\ bytes = Codes(k, kind)
  <2>1. /\ Head(bytes) = [kind |-> "E0", code |-> "E0"]
        /\ Tail(bytes) = <<[kind |-> kind, code |-> KeyCode(k).code]>>
    BY <1>3, CodesHead, Zenon
  <2>2. shift' = shift \cup {"E0ESC"} /\ bytes' = Tail(bytes) /\ held' = held
    <3>1. Head(bytes).kind = "E0"
      BY <2>1
    <3> QED BY <3>1 DEF kbdgetc
  <2>3. shift' \ {"E0ESC"} \subseteq Mods(held \cup {k})
    BY <1>2, <2>2
  <2> QED BY <1>2, <1>3, <2>1, <2>2, <2>3, Zenon DEF KbdInv
<1>4. CASE ~(KeyCode(k).e0 /\ bytes = Codes(k, kind))
  <2>1. bytes = <<[kind |-> kind, code |-> KeyCode(k).code]>> /\ ("E0ESC" \in shift <=> KeyCode(k).e0)
    BY <1>2, <1>4, CodesHead, Zenon
  <2> QED BY <1>2, <2>1, LastCode, Zenon
<1> QED BY <1>3, <1>4

\* The invariant of kbdgetc(), for any keys held together.
THEOREM KbdInvariant == KbdSpec => []KbdInv
<1>1. KbdInit => KbdInv
  BY Zenon DEF KbdInit, KbdInv
<1>2. KbdInv /\ [KbdNext]_kbdvars => KbdInv'
  <2> SUFFICES ASSUME KbdInv, [KbdNext]_kbdvars PROVE KbdInv'
    OBVIOUS
  <2>1. bytes = <<>> => shift \subseteq Mods(held) /\ "E0ESC" \notin shift
    <3>1. bytes = <<>> => shift \subseteq Mods(held)
      BY CodesLeft, Zenon
    <3> QED BY <3>1, NoEscape
  <2>2. ASSUME NEW k \in Key, PressKey(k) PROVE KbdInv'
    <3>1. /\ bytes = <<>> /\ held' = held \cup {k} /\ bytes' = Codes(k, "make") /\ shift' = shift
      BY <2>2 DEF PressKey
    <3>2. shift' \ {"E0ESC"} \subseteq Mods(held' \cup {k}) /\ held' \subseteq Key
      BY <2>1, <3>1, ModsHas DEF KbdInv
    <3>3. "E0ESC" \notin shift' /\ k \in held'
      BY <2>1, <3>1
    <3> QED BY <3>1, <3>2, <3>3 DEF KbdInv
  <2>3. ASSUME NEW k \in Key, Release(k) PROVE KbdInv'
    <3>1. /\ bytes = <<>> /\ held' = held \ {k} /\ k \in held /\ bytes' = Codes(k, "break") /\ shift' = shift
      BY <2>3 DEF Release
    <3>2. held' \cup {k} = held /\ held' \subseteq Key
      BY <3>1 DEF KbdInv
    <3>3. shift' \ {"E0ESC"} \subseteq Mods(held' \cup {k}) /\ "E0ESC" \notin shift'
      BY <2>1, <3>1, <3>2
    <3>4. "break" # "make"
      OBVIOUS
    <3> QED BY <3>1, <3>2, <3>3, <3>4 DEF KbdInv
  <2>4. CASE UNCHANGED kbdvars
    BY <2>4, Zenon DEF kbdvars, KbdInv
  <2> QED BY <2>2, <2>3, <2>4, kbdgetcInv DEF KbdNext
<1> QED BY <1>1, <1>2, PTL DEF KbdSpec

\* No modifier is stuck, in whatever order keys are pressed and released.
THEOREM KbdNoStuckModifier == KbdSpec => []NoStuckModifier
<1>1. KbdInv => NoStuckModifier
  <2> SUFFICES ASSUME KbdInv, bytes = <<>> PROVE shift \subseteq Mods(held)
    BY DEF NoStuckModifier
  <2> QED BY CodesLeft, Zenon
<1> QED BY <1>1, KbdInvariant, PTL
=============================================================================
