----------------------------- MODULE ProcTable -----------------------------
(***************************************************************************)
(* The life of a process: fork(), exit(), wait() and kill() of proc.c on   *)
(* the process table, and the loop of init.c that adopts and reaps.        *)
(*                                                                         *)
(* One action is one critical section of ptable.lock, or the code of       *)
(* fork() between two of them.  RUNNABLE stands for RUNNABLE and RUNNING:  *)
(* who has a CPU is the business of Sched.  The only channel is the one of *)
(* wait(), the process itself.                                             *)
(***************************************************************************)
EXTENDS Naturals

CONSTANTS
  NPROC,     \* the slots of ptable.proc are 1 .. NPROC
  MaxPid,    \* bound on nextpid
  KillArgs   \* the arguments of the kill() calls

ASSUME ProcAssumption == /\ NPROC \in Nat \ {0}
                         /\ MaxPid \in Nat \ {0}
                         /\ KillArgs \subseteq Nat

Slot == 1 .. NPROC
initproc == 1

VARIABLES
  state, pid, parent, killed, kstack, pgdir,  \* struct proc; the last two: allocated?
  nextpid,
  pc,        \* where the process in a slot is
  new,       \* the np of its fork()
  init,      \* init.c: where its loop is, and the pid of its last fork() (0: none)
  panicked

table == <<state, pid, parent, killed, kstack, pgdir>>
vars == <<table, nextpid, pc, new, init, panicked>>

State == {"UNUSED", "EMBRYO", "SLEEPING", "RUNNABLE", "ZOMBIE"}

\* The slots of the table keep their types.
TypeOK ==
  /\ state \in [Slot -> State]
  /\ pid \in [Slot -> Nat]
  /\ parent \in [Slot -> Slot \cup {0}]
  /\ killed \in [Slot -> BOOLEAN]
  /\ kstack \in [Slot -> BOOLEAN]
  /\ pgdir \in [Slot -> BOOLEAN]
  /\ nextpid \in Nat
  /\ pc \in [Slot -> {"user", "kalloc", "copyuvm", "exit", "wait"}]
  /\ new \in [Slot -> Slot \cup {0}]
  /\ init \in [at : {"gui", "sh", "wait"}, pid : Nat]
  /\ panicked \in BOOLEAN

\* userinit(): the first process has pid 1.
Init ==
  /\ state = [p \in Slot |-> IF p = initproc THEN "RUNNABLE" ELSE "UNUSED"]
  /\ pid = [p \in Slot |-> IF p = initproc THEN 1 ELSE 0]
  /\ parent = [p \in Slot |-> 0]
  /\ killed = [p \in Slot |-> FALSE]
  /\ kstack = [p \in Slot |-> p = initproc]
  /\ pgdir = [p \in Slot |-> p = initproc]
  /\ nextpid = 2
  /\ pc = [p \in Slot |-> "user"]
  /\ new = [p \in Slot |-> 0]
  /\ init = [at |-> "gui", pid |-> 0]
  /\ panicked = FALSE

\* The process in slot p runs and is at l.
At(p, l) == state[p] = "RUNNABLE" /\ pc[p] = l /\ ~panicked

Goto(p, l) == pc' = [pc EXCEPT ![p] = l]

\* Of the slots in S, the one a scan of the table meets first.
First(q, S) == q \in S /\ \A r \in S : q <= r

\* init.c forks the editor, forks the shell and waits for the shell; any other
\* program may fork and wait as it likes.
MayFork(p) == p = initproc => init.at # "wait"
MayWait(p) == p = initproc => init.at = "wait"

\* fork() has returned n, or 0 for -1, to init.c.
AfterFork(p, n) == IF p # initproc THEN init
                   ELSE [at |-> IF init.at = "gui" THEN "sh" ELSE "wait", pid |-> n]

-----------------------------------------------------------------------------
(* fork()                                                                  *)

Unused == {q \in Slot : state[q] = "UNUSED"}

\* allocproc(): take the first UNUSED slot.
AllocProc(p) ==
  /\ At(p, "user") /\ ~killed[p] /\ MayFork(p)
  /\ nextpid <= MaxPid
  /\ \E q \in Slot :
       /\ First(q, Unused)
       /\ state' = [state EXCEPT ![q] = "EMBRYO"]
       /\ pid' = [pid EXCEPT ![q] = nextpid]
       /\ new' = [new EXCEPT ![p] = q]
  /\ nextpid' = nextpid + 1
  /\ Goto(p, "kalloc")
  /\ UNCHANGED <<parent, killed, kstack, pgdir, init, panicked>>

\* fork() returns -1: init.c exits if it was to be the editor.
ForkFails(p) ==
  /\ Goto(p, IF p = initproc /\ init.at = "gui" THEN "exit" ELSE "user")
  /\ init' = AfterFork(p, 0)

\* allocproc() finds no UNUSED slot.
TableFull(p) ==
  /\ At(p, "user") /\ ~killed[p] /\ MayFork(p)
  /\ Unused = {}
  /\ ForkFails(p)
  /\ UNCHANGED <<table, nextpid, new, panicked>>

\* allocproc(): the kernel stack.  Without memory the slot is UNUSED again.
AllocStack(p) ==
  /\ At(p, "kalloc")
  /\ \/ /\ kstack' = [kstack EXCEPT ![new[p]] = TRUE]
        /\ Goto(p, "copyuvm")
        /\ UNCHANGED <<state, new, init>>
     \/ /\ state' = [state EXCEPT ![new[p]] = "UNUSED"]
        /\ new' = [new EXCEPT ![p] = 0]
        /\ ForkFails(p)
        /\ UNCHANGED kstack
  /\ UNCHANGED <<pid, parent, killed, pgdir, nextpid, panicked>>

\* Mutant: the stack is not freed when copyuvm() fails.
ForkChildKeepStack(p) ==
  /\ At(p, "copyuvm")
  /\ \/ /\ pgdir' = [pgdir EXCEPT ![new[p]] = TRUE]
        /\ parent' = [parent EXCEPT ![new[p]] = p]
        /\ state' = [state EXCEPT ![new[p]] = "RUNNABLE"]
        /\ pc' = [pc EXCEPT ![p] = "user", ![new[p]] = "user"]
        /\ init' = AfterFork(p, pid[new[p]])
     \/ /\ state' = [state EXCEPT ![new[p]] = "UNUSED"]
        /\ ForkFails(p)
        /\ UNCHANGED <<pgdir, parent>>
  /\ new' = [new EXCEPT ![p] = 0]
  /\ UNCHANGED <<pid, killed, kstack, nextpid, panicked>>

\* The rest of fork(): copy the address space, the parent, RUNNABLE; or free
\* the stack and the slot.
ForkChild(p) ==
  /\ At(p, "copyuvm")
  /\ \/ /\ pgdir' = [pgdir EXCEPT ![new[p]] = TRUE]
        /\ parent' = [parent EXCEPT ![new[p]] = p]
        /\ state' = [state EXCEPT ![new[p]] = "RUNNABLE"]
        /\ pc' = [pc EXCEPT ![p] = "user", ![new[p]] = "user"]
        /\ init' = AfterFork(p, pid[new[p]])
        /\ UNCHANGED kstack
     \/ /\ kstack' = [kstack EXCEPT ![new[p]] = FALSE]
        /\ state' = [state EXCEPT ![new[p]] = "UNUSED"]
        /\ ForkFails(p)
        /\ UNCHANGED <<pgdir, parent>>
  /\ new' = [new EXCEPT ![p] = 0]
  /\ UNCHANGED <<pid, killed, nextpid, panicked>>

-----------------------------------------------------------------------------
(* exit()                                                                  *)

\* Called by the program (init.c only when it cannot fork), or by trap() for a
\* killed process; then the files are closed.
Exit(p) ==
  /\ At(p, "user")
  /\ p # initproc \/ killed[p]
  /\ Goto(p, "exit")
  /\ UNCHANGED <<table, nextpid, new, init, panicked>>

\* panic("init exiting")
InitExits(p) ==
  /\ At(p, "exit") /\ p = initproc
  /\ panicked' = TRUE
  /\ UNCHANGED <<table, nextpid, pc, new, init>>

Children(p) == {q \in Slot : parent[q] = p}

\* Mutant: init is not told of the zombies it inherits.
ToWakeParent(p) == {parent[p]}

\* The processes exit() wakes: the parent, and init if it inherits a zombie.
ToWake(p) == {parent[p]} \cup
             {q \in {initproc} : \E r \in Children(p) : state[r] = "ZOMBIE"}

\* The critical section: wakeup1(parent), pass the children to init, ZOMBIE.
ExitZombie(p) ==
  /\ At(p, "exit") /\ p # initproc
  /\ state' = [q \in Slot |->
                 IF q = p THEN "ZOMBIE"
                 ELSE IF state[q] = "SLEEPING" /\ q \in ToWake(p) THEN "RUNNABLE"
                 ELSE state[q]]
  /\ parent' = [q \in Slot |-> IF q \in Children(p) THEN initproc ELSE parent[q]]
  /\ UNCHANGED <<pid, killed, kstack, pgdir, nextpid, pc, new, init, panicked>>

-----------------------------------------------------------------------------
(* wait()                                                                  *)

Wait(p) ==
  /\ At(p, "user") /\ ~killed[p] /\ MayWait(p)
  /\ Goto(p, "wait")
  /\ UNCHANGED <<table, nextpid, new, init, panicked>>

Zombies(p) == {q \in Children(p) : state[q] = "ZOMBIE"}

\* A zombie child: free what it had, and the slot.
WaitReap(p) ==
  /\ At(p, "wait")
  /\ \E q \in Slot :
       /\ First(q, Zombies(p))
       /\ kstack' = [kstack EXCEPT ![q] = FALSE]
       /\ pgdir' = [pgdir EXCEPT ![q] = FALSE]
       /\ state' = [state EXCEPT ![q] = "UNUSED"]
       /\ pid' = [pid EXCEPT ![q] = 0]
       /\ parent' = [parent EXCEPT ![q] = 0]
       /\ killed' = [killed EXCEPT ![q] = FALSE]
       /\ init' = IF p = initproc /\ pid[q] = init.pid THEN [init EXCEPT !.at = "gui"]
                  ELSE init
  /\ Goto(p, "user")
  /\ UNCHANGED <<nextpid, new, panicked>>

\* No children, or killed: -1.
WaitFails(p) ==
  /\ At(p, "wait")
  /\ Zombies(p) = {}
  /\ Children(p) = {} \/ killed[p]
  /\ Goto(p, "user")
  /\ init' = IF p = initproc THEN [init EXCEPT !.at = "gui"] ELSE init
  /\ UNCHANGED <<table, nextpid, new, panicked>>

\* sleep(proc, &ptable.lock), then scan again.
WaitSleep(p) ==
  /\ At(p, "wait")
  /\ Zombies(p) = {} /\ Children(p) # {} /\ ~killed[p]
  /\ state' = [state EXCEPT ![p] = "SLEEPING"]
  /\ UNCHANGED <<pid, parent, killed, kstack, pgdir, nextpid, pc, new, init, panicked>>

-----------------------------------------------------------------------------
\* kill(): the first slot with that pid, whatever its state.
Kill(p, n) ==
  /\ At(p, "user") /\ ~killed[p] /\ p # initproc
  /\ \E q \in Slot :
       /\ First(q, {r \in Slot : pid[r] = n})
       /\ killed' = [killed EXCEPT ![q] = TRUE]
       /\ state' = [state EXCEPT ![q] = IF @ = "SLEEPING" THEN "RUNNABLE" ELSE @]
  /\ UNCHANGED <<pid, parent, kstack, pgdir, nextpid, pc, new, init, panicked>>

\* The steps a process takes by itself once it is in the kernel.
Inside(p) == \/ AllocStack(p) \/ ForkChild(p) \/ InitExits(p) \/ ExitZombie(p)
             \/ WaitReap(p) \/ WaitFails(p) \/ WaitSleep(p)

Next == \E p \in Slot : \/ AllocProc(p) \/ TableFull(p) \/ Exit(p) \/ Wait(p) \/ Inside(p)
                        \/ \E n \in KillArgs : Kill(p, n)

Spec == Init /\ [][Next]_vars

(***************************************************************************)
(* Fairness: kernel code runs on (round robin, and no step here waits for  *)
(* anything but ptable.lock), init.c runs its loop, and trap() ends a      *)
(* killed process at the next timer interrupt.                             *)
(***************************************************************************)
Fairness ==
  /\ \A p \in Slot : WF_vars(Inside(p)) /\ WF_vars(killed[p] /\ Exit(p))
  /\ WF_vars(AllocProc(initproc) \/ TableFull(initproc) \/ Wait(initproc))
FairSpec == Spec /\ Fairness

-----------------------------------------------------------------------------
(* Properties                                                              *)

Live == {p \in Slot : state[p] \in {"SLEEPING", "RUNNABLE"}}

\* Every process but init has a parent that can still wait() for it: exit()
\* leaves no orphan, whatever its children are doing.
ParentAlive ==
  \A p \in Slot \ {initproc} :
    state[p] \in {"SLEEPING", "RUNNABLE", "ZOMBIE"} => parent[p] \in Live

\* A process sleeps in wait() only while it has a child and none is a zombie:
\* the scan and the sleep are one critical section, exit() wakes the parent
\* before it becomes a zombie, and init for the zombies it inherits.
WaitersHaveLiveChildren ==
  \A p \in Slot : state[p] = "SLEEPING" => Children(p) # {} /\ Zombies(p) = {}

\* Stack and page table belong to the slots in use, and are freed once: never
\* while the process can still run, and not later than the slot.
MemoryOfProcesses ==
  \A p \in Slot :
    /\ state[p] \in {"SLEEPING", "RUNNABLE", "ZOMBIE"} => kstack[p] /\ pgdir[p]
    /\ state[p] = "UNUSED" => ~kstack[p] /\ ~pgdir[p] /\ parent[p] = 0
    /\ state[p] = "EMBRYO" => ~pgdir[p] /\ \E q \in Live : new[q] = p

(***************************************************************************)
(* The inductive invariant behind the three.                               *)
(***************************************************************************)
\* In allocproc() or fork(), after the slot was taken.
Forking(p) == state[p] = "RUNNABLE" /\ pc[p] \in {"kalloc", "copyuvm"}

\* An EMBRYO belongs to exactly one fork().
EmbryoInv ==
  /\ \A p \in Slot : Forking(p) =>
       /\ new[p] \in Slot
       /\ state[new[p]] = "EMBRYO"
       /\ pc[p] = "kalloc" => ~kstack[new[p]]
       /\ pc[p] = "copyuvm" => kstack[new[p]]
  /\ \A p, q \in Slot : Forking(p) /\ Forking(q) /\ new[p] = new[q] => p = q
  /\ \A p \in Slot : state[p] = "EMBRYO" => \E q \in Slot : Forking(q) /\ new[q] = p

\* A slot that is free or being filled has no parent; init never ends, and
\* nobody is its own parent.
TreeInv ==
  /\ initproc \in Live /\ parent[initproc] = 0
  /\ \A p \in Slot : parent[p] # p
  /\ \A p \in Slot : state[p] \in {"UNUSED", "EMBRYO"} => parent[p] = 0
  /\ \A p \in Slot : state[p] = "SLEEPING" => pc[p] = "wait"

\* The inductive invariant of the table: the properties and what carries them.
IInv == /\ TypeOK /\ EmbryoInv /\ TreeInv
        /\ ParentAlive /\ WaitersHaveLiveChildren /\ MemoryOfProcesses

\* What init inherits it reaps, unless init itself exits (or MaxPid is reached
\* and the model has no pid for its next child).
OrphansReaped ==
  \A p \in Slot : state[p] = "ZOMBIE" /\ parent[p] = initproc ~>
                    (state[p] = "UNUSED" \/ panicked \/ nextpid > MaxPid)

\* proc.c:399, "Kill the process with the given pid": a process that fork() has
\* just created, and whose pid nobody knows yet, is not killed.
BornAlive ==
  [][\A q \in Slot : state[q] = "UNUSED" /\ state'[q] = "EMBRYO" => ~killed'[q]]_vars
=============================================================================
