------------------------------- MODULE Sched -------------------------------
(***************************************************************************)
(* Spin locks, sleep and wakeup, and the scheduler on several CPUs:        *)
(* spinlock.c, the scheduling half of proc.c, the timer branch of trap.c   *)
(* and sys_sleep(), the shortest user of all of them.                      *)
(*                                                                         *)
(* A CPU runs one of three things: an interrupt handler (ipc[c] # "none"), *)
(* the kernel thread of a process (cur[c] # NoProc), or its scheduler      *)
(* loop.  ptable.lock travels with swtch(): it is taken in one context and *)
(* released in another, by the same CPU.                                   *)
(*                                                                         *)
(* acquire() takes two steps: pushcli() belongs to the step that reaches a *)
(* "spin" location, the successful xchg() leaves it.                       *)
(***************************************************************************)
EXTENDS Integers, FiniteSets

CONSTANTS
  CPU,        \* the processors
  cpu0,       \* the one that counts ticks (cpu->id == 0)
  NPROC,      \* the process table is 1 .. NPROC
  MaxSleep,   \* bound on the argument of sys_sleep()
  Calls,      \* what user programs call besides sleep(): exit, wait, kill
  NoProc,     \* cpu->proc == 0
  Free        \* lk->locked == 0

ASSUME SchedAssumption == /\ cpu0 \in CPU
                          /\ NPROC \in Nat \ {0}
                          /\ MaxSleep \in Nat
                          /\ Calls \subseteq {"exit", "wait", "kill"}
                          /\ NoProc \notin 1 .. NPROC
                          /\ Free \notin CPU

Proc == 1 .. NPROC

VARIABLES
  lock,    \* the CPU that holds tickslock, and ptable.lock
  cpu,     \* each CPU's interrupt flag (on), ncli and intena
  cur,     \* each CPU's proc
  spc,     \* where each CPU's scheduler() is ...
  pos,     \* ... and the table slot it looks at next
  ipc,     \* where each CPU's interrupt handler is
  state,   \* p->state
  killed,  \* p->killed
  kpc,     \* where each kernel thread is
  resume,  \* where the timer interrupted it
  intena,  \* the local of its sched()
  left     \* the ticks sys_sleep() has still to wait: n - (ticks - ticks0)

hw == <<lock, cpu>>
sch == <<cur, spc, pos>>
thread == <<kpc, resume, intena, left>>
vars == <<lock, cpu, cur, spc, pos, ipc, state, killed, kpc, resume, intena, left>>

State == {"UNUSED", "SLEEPING", "RUNNABLE", "RUNNING", "ZOMBIE"}
SchedPC == {"sched_sleep", "sched_yield", "sched_exit"}
WaitPC == {"woken", "yielded", "dead"}
PC == {"user", "forkret", "spin_new", "check", "spin_sleep", "sleep_rel", "sleep_set", "reacquire",
       "spin_lk", "spin_yield", "spin_exit", "exiting", "spin_wait", "spin_kill",
       "unlock"} \cup SchedPC \cup WaitPC

\* CPUs, locks and processes keep their types.
TypeOK ==
  /\ lock \in [{"tickslock", "ptable"} -> CPU \cup {Free}]
  /\ cpu \in [CPU -> [on : BOOLEAN, ncli : Int, intena : BOOLEAN]]
  /\ cur \in [CPU -> Proc \cup {NoProc}]
  /\ spc \in [CPU -> {"loop", "spin", "scan"}]
  /\ pos \in [CPU -> 1 .. NPROC + 1]
  /\ ipc \in [CPU -> {"none", "spin_tick", "spin_wakeup", "wakeup", "tick"}]
  /\ state \in [Proc -> State]
  /\ killed \in [Proc -> BOOLEAN]
  /\ kpc \in [Proc -> PC]
  /\ resume \in [Proc -> PC]
  /\ intena \in [Proc -> BOOLEAN]
  /\ left \in [Proc -> 0 .. MaxSleep]

-----------------------------------------------------------------------------
(* spinlock.c                                                              *)

\* Mutant: no cli().
pushcliNoCli(r) == [on |-> r.on, ncli |-> r.ncli + 1,
                    intena |-> IF r.ncli = 0 THEN r.on ELSE r.intena]

pushcli(r) == [on |-> FALSE, ncli |-> r.ncli + 1,
               intena |-> IF r.ncli = 0 THEN r.on ELSE r.intena]

popcli(r) == [r EXCEPT !.ncli = @ - 1,
                       !.on = @ \/ (r.ncli = 1 /\ r.intena)]

\* The xchg() of acquire() that finds the lock free.
Take(l, c) == lock[l] = Free /\ lock' = [lock EXCEPT ![l] = c]

Drop(l) == lock' = [lock EXCEPT ![l] = Free]

SetCpu(c, r) == cpu' = [cpu EXCEPT ![c] = r]

Goto(p, l) == kpc' = [kpc EXCEPT ![p] = l]

\* The kernel thread of p executes on c at location l.
At(c, p, l) == ipc[c] = "none" /\ cur[c] = p /\ kpc[p] = l

Init ==
  /\ lock = [l \in {"tickslock", "ptable"} |-> Free]
  /\ cpu = [c \in CPU |-> [on |-> TRUE, ncli |-> 0, intena |-> FALSE]]
  /\ cur = [c \in CPU |-> NoProc]
  /\ spc = [c \in CPU |-> "loop"]
  /\ pos = [c \in CPU |-> 1]
  /\ ipc = [c \in CPU |-> "none"]
  /\ state = [p \in Proc |-> "RUNNABLE"]
  /\ killed = [p \in Proc |-> FALSE]
  /\ kpc = [p \in Proc |-> "forkret"]
  /\ resume = [p \in Proc |-> "user"]
  /\ intena = [p \in Proc |-> TRUE]
  /\ left = [p \in Proc |-> 0]

-----------------------------------------------------------------------------
(* proc.c: the scheduler                                                   *)

InScheduler(c) == ipc[c] = "none" /\ cur[c] = NoProc

\* sti(); acquire(&ptable.lock).  "loop" is left with interrupts on.
SchedulerLoop(c) ==
  /\ InScheduler(c) /\ spc[c] = "loop"
  /\ SetCpu(c, pushcli(cpu[c]))
  /\ spc' = [spc EXCEPT ![c] = "spin"]
  /\ UNCHANGED <<lock, cur, pos, ipc, state, killed, thread>>

SchedulerLock(c) ==
  /\ InScheduler(c) /\ spc[c] = "spin"
  /\ Take("ptable", c)
  /\ spc' = [spc EXCEPT ![c] = "scan"]
  /\ UNCHANGED <<cpu, cur, pos, ipc, state, killed, thread>>

\* The slots still to be looked at that hold a process to run.
Candidates(c) == {p \in Proc : p >= pos[c] /\ state[p] = "RUNNABLE"}

\* Mutant: the resumed sched() does not restore cpu->intena.
SchedulerRunKeepIntena(c) ==
  /\ InScheduler(c) /\ spc[c] = "scan"
  /\ \E p \in Candidates(c) :
       /\ \A q \in Candidates(c) : p <= q
       /\ cur' = [cur EXCEPT ![c] = p]
       /\ state' = [state EXCEPT ![p] = "RUNNING"]
       /\ pos' = [pos EXCEPT ![c] = p + 1]
  /\ UNCHANGED <<hw, spc, ipc, killed, thread>>

\* swtch() to the next RUNNABLE process.  It continues after the swtch() of its
\* sched(), which restores cpu->intena, or, for the first time, in forkret().
SchedulerRun(c) ==
  /\ InScheduler(c) /\ spc[c] = "scan"
  /\ \E p \in Candidates(c) :
       /\ \A q \in Candidates(c) : p <= q
       /\ cur' = [cur EXCEPT ![c] = p]
       /\ state' = [state EXCEPT ![p] = "RUNNING"]
       /\ pos' = [pos EXCEPT ![c] = p + 1]
       /\ SetCpu(c, IF kpc[p] = "forkret" THEN cpu[c]
                    ELSE [cpu[c] EXCEPT !.intena = intena[p]])
  /\ UNCHANGED <<lock, spc, ipc, killed, thread>>

\* The end of the table: release(&ptable.lock), and the loop starts again.
SchedulerUnlock(c) ==
  /\ InScheduler(c) /\ spc[c] = "scan"
  /\ Candidates(c) = {}
  /\ Drop("ptable")
  /\ SetCpu(c, [popcli(cpu[c]) EXCEPT !.on = TRUE])
  /\ spc' = [spc EXCEPT ![c] = "loop"]
  /\ pos' = [pos EXCEPT ![c] = 1]
  /\ UNCHANGED <<cur, ipc, state, killed, thread>>

\* Where a thread goes on when it is run again after a swtch() from l.
AfterSwtch(l) == CASE l = "sched_sleep" -> "woken"
                   [] l = "sched_yield" -> "yielded"
                   [] l = "sched_exit" -> "dead"

\* sched(): swtch() to the scheduler of this CPU.
sched(c, p) ==
  /\ \E l \in SchedPC : At(c, p, l) /\ Goto(p, AfterSwtch(l))
  /\ intena' = [intena EXCEPT ![p] = cpu[c].intena]
  /\ cur' = [cur EXCEPT ![c] = NoProc]
  /\ UNCHANGED <<hw, spc, pos, ipc, state, killed, resume, left>>

\* forkret(): release(&ptable.lock), then trapret to user mode.
forkret(c, p) ==
  /\ At(c, p, "forkret")
  /\ Drop("ptable")
  /\ SetCpu(c, [popcli(cpu[c]) EXCEPT !.on = TRUE])
  /\ Goto(p, "user")
  /\ UNCHANGED <<sch, ipc, state, killed, resume, intena, left>>

-----------------------------------------------------------------------------
(* sys_sleep(): acquire(&tickslock); while(ticks - ticks0 < n) sleep(...)  *)

SysSleep(c, p) ==
  /\ At(c, p, "user") /\ ~killed[p]
  /\ SetCpu(c, pushcli(cpu[c]))
  /\ Goto(p, "spin_new")
  /\ UNCHANGED <<lock, sch, ipc, state, killed, resume, intena, left>>

ReadTicks0(c, p) ==
  /\ At(c, p, "spin_new")
  /\ Take("tickslock", c)
  /\ Goto(p, "check")
  /\ \E n \in 0 .. MaxSleep : left' = [left EXCEPT ![p] = n]
  /\ UNCHANGED <<cpu, sch, ipc, state, killed, resume, intena>>

\* Mutant: tickslock is released before sleep() takes ptable.lock.
CheckTicksUnlock(c, p) ==
  /\ At(c, p, "check")
  /\ Drop("tickslock")
  /\ \/ /\ left[p] = 0 \/ killed[p]
        /\ SetCpu(c, [popcli(cpu[c]) EXCEPT !.on = TRUE])
        /\ Goto(p, "user")
        /\ left' = [left EXCEPT ![p] = 0]
     \/ /\ left[p] > 0 /\ ~killed[p]
        /\ SetCpu(c, pushcli(cpu[c]))
        /\ Goto(p, "spin_sleep")
        /\ UNCHANGED left
  /\ UNCHANGED <<sch, ipc, state, killed, resume, intena>>

\* The loop condition, with tickslock held.
CheckTicks(c, p) ==
  /\ At(c, p, "check")
  /\ \/ /\ left[p] = 0 \/ killed[p]
        /\ Drop("tickslock")
        /\ SetCpu(c, [popcli(cpu[c]) EXCEPT !.on = TRUE])
        /\ Goto(p, "user")
        /\ left' = [left EXCEPT ![p] = 0]
     \/ /\ left[p] > 0 /\ ~killed[p]
        /\ SetCpu(c, pushcli(cpu[c]))
        /\ Goto(p, "spin_sleep")
        /\ UNCHANGED <<lock, left>>
  /\ UNCHANGED <<sch, ipc, state, killed, resume, intena>>

(* sleep(&ticks, &tickslock)                                               *)

SleepLock(c, p) ==
  /\ At(c, p, "spin_sleep")
  /\ Take("ptable", c)
  /\ Goto(p, "sleep_rel")
  /\ UNCHANGED <<cpu, sch, ipc, state, killed, resume, intena, left>>

SleepRelease(c, p) ==
  /\ At(c, p, "sleep_rel")
  /\ Drop("tickslock")
  /\ SetCpu(c, popcli(cpu[c]))
  /\ Goto(p, "sleep_set")
  /\ UNCHANGED <<sch, ipc, state, killed, resume, intena, left>>

SleepSet(c, p) ==
  /\ At(c, p, "sleep_set")
  /\ state' = [state EXCEPT ![p] = "SLEEPING"]
  /\ Goto(p, "sched_sleep")
  /\ UNCHANGED <<hw, sch, ipc, killed, resume, intena, left>>

Woken(c, p) ==
  /\ At(c, p, "woken")
  /\ Drop("ptable")
  /\ SetCpu(c, popcli(cpu[c]))
  /\ Goto(p, "reacquire")
  /\ UNCHANGED <<sch, ipc, state, killed, resume, intena, left>>

\* acquire(lk), without a lock in between.
Reacquire(c, p) ==
  /\ At(c, p, "reacquire")
  /\ SetCpu(c, pushcli(cpu[c]))
  /\ Goto(p, "spin_lk")
  /\ UNCHANGED <<lock, sch, ipc, state, killed, resume, intena, left>>

ReacquireLock(c, p) ==
  /\ At(c, p, "spin_lk")
  /\ Take("tickslock", c)
  /\ Goto(p, "check")
  /\ UNCHANGED <<cpu, sch, ipc, state, killed, resume, intena, left>>

-----------------------------------------------------------------------------
(* exit(), wait() and kill(), as far as they touch the scheduling state.   *)

\* A system call that starts with acquire(&ptable.lock).  A killed process
\* only gets as far as exit() (trap.c).
SysPtable(c, p) ==
  /\ At(c, p, "user")
  /\ SetCpu(c, pushcli(cpu[c]))
  /\ \/ (killed[p] \/ "exit" \in Calls) /\ Goto(p, "spin_exit")
     \/ ~killed[p] /\ "wait" \in Calls /\ Goto(p, "spin_wait")
     \/ ~killed[p] /\ "kill" \in Calls /\ Goto(p, "spin_kill")
  /\ UNCHANGED <<lock, sch, ipc, state, killed, resume, intena, left>>

ExitLock(c, p) ==
  /\ At(c, p, "spin_exit")
  /\ Take("ptable", c)
  /\ Goto(p, "exiting")
  /\ UNCHANGED <<cpu, sch, ipc, state, killed, resume, intena, left>>

\* Mutant: exit() releases ptable.lock before sched().
ExitZombieUnlock(c, p) ==
  /\ At(c, p, "exiting")
  /\ state' = [state EXCEPT ![p] = "ZOMBIE"]
  /\ Drop("ptable")
  /\ Goto(p, "sched_exit")
  /\ UNCHANGED <<cpu, sch, ipc, killed, resume, intena, left>>

ExitZombie(c, p) ==
  /\ At(c, p, "exiting")
  /\ state' = [state EXCEPT ![p] = "ZOMBIE"]
  /\ Goto(p, "sched_exit")
  /\ UNCHANGED <<hw, sch, ipc, killed, resume, intena, left>>

\* wait() frees the kernel stack of a zombie, or finds none and returns; its
\* sleep, on another channel than ticks, is in ProcTable.
Reap(c, p) ==
  /\ At(c, p, "spin_wait")
  /\ Take("ptable", c)
  /\ \/ \E q \in Proc : /\ state[q] = "ZOMBIE"
                         /\ state' = [state EXCEPT ![q] = "UNUSED"]
                         /\ killed' = [killed EXCEPT ![q] = FALSE]
     \/ /\ \A q \in Proc : state[q] # "ZOMBIE"
        /\ UNCHANGED <<state, killed>>
  /\ Goto(p, "unlock")
  /\ UNCHANGED <<cpu, sch, ipc, resume, intena, left>>

\* kill() of a process, or of a pid that is not in the table.
Kill(c, p) ==
  /\ At(c, p, "spin_kill")
  /\ Take("ptable", c)
  /\ \/ \E q \in Proc :
          /\ state[q] # "UNUSED"
          /\ killed' = [killed EXCEPT ![q] = TRUE]
          /\ state' = [state EXCEPT ![q] = IF @ = "SLEEPING" THEN "RUNNABLE" ELSE @]
     \/ UNCHANGED <<state, killed>>
  /\ Goto(p, "unlock")
  /\ UNCHANGED <<cpu, sch, ipc, resume, intena, left>>

Unlock(c, p) ==
  /\ At(c, p, "unlock")
  /\ Drop("ptable")
  /\ SetCpu(c, [popcli(cpu[c]) EXCEPT !.on = TRUE])
  /\ Goto(p, "user")
  /\ UNCHANGED <<sch, ipc, state, killed, resume, intena, left>>

-----------------------------------------------------------------------------
(* trap(): the timer interrupt.  It strikes whatever c is doing, if c has  *)
(* interrupts on; the gate turns them off and iret turns them on again.    *)

\* The tail of trap(): exit if killed in user mode, else give up the CPU.
\* r is what the handler has left in the CPU's flags.
\* (A process that can be interrupted is RUNNING, so the test of its state that
\* precedes yield() always succeeds.)
TrapTail(c, r) ==
  /\ ipc' = [ipc EXCEPT ![c] = "none"]
  /\ \/ /\ cur[c] = NoProc
        /\ SetCpu(c, [r EXCEPT !.on = TRUE])
        /\ UNCHANGED <<kpc, resume>>
     \/ \E p \in Proc :
          /\ cur[c] = p
          /\ SetCpu(c, pushcli(r))
          /\ IF killed[p] /\ kpc[p] = "user"
             THEN /\ Goto(p, "spin_exit")
                  /\ UNCHANGED resume
             ELSE /\ Goto(p, "spin_yield")
                  /\ resume' = [resume EXCEPT ![p] = kpc[p]]

Timer(c) ==
  /\ ipc[c] = "none" /\ cpu[c].on
  /\ LET r == [cpu[c] EXCEPT !.on = FALSE]
     IN  IF c = cpu0
         THEN /\ ipc' = [ipc EXCEPT ![c] = "spin_tick"]
              /\ SetCpu(c, pushcli(r))
              /\ UNCHANGED <<kpc, resume>>
         ELSE TrapTail(c, r)
  /\ UNCHANGED <<lock, sch, state, killed, intena, left>>

\* acquire(&tickslock); ticks++; and the pushcli() of wakeup().
Tick(c) ==
  /\ ipc[c] = "spin_tick"
  /\ Take("tickslock", c)
  /\ left' = [p \in Proc |-> IF left[p] > 0 THEN left[p] - 1 ELSE 0]
  /\ SetCpu(c, pushcli(cpu[c]))
  /\ ipc' = [ipc EXCEPT ![c] = "spin_wakeup"]
  /\ UNCHANGED <<sch, state, killed, kpc, resume, intena>>

\* Mutant: wakeup1() skips whoever it should wake.
WakeupNobody(c) ==
  /\ ipc[c] = "spin_wakeup"
  /\ Take("ptable", c)
  /\ ipc' = [ipc EXCEPT ![c] = "wakeup"]
  /\ UNCHANGED <<cpu, sch, state, killed, thread>>

\* wakeup1(&ticks): all who sleep on it.
Wakeup(c) ==
  /\ ipc[c] = "spin_wakeup"
  /\ Take("ptable", c)
  /\ state' = [p \in Proc |-> IF state[p] = "SLEEPING" THEN "RUNNABLE" ELSE state[p]]
  /\ ipc' = [ipc EXCEPT ![c] = "wakeup"]
  /\ UNCHANGED <<cpu, sch, killed, thread>>

WakeupUnlock(c) ==
  /\ ipc[c] = "wakeup"
  /\ Drop("ptable")
  /\ SetCpu(c, popcli(cpu[c]))
  /\ ipc' = [ipc EXCEPT ![c] = "tick"]
  /\ UNCHANGED <<sch, state, killed, thread>>

TickUnlock(c) ==
  /\ ipc[c] = "tick"
  /\ Drop("tickslock")
  /\ TrapTail(c, popcli(cpu[c]))
  /\ UNCHANGED <<sch, state, killed, intena, left>>

(* yield(), called by trap()                                               *)

YieldLock(c, p) ==
  /\ At(c, p, "spin_yield")
  /\ Take("ptable", c)
  /\ state' = [state EXCEPT ![p] = "RUNNABLE"]
  /\ Goto(p, "sched_yield")
  /\ UNCHANGED <<cpu, sch, ipc, killed, resume, intena, left>>

\* release(&ptable.lock), the last test of trap(), and iret.
Yielded(c, p) ==
  /\ At(c, p, "yielded")
  /\ Drop("ptable")
  /\ IF killed[p] /\ resume[p] = "user"
     THEN SetCpu(c, pushcli(popcli(cpu[c]))) /\ Goto(p, "spin_exit")
     ELSE SetCpu(c, [popcli(cpu[c]) EXCEPT !.on = TRUE]) /\ Goto(p, resume[p])
  /\ resume' = [resume EXCEPT ![p] = "user"]
  /\ UNCHANGED <<sch, ipc, state, killed, intena, left>>

-----------------------------------------------------------------------------

Scheduler(c) == SchedulerLoop(c) \/ SchedulerLock(c) \/ SchedulerRun(c) \/ SchedulerUnlock(c)

Handler(c) == Tick(c) \/ Wakeup(c) \/ WakeupUnlock(c) \/ TickUnlock(c)

\* The kernel code of a process.
Thread(c, p) ==
  \/ sched(c, p) \/ forkret(c, p)
  \/ ReadTicks0(c, p) \/ CheckTicks(c, p) \/ SleepLock(c, p) \/ SleepRelease(c, p)
  \/ SleepSet(c, p) \/ Woken(c, p) \/ Reacquire(c, p) \/ ReacquireLock(c, p)
  \/ ExitLock(c, p) \/ ExitZombie(c, p) \/ Reap(c, p) \/ Kill(c, p) \/ Unlock(c, p)
  \/ YieldLock(c, p) \/ Yielded(c, p)

\* What a user program may ask for, and need not.
Call(c, p) == SysSleep(c, p) \/ SysPtable(c, p)

Next == \E c \in CPU : \/ Scheduler(c) \/ Timer(c) \/ Handler(c)
                       \/ \E p \in Proc : Thread(c, p) \/ Call(c, p)

Spec == Init /\ [][Next]_vars

(***************************************************************************)
(* Fairness.  Timers keep interrupting; between two interrupts the code of *)
(* a CPU gets somewhere; a CPU that spins on a lock which is free again    *)
(* and again takes it (the bus arbitrates xchg).  Hence strong fairness of *)
(* each handler, each scheduler loop and each kernel thread, and of the    *)
(* one step that interrupts can precede any number of times (Reacquire).   *)
(* User code need not make a system call, but a timer interrupts it.       *)
(***************************************************************************)
FairSpec == /\ Spec
            /\ \A c \in CPU : SF_vars(Timer(c)) /\ SF_vars(Handler(c)) /\ SF_vars(Scheduler(c))
            /\ \A p \in Proc : /\ SF_vars(\E c \in CPU : Thread(c, p))
                              /\ SF_vars(\E c \in CPU : Reacquire(c, p))

-----------------------------------------------------------------------------
(* Properties                                                              *)

\* The location c executes, in whatever context it is.
Here(c) == IF ipc[c] # "none" THEN ipc[c]
           ELSE IF cur[c] # NoProc THEN kpc[cur[c]] ELSE spc[c]

\* The lock whose acquire() has c at a "spin" location, and the one whose
\* release() comes next.
Wanted == [l \in {"tickslock", "ptable"} |->
             IF l = "tickslock" THEN {"spin_new", "spin_lk", "spin_tick"}
             ELSE {"spin_sleep", "spin_yield", "spin_exit", "spin_wait", "spin_kill",
                   "spin_wakeup", "spin"}]
Released == [l \in {"tickslock", "ptable"} |->
               IF l = "tickslock" THEN {"check", "sleep_rel", "tick"}
               ELSE {"forkret", "woken", "yielded", "unlock", "wakeup", "scan"}]

\* No panic of acquire(), release(), popcli() or sched() is reached: no CPU
\* spins on a lock it holds (not even in an interrupt handler), none releases
\* a lock it does not hold, and sched() is entered with ptable.lock, no other
\* lock, interrupts off, and the state of the process already changed.
NoPanic ==
  \A c \in CPU :
    /\ \A l \in {"tickslock", "ptable"} :
         /\ Here(c) \in Wanted[l] => lock[l] # c
         /\ Here(c) \in Released[l] => lock[l] = c /\ ~cpu[c].on /\ cpu[c].ncli > 0
    /\ Here(c) \in SchedPC =>
         lock["ptable"] = c /\ cpu[c].ncli = 1 /\ ~cpu[c].on /\ state[cur[c]] # "RUNNING"

\* A kernel stack is used by one CPU at a time, and only wait() of a process
\* that is off its CPU frees it: what runs is RUNNING, except that a process on
\* its way into swtch() has another state, which ptable.lock hides.
OneCpuPerStack ==
  /\ \A c, d \in CPU : cur[c] = cur[d] /\ cur[c] # NoProc => c = d
  /\ \A c \in CPU : cur[c] # NoProc =>
       \/ state[cur[c]] = "RUNNING"
       \/ state[cur[c]] # "UNUSED" /\ lock["ptable"] = c /\ kpc[cur[c]] \in SchedPC
  /\ \A p \in Proc : state[p] = "RUNNING" => \E c \in CPU : cur[c] = p

\* proc.c:351-356, "we won't miss any wakeup": a process that sleeps although
\* its ticks have passed is about to be woken by the handler that counted the
\* last one.
NoLostWakeup ==
  \A p \in Proc : state[p] = "SLEEPING" /\ left[p] = 0 => ipc[cpu0] = "spin_wakeup"

\* pushcli() and popcli() are matched and sched() keeps intena per thread:
\* kernel code that holds no lock runs with interrupts on, also after it slept
\* and was resumed in the place of a thread that had been interrupted.
InterruptsRestored ==
  \A c \in CPU : Here(c) \in {"user", "reacquire", "loop"} => cpu[c].on /\ cpu[c].ncli = 0

(***************************************************************************)
(* The invariant behind these: the location of a CPU says which locks it   *)
(* holds, how deep pushcli() is nested and whether interrupts are on.      *)
(***************************************************************************)
HoldsTicks == {"check", "spin_sleep", "sleep_rel", "spin_wakeup", "wakeup", "tick"}
HoldsPtable == {"forkret", "sleep_rel", "sleep_set", "woken", "yielded", "exiting", "unlock",
                "wakeup", "scan"} \cup SchedPC
Open == {"user", "reacquire", "loop"}
Nested == {"spin_sleep", "sleep_rel", "spin_wakeup", "wakeup"}
\* Kernel code of sys_sleep(), whose first pushcli() found interrupts on.
FromOpen == {"spin_new", "spin_lk", "check", "spin_sleep", "sleep_rel", "sleep_set",
             "sched_sleep", "woken"}

Depth(l) == IF l \in Open THEN 0 ELSE IF l \in Nested THEN 2 ELSE 1

\* What an interrupt handler on c interrupted.
Below(c) == IF cur[c] # NoProc THEN kpc[cur[c]] ELSE spc[c]

CpuOK(c) ==
  /\ lock["tickslock"] = c <=> Here(c) \in HoldsTicks
  /\ lock["ptable"] = c <=> Here(c) \in HoldsPtable
  /\ cpu[c].ncli = Depth(Here(c))
  /\ cpu[c].on <=> Here(c) \in Open
  /\ Here(c) \in FromOpen => cpu[c].intena
  /\ ipc[c] # "none" => c = cpu0 /\ Below(c) \in Open
  /\ cur[c] # NoProc => spc[c] = "scan"

\* The state of a process that is on a CPU.
StateAt(l) == CASE l = "sched_sleep" -> "SLEEPING"
                [] l = "sched_yield" -> "RUNNABLE"
                [] l = "sched_exit" -> "ZOMBIE"
                [] OTHER -> "RUNNING"

\* The state of a process says where its thread can be, on a CPU or off it.
StateOK(p) ==
  /\ \A c, d \in CPU : cur[c] = p /\ cur[d] = p => c = d
  /\ IF \E c \in CPU : cur[c] = p
     THEN /\ kpc[p] # "dead"
          /\ state[p] = StateAt(kpc[p])
     ELSE \/ kpc[p] \in {"forkret", "yielded"} /\ state[p] = "RUNNABLE"
          \/ kpc[p] = "woken" /\ state[p] \in {"SLEEPING", "RUNNABLE"} /\ intena[p]
          \/ kpc[p] = "dead" /\ state[p] \in {"ZOMBIE", "UNUSED"}
  /\ resume[p] \in {"user", "reacquire"}

\* Ticks are only counted down to 0 before p sleeps if cpu0 is about to wake p.
TicksOK(p) ==
  /\ kpc[p] \in {"spin_sleep", "sleep_rel"} => left[p] > 0
  /\ kpc[p] = "sleep_set" \/ state[p] = "SLEEPING" => left[p] > 0 \/ ipc[cpu0] = "spin_wakeup"

SchedInv == TypeOK /\ (\A c \in CPU : CpuOK(c)) /\ (\A p \in Proc : StateOK(p) /\ TicksOK(p))

\* sys_sleep() returns (or its process is killed and exits).
SleepReturns ==
  \A p \in Proc : kpc[p] = "check" ~> kpc[p] \in {"user", "dead"}

\* No deadlock over the two locks: whoever has one lets go of it.
LocksReleased ==
  \A c \in CPU, l \in {"tickslock", "ptable"} : lock[l] = c ~> lock[l] # c

\* The machine moves on: a sleep ends and no CPU keeps a lock.
SchedMoves == SleepReturns /\ LocksReleased
=============================================================================
