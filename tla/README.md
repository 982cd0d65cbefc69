# A TLA+ model of the NX editor and the xv6 kernel under it

The repository is an xv6 kernel (Unix v6 on x86 multiprocessors) extended with
a graphics mode, mouse and keyboard messages, and a text editor as its first
program. This directory holds TLA+ modules for the kernel and the programs,
configurations that model-check them with TLC, and proofs that TLAPS checks.
`PROJECT.json` lists components, runs, mutants, hazards and theorems, and maps
each definition to the source lines it models.

## The system and its parts

| Part | Source | Model | Run | Proofs |
| --- | --- | --- | --- | --- |
| Log | `log.c` | `Log`, `AtomicDisk` | MCLog | `LogProofs` |
| Spin locks, scheduler, sleep and wakeup | `spinlock.c`, `proc.c`, `trap.c`, `sysproc.c` | `Sched` | MCSched, MCSchedLive | `SchedProofs` |
| Process table | `proc.c`, `init.c` | `ProcTable` | MCProcTable | `KernelProofs` |
| Pipes | `pipe.c`, `file.c` | `Pipe`, `Channel` | MCPipe | `PipeProofs` |
| Buffer cache, disk driver | `bio.c`, `ide.c` | `BufferCache`, `SectorStore` | MCBufferCache | `BufferCacheProofs` |
| Inodes, directories, blocks, files | `fs.c`, `file.c`, `sysfile.c` | `FileSystem` | MCKernel | |
| Pages and address spaces | `kalloc.c`, `vm.c`, `exec.c` | `Memory` | MCKernel | `MemoryProofs`, `MemoryAccounts` |
| Message queue, main loop | `sys_get_msg.c`, `Gui.c` | `MsgQueue` | MCKernel | `KernelProofs` |
| Keyboard | `kbd.c` | `Keyboard` | MCKernel | `KernelProofs` |
| Mouse | `mouse.c` | `Mouse` | MCKernel | `KernelProofs` |
| Console input | `console.c` | `Console` | MCKernel | `UserProofs` |
| User allocator | `umalloc.c` | `Heap` | MCUser | |
| Text buffer | `textframe.c` | `TextFrame`, `RowTable` | MCUser | `UserProofs` (rows) |
| Editing a text | `Gui.c` | `TextEdit` | MCUser | |
| Tabs, files, focus | `Gui.c` | `Editor` | MCUser | |
| Layout, mouse look-up, scrolling | `Gui.c` | `Screen` | MCUser | `UserProofs` |
| Input method, highlighting | `init_ascii_gbk_pinyin.c`, `highlight.c` | `Trie`, `InputMethod`, `Highlight` | MCUser | |
| Shell | `sh.c` | `Shell` | MCUser | |

How they interact: a system call takes spin locks, sleeps on a condition and is
woken by an interrupt or another process (`Sched`). The file system changes
blocks through the cache (`BufferCache`), inside transactions of the log
(`Log`), which pins buffers in the cache until it has installed them.
fork() and exit() share and drop files, among them the ends of pipes (`Pipe`),
and build and free address spaces (`Memory`). The interrupts of keyboard and
mouse decode bytes (`Keyboard`, `Mouse`) into messages, which the editor's main
loop takes from a ring (`MsgQueue`) and passes down the tree of widgets
(`Screen`) to handlers that change a text (`TextEdit` on `TextFrame`) or the
tabs and files (`Editor`).

Each module is written so that the others meet it at an interface: the log
sees a cache that loses unpinned blocks, the file system sees transactions that
exclude each other, the pipe sees processes that are killed. The components are
not multiplied with each other. `MCKernel` and `MCUser` hold several components
that share no variable; `part` says which one a behaviour is of.

## The modules

`Log` models `log.c` with the part of the cache the log depends on. The disk is
`home` (file system blocks), `hdr` (the on-disk header) and `logblk`; memory is
`buf`, `dirty` (pinned buffers), `busy` and `lh`. An action is one disk write
or one critical section; `Crash` clears the memory at any point and starts
recovery. `AtomicDisk` is what it promises: a transaction becomes durable in
one step or not at all.

`Sched` models CPUs, each running a handler, a kernel thread or its scheduler
loop. acquire() is two steps (interrupts off; the lock is free), so an interrupt
or another CPU can act in between. `ptable.lock` is taken in one context and
released in another. sys_sleep() is the user of sleep/wakeup; exit, wait and
kill appear as far as they change scheduling state.

`ProcTable` models the life of a process. An action is one critical section of
`ptable.lock`; fork() has three, because it runs unlocked once it owns an EMBRYO
slot. Memory may run out at each allocation. init runs the loop of `init.c`:
fork the editor, fork the shell, wait for the shell.

`Pipe` models one pipe. An action is a turn of pipewrite() or piperead() from
taking the lock to sleeping or returning; falling asleep is a step of its own,
since kill() does not take the lock of the pipe. Dropping the last file
reference and pipeclose() are one step: no pipe code reads the reference count.
`Channel` is what it promises: a bounded FIFO.

`BufferCache` models `bio.c` on `ide.c`: buffers with their flags, the LRU list,
the queue of requests, the interrupt. A member of `Proc` is one use of a buffer,
from bread() to brelse(), which writes it to the disk, pins it or leaves it as
it is. A process that holds several (log_write() and install_trans() do, and
writes inside a transaction) is the set `writer` of uses: none of them acts
while another is inside bread() or bwrite(), and there is one such process at a
time, as begin_trans() sees to. The iput() outside a transaction that
MCKernelTrans is about would be a second one; it is left out here. `SectorStore`
is what it promises: one contents and one user per sector.

`FileSystem` models the system calls on files. An action is what a call does
from one place where it may wait (ilock(), begin_trans()) to the next. An iput()
that frees an inode is a step for each log_write(): every block, the truncated
inode, its type; others run in between, in a transaction or not. The on-disk
inodes and the cached ones are separate, and the transaction is a lock that one
process holds, of which log_write() only sees that somebody does. Paths have `.`
and `..`. A block is the unit of file offsets. `stray` remembers the inodes to
which the removal of a directory somebody was working in did harm (below).

`Memory` models pages. An action is one kalloc() with the code up to the next;
between two of them other processes take and free pages. A page directory is
named by its page; `vm[d]` has its page tables and its user pages. `noTable`
records that a page table could not be had, which is where the code is wrong
(below).

`MsgQueue` has the ring that the interrupts fill on one processor and the main
loop empties on another, without a lock. What can be interleaved is what the
build makes of the code: with `gcc -O2 -m32` a message is stored by one
instruction and `tail` by a later one, and the reader loads the message before
it stores `front`. `Keyboard` and `Mouse` decode bytes, with lost bytes for the
mouse. `Console` has the line editing in the interrupt and the readers.

`Heap` is the circular free list of malloc(). `TextFrame` is the functions of
`textframe.c` as operators on rows of bytes, where a Han character is two bytes
that nothing but their position tells apart; `RowTable` is the array of row
pointers with its capacities; `TextEdit` is the handlers that edit, select,
search and paste. `Editor` is the list of files,
renaming, the tabs and the two notions of focus, on a disk with one directory.
`Shell` is the parser on tokens and the processes and pipe ends of runcmd().
`InputMethod` loads a dictionary byte by byte and picks characters; `Highlight`
colours a row; both use `Trie`. `Screen` has the clipping of widgets, the way
of a mouse event to a widget, and the scrolling to the caret. The handlers of
FileNameControl and SearchFrame, which give their one-line text the position in
their parent untransformed (`Gui.c:821`, `Gui.c:1638`), are not part of its tree.

Each definition named as a mutant is a plausible bug in the definition that
follows it; it is used by no specification.

## Runs

| Run | Instance | Shows |
| --- | --- | --- |
| MCLog | 2 processes, 2 blocks, 2 contents, log of 2 slots | `Implements`: transactions are atomic with a crash at any step, recovery included. `LogGoesOn`: who sleeps in begin_trans() is woken, a waiter gets its transaction unless others take the log before it each time, recovery ends once crashes stop |
| MCSched | 2 CPUs, 3 processes | no panic of the locking code, one CPU per stack, no lost wakeup, interrupts restored |
| MCSchedLive | 2 CPUs, 2 processes | `SchedMoves`: sleep() returns, locks are released |
| MCPipe | 2 writers (one may be killed), 1 reader, ring of 2, counters modulo 4 | the inductive invariant; a FIFO channel; end of file is final; `PipeMoves`: nobody waits for a closed end, or (without a kill) over bytes that are there |
| MCBufferCache | 3 uses, up to 2 of one process, 2 buffers, 3 sectors, 1 pinned | one lockable copy of each sector; sleepers have a waker; panic only when the cache is used up; `CacheMoves`: requests finish, a waiter gets its buffer unless it loses the race for it each time |
| MCProcTable | 4 slots, 5 pids, kill of pid 0 (a free slot), 1 (init), 3 and 5 | waiters have live children, memory stays with its process, init reaps what it inherits |
| MCKernel | the drivers, files and memory, see Bounds | the properties of the next table |
| MCUser | the programs, see Bounds | the properties of the next table |

Properties that join several facts about one component:

| Property | Says |
| --- | --- |
| `RefCounts`, `Consistent` (`FileSystem`) | references are counted exactly; the cached inode is the one on disk, link counts (of inodes that are not stray, between transactions) are the number of entries, a block has one owner and is marked used, no entry names a free inode, an offset lies in its file |
| `Panics`, `NoCircularWait` (`FileSystem`) | the only panics are those of a full disk or icache, of a free outside a transaction (below), and of ilock() on a stray inode that is gone; no calls wait for each other in a circle |
| `PagesUsedOnce`, `PagesAccounted` (`Memory`) | a page has one use; no page is lost, what is mapped is what the size says, and no panic, unless a page table was missing |
| `MessagesHandled` (`MsgQueue`) | messages arrive in order, once and complete while none is overwritten; what was handled is drawn before the loop waits |
| `NoStuckModifier`, `ButtonMessages` | a modifier bit belongs to a held key; presses and releases alternate and tell the state of the buttons |
| `LinesReachReaders` (`Console`) | the ring holds what was typed and not erased, no reader sleeps on a line, a full ring can be read |
| `HeapSound` | free and used blocks partition the heap; the free list is sorted and merged |
| `RowsInArray` | row pointers stay inside their array |
| `TextWhole` | the cursor is in the text, and no Han character is split nor the cursor inside one until one of three things happens: the input method inserts before a Han character, a deletion loses a tail, a search matches across two characters |
| `EditsAgree` | pasting back what was cut from any range restores the text, but for a second newline when the range reached the end of a row and for the lost tail below; save and open, and the search, agree on what a text is |
| `TabsConsistent` | current tab, tab names and file list agree with each other and the disk |
| `HandlersKeep` | no handler opens a file twice; a rename touches no other file and loses its own exactly when link() fails; the caret falls behind the shown buffer only on the way to a tab that is open (by TAB, by its name in the list, by closing another) |
| `ParsesGrammar`, `PipelinesEnd` | the parser accepts the grammar and keeps the order of words; a pipeline ends and the prompt waits for all of it |
| `PicksFromDictionary`, `ColorsAreKeywords` | what is shown and picked is what the dictionary says; colours belong to keywords |
| `WidgetsAgree`, `CaretSeen` | what is drawn lies on the screen and is found by the mouse; scrolling ends with the caret in sight |

Four runs show where the code differs from its comments:

* MCPipeKill: a kill() between piperead()'s test and its sleep is lost
  (`pipe.c:106`).
* MCBufferCacheFault: a disk fault on a read is ignored and bread() returns the
  old contents of the buffer (`ide.c:106`).
* MCProcTableBorn: kill(0) marks a free slot, and the next process in it is
  killed at birth (`proc.c:409`).
* MCKernelTrans: chdir(), exit(), exec() or a path look-up drops the last
  reference to a removed inode outside a transaction, and log_write() panics
  (`sysfile.c:372`), unless another process is in one: then the free becomes part
  of that transaction, which may commit halfway through it.

Other behaviour that the models contain, that a property states as its
exception, and that a maintainer should know of:

* A write cut short by kill() does not wake the readers of the bytes it left
  (`pipe.c:85`); log_write() panics on a full log even for a block that is in
  it (`log.c:164`); a negative sleep lasts 2^31 ticks or more (`sysproc.c:68`).
* allocuvm() does not look whether mappages() could get a page table
  (`vm.c:240`), setupkvm() and copyuvm() lose pages when they cannot
  (`vm.c:140`, `vm.c:328`).
* An entry that is made in a directory just removed is lost with its inode, and
  the `..` of such a directory may lead to an inode that was freed, on which
  ilock() panics (`sysfile.c:206`, `fs.c:296`).
* A change of both buttons in one packet is reported as one (`mouse.c:107`), a
  byte that is out of step may pass for a first byte (`mouse.c:62`), and the
  message ring has no test for full (`sys_get_msg.c:30`).
* Deleting across rows loses the tail of a last row that is longer than the
  first (`textframe.c:330`); a range up to the end of a row is copied with its
  newline and deleted without (`textframe.c:246`), and copying one up to the end
  of the text reads a row that is not there (`textframe.c:275`), which may end the
  program (`CopyTraps`); saving unlinks the old file first (`textframe.c:188`).
* The input method may put a character inside another, and a search that matches
  across two Han characters leaves the cursor inside one (`textframe.c:591`);
  typing there splits it.
* A rename to a name that exists, is empty or lies in a directory that does not
  exist loses the file: the old name is unlinked although link() failed
  (`Gui.c:842`). DELETE unlinks the bare name (`Gui.c:1061`).
* Going to an open tab by TAB, by its name in the list or by closing another does
  not move `cursor_focus`: the input method writes into the buffer that was shown
  before, which may be closed (`Gui.c:1745`, `Gui.c:1320`, `Gui.c:1126`).

### Bounds

Two CPUs and two or three processes are enough for each race between a sleeper,
a waker and a third party. A ring of two bytes with counters modulo four is
full, empty and wrapped in all combinations (the code's 2^32 is a multiple of
its 512 as 4 is of 2). Two buffers for three sectors force recycling, with a
pinned and a busy buffer, and a process that holds one and waits for the other;
each use reads the sectors that `Reads` gives it and writes what `Puts` gives
the sector, to keep the liveness check short. A log of two slots is filled,
absorbed into and overflowed. Four slots are the fewest in which exit() has to
wake init for a zombie it inherits: the chain init, parent, child, zombie, where
the process that exits is not a child of init. The fifth pid lets a slot be used
twice. kill() takes four pids there to keep the liveness check short; the proofs
of `KernelProofs` hold for all of them. `OrphansReaped` makes no claim once the
pids are used up, since the bound, not the code, then stops init's loop: it is
checked for behaviours with at most three forks. `MaxSleep`, `MaxCount`,
`MaxPid`, `MaxPinned` and `MaxHeld` bound arguments and counters and are
constants of the modules.

In MCKernel: two processes; three inodes, icache slots and blocks, one file and
descriptor (the root, one directory and one file use everything); one process
makes, removes and opens `/a` while the other makes, links and removes names in
it, goes there and leaves through `..`. Inodes, blocks, files and descriptors
run out; the icache does not, as it has a slot for every inode. Eleven pages,
two entries per page table and sizes up to five pages make fork(), exec() and
sbrk() fail at every allocation with another process growing (`MaxCalls` 4
calls). A message ring of three slots with five messages wraps and overruns.
Eight keys, one for each way `kbd.c` treats a key, three held at once. Mouse
movements whose bytes pass for first bytes, and one beyond `TooFar`. A console
ring of three characters whose uints wrap at nine, with two readers.

In MCUser: a heap of nine units in requests of at least three; six rows; texts
of three rows and four characters, newlines included, with a clip board of one;
two tabs, and two names to type, one of them in a directory that does not exist
(typed only while no tab is open, and not clicked before it takes effect); lines
of up to five tokens of seven kinds and six lines that are run by up to six
processes; 54 dictionaries of three lines with both kinds of line end; rows of
five characters over a keyword that ends in another one and a comment; a screen
of 4 by 3 with widgets inside it, across its edges and above it, three deep.
These are the sizes at which each case of the code is reached (a text of three
rows has a first, a middle, a last, a joined and a split row; five tokens nest a
bracket in a pipe).

Deadlock is checked except where the system may stop: all ends of a pipe
closed, init exited, the cache in panic, or a bound that uses up the inputs.

### Fairness

Kernel code that can run goes on (round-robin scheduler), a disk request
completes, and a spinning CPU gets a lock that is free again and again (strong
fairness of each CPU's handler, scheduler and kernel threads). A transaction is
committed after finitely many writes and a buffer released by its holder.
Neither begin_trans() nor bget() orders its waiters, so who wins the race after
a wakeup is not assumed to be fair: `WaiterServed` and `BufferServed` state it
as their hypothesis, and without it TLC finds a waiter that is passed over for
ever. No user program has to call anything, except that init runs its loop.
MCKernel and MCUser check safety and assume no fairness.

## Proofs

The theorems hold for every value of the constants that the named ASSUME of the
component allows. Each rests on an inductive invariant, stated in the
component's module or at the head of its proofs and checked by TLC before it
was proved.

`LogProofs` (`IInv`): that every step of `Log` is a step of `AtomicDisk` or
none. Atomicity alone is not inductive; `IInv` adds that one transaction runs at
a time (`MutexInv`), that header, in-memory header and installed blocks agree at
each stage (`HeaderInv`), and that a changed block is pinned with its log block
a copy of it, while any other cached block is a copy of its home location
(`CacheInv`). The commit is the step that writes a non-empty header: before it,
replaying the log is the identity; after it, installing a block does not change
what replay yields; erasing is silent because every block is home.

`SchedProofs` (`SchedInv`): no panic of the locking code, one CPU per stack, no
lost wakeup, interrupts restored, for any CPUs and processes. The invariant says
for each place a CPU can be at which locks it holds, how deep pushcli() is
nested, what `intena` was, and which state its process has; and for each process
which CPU, if any, is on its stack. A sleeper is protected by `ptable.lock` from
the test of its condition until it is SLEEPING.

`PipeProofs` (`PipeInv`): the flags follow the references, a writer sleeps only
on a full pipe that somebody can empty, end of file is final, and `Pipe`
implements `Channel`. The invariant keeps the counters at most `PIPESIZE` apart
modulo `UINT`, and says for each place in a call which end the process has, what
it has still to copy and whether it holds the lock. The refinement rests on
lemmas on remainders: as `PIPESIZE` divides `UINT`, neighbouring bytes of the
window from `nread` to `nwrite` have different places in the ring, also where
the counters wrap.

`BufferCacheProofs` (`BufInv`): the LRU list stays a list of all buffers, one
buffer per sector, sleepers have a waker, bget() panics only when the cache is
used up, and without disk faults `BufferCache` implements `SectorStore`. The
invariant ties a buffer's flags to the place of the process that has it and to
the one request for it in the queue.

`MemoryProofs` (`MemInv`): a page has one use. The invariant adds
which directories belong to whom, and that a page that is no directory has no
entries. `MemoryAccounts` (`AccInv`): no page is lost and exactly the size of a
process is mapped, until a page table was missing. The invariant says that a
call has mapped exactly the pages below its `va`, and that every entry is in a
page table. It needs what deallocuvm()'s loop computes: that walk skips to the
next page table where one is absent, and is a recursive function in the model;
the proof gives its closed form for any sizes, as the set of pages in the range
that have a table.

`KernelProofs` has the smaller components of the kernel. The process table
(`IInv`): no process is orphaned, wait() does not sleep on a zombie, stacks and
page tables stay with the slots in use. The strengthening (`EmbryoInv`,
`TreeInv`) says that an EMBRYO belongs to exactly one fork(), that init lives,
that free slots have no parent, and that nobody is its own parent. The message
queue (`QueueInv`): messages in order, once and complete, while the ring is not
overrun. The mouse (`MouseInv`): presses and releases alternate, and tell the
state of the buttons without lost bytes. The keyboard (`KbdInv`): no stuck
modifier.

`UserProofs` (`RowInv`, `GeoInv`, `CaretInv`, `ConInv`) is about what the user
types and sees: row pointers stay in their array; what is drawn is on the screen
and found by the mouse, for any tree of widgets; the caret is in sight after one
adjustment; a glyph's index is in its table; a typed line reaches a reader.

For the console, `ConInv` says that the ring holds from `r` on the committed
characters and then the line being edited, and that this line has no line end in
it and is over when the ring is full. The first makes ^U stop where the line
begins and not before; the second leaves a reader something to take from a full
ring. The two loops, of ^U and of consoleread(), are recursive functions over
indexes that wrap at `UINT`. Neither has a simple closed form, so the proof
shows that a loop with a bounded measure has a value (`LoopExists`), and what
holds of it by taking the least counterexample (`LeastNat`).

Only model-checked:

* Every liveness property (`LogGoesOn`, `SchedMoves`, `PipeMoves`, `CacheMoves`,
  `OrphansReaped`): liveness under fairness and ENABLED are outside the prover's
  reach.
* `FileSystem`, whose invariants count references and entries over all calls.
* `Heap`, `TextFrame`, `TextEdit`, `Editor`, `Shell`, `InputMethod` and
  `Highlight`: parsers, searches and walks along lists, most of them RECURSIVE
  operators, whose properties need induction over data. The library's induction
  theorems take an operator as parameter, which the provers cannot instantiate;
  a recursive function over numbers can be dealt with, as for deallocuvm() and
  the console.

## Not modelled

Boot code and device set-up, `mkfs`, the pixels and fonts of `sysdraw.c`, ELF
parsing, argument fetching, the output side of the console, dup(), mknod() and
fstat(), how many blocks a call logs against `LOGSIZE`, `cd` and the cutting of
a line into tokens in `sh.c`, the status bar and other drawing of `Gui.c`, and
the other user programs and tests: they keep no state between calls, or their
state is a device.
