# A verification project for the FDU teaching kernel

The code is the finished laboratory of an AArch64 teaching kernel: four CPUs,
a scheduler, semaphores, a process tree, message queues, a block cache with a
write-ahead log, an inode layer, files and pipes, an SD card driver, memory
management and a few user programs. Source paths below are relative to
`src/OS-23Fall-FDU-lab-finished/src/` unless they begin with `doc/`, which is
`src/OS-23Fall-FDU-lab-finished/doc/`.

`PROJECT.json` holds the same facts in machine-readable form: components,
runs, mutants, the map from definitions to source lines, findings, hazards and
theorems.

## 1. Inventory

### Facts that shape every model

* Four CPUs (`NCPU`) run the kernel at once. Kernel code is **not preempted**:
  interrupts are off in the kernel and a trap is taken only in user mode or in
  the idle loop. What interleaves is therefore code of *different* CPUs, at the
  grain of the spin locks, and code before and after a sleep.
* A process sleeps in exactly one way: `sched(SLEEPING)` or
  `sched(DEEPSLEEPING)` under the scheduler's lock. The lock taken before the
  sleep is released by *another* thread, the one that was switched to.
* `kill` sets a flag and alerts the process: an alertable wait ends without a
  unit; an unalertable one does not.
* Only the device survives a crash, and a device write of one block is the
  unit of persistence.

### Components

| Component | State | Operations | Talks to | Hard behaviour | What makes it correct |
|---|---|---|---|---|---|
| Linked lists (`common/list.c`) | circular intrusive lists | insert, detach, merge, queue push/pop | everybody | self-linked nodes, detaching twice | a node is on one list, once |
| Semaphores, sleep locks (`common/sem.c`) | `val`, `sleeplist`, lock | wait, unalertable wait, post, post_all, get, get_all | scheduler | gives its lock up before it sleeps; alert against post | counts are exact, no wake-up is lost, no wait succeeds without a unit |
| Scheduler (`kernel/sched.c`, `aarch64/swtch.S`) | `runnable_queue`, `thisproc`, process states, `runlock` | activate, alert, sched, yield, swtch | everything that sleeps; the timer | a process made runnable on one CPU while it is switching away on another | one CPU per stack; queue, states and `thisproc` agree; whoever is runnable runs |
| Process tree (`kernel/proc.c`) | parents, children, `childexit`, pid bitmap, `treelock` | create, start, exit, wait, kill | semaphores, scheduler, allocator | exit on one CPU against wait on another; reparenting; the pids run out | one tree rooted in `root_proc`, unique pids, one unit per exited child |
| Message queues (`common/ipc.c`) | table of queues, sequence numbers, sleeping senders and receivers | msgget, msgsnd, msgrcv, msgctl | scheduler, allocator | direct hand-over to a sleeper's stack; removal while others sleep; slots used again | every message once and in order, nobody sleeps in vain, stale ids reach nothing |
| Block cache (`fs/cache.c` 60-185) | list of cached blocks, flags `acquired`, `pinned`, `valid` | acquire, release, eviction, alloc and free of blocks | sleep locks, device | miss of one block on two CPUs; release against acquire | one copy per block, pinned blocks stay |
| Write-ahead log (`fs/cache.c` 187-349) | header in memory and on the device, `outstanding`, `committing` | begin_op, sync, end_op, commit, recovery | block cache, device | crash between any two device writes; group commit; admission | operations are atomic across crashes, the log fits, commits run alone |
| Inodes, directories (`fs/inode.c`) | cached inodes with reference counts, block map | alloc, lock, sync, get, share, put, clear, map, read, write, lookup, insert, remove | block cache and log | put against get; sleeping with the spin lock held; indirect blocks | no inode is freed while used, the map covers the size |
| Files, pipes, file system calls (`fs/file.c`, `fs/pipe.c`, `kernel/sysfile.c`) | file table, reference counts, ring buffers | open, close, dup, read, write, pipe | inodes, semaphores | sleeping with a spin lock held; close against read | counts, order of bytes, end of file |
| SD card driver (`driver/sd.c`) | queue of buffers | sdrw, sd_intr | interrupts, semaphores | the handler against sdrw | every request is done once and its caller woken |
| Allocator (`kernel/mem.c`) | free pages, reference counts, per-CPU free lists | kalloc_page, kfree_page, kalloc, kfree | everybody | shared pages; pages handed over between CPUs | nothing is handed out twice |
| Page tables, paging (`kernel/pt.c`, `kernel/paging.c`) | sections, page tables | sbrk, page fault, copy on write | allocator | lazily allocated and shared pages | a page has as many references as mappings |
| Timers (`kernel/cpu.c`, `driver/clock.c`), red-black tree (`common/rbtree.c`) | tree of timers per CPU | set, cancel, clock handler | scheduler | cancelling what was never set | timers fire in order, once |
| Console, UART (`kernel/console.c`, `driver/uart.c`) | line buffer | console_intr, read, write | interrupts, inodes | reader against handler, indices that wrap | no byte lost or invented |
| Interrupts, traps, system calls | dispatch tables | - | - | none of their own | - |
| Boot, start-up | - | runs once | - | - | - |
| mkfs (`user/mkfs/main.c`) | the image | ialloc, iappend, balloc | the inode layer reads what it made | sizes at block boundaries | the image is one the kernel can work on |
| Other user programs | - | clients of the kernel | system calls | - | - |

Stubs in the source: `fork`, `execve`, `namex`, `mmap`, `munmap`. `fs/file.c` and `fs/pipe.c` do not compile as they stand.

The hazards, each at the line where it bites and with the properties that would
catch it, are listed in `PROJECT.json`.

## 2. Modules

| Module | Models | Uses |
|---|---|---|
| `KList` | `common/list.c` as sequences | |
| `SleepWake` | `kernel/sched.c`, `aarch64/swtch.S`, `common/sem.c` | `KList` |
| `CountingSem` | abstract: what a semaphore promises | |
| `Log` | `fs/cache.c`, the log and recovery | `KList` |
| `AtomicStore` | abstract: what the log promises | |
| `ProcTree` | `kernel/proc.c` | `KList` |
| `MsgQueue` | `common/ipc.c` | `KList` |
| `FileData` | contents: `fs/inode.c`, the allocator of `fs/cache.c`, `user/mkfs/main.c` | |
| `FileSystem` | sharing: `fs/inode.c`, `fs/file.c`, `kernel/sysfile.c` | |
| `Pipes` | `fs/pipe.c`, `sys_pipe2` | |
| `Memory` | `kernel/mem.c`, `kernel/pt.c`, `kernel/paging.c` | |
| `RBTree` | `common/rbtree.c`, as operators on trees | |
| `RBTreeClient` | a sequence of insertions and deletions | `RBTree` |
| `Timers` | `kernel/cpu.c`, `driver/clock.c` and the timer of `kernel/sched.c` | `RBTree` |
| `SdQueue` | `driver/sd.c`, `fs/block_device.c` | |
| `MCSleepWake`, `MCLog`, `MCFileSystem` | instances for TLC: symmetry sets | one each |
| `MCTimers` | the timers with the fairness of their CPUs | `Timers` |
| `MCParts` | a behaviour of the tree, of the memory, of the SD card or of the files' data | `RBTreeClient`, `Memory`, `SdQueue`, `FileData` |
| `MCProcesses` | a behaviour of the message queues, of the process tree or of the pipes | `MsgQueue`, `ProcTree`, `Pipes` |
| `KListTheorems` | lemmas on lists | `KList` |
| `LogProofs`, `ProcTreeProofs`, `MsgQueueProofs`, `MemoryProofs`, `FileSystemProofs` | the proofs | their component |
| `SchedulerProofs` | the proofs | `SleepWake`, `Timers` |
| `IoProofs` | the proofs | `Pipes`, `SdQueue`, `FileData` |

A definition whose comment starts with "Variant" or "Mutant of" is a plausible
bug: the operator it stands beside is replaced by it to see that the property
it is listed with in `PROJECT.json` fails. No specification uses one.

### SleepWake

A CPU `c` executes the thread `stack[c]`; `thisproc()` is `current[c]`. The two
differ between `update_this_proc` and `swtch`, which is where a kernel can run
two CPUs on one stack. `pc` says where each thread is; a thread at `"user"` is
in user mode or in the idle loop and may be interrupted.

| Action | Code |
|---|---|
| `StartProc`, `AlertProc` | `_activate_proc` with and without `onalert`, all under `runlock` |
| `Yield`, `Exit`, `LockSched`, `Sched`, `Swtch`, `SchedReturn` | `yield`, end of `exit`, `_acquire_sched_lock`, `simple_sched` up to `swtch`, `swtch`, the release of `runlock` in the thread switched to (or in `proc_entry`) |
| `LockSem`, `Wait`, `WaitLockSched`, `WaitUnlock`, `WaitRelock`, `WaitReturn` | `_wait_sem` cut at each lock operation |
| `Post`, `PostActivate`, `PostReturn` | `_post_sem` and the loop of `_post_all_sem` |
| `GetSem`, `GetAllSem` | `get_sem`, `get_all_sem` |

Left out: the timer of the time slice, which is in `Timers`, and the switch of
page directories; one semaphore stands for all, since each has a lock and a list of
its own and a process waits on one at a time. A sleep lock is a semaphore of
value 1.

### Log

Every critical section under `loglock` is a step; `commit` and the recovery
hold it over many steps, one per device write. `Crash` may happen at any
moment, in recovery too, and keeps `disk`, `logd` and `hdr` only. `begin_op` is
three steps (`CallBegin`, `BeginOp`, `WaitLog`) because the code releases
`loglock` before it waits on `log.lock`; that semaphore's value is kept, since
the code initialises it to 1 and nobody takes that unit first.

Abstractions: an operation holds one changed block at a time; the contents
are a small set; reading is a step under the block's sleep lock; alerts are
left out. `Direct` names the blocks that `inode_map` syncs with `ctx = NULL` on
the path of a read (`SyncNow`). `LogSlots` is the size of the log area on the
device, which the code takes from the superblock and never compares with
`LOG_MAX_SIZE`: nothing is assumed of it.

The log relies on three things that the code does not give it, and each has a step:

* `Split(b)`: the model has one cached copy of a block, under its sleep lock. The
  cache may come to have two (`fs/cache.c:158` looks up and inserts without
  keeping others out in between) and loses the mark of an owner
  (`fs/cache.c:178-180`). Only a block that is not pinned can be doubled, as a
  pinned one is in the list.
* `Overrun`: `commit` has used up the slots of the log area and goes on writing
  behind it, in the first block of inodes.
* `Spin(o)`: while `commit` sleeps on the device with `loglock` held, an operation
  that begins on core 0 spins on `loglock` with interrupts off. The device's
  interrupt goes to that core only (`driver/interrupt.c:20`), so whatever waits
  for the device waits for ever (`deaf`), until the machine is switched off.

After the first two (`broken`) the model ends: what they do to the file system is
whatever the blocks happened to hold. Everything that is claimed of `Log` is
claimed up to there.

### ProcTree

A section under `treelock` is entered by one step (`Call`, `CreateProc`) and
left by the one that does its work, so who holds the lock is visible. `exit`
posts `childexit` in one step and becomes a ZOMBIE in a later one, as in the
code. `init_proc` ignores the -1 it gets when the pids are exhausted; the
ASSERT in `release_pid` then stops the collector with `treelock` held. `kill`
is in `SpecWithKill` only: its second release of `treelock` (see section 5)
breaks mutual exclusion, and with it everything else. Its `killed` flag is not
kept: a killed process exits on its way to user mode, and in the model every
process may exit whenever it runs. Memory of a freed `struct proc` is not told
apart from that of the next one. `childexit` is an abstract semaphore, as
`SleepWake` shows it to be, and `wait_sem` on it is alertable.

### MsgQueue

Each critical section under `msg_ids.lock` is one step: a process that goes to
sleep takes the scheduler's lock before it lets go, which `SleepWake` is about.
`slots` is a history variable from which the ids of all queues ever made are
computed. `Wild` is the value of a pointer nobody has set: `ss_wakeup` in
`freeque` wakes receivers without setting `r_msg`, and what the program does
with it is not modelled beyond `"undefined"`. `held` becomes true when
`pipeline_send` meets a message too big for the receiver it has just unlinked:
its loop then stays at a node that points to itself, with the lock held.

Left out: the payload and its segments, failing allocations, and alerts: both
sleeps are `SLEEPING`, from which `kill` wakes a process although nobody has set
its message. The
sequence numbers are checked within one round only; with 2^16 of them an id is
valid again after 65536 queues.

### FileData

The unit of data is a cell: a byte, a directory entry or an address in an
indirect block. `Init` is the cleared disk with the root directory, and `mkfs`
makes the image from there: `MkfsFile` is a turn of its loop, each `IAppend`
appends one cell of what the turn has to write, `MkfsEnd` fixes the size of the
root directory. The kernel's operations are enabled when it has ended. A
write takes one step per block (`WriteBlock`), between which other processes
allocate and free blocks; `EndWrite` sets the size and syncs the inode if the
file has grown. `InodeAlloc`, `InodeInsert`, `InodeRemove` and `InodeFree` (the
clearing part of `inode_put`) run under locks from beginning to end. Blocks are
seen through the cache, as the running operations have left them; `Reboot`
forgets the inodes in memory at a moment without operations, which is the only
kind of moment that `Log` brings back. `files` is a history variable: what a
simple file would hold.

### FileSystem

A call is a script: what is left of it is the sequence `todo[p]` of steps, such
as "lock inode 2" or "look the name up", and each action executes the first and
may put others in its place. The steps and their order, on every path and on
the failing ones, are those of `kernel/sysfile.c`. What runs under the spin lock
of the inode list (`inode_get`, `inode_put` with the clearing of an inode) or of
the file table is one step. Of contents only directory entries are kept. `spoiled`
becomes true when a lock is released by one who does not hold it (`by` records
who does), which `create` followed by `openat` does, or when an entry is made in
a removed directory, which `create` does as it locks the parent after finding
it; properties that cannot hold afterwards stop there. `namex` is a stub: here it
may find nothing, or what its callers are written for, an absolute path, and it
takes no lock (`fs/inode.h:211` asks for that of the directory, which `create`
holds when it calls `namei`). A last name is one of a file or `Dot`, which stands
for `.` and `..`: in this code both name the directory itself, the entries that
`create` makes (`kernel/sysfile.c:337`) and those of the root alike. `unlinkat`
refuses it (`Removable`), `create` does not (`Meets`) and waits for the lock it
holds (`dotted`). `file_dup` does nothing above `NFILE` references (`DupRef`).

### Pipes

A call runs under the pipe's spin lock. One that has to wait sleeps with the lock
held (`stuck`), after which no call on the pipe gets in. Counters have `Width`
values instead of 2^32, `sent` and `taken` are history. `sys_pipe2` that finds one
descriptor only leaves it behind (`astray`). A write or read moves `Fitting` or
`Available` bytes at once: the lock is held, so nobody sees the steps between.

### Memory

Pages have reference counts; a process owns a kernel stack, a root table, lower
tables and the entries of its heap. `PgFault` is the whole handler: the new
page, the missing tables of `get_pte`, the copy, `vmmap`, which takes a
reference, and the page's first reference given back. The end of a heap is a
`u64`, here a number below `AddrPages`: `sbrk` below 0 wraps it, as the assertion of
`kernel/paging.c:79` compares two unsigned numbers of which one is 0. Nothing lies
between the new end and the old one then, so nothing is freed; a `sbrk` that
brings the end back above 0 leaves the entries above it where they are, and
`free_sections` does not reach them at `exit` (`wrapped`). `MapZero` is `vmmap` of the
shared zero page, as the tests of the repository use it. Objects are cut from
pages behind a header. Calls that end in a PANIC or with no page left stop before
that. The orders of the free queue and of the free blocks do
not matter to any property: the least is taken.

### RBTree and RBTreeClient

A tree is the record of its root and, per node, parent, colour and children.
`Insert`, `Erase`, `Lookup` and `First` are written along the code, with the
rotations and colour changes of each case; a loop is a function of the number
of its turns, of which there are no more than nodes. `RBTreeClient` inserts and
deletes in all orders nodes whose keys may be equal, as `_rb_insert` refuses
one then, and compares the tree with a set.

### Timers

Each CPU has a tree of timers keyed by time and address. Times are what is left
until they are due, `Tick` lets one pass. The address of a timer is a number, those
of processes below `Span`, then the idle processes' and the `hello_timer`s. A switch (`YieldCpu`, or `TimerFires`
for the handler of a time slice) drops the timer of the process that is left,
unless it has fired, and sets the one of the process that is entered. The loop
of `timer_clock_handler` belongs to the process in it (`looping`) and goes on
where that process runs next. Which process is runnable is left open: any that
does not run elsewhere.

### SdQueue

`sdrw` pushes a request and goes on to start it only if the queue was empty;
`sd_intr` is cut after `post_sem`, since a new caller may push there. The card is
external: it answers a command with the interrupt that fits. `done` is a
semaphore on the stack that nobody initialises: its value, its lock and its list
are what the stack holds (`Stack`). It may look like one without or with units;
its lock may be taken, and then its caller (in `SdWait`, which is never enabled)
and the handler that wants to post it (`stuck`, with `sdlock` held) spin for ever;
or its list leads anywhere, and whoever follows it destroys what is there
(`SdAstray`). `wait_sem` is alertable: a killed caller returns without its answer
(`SdAlerted`), its buffer still queued. Once requests meet, or a request is
answered whose buffer is gone (`tangled`), the memory they point to is no longer
theirs; what follows is undefined and no further call begins.

## 3. Runs

| Run | Checks | Bounds, and why they are enough |
|---|---|---|
| `sleepwake_safety` | `SemCount`, `NoLostWakeup`, `OneStackPerCPU`, `QueueAgrees`, `AssertsHold`, and `ImplementsSemaphore`: the whole is a `CountingSem` | 3 processes, 2 CPUs, value 1, never posted above 2: a sleeper, its poster and a third that is alerted or picked in between; the theorems lift all of it to any number |
| `sleepwake_live` | `RunnableRuns`, `GrantedReturns` | 2 processes, 2 CPUs: with more processes than CPUs the first is false (see observations) |
| `log` | `TypeOK`, `LogFits`, `CommitIsExclusive`, `PinnedAreLogged`, and `CrashAtomic`: the log implements `AtomicStore` | 2 operations of 2 blocks, 3 blocks, 2 contents, `LOG_MAX_SIZE` 4: group commit, absorption and refused admission; crashes at each device write, repeated; one block that readers sync without a context; an area of 2 slots, so that commits fit into it and run over it |
| `file_system` | `RefsAreExact`, `NoDanglingEntry`, `LinksAgree`, `NoDeadlock` | 2 processes, 4 calls in all, 2 names and `Dot`, 3 inodes to allocate, one file and 2 descriptors each, so that both run out: create against create and unlink, open against unlink, a directory made and removed |
| `structures` | `TreeIsCorrect`; `PagesAreCounted`, `WritesArePrivate`, `ObjectsAreDisjoint`; `SdIsFaithful`; `ReadsBack`, `BitmapIsExact`, `DiskIsCurrent`, `NamesAreUnique` | 10 nodes: every case of insertion and deletion occurs, at the root and below; 2 processes with heaps of 2 pages that may end one page below 0, 6 pages, so that they run out and are used again, 2 objects of 2 classes; 2 callers, 2 blocks, 2 contents; blocks of 2 cells, one direct address, writes of up to 3 cells: every write straddles blocks, files reach the indirect block, 10 blocks run out; 2 processes, 4 calls, so that a freed block is taken over and a name inserted again |
| `processes` | `ExactlyOnce`, `NobodySleepsInVain`, `IdsAreNotConfused`, `OldestFirst`; `TreeIsSound`, `PidsAreUnique`, `UnitsAreExits`; `PipeIsFifo`, `EndsAreKnown` | 3 processes that send one message each, one slot used for 2 queues, 2 types, requests for any, for type 1 and for at most 2, a queue of 2: full queues, hand-over, stale ids; 3 processes besides `root_proc` and 3 pids, so that `get_pid` fails, in three generations, so that a child is reparented while its own child exits; 2 pipes of 2 bytes with counters of 4 values, 5 bytes, so that they wrap |
| `timers` | `OnlyRunningIsTimed`, `ClockIsArmed`, `SlicesEnd` | 2 CPUs and a process that moves between them, a slice of 1, a clock of 2 and a hello timer of 3 ticks, so that the orders of the real times (1 to 1000 ms) occur |
| `sdrw_returns_early` (violation) | `SdrwWaits` | 2 callers |
| `log_direct` (violation) | `AllOrNothing`: `AtomicStore` without the exception for `Direct` | 2 operations, 2 blocks |
| `log_slots` (violation) | `SlotsSuffice` | 3 blocks for an area of 2 slots and `LOG_MAX_SIZE` 3: one slot is missing, as in the images of `mkfs` |
| `commit_deadlocks` (violation) | `EndOpReturns` | 2 operations, one content |
| `create_dot` (violation) | `CallsGoOn` | that of `file_system` |

`structures` and `processes` explore each of their components alone: the variable
`part` chooses one at the start, and the others stand still. The types of
`SleepWake`, `Log`, `ProcTree`, `MsgQueue` and `FileData` are proved; `TypeOK` of
`FileSystem` is there for the reader, and the properties above rest on the types.

Symmetry is used only where no liveness is checked. Deadlock is checked for
`SleepWake`. It is off for `Log`, which ends when a block is split or the area is
overrun; for `ProcTree`, where a PANIC may stop everybody; for `MsgQueue`, where
each process sends a bounded number of messages and the lock may be held for ever; for `FileData` and `FileSystem`,
where the number of calls is bounded (there `NoDeadlock` says that calls do not
wait for one another); and where pipes get stuck or SD requests tangled.

### Fairness

* `SleepWake`: weak fairness for every step inside the kernel, because kernel
  code is not preempted and the CPU goes on executing. Strong fairness for the
  acquisition of a spin lock, which is free again and again while others use it
  (the ticket-less lock of the code promises this only with probability one),
  and for `Yield`, since the timer interrupts every CPU that lets traps in.
  None for starting, waiting, posting or alerting: nobody is obliged to call.
* `Log` (`FairSpec`, for `commit_deadlocks` only): strong fairness for what takes
  `loglock`, weak for the rest, as the holder goes on and the device answers while
  a core hears it. None for `CallBegin`, `Write`, readers, eviction and crashes,
  nor for `Spin`, `Split` and `Overrun`. The counterexample stays, with the commit
  asleep and `deaf`, though all of this is granted.
* `Timers`: weak fairness for the passing of time, for the clock interrupt once
  it is raised (a CPU in user mode or in the idle loop takes traps), for the
  steps of the handler and for starting a CPU, whose idle process yields in
  its loop. None for `YieldCpu` of a running process: it need not call the
  scheduler.

`SdQueue` makes no claim of liveness: a handler may spin on the garbage of a
semaphore, and the core that takes the interrupt on another lock.

## 4. Theorems

TLAPS checks them for all values of the constants under the named assumptions
of the modules: `CPUs` is not empty, `Procs` finite and the model values are
distinct (`SleepWake`); `OpMax` is positive, `LogMax` and `LogSlots` any numbers, `Ops`
finite, and `V0` is a content (`Log`);
`Procs` finite and `MaxPid` positive (`ProcTree`); processes and descriptors
finite, descriptors and files numbers, a null pointer distinct from files and
pipes, and `PIPESIZE` positive and below `Width` (`Pipes`); the sizes of the
tables positive, `Procs` finite, types of messages positive, and `NULL` and
`Wild` neither a message nor each other (`MsgQueue`); pages finitely many and
positive numbers, 1 among them, processes finite, sizes numbers, an address space
larger than the heaps in reach, and a list of
blocks large enough for every size that is asked for (`Memory`); processes, files
and descriptors finite, the latter two numbers, `NFILE` not below the number of
descriptors of one process, which is all that can refer to a file as `fork` is a
stub, more than two inode numbers, the
first of which is no inode's, and a null pointer that is none of what a pointer
may lead to (`FileSystem`); addresses of timers below `Span`, none of them null, and
periods that are numbers (`Timers`); sizes that are numbers and positive, more blocks than
those of the metadata, more than one inode number, names other than `.` and `..`,
an image whose files have different names, and a root directory whose entries do
not end with a block (`FileData`: `mkfs` adds a block to its size even then, and the
directory has a hole).

**SleepWake** (`SchedulerProofs`). The inductive invariant `IInv` has, beside
types and `SemCount`: `ExecInv`, who executes which thread and which contexts
are saved; `LockInv`, at which points `runlock` and `sem.lock` are held and by
whom; `WaitInv`, a process inside `_wait_sem` is linked exactly until a post sets
its `up`; `SleepInv`, a process that was posted and sleeps, or is about to, is
the `target` of a poster that has not activated it yet. That a poster cannot
activate a process that is about to sleep follows from `LockInv`: between
linking itself and sleeping a process holds one of the two locks, which is why
`lock_for_sched` comes before the release. `QueueInv` is about the queue. From
all this:
`TypeCorrect`, `SemCountHolds`, `WakeupsAreNotLost`, `StacksAreExclusive`,
`QueueIsConsistent`, `AssertionsDoNotFail`. `IsCountingSemaphore` is the
refinement: the units of `CountingSem` are the value of the semaphore, if it is
positive, and what its waiters were granted and have not yet returned with; a
step of `SleepWake` is a step of it or none.

**Timers** (also `SchedulerProofs`). `TimersInvariant`, the invariant `TimersInv`:
per CPU (`RunsOne`), the tree is empty before `set_cpu_on`, and once the CPU runs
processes its root is the timer of the running one, which runs nowhere else and
has not fired; the clock stands at what is left of it, or the handler runs and it
is due. So every tree in reach is empty or one node (`BareTrees`), on which
`InsertBare` and `EraseBare` say what the loops of the tree compute. That the
loops compute something at all is proved once: a recursive function over the
turns exists because its finite parts do, by a least counterexample
(`IteratedExists`, `InsertFixRuns`). From it: `OneTimerPerCpu`, `ClockFollowsTimer`.
The handler's second, `CLOCK`, falls away with the timer it waits for: the handler
finds that timer due, and sets the next one with the clock armed anew.

**Log** (`LogProofs`). `CtlInv` ties `outstanding`, `committing`, `phase` and
the program counters together; `ListInv` the header, pins and loop counter.
The space argument needs `SpaceInv`: the blocks in the header plus what running
operations may still add stay within `LOG_MAX_SIZE`. The sum of `ctx->rm` is
expressed as the cardinality of the set of reserved units
`{<<o, i>> : 1 <= i <= rm[o]}` (`Promised`), so that no induction is needed. From
it: `TypeCorrect`, `TheLogFits`, `CommitExcludesOperations`, `PinnedAreTheLogged`.
`TheLogFits` is about the header in memory and needs nothing of the area on the
device; `SlotsSuffice`, about that area, is what a run refutes.

**Refinement** (also `LogProofs`). `LogIsCrashAtomic`: `Spec` implements
`AtomicStore` with the blocks of `Direct` for its leaky ones, whatever set they are:
such a block may become durable by itself, and only such. `DataInv` relates the
device to memory in each phase: a block that is neither listed nor owned equals its
home; during the copy the slots written so far hold the memory's contents; after
the commit point every slot does, and an installed block's home does. Each step of
`Log` then is a step of the store or none: `WriteHeader` is the store's commit,
`Crash` its crash, `SyncNow` of an unlisted block a leak. `Split`, `Overrun` and
`Spin` change nothing that the store sees (`FlagStep`).

**ProcTree** (`ProcTreeProofs`). `LifeInv` says what a process may be doing in
each state and that one under construction is made by one process and on no
list; `ListsInv` that lists and parent pointers agree; `RootedInv` states that
the tree is a tree without induction over paths: every non-empty set of linked
processes has a member whose parent is outside. From them: `TypeCorrect`,
`TheTreeIsSound`, `ThePidsAreUnique`. `TheUnitsAreExits` adds the count: an exit
posts once, a `wait` takes a unit and then one child, and the children that
reparenting brings to `root_proc` bring at most the units it posts for them.

**Pipes** (`IoProofs`). `EndsAreAlwaysKnown`: `EndsAreKnown` in every state. It
needs `Counted`, every file counts the descriptors that lead to it, since
`file_close` trusts `ref` to tell the last close; and `OneFilePerEnd`, since
`pipeClose` clears the flag of an end without looking for another file of that
end. `IInv` demands them only until `sys_pipe2` fails for want of a descriptor
(`astray`), after which they are false. `PipesAreFifo` holds also then: `nwrite`
and `nread` are the lengths of `sent` and `taken` modulo `Width`, so their
difference is what lies between, and the ring holds those bytes at the places
the counters name (`Buffered`). It rests on lemmas about remainders, since two
places within `PIPESIZE` of each other differ though the counters have wrapped.

**SdQueue** (also `IoProofs`). `TheCardIsFaithful`, from `SdInv`: until requests
have met or a buffer was answered that is gone (`tangled`), who holds `sdlock` is
known, the queue holds one request at most, and a buffer whose flags say that it
was served agrees with the card. Its last part needs no semaphore, which is why it
holds whatever that contains and for callers that were killed.

**MsgQueue** (`MsgQueueProofs`). `IInv` is the invariant: `Asked`, the arguments of
every call in progress; `Linked`, for every queue what `QueueOK` says, that who
is linked to it called it and sleeps for a reason, and every sleeping receiver
is linked to one; `Placed`, every allocated message is with its sender, in the
queue of its id or with one receiver, never in two places (`OnePlace`), and the
number of the next message is new. A step changes one queue (`OneQueue`) and
moves one message at most (`OneMoves`); a removal frees the messages of one queue.
`NoSleepInVain` follows at once. `MessagesAreExact` counts: the three kinds of
places are mapped one to one to disjoint sets of messages. `ReceivedInOrder`
needs what the search in `sys_msgrcv` computes (`FoundFacts`): the recursive
function is unrolled by a least counterexample, not by induction. `IdsStayApart`
needs `Gens`: until `msg_ids.seq` has come round, a queue's number is the last
one made in its slot and everything linked to the queue was meant for it; its
hypothesis `Len(slots) <= SeqMod` is the one under which the property is true.

**Memory** (`MemoryProofs`). `MemorySound` is the invariant `MemInv`. Its first
half, `PagesOk`, says that every page but the zero page is free, holds objects or
belongs to one process, to which it is the kernel stack, the root, a table or the
page of one private entry (`Held`), and that the zero page is counted once for the
kernel and once for every entry that shows it. After a heap has wrapped
(`wrapped`) some pages are none of these (`NoneLost`), entries may lie above the end
of their heap (`BelowEnd`) and the zero page may have references that are nobody's
(`ZeroCounted`); the uses that there are stay apart (`UsesApart`). Each operation changes one process;
a lemma says what it takes from the free pages and gives back. What `get_pte` and
`free_pgdir` do page after page is a recursive function over numbers in the
model, unrolled here by a least counterexample. The other half, `BlocksOk`,
says that the blocks of a page are cut for one size and free or given out, not
both. `PagesCounted` and `WritesPrivate` then count the uses of a page: none, one,
or those of the zero page. So a page is never given out twice, wrapped heap or
not, while none is lost only as long as no heap has wrapped. `ObjectsDisjoint` follows because blocks of one size
lie a multiple of the size apart, whatever header precedes them.

**FileSystem** (`FileSystemProofs`). `RefsExact`, from `RefInv`: the descriptors
that lead to a file are as many as its `ref` says and an open file has an inode
(`TablesOk`); and until a PANIC, types, the counts of inodes (`Exact`) and, for
every call in progress, `CallOk`. That is about the shape of what is left of a
call: the step that decides how it goes on is the last (`ScriptOk`), and an inode
that is to be locked, unlocked or written is kept by a later step of the call or
by an open file (`Backed`), without which a put on one path could free what
another still uses. References are split into those of one process, of the other
processes, of files and of the root, so that an action only has to balance what
its own script, the files and the counts change (`MovedRefs`). Nothing is assumed
about locks: the theorem holds also after the unlock that `spoiled` records.

`NeverAllWait`, from `RefInv` and `DirSafe`: `DirInv` up to the moment when `create`
meets `Dot`, after which calls do wait for themselves. A call that waits for a lock while it
holds another holds the lock of the directory in which it has found what it
waits for. So a lock that is taken is going to be released by some call
(`LocksOk`), and if that call waits too, it waits for an inode to which an edge
leads: an entry of the directory, or what a call has looked up in it and that
may have been unlinked since (`EdgesIn`). The edges have no cycle (`Acyclic`), as
`create` adds only an edge to an inode to which nothing was attached
(`AcyclicNew`), and so a set of calls that all wait has one that waits for
nobody of the set (`WaitsDown`). What `create` takes to be free rests on
`EntriesOk`: only directories have entries, and an inode in memory differs from
its block only while it is made; `ShapeOk` and `ReadyOk` say of what is left of a
call that it locks before it works, and that what it works in is a directory
that has been read. Like `RefsExact` this holds until a PANIC, and also after
`spoiled`: a lock released twice lets more calls in, not fewer. The locks are the
sleep locks of inodes, as the calls of `kernel/sysfile.c` take them; `namex`, a stub,
takes none, and the spin locks that are held over a sleep (section 6) are not in
the model.

`NothingDangles` and `LinksAreEntries`, from `LinkInv` besides. Both properties are
broken in the middle of a call if one looks at the wrong place: `unlinkat` takes an
entry away long before it takes the link away, and `create` fills an inode in
whose block is already in use. `LinksOk` says what is true at every moment: the
links of an inode are the entries that name it, its subdirectories, one for the
root, and one if some call still has to take it away (`Dropping`); and an inode in
use without links is in memory. That needs mutual exclusion (`HeldOk`: a lock is
free or has one holder, and `CallFine`: what a call works on it has locked,
`Locks`), so that two calls do not take one link away, and that nobody else has a
reference to the inode that `create` makes (`NewAlone`): `namei` cannot find it, no
file has it open. `WorkOk` keeps what a call found while it held the lock of the
directory: the name is still free, the entry still there. `NamesOk` adds to
`NoDanglingEntry` that no two entries name one inode, which the calls that are
modelled (there is no `link`) keep. With all scripts empty `LinksOk` and the exact
counts of `RefInv` give `LinksAgree`. All of this is claimed up to the first
`spoiled` step and no further, and it is there that the code leaves it: after an
unlock by one who did not hold the lock two calls may work in one directory.

**FileData** (also `IoProofs`). `FileInvariant`, the invariant `FileInv`, has as its
core what an inode lists: `BlockAt` is the block at a place, which is an index of
the map or, for the indirect block, -1, and `Exact` says that what is listed is
marked, what is marked is listed, and no block is listed twice. It is stated of a
bitmap, the blocks and the inodes as three values, so that one lemma for each of
the three ways in which `MapBlock` links a block (`LinkDirect`, `LinkIndirect`,
`LinkListed`) serves mkfs and the kernel, whose allocators differ only in who calls
them. `Exact` also needs that an indirect block has no address 0 beside the empty
cell, since `inode_clear` tests one and `inode_map` the other. `FilesOk` relates a
file to its history in the middle of a write: what the call has still to write is
exempt, all else is in place (`FileIs`). A step on one inode leaves the cells of
the others alone because they share no block (`OthersStay`). Of `inode_write`'s
loop `ChunkFacts` says that one turn stays within a block, and `TurnWrites` that
it moves the boundary between what is exempt and what is not. `CopiesOk` is why
`inode_sync` may be left out when the file has not grown: a call that has
allocated a block is going to grow the file, since below the size every offset
has its block. For names `inode_lookup` must find every entry (`LookupIs`), which
it does because it reads what was written. While mkfs runs, `MkfsOk` says which
entries the root has so far and which are still to be appended, and that a
block's cells behind the end of a file are zero, so that rounding the size of the
root up makes empty entries and nothing else. From all this: `FilesReadBack`,
`NothingIsLeaked`, `DiskIsUpToDate`, `NoNameTwice`, `DataTypes`.

Only model-checked: the liveness properties, since TLAPS has no rules for
fairness here, and `TreeIsCorrect`: that trees of any size stay balanced and
ordered is proved only for those of `Timers`, which have one node. For larger ones
an invariant must follow the missing black node, or the red pair, up the tree through
every rotation of both repair loops; no proof of that is given.

## 5. What the checks show

What holds: no wake-up is lost between a semaphore and the scheduler, whatever
alerts and posts race; no stack is shared. The log's header never holds more than
`LOG_MAX_SIZE` blocks, and what a crash brings back is a moment between operations
but for the indirect blocks that readers sync: this as long as the block cache
keeps one copy and one owner of a block, which it may fail to do, and as long as no
commit is larger than the log area of the image. The tree and its pids stay
consistent through every interleaving of creation, exit and wait; messages are
delivered once and in order. Files hold what was written to them and share no
block, from the image of `mkfs` on; inodes and files are counted exactly on every
path of the file system calls, and calls do not all wait for sleep locks of inodes,
unless `create` is given `.` or `..`. Pages and objects are given out once; the
red-black tree is one; a CPU's timer is that of the process it runs, and every
time slice ends; pipes keep the order of bytes when their counters wrap; a buffer
that the SD card driver marks as served holds what is on the card, unless requests
meet.

What does not. Each of the first five has a run, whose counterexample shows it:

1. `driver/sd.c:283`: `sdrw` returns at once when another request is in the
   queue; the caller then uses a buffer that was not filled, and the queue keeps
   a pointer to its stack (`sdrw_returns_early`).
2. `fs/inode.c:320`: `inode_map` syncs the indirect block without a context
   when it is called from `inode_read`, which writes uncommitted changes of a
   running operation home (`log_direct`). `fs/cache.h:203` warns of it.
3. `fs/cache.c:246`: `begin_op` admits 63 blocks to a commit, `LOG_MAX_SIZE`;
   `user/mkfs/main.c:35,44` lays out a log of 63 blocks, its header included
   (`fs/defines.h:44`), so that the last block is copied over the first inodes
   (`log_slots`). `fs/cache.h:186` says that `begin_op` sleeps instead.
4. `fs/cache.c:343`: `commit` sleeps on the device with the spin lock `loglock`
   held, three lines below the comment that one may not; an operation that begins
   on core 0 keeps that core from taking the device's interrupt, and both stand
   still (`commit_deadlocks`).
5. `kernel/sysfile.c:299`: `create` locks the parent and then what it finds under
   the last name, which is the parent itself if the name is `.` or `..`: `openat` with
   O_CREAT on `/d/.` waits for ever for its own lock, and so does every later call
   on `d` (`create_dot`).

The properties of the others are defined in the modules and checked by no run:
added to a configuration as said, TLC finds them violated.

6. `kernel/proc.c:153`: `exit` posts `childexit` before it is a ZOMBIE; `wait`
   on another CPU finds no zombie and panics (`WaitFindsZombie`, with 4 pids so
   that the PANIC is not the one of `release_pid`).
7. `kernel/proc.c:188`: `kill` releases `treelock` a second time
   (`TreeLockExcludes` under `SpecWithKill`).
8. `common/ipc.c:281`: removing a queue does not wake its sleeping senders,
   though `doc/OS_Lab_API_Reference.md:1142` says so (`RemovalWakesSenders` with
   `MaxMsg = 1`).

Observations made while modelling, without a run of their own:

* `pick_next` takes the first RUNNABLE process and a preempted one keeps its
  place, so a yielding process may be chosen again at once and processes
  further back starve when there are more of them than CPUs.
* `end_op` returns before the changes are durable when other operations are
  still running (`fs/cache.c:335`), though `fs/cache.h:218` describes it as
  returning after them.
* `fs/cache.c:248`: `begin_op` releases `loglock` and then waits; a commit that
  ends in between wakes nobody and the operation sleeps on.
* An orphan that has posted its old parent but is not a ZOMBIE yet when that
  parent exits is never announced to `root_proc` (`kernel/proc.c:107`); this is
  why `UnitsAreExits` is an inequality for `root_proc`.
* `msgrcv` with a negative type does not always return the least type
  (`common/ipc.c:229`). A receiver woken by the removal of its queue reads a
  pointer that nobody has set (line 256), and a message too big for the receiver
  just unlinked leaves `pipeline_send` in a loop (line 138).
* `kernel/proc.c:166`: `alert_proc` runs after `treelock` was released, on a
  process that may be gone. `kernel/proc.c:100`: `exit` frees the kernel stack
  it runs on.
* `kernel/cpu.c:66`: the first switch from each idle process cancels a timer that
  was never set. Its node is all zeroes, so `_rb_erase` takes it for a root
  without children and empties the tree: `hello_timer`, set by `set_cpu_on` just
  before, is lost. `OnlyRunningIsTimed` takes that as it is.
* `fs/pipe.c:67,87`: a reader or writer that has to wait sleeps with the pipe's
  spin lock held; the pipe cannot be used again.
* `kernel/sysfile.c:499`: `sys_pipe2` with one descriptor left closes both files
  and leaves the descriptor, which then leads to whatever file takes the place.
* `kernel/sysfile.c:317,393`: `create` unlocks the inode it has found and
  `openat` unlocks it again. `kernel/sysfile.c:292`: `create` may make an entry in
  a directory that was removed meanwhile, whose inode is then never freed.
  `kernel/sysfile.c:475`: `chdir` puts `p->cwd`, which nothing sets.
* `fs/file.c:63`: `file_close` begins an operation with `ftable.lock` held, and
  `fs/inode.c:229` clears an inode with the spin lock of the list held; both may
  sleep, as `fs/cache.c:161-167` does on the device with the cache's lock.
  `fs/file.c:111` writes any length in one operation, which the log
  answers with a PANIC beyond `OP_MAX_NUM_BLOCKS` blocks.
* `fs/cache.c:158,180`: a miss of one block on two CPUs makes two copies of it,
  and `cache_release` clears `acquired` after it has posted the sleep lock, so that
  the block of the next owner may be given to another block number. `Split` of `Log`
  marks the moment, but no claim is made about what follows.
* `user/mkfs/main.c:188` adds a whole block to the root directory when its
  entries end with a block; the kernel then reads block 0 for the hole.
* `driver/sd.c:226,250` clear the interrupt register after the next request was
  started, and `driver/sd.c:243` releases `sdlock` twice. `fs/block_device.c:11,25`
  never initialise the semaphore that `sdrw` waits on; `driver/sd.c:290` goes on
  when an alert has ended the wait, with the buffer on the queue.
* `kernel/mem.c:155`: an object of more than 2048 bytes gets a page without
  blocks. `kernel/mem.c:65`: with no page left `kalloc_page` clears address 0.
* `kernel/paging.c:79`: the assertion cannot fail, as both sides are unsigned. A
  `sbrk` below 0 wraps the end of the heap, frees nothing and returns; when the end
  comes back above 0, the entries above it stay and can be written to, and their
  pages are lost at `exit`. With the end near 2^64 every address is in the heap,
  and `free_sections` walks through all of them. `kernel/paging.c:128`: an access
  outside the heap stops the kernel. `free_sections` (line 44) uses the page
  directory of the caller whatever `pd` is.
* `kernel/console.c:39-92`: the edit index is reduced on deletion only and the read
  index always, so that the console takes no input after the first round and
  control-U may loop for ever; a read begins one place too late.

## 6. Not modelled, and the plan

Not modelled, and why:

* The list of slots of the block cache. The code does not keep one copy per
  block (see above), so the cache that `FileData` assumes, and `Log` up to `Split`,
  is not the one it has; a model would only repeat the two observations.
* Sleeping with a spin lock held, in `cache_acquire`, `inode_put` and `file_close`:
  a deadlock there takes the scheduler, the driver and the file system in one
  model, whose states are far more than TLC can visit. Of `commit` the part that
  needs the device only is in `Log` (`Spin`).
* Locks in `namex`, which is a stub, and alerts in `MsgQueue`.
* The console, for the reason given above; `kill` beyond `SpecWithKill`.
* In the SD card driver, the initialisation and the command sequences: device
  registers, polled in order. `driver/sddef.h` holds their definitions.
* `readv`, `writev`, `getdents`, `stat` data and checks of user pointers: loops
  over what is modelled, or copying. Page attributes and the TLB.
* Boot code, assembly other than `swtch`, dispatch tables, libc, formatting and
  the user programs other than `mkfs`: they keep no state that a property could
  be about, or are input and output only.
