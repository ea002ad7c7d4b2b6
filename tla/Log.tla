-------------------------------- MODULE Log --------------------------------
(***************************************************************************)
(* The write-ahead log of the block cache (fs/cache.c): begin_op, sync,     *)
(* end_op with its group commit, and the recovery init_bcache does after a  *)
(* crash.  Every write to the device is a step of its own, and a crash may  *)
(* come between any two.                                                    *)
(*                                                                         *)
(* Every critical section under loglock is one step, except commit and      *)
(* recovery, which hold it over many: phase says what its holder is doing,  *)
(* and "free" means that nobody holds it.  A block is cached in one copy,   *)
(* under its sleep lock; who holds a changed block until it is synced is    *)
(* own.  The cache does not keep to one copy, and a commit does not keep to *)
(* the log area: where the code leaves what it promises, broken becomes     *)
(* TRUE and the model ends.                                                 *)
(***************************************************************************)
EXTENDS KList, FiniteSets

CONSTANTS
    Ops,        \* processes that run operations, one OpContext each
    Blocks,     \* block numbers outside the log
    Vals, V0,   \* contents of a block; what mkfs left
    NoVal,      \* not a content: the block is not cached
    None,       \* not a block
    OpMax,      \* OP_MAX_NUM_BLOCKS
    LogMax,     \* LOG_MAX_SIZE
    LogSlots,   \* the blocks of the log area behind its header
    Direct      \* blocks that a reader syncs with ctx = NULL (inode_map)

ASSUME SizeAssumption == OpMax \in Nat \ {0} /\ LogMax \in Nat /\ LogSlots \in Nat
ASSUME ContentAssumption == V0 \in Vals /\ NoVal \notin Vals
ASSUME OpsAssumption == IsFiniteSet(Ops)
ASSUME BlockAssumption == None \notin Blocks /\ Direct \subseteq Blocks

VARIABLES
    disk,         \* device: the home of each block
    logd,         \* device: the slots of the log
    hdr,          \* device: the log header (num_blocks, block_no)
    mem,          \* the cached contents
    pinned,       \* the blocks whose cached copy is pinned
    header,       \* the log header in memory
    outstanding,  \* log.outstanding
    committing,   \* log.committing
    val,          \* log.lock.val, the semaphore begin_op waits on
    phase,        \* what the holder of loglock does
    tail,         \* its loop counter
    pc, rm, own,  \* per operation: where it is, ctx->rm, the changed block
    deaf,         \* core 0, which takes the interrupts of the device, spins on loglock
    broken        \* history: two owners of one block, or a write behind the log area

device == <<disk, logd, hdr>>
cache == <<mem, pinned>>
log == <<header, outstanding, committing>>
vars == <<disk, logd, hdr, mem, pinned, header, outstanding, committing, val,
          phase, tail, pc, rm, own, deaf, broken>>

\* What a reader finds: the cached copy, or what is read from the device.
Content(b) == IF mem[b] = NoVal THEN disk[b] ELSE mem[b]

\* No operation is between changing block b and releasing it.
Unowned(b) == \A o \in Ops : own[o] # b

\* The machine comes up on a file system that mkfs made.
Init ==
    /\ disk = [b \in Blocks |-> V0]
    /\ logd = [i \in 1 .. LogSlots |-> V0]
    /\ hdr = <<>>
    /\ mem = [b \in Blocks |-> NoVal]
    /\ pinned = {}
    /\ header = <<>>
    /\ outstanding = 0
    /\ committing = FALSE
    /\ val = 1
    /\ phase = "boot"
    /\ tail = 0
    /\ pc = [o \in Ops |-> "idle"]
    /\ rm = [o \in Ops |-> 0]
    /\ own = [o \in Ops |-> None]
    /\ deaf = FALSE
    /\ broken = FALSE

-----------------------------------------------------------------------------
(* begin_op, sync, end_op *)

\* A process calls begin_op.
CallBegin(o) ==
    /\ phase # "boot" /\ phase # "recover"
    /\ pc[o] = "idle"
    /\ pc' = [pc EXCEPT ![o] = "begin"]
    /\ UNCHANGED <<device, cache, log, val, phase, tail, rm, own>>

\* Mutant of LogFull: the new operation is not counted.
LogFullWithoutNew == Len(header) + outstanding * OpMax > LogMax

\* The log may not be able to hold one more operation.
LogFull == Len(header) + (outstanding + 1) * OpMax > LogMax

\* Mutant of BeginOp: the loop does not look at log.committing.
BeginDuringCommit(o) ==
    /\ pc[o] = "begin" /\ phase = "free"
    /\ IF LogFull
       THEN /\ pc' = [pc EXCEPT ![o] = "wait"]
            /\ UNCHANGED <<outstanding, rm>>
       ELSE /\ pc' = [pc EXCEPT ![o] = "run"]
            /\ outstanding' = outstanding + 1
            /\ rm' = [rm EXCEPT ![o] = OpMax]
    /\ UNCHANGED <<device, cache, header, committing, val, phase, tail, own>>

\* One turn of the loop in begin_op, under loglock: the operation starts, or
\* the process lets go of loglock in order to wait.
BeginOp(o) ==
    /\ pc[o] = "begin" /\ phase = "free"
    /\ IF committing \/ LogFull
       THEN /\ pc' = [pc EXCEPT ![o] = "wait"]
            /\ UNCHANGED <<outstanding, rm>>
       ELSE /\ pc' = [pc EXCEPT ![o] = "run"]
            /\ outstanding' = outstanding + 1
            /\ rm' = [rm EXCEPT ![o] = OpMax]
    /\ UNCHANGED <<device, cache, header, committing, val, phase, tail, own>>

\* acquire_sleeplock(&log.lock): passes at once if the semaphore has a unit,
\* else sleeps until a post_all_sem.
WaitLog(o) ==
    /\ pc[o] = "wait"
    /\ val' = val - 1
    /\ pc' = [pc EXCEPT ![o] = IF val > 0 THEN "begin" ELSE "asleep"]
    /\ UNCHANGED <<device, cache, log, phase, tail, rm, own>>

\* post_all_sem(&log.lock), and o goes to l: whoever sleeps tries again.
PostAll(o, l) ==
    /\ val' = IF val < 0 THEN 0 ELSE val
    /\ pc' = [q \in Ops |-> IF q = o THEN l
                            ELSE IF pc[q] = "asleep" THEN "begin" ELSE pc[q]]

\* acquire, then a change of block->data by a running operation.  An
\* operation keeps within the OP_MAX_NUM_BLOCKS blocks it was promised.
Write(o, b, v) ==
    /\ pc[o] = "run" /\ own[o] = None
    /\ Unowned(b)
    /\ b \in Members(header) \/ rm[o] > 0
    /\ mem' = [mem EXCEPT ![b] = v]
    /\ own' = [own EXCEPT ![o] = b]
    /\ UNCHANGED <<device, pinned, log, val, phase, tail, pc, rm>>

\* Mutant of Sync: a block that the header lists already is charged again.
SyncChargesAlways(o) ==
    LET b == own[o] IN
    /\ b # None /\ phase = "free"
    /\ pinned' = pinned \cup {b}
    /\ header' = IF b \in Members(header) THEN header ELSE Append(header, b)
    /\ rm' = [rm EXCEPT ![o] = @ - 1]
    /\ own' = [own EXCEPT ![o] = None]
    /\ UNCHANGED <<device, mem, outstanding, committing, val, phase, tail, pc>>

\* cache_sync(ctx, block) and release: the block is pinned and, unless the
\* header lists it already, added to it.
Sync(o) ==
    LET b == own[o] IN
    /\ b # None /\ phase = "free"
    /\ pinned' = pinned \cup {b}
    /\ IF b \in Members(header)
       THEN UNCHANGED <<header, rm>>
       ELSE /\ header' = Append(header, b)
            /\ rm' = [rm EXCEPT ![o] = @ - 1]
    /\ own' = [own EXCEPT ![o] = None]
    /\ UNCHANGED <<device, mem, outstanding, committing, val, phase, tail, pc>>

\* end_op, its first critical section: the last operation out commits, any
\* other wakes the waiters of begin_op and returns.
EndOp(o) ==
    /\ pc[o] = "run" /\ own[o] = None /\ phase = "free"
    /\ outstanding' = outstanding - 1
    /\ IF outstanding = 1
       THEN /\ committing' = TRUE
            /\ pc' = [pc EXCEPT ![o] = "commit"]
            /\ UNCHANGED val
       ELSE /\ PostAll(o, "idle")
            /\ UNCHANGED committing
    /\ UNCHANGED <<device, cache, header, phase, tail, rm, own>>

-----------------------------------------------------------------------------
(* commit, by the operation whose end_op found nobody else running *)

\* loglock is taken again, for the whole commit.
StartCommit(o) ==
    /\ pc[o] = "commit" /\ phase = "free"
    /\ phase' = "copy"
    /\ tail' = 0
    /\ UNCHANGED <<device, cache, log, val, pc, rm, own>>

\* First loop: a cached block is written to its slot of the log.
CopyToLog ==
    LET i == tail + 1 IN
    /\ phase = "copy" /\ ~ deaf /\ tail < Len(header) /\ i <= LogSlots
    /\ Unowned(header[i])
    /\ logd' = [logd EXCEPT ![i] = Content(header[i])]
    /\ tail' = i
    /\ UNCHANGED <<disk, hdr, cache, log, val, phase, pc, rm, own>>

\* Mutant of WriteHeader: the commit point before the copies are complete.
WriteHeaderEarly ==
    /\ phase = "copy" /\ ~ deaf
    /\ hdr' = header
    /\ phase' = "install"
    /\ tail' = 0
    /\ UNCHANGED <<disk, logd, cache, log, val, pc, rm, own>>

\* write_header: the commit point.
WriteHeader ==
    /\ phase = "copy" /\ ~ deaf /\ tail = Len(header)
    /\ hdr' = header
    /\ phase' = "install"
    /\ tail' = 0
    /\ UNCHANGED <<disk, logd, cache, log, val, pc, rm, own>>

\* Mutant of Install: the block stays pinned.
InstallKeepsPin ==
    LET i == tail + 1
        b == header[i]
    IN /\ phase = "install" /\ ~ deaf /\ tail < Len(header)
       /\ Unowned(b)
       /\ disk' = [disk EXCEPT ![b] = logd[i]]
       /\ mem' = [mem EXCEPT ![b] = logd[i]]
       /\ tail' = i
       /\ UNCHANGED <<logd, hdr, pinned, log, val, phase, pc, rm, own>>

\* Second loop: a slot of the log is written home and the block unpinned.
Install ==
    LET i == tail + 1
        b == header[i]
    IN /\ phase = "install" /\ ~ deaf /\ tail < Len(header)
       /\ Unowned(b)
       /\ disk' = [disk EXCEPT ![b] = logd[i]]
       /\ mem' = [mem EXCEPT ![b] = logd[i]]
       /\ pinned' = pinned \ {b}
       /\ tail' = i
       /\ UNCHANGED <<logd, hdr, log, val, phase, pc, rm, own>>

\* The slots of the log are used up: what is copied next goes to the block
\* behind the log area, one of the inodes.
Overrun ==
    /\ phase = "copy" /\ ~ deaf /\ LogSlots <= tail /\ tail < Len(header)
    /\ broken' = TRUE
    /\ UNCHANGED <<device, cache, log, val, phase, tail, pc, rm, own, deaf>>

\* commit sleeps until the device answers, and loglock is held: a process that
\* enters begin_op on core 0 meanwhile spins there with interrupts off, and no
\* other core is told of the answer.
Spin(o) ==
    /\ phase \in {"copy", "install"} /\ pc[o] = "begin"
    /\ deaf' = TRUE
    /\ UNCHANGED <<device, cache, log, val, phase, tail, pc, rm, own, broken>>

\* The header is cleared, in memory and on the device; end_op wakes the
\* waiters, releases loglock and returns.
FinishCommit(o) ==
    /\ pc[o] = "commit" /\ phase = "install" /\ ~ deaf /\ tail = Len(header)
    /\ header' = <<>>
    /\ hdr' = <<>>
    /\ committing' = FALSE
    /\ PostAll(o, "idle")
    /\ phase' = "free"
    /\ UNCHANGED <<disk, logd, cache, outstanding, tail, rm, own>>

-----------------------------------------------------------------------------
(* Readers and eviction *)

\* acquire and release by a reader: the block is cached from then on.
ReadBlock(b) ==
    /\ phase # "boot" /\ phase # "recover"
    /\ Unowned(b) /\ (mem[b] = NoVal => ~ deaf)
    /\ mem' = [mem EXCEPT ![b] = Content(b)]
    /\ UNCHANGED <<device, pinned, log, val, phase, tail, pc, rm, own>>

\* cache_sync(NULL, block) by a reader that holds the block: what inode_map
\* does to the indirect block on the path of inode_read.
SyncNow(b) ==
    /\ phase # "boot" /\ phase # "recover"
    /\ b \in Direct /\ Unowned(b) /\ ~ deaf
    /\ mem' = [mem EXCEPT ![b] = Content(b)]
    /\ disk' = [disk EXCEPT ![b] = Content(b)]
    /\ UNCHANGED <<logd, hdr, pinned, log, val, phase, tail, pc, rm, own>>

\* A block that nobody holds and that is not pinned gives up its buffer.
Evict(b) ==
    /\ mem[b] # NoVal /\ b \notin pinned /\ Unowned(b)
    /\ mem' = [mem EXCEPT ![b] = NoVal]
    /\ UNCHANGED <<device, pinned, log, val, phase, tail, pc, rm, own>>

\* A block that is not pinned comes to have two owners.  Two processes that
\* miss it read a copy each, for the new buffer is entered into the list after
\* the device has been read; or cache_release, which clears acquired after it
\* let go of the sleep lock, takes that mark from the next owner, and the
\* buffer is given to another block while it is held.
Split(b) ==
    /\ phase # "boot" /\ phase # "recover"
    /\ b \notin pinned
    /\ broken' = TRUE
    /\ UNCHANGED <<device, cache, log, val, phase, tail, pc, rm, own, deaf>>

-----------------------------------------------------------------------------
(* Crash and recovery *)

\* Memory is lost, the device keeps what was written.
Crash ==
    /\ mem' = [b \in Blocks |-> NoVal]
    /\ pinned' = {}
    /\ header' = <<>>
    /\ outstanding' = 0
    /\ committing' = FALSE
    /\ val' = 1
    /\ phase' = "boot"
    /\ tail' = 0
    /\ pc' = [o \in Ops |-> "idle"]
    /\ rm' = [o \in Ops |-> 0]
    /\ own' = [o \in Ops |-> None]
    /\ deaf' = FALSE
    /\ UNCHANGED <<device, broken>>

\* init_bcache: read_header.
ReadHeader ==
    /\ phase = "boot"
    /\ header' = hdr
    /\ phase' = "recover"
    /\ tail' = 0
    /\ UNCHANGED <<device, cache, outstanding, committing, val, pc, rm, own>>

\* recover_from_log, its loop: a slot of the log is written home.
Recover ==
    LET i == tail + 1
        b == header[i]
    IN /\ phase = "recover" /\ tail < Len(header)
       /\ disk' = [disk EXCEPT ![b] = logd[i]]
       /\ mem' = [mem EXCEPT ![b] = logd[i]]
       /\ tail' = i
       /\ UNCHANGED <<logd, hdr, pinned, log, val, phase, pc, rm, own>>

\* The header is cleared; the file system is up.
FinishRecovery ==
    /\ phase = "recover" /\ tail = Len(header)
    /\ header' = <<>>
    /\ hdr' = <<>>
    /\ phase' = "free"
    /\ UNCHANGED <<disk, logd, cache, outstanding, committing, val, tail, pc, rm, own>>

-----------------------------------------------------------------------------
OpStep(o) ==
    \/ CallBegin(o) \/ BeginOp(o) \/ WaitLog(o)
    \/ \E b \in Blocks, v \in Vals : Write(o, b, v)
    \/ Sync(o) \/ EndOp(o) \/ StartCommit(o) \/ FinishCommit(o)

LogStep ==
    \/ \E o \in Ops : OpStep(o)
    \/ CopyToLog \/ WriteHeader \/ Install
    \/ \E b \in Blocks : ReadBlock(b) \/ SyncNow(b) \/ Evict(b)
    \/ ReadHeader \/ Recover \/ FinishRecovery

Next ==
    /\ ~ broken
    /\ \/ LogStep /\ UNCHANGED <<deaf, broken>>
       \/ \E o \in Ops : Spin(o)
       \/ Overrun \/ \E b \in Blocks : Split(b)
       \/ Crash

Spec == Init /\ [][Next]_vars

\* The scheduler keeps running a process that can run, and the device answers
\* as long as there is a core to hear it: every call into the log goes on.
\* Nobody is obliged to start an operation.
Fairness ==
    LET Goes(A) == A /\ ~ broken /\ UNCHANGED <<deaf, broken>>
    IN  /\ \A o \in Ops :
              /\ SF_vars(Goes(BeginOp(o))) /\ WF_vars(Goes(WaitLog(o)))
              /\ SF_vars(Goes(Sync(o))) /\ SF_vars(Goes(EndOp(o)))
              /\ SF_vars(Goes(StartCommit(o))) /\ WF_vars(Goes(FinishCommit(o)))
        /\ WF_vars(Goes(CopyToLog)) /\ WF_vars(Goes(WriteHeader)) /\ WF_vars(Goes(Install))
        /\ WF_vars(Goes(ReadHeader)) /\ WF_vars(Goes(Recover)) /\ WF_vars(Goes(FinishRecovery))

FairSpec == Spec /\ Fairness

-----------------------------------------------------------------------------
(* Properties *)

TypeOK ==
    /\ disk \in [Blocks -> Vals]
    /\ logd \in [1 .. LogSlots -> Vals]
    /\ hdr \in Seq(Blocks) /\ header \in Seq(Blocks)
    /\ mem \in [Blocks -> Vals \cup {NoVal}]
    /\ pinned \in SUBSET Blocks
    /\ outstanding \in Nat
    /\ committing \in BOOLEAN
    /\ val \in Int
    /\ phase \in {"boot", "recover", "free", "copy", "install"}
    /\ tail \in Nat
    /\ pc \in [Ops -> {"idle", "begin", "wait", "asleep", "run", "commit"}]
    /\ rm \in [Ops -> Nat]
    /\ own \in [Ops -> Blocks \cup {None}]
    /\ deaf \in BOOLEAN /\ broken \in BOOLEAN

\* What recovery would make of the device as it is now.
Recovered == [b \in Blocks |->
    IF b \in Members(hdr) THEN logd[Place(hdr, b)] ELSE disk[b]]

\* What readers see; while the machine comes up, what recovery makes.
Visible == IF phase \in {"boot", "recover"} THEN Recovered
           ELSE [b \in Blocks |-> Content(b)]

Running == {o \in Ops : pc[o] = "run"}

Store == INSTANCE AtomicStore
            WITH content <- Visible, durable <- Recovered, active <- Running, Leaky <- Direct

\* Operations are atomic across crashes: whatever the crash interrupts, the
\* commit, the installation or the recovery itself, what is brought back is
\* the memory of a moment when no operation was running, and eviction and
\* re-reading of blocks never show an older content.  Only the indirect blocks
\* that inode_map syncs with ctx = NULL may be newer than that moment.
CrashAtomic == Store!ASpec

StrictStore == INSTANCE AtomicStore
            WITH content <- Visible, durable <- Recovered, active <- Running, Leaky <- {}

\* No block at all is newer: what the comment on atomic operations promises,
\* and what cache_sync(NULL, block) on the path of a read breaks.
AllOrNothing == StrictStore!ASpec

\* The blocks that the running operations have been promised and may still ask for.
Promised == {r \in Ops \X (1 .. OpMax) : pc[r[1]] = "run" /\ r[2] <= rm[r[1]]}

\* header.block_no never runs over, however the operations that share a commit
\* overlap: there is room for every block that a running operation has been
\* promised and may still sync, beside those that are listed, and a changed
\* block is listed or among them.
LogFits ==
    /\ Len(header) + Cardinality(Promised) <= LogMax
    /\ \A o \in Ops : own[o] # None => own[o] \in Members(header) \/ rm[o] > 0

\* What is listed has a slot in the log area behind its header.
SlotsSuffice == Len(header) <= LogSlots

\* A commit has the log for itself: nobody runs an operation or holds a
\* changed block while blocks are copied and installed, and log.outstanding
\* counts the running operations.
CommitIsExclusive ==
    /\ outstanding = Cardinality(Running)
    /\ (committing \/ phase \in {"copy", "install"}) =>
           outstanding = 0 /\ \A o \in Ops : own[o] = None
    /\ committing <=> \E o \in Ops : pc[o] = "commit"

\* The pinned blocks are those a commit still has to install, each listed
\* once (absorption), so that none is evicted before and none kept for ever.
PinnedAreLogged ==
    /\ Distinct(header)
    /\ phase \in {"free", "copy"} => pinned = Members(header)
    /\ phase = "install" => pinned = {header[i] : i \in tail + 1 .. Len(header)}

\* An operation that called end_op returns from it: commit does not sleep
\* with a spin lock that keeps the device from being heard.
EndOpReturns ==
    \A o \in Ops : pc[o] = "commit" ~> (pc[o] = "idle" \/ broken)
=============================================================================
