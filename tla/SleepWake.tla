----------------------------- MODULE SleepWake -----------------------------
(***************************************************************************)
(* The scheduler (kernel/sched.c) and one semaphore (common/sem.c), at the  *)
(* grain of their two spinlocks: runlock, which protects process states and *)
(* the runnable queue and is held across swtch, and the semaphore's lock.   *)
(*                                                                         *)
(* A CPU executes the thread whose kernel stack it is on, stack[c]; what    *)
(* the code calls thisproc() is current[c], and the two differ between      *)
(* update_this_proc and swtch.  The idle process of CPU c is c itself.      *)
(* Kernel code is not preempted: a trap is taken only at pc "user" (user    *)
(* mode, or the idle loop's wfi).                                           *)
(***************************************************************************)
EXTENDS KList, FiniteSets

CONSTANTS
    Procs,    \* struct proc's other than the idle processes
    CPUs,     \* cpus[]; each element also stands for that CPU's idle process
    Root,     \* the process start-up activates (root_proc)
    None,     \* no owner of a lock
    InitVal,  \* init_sem(sem, InitVal)
    MaxVal    \* bound: nobody posts a semaphore whose value reached MaxVal

ASSUME ProcsAssumption == Root \in Procs /\ CPUs # {} /\ Procs \cap CPUs = {}
ASSUME NoneAssumption == None \notin Procs \cup CPUs
ASSUME ValAssumption == InitVal \in Nat /\ MaxVal \in Nat
ASSUME FiniteAssumption == IsFiniteSet(Procs)

VARIABLES
    state,      \* proc.state
    queue,      \* runnable_queue
    current,    \* cpus[c].sched.thisproc
    stack,      \* the thread CPU c really executes
    runlock,    \* the CPU that holds runlock, or None
    semlock,    \* the thread that holds sem.lock, or None
    val,        \* sem.val
    sleeplist,  \* sem.sleeplist: the processes whose WaitData is linked
    up,         \* WaitData.up of the process's wait
    pc,         \* where each thread is
    new,        \* the argument of the _sched it calls (RUNNABLE otherwise)
    all,        \* the holder of sem.lock is in the loop of post_all_sem
    target      \* the process its _post_sem has to activate, or None

sched == <<state, queue, current, stack, runlock>>
sem == <<semlock, val, sleeplist, up>>
local == <<pc, new, all, target>>
vars == <<state, queue, current, stack, runlock, semlock, val, sleeplist, up,
          pc, new, all, target>>

Threads == Procs \cup CPUs
States == {"UNUSED", "RUNNABLE", "RUNNING", "SLEEPING", "DEEPSLEEPING", "ZOMBIE"}
Asleep == {"SLEEPING", "DEEPSLEEPING"}
WaitOps == {"wait", "unalertable_wait"}
PostOps == {"post", "post_all"}

\* After start-up: every CPU idles and root_proc has been activated.
Init ==
    /\ state = [t \in Threads |-> IF t \in CPUs THEN "RUNNING"
                                  ELSE IF t = Root THEN "RUNNABLE" ELSE "UNUSED"]
    /\ queue = <<Root>>
    /\ current = [c \in CPUs |-> c]
    /\ stack = [c \in CPUs |-> c]
    /\ runlock = None
    /\ semlock = None
    /\ val = InitVal
    /\ sleeplist = <<>>
    /\ up = [p \in Procs |-> FALSE]
    /\ pc = [t \in Threads |-> IF t \in CPUs THEN "user" ELSE "out"]
    /\ new = [t \in Threads |-> "RUNNABLE"]
    /\ all = FALSE
    /\ target = None

-----------------------------------------------------------------------------
(* kernel/sched.c *)

\* Variant: an alert wakes every sleeper.
WakesOnAnyAlert(p, onalert) == state[p] \in Asleep \cup {"UNUSED"}

\* Variant: a DEEPSLEEPING process is left asleep by a post too.
NeverWakesDeep(p, onalert) == state[p] \in {"SLEEPING", "UNUSED"}

\* _activate_proc(p, onalert), all of it under runlock: a process that waits
\* to be woken (or was never started) becomes RUNNABLE at the head of the
\* queue; an alert does not wake a DEEPSLEEPING one.
Wakes(p, onalert) ==
    \/ state[p] \in {"SLEEPING", "UNUSED"}
    \/ state[p] = "DEEPSLEEPING" /\ ~onalert

\* Variant: the woken process is not put on the queue.
ActivateOffQueue(p, onalert) ==
    IF Wakes(p, onalert)
    THEN state' = [state EXCEPT ![p] = "RUNNABLE"] /\ UNCHANGED queue
    ELSE UNCHANGED <<state, queue>>

ActivateProc(p, onalert) ==
    IF Wakes(p, onalert)
    THEN /\ state' = [state EXCEPT ![p] = "RUNNABLE"]
         /\ queue' = InsertHead(queue, p)
    ELSE UNCHANGED <<state, queue>>

\* start_proc: a process activates one that was created.
StartProc(c, q) ==
    /\ stack[c] \in Procs /\ pc[stack[c]] = "user"
    /\ runlock = None
    /\ state[q] = "UNUSED"
    /\ ActivateProc(q, FALSE)
    /\ UNCHANGED <<current, stack, runlock, sem, local>>

\* alert_proc, what kill does to a started process.
AlertProc(c, q) ==
    /\ stack[c] \in Procs /\ pc[stack[c]] = "user"
    /\ runlock = None
    /\ state[q] # "UNUSED"
    /\ ActivateProc(q, TRUE)
    /\ UNCHANGED <<current, stack, runlock, sem, local>>

\* A thread is about to call _sched(s).
CallSched(c, s) ==
    LET t == stack[c] IN
    /\ pc[t] = "user"
    /\ pc' = [pc EXCEPT ![t] = "lock_sched"]
    /\ new' = [new EXCEPT ![t] = s]
    /\ UNCHANGED <<sched, sem, all, target>>

\* yield(), the timer handler interrupt(), and the idle loop.
Yield(c) == CallSched(c, "RUNNABLE")

\* The end of exit().
Exit(c) == stack[c] \in Procs /\ CallSched(c, "ZOMBIE")

\* _acquire_sched_lock: the CPU spins until runlock is free.
LockSched(c) ==
    /\ pc[stack[c]] = "lock_sched"
    /\ runlock = None
    /\ runlock' = c
    /\ pc' = [pc EXCEPT ![stack[c]] = "sched"]
    /\ UNCHANGED <<state, queue, current, stack, sem, new, all, target>>

\* The places of the processes that pick_next would accept.
Candidates(q, st) == {i \in DOMAIN q : st[q[i]] = "RUNNABLE"}

\* pick_next: the first RUNNABLE process in queue order (the comparison of
\* cnt is never reached, the loop breaks at the first one), else idle.
PickNext(q, st, c) ==
    IF Candidates(q, st) = {} THEN c
    ELSE q[CHOOSE i \in Candidates(q, st) : \A j \in Candidates(q, st) : i <= j]

\* Variant: a DEEPSLEEPING process stays on the queue.
KeepDeepSleeper(t, s) == IF s \in {"SLEEPING", "ZOMBIE"} THEN Detach(queue, t) ELSE queue

\* update_this_state, its removal from the queue.
QueueAfter(t, s) == IF s \in Asleep \cup {"ZOMBIE"} THEN Detach(queue, t) ELSE queue

\* Variant: runlock is released before swtch.
SchedUnlocksEarly(c) ==
    LET t  == stack[c]
        st == [state EXCEPT ![t] = new[t]]
        q  == QueueAfter(t, new[t])
        next == PickNext(q, st, c)
    IN /\ pc[t] = "sched"
       /\ queue' = q
       /\ state' = [st EXCEPT ![next] = "RUNNING"]
       /\ current' = [current EXCEPT ![c] = next]
       /\ pc' = [pc EXCEPT ![t] = IF next = t THEN "out" ELSE "swtch"]
       /\ runlock' = None
       /\ UNCHANGED <<stack, sem, new, all, target>>

\* simple_sched up to swtch.
Sched(c) ==
    LET t  == stack[c]
        st == [state EXCEPT ![t] = new[t]]
        q  == QueueAfter(t, new[t])
        next == PickNext(q, st, c)
    IN /\ pc[t] = "sched"
       /\ queue' = q
       /\ state' = [st EXCEPT ![next] = "RUNNING"]
       /\ current' = [current EXCEPT ![c] = next]
       /\ pc' = [pc EXCEPT ![t] = IF next = t THEN "out" ELSE "swtch"]
       /\ UNCHANGED <<stack, runlock, sem, new, all, target>>

\* swtch: saves this thread's context and continues in the other's.
Swtch(c) ==
    /\ pc[stack[c]] = "swtch"
    /\ pc' = [pc EXCEPT ![stack[c]] = "out"]
    /\ stack' = [stack EXCEPT ![c] = current[c]]
    /\ UNCHANGED <<state, queue, current, runlock, sem, new, all, target>>

\* The end of simple_sched, or proc_entry in a new process: the thread that
\* was switched to releases runlock and returns from its own _sched.
SchedReturn(c) ==
    LET t == stack[c] IN
    /\ pc[t] = "out"
    /\ runlock' = None
    /\ pc' = [pc EXCEPT ![t] = IF new[t] \in Asleep THEN "relock" ELSE "user"]
    /\ UNCHANGED <<state, queue, current, stack, sem, new, all, target>>

-----------------------------------------------------------------------------
(* common/sem.c *)

\* _lock_sem by a caller of wait_sem, unalertable_wait_sem, post_sem or
\* post_all_sem.  An interrupt handler that runs on an idle CPU may post.
LockSem(c, o) ==
    LET t == stack[c] IN
    /\ pc[t] = "user"
    /\ semlock = None
    /\ o \in WaitOps => t \in Procs
    /\ o \in PostOps => val < MaxVal
    /\ semlock' = t
    /\ pc' = [pc EXCEPT ![t] = IF o = "post_all" THEN "post" ELSE o]
    /\ all' = (o = "post_all")
    /\ UNCHANGED <<sched, val, sleeplist, up, new, target>>

\* Variant: a wait that need not sleep leaves the unit in val.
WaitTakesNothing(c) ==
    LET t == stack[c] IN
    /\ pc[t] \in WaitOps
    /\ IF val > 0
       THEN /\ semlock' = None
            /\ pc' = [pc EXCEPT ![t] = "user"]
            /\ UNCHANGED <<val, sleeplist, up, new>>
       ELSE /\ val' = val - 1
            /\ sleeplist' = InsertHead(sleeplist, t)
            /\ up' = [up EXCEPT ![t] = FALSE]
            /\ pc' = [pc EXCEPT ![t] = "enqueued"]
            /\ new' = [new EXCEPT ![t] =
                          IF pc[t] = "wait" THEN "SLEEPING" ELSE "DEEPSLEEPING"]
            /\ UNCHANGED semlock
    /\ UNCHANGED <<sched, all, target>>

\* _wait_sem up to the acquisition of runlock; an alertable wait is going
\* to sleep SLEEPING, an unalertable one DEEPSLEEPING.
Wait(c) ==
    LET t == stack[c] IN
    /\ pc[t] \in WaitOps
    /\ val' = val - 1
    /\ IF val > 0
       THEN /\ semlock' = None
            /\ pc' = [pc EXCEPT ![t] = "user"]
            /\ UNCHANGED <<sleeplist, up, new>>
       ELSE /\ sleeplist' = InsertHead(sleeplist, t)
            /\ up' = [up EXCEPT ![t] = FALSE]
            /\ pc' = [pc EXCEPT ![t] = "enqueued"]
            /\ new' = [new EXCEPT ![t] =
                          IF pc[t] = "wait" THEN "SLEEPING" ELSE "DEEPSLEEPING"]
            /\ UNCHANGED semlock
    /\ UNCHANGED <<sched, all, target>>

\* Variant: sem.lock is released before runlock is taken.
WaitUnlocksFirst(c) ==
    /\ pc[stack[c]] = "enqueued"
    /\ semlock' = None
    /\ pc' = [pc EXCEPT ![stack[c]] = "lock_sched"]
    /\ UNCHANGED <<sched, val, sleeplist, up, new, all, target>>

\* lock_for_sched: runlock is taken while sem.lock is still held.
WaitLockSched(c) ==
    /\ pc[stack[c]] = "enqueued"
    /\ runlock = None
    /\ runlock' = c
    /\ pc' = [pc EXCEPT ![stack[c]] = "both"]
    /\ UNCHANGED <<state, queue, current, stack, sem, new, all, target>>

\* release_spinlock(&sem->lock), then sched(0, ...).
WaitUnlock(c) ==
    LET t == stack[c] IN
    /\ pc[t] = "both"
    /\ semlock' = None
    /\ pc' = [pc EXCEPT ![t] = "sched"]
    /\ UNCHANGED <<sched, val, sleeplist, up, new, all, target>>

\* acquire_spinlock(&sem->lock) after the sleep.
WaitRelock(c) ==
    LET t == stack[c] IN
    /\ pc[t] = "relock"
    /\ semlock = None
    /\ semlock' = t
    /\ pc' = [pc EXCEPT ![t] = "woken"]
    /\ UNCHANGED <<sched, val, sleeplist, up, new, all, target>>

\* Variant: a wait that gives up keeps its count.
WaitKeepsCount(c) ==
    LET t == stack[c] IN
    /\ pc[t] = "woken"
    /\ sleeplist' = IF up[t] THEN sleeplist ELSE Detach(sleeplist, t)
    /\ up' = [up EXCEPT ![t] = FALSE]
    /\ semlock' = None
    /\ pc' = [pc EXCEPT ![t] = "user"]
    /\ new' = [new EXCEPT ![t] = "RUNNABLE"]
    /\ UNCHANGED <<sched, val, all, target>>

\* The rest of _wait_sem: a wait that nobody posted takes itself off the
\* list and gives its count back.
WaitReturn(c) ==
    LET t == stack[c] IN
    /\ pc[t] = "woken"
    /\ IF up[t]
       THEN UNCHANGED <<val, sleeplist>>
       ELSE /\ val' = val + 1
            /\ sleeplist' = Detach(sleeplist, t)
    /\ up' = [up EXCEPT ![t] = FALSE]
    /\ semlock' = None
    /\ pc' = [pc EXCEPT ![t] = "user"]
    /\ new' = [new EXCEPT ![t] = "RUNNABLE"]
    /\ UNCHANGED <<sched, all, target>>

\* _post_sem up to activate_proc: the oldest waiter is taken off the list.
Post(c) ==
    LET t == stack[c]
        w == sleeplist[Len(sleeplist)]
    IN /\ pc[t] = "post"
       /\ val' = val + 1
       /\ IF val < 0
          THEN /\ up' = [up EXCEPT ![w] = TRUE]
               /\ sleeplist' = Detach(sleeplist, w)
               /\ target' = w
               /\ pc' = [pc EXCEPT ![t] = "activate"]
          ELSE /\ pc' = [pc EXCEPT ![t] = "posted"]
               /\ UNCHANGED <<sleeplist, up, target>>
       /\ UNCHANGED <<sched, semlock, new, all>>

\* activate_proc(wait->proc).
PostActivate(c) ==
    LET t == stack[c] IN
    /\ pc[t] = "activate"
    /\ runlock = None
    /\ ActivateProc(target, FALSE)
    /\ target' = None
    /\ pc' = [pc EXCEPT ![t] = "posted"]
    /\ UNCHANGED <<current, stack, runlock, sem, new, all>>

\* After _post_sem: post_sem unlocks; post_all_sem takes the unit back if
\* nobody was there to have it, and posts again if somebody was.
PostReturn(c) ==
    LET t == stack[c] IN
    /\ pc[t] = "posted"
    /\ IF all /\ val <= 0
       THEN /\ pc' = [pc EXCEPT ![t] = "post"]
            /\ UNCHANGED <<val, semlock, all>>
       ELSE /\ val' = IF all THEN val - 1 ELSE val
            /\ semlock' = None
            /\ all' = FALSE
            /\ pc' = [pc EXCEPT ![t] = "user"]
    /\ UNCHANGED <<sched, sleeplist, up, new, target>>

\* get_sem: takes a unit if there is one, never waits.
GetSem(c) ==
    /\ stack[c] \in Procs /\ pc[stack[c]] = "user"
    /\ semlock = None
    /\ val > 0
    /\ val' = val - 1
    /\ UNCHANGED <<sched, semlock, sleeplist, up, local>>

\* get_all_sem: takes every unit there is.
GetAllSem(c) ==
    /\ stack[c] \in Procs /\ pc[stack[c]] = "user"
    /\ semlock = None
    /\ val > 0
    /\ val' = 0
    /\ UNCHANGED <<sched, semlock, sleeplist, up, local>>

-----------------------------------------------------------------------------
Next ==
    \E c \in CPUs :
        \/ \E q \in Procs : StartProc(c, q) \/ AlertProc(c, q)
        \/ Yield(c) \/ Exit(c) \/ LockSched(c) \/ Sched(c) \/ Swtch(c) \/ SchedReturn(c)
        \/ \E o \in WaitOps \cup PostOps : LockSem(c, o)
        \/ Wait(c) \/ WaitLockSched(c) \/ WaitUnlock(c) \/ WaitRelock(c) \/ WaitReturn(c)
        \/ Post(c) \/ PostActivate(c) \/ PostReturn(c)
        \/ GetSem(c) \/ GetAllSem(c)

Spec == Init /\ [][Next]_vars

\* A CPU in the kernel keeps executing; a timer interrupt reaches every CPU
\* that lets traps in; a CPU that spins on a lock which is free again and
\* again gets it in the end.
Fairness ==
    \A c \in CPUs :
        /\ WF_vars(Sched(c)) /\ WF_vars(Swtch(c)) /\ WF_vars(SchedReturn(c))
        /\ WF_vars(Wait(c)) /\ WF_vars(WaitUnlock(c)) /\ WF_vars(WaitReturn(c))
        /\ WF_vars(Post(c)) /\ WF_vars(PostReturn(c))
        /\ SF_vars(Yield(c)) /\ SF_vars(LockSched(c))
        /\ SF_vars(WaitLockSched(c)) /\ SF_vars(WaitRelock(c)) /\ SF_vars(PostActivate(c))

FairSpec == Spec /\ Fairness

-----------------------------------------------------------------------------
(* Properties *)

TypeOK ==
    /\ state \in [Threads -> States]
    /\ queue \in Seq(Procs)
    /\ current \in [CPUs -> Threads]
    /\ stack \in [CPUs -> Threads]
    /\ runlock \in CPUs \cup {None}
    /\ semlock \in Threads \cup {None}
    /\ val \in Int
    /\ sleeplist \in Seq(Procs)
    /\ up \in [Procs -> BOOLEAN]
    /\ pc \in [Threads -> {"user", "lock_sched", "sched", "swtch", "out", "wait",
                           "unalertable_wait", "enqueued", "both", "relock",
                           "woken", "post", "activate", "posted"}]
    /\ new \in [Threads -> {"RUNNABLE", "SLEEPING", "DEEPSLEEPING", "ZOMBIE"}]
    /\ all \in BOOLEAN
    /\ target \in Procs \cup {None}

\* A negative value counts the waiters that are still linked, and nobody is
\* linked while units are available: neither a post nor a wait that gives up
\* (woken by an alert) loses or invents a unit, whatever their order.
SemCount == IF val < 0 THEN Len(sleeplist) = -val ELSE sleeplist = <<>>

\* No lost wake-up: a process that sleeps can still be woken, because its
\* WaitData is linked or because a poster that unlinked it is about to
\* activate it.  _wait_sem gives up sem.lock before it sleeps; taking
\* runlock first is what closes the window.
NoLostWakeup ==
    \A p \in Procs :
        state[p] \in Asleep =>
            \/ p \in Members(sleeplist)
            \/ target = p

\* A kernel stack is never run by two CPUs, and swtch continues only a thread
\* whose context was saved: a process woken by another CPU just before it
\* switches away must not be picked there.
OneStackPerCPU ==
    /\ \A c, d \in CPUs : stack[c] = stack[d] => c = d
    /\ \A c \in CPUs :
          pc[stack[c]] = "swtch" =>
              pc[current[c]] = "out" /\ \A d \in CPUs : stack[d] # current[c]

\* The queue holds exactly the started processes that neither sleep nor are
\* dead, once each, and a RUNNING process is thisproc of exactly one CPU.
QueueAgrees ==
    /\ Distinct(queue)
    /\ Members(queue) = {p \in Procs : state[p] \in {"RUNNABLE", "RUNNING"}}
    /\ \A p \in Procs :
          state[p] = "RUNNING" <=> \E c \in CPUs : current[c] = p
    /\ \A c, d \in CPUs : current[c] = current[d] => c = d

\* The ASSERTs of the two files: simple_sched is called by a RUNNING process,
\* a post that owes a wake-up finds a waiter, a wait that gives up finds its
\* count in val, and an unalertable wait returns true.
AssertsHold ==
    \A c \in CPUs :
        LET t == stack[c] IN
        /\ pc[t] = "sched" => state[t] = "RUNNING" /\ current[c] = t
        /\ pc[t] = "post" /\ val < 0 => sleeplist # <<>>
        /\ pc[t] = "woken" /\ ~up[t] => val + 1 <= 0
        /\ pc[t] = "woken" /\ new[t] = "DEEPSLEEPING" => up[t]

\* The units that were given and not yet taken: what is left in val and what
\* was handed to waiters that have not returned.
Available ==
    (IF val > 0 THEN val ELSE 0) + Cardinality({p \in Procs : up[p]})

\* A process waits from the moment it has locked the semaphore for _wait_sem
\* until _wait_sem returns.
Waiting ==
    [p \in Procs |->
        IF pc[p] \in WaitOps THEN pc[p]
        ELSE IF new[p] = "SLEEPING" THEN "wait"
        ELSE IF new[p] = "DEEPSLEEPING" THEN "unalertable_wait"
        ELSE "no"]

Abstract == INSTANCE CountingSem WITH avail <- Available, waiting <- Waiting

\* The implementation with its locks, alerts and context switches is a
\* counting semaphore: no wait succeeds without a unit of its own, and only
\* an alertable wait fails.
ImplementsSemaphore == Abstract!SSpec

\* Every process that may run does run in the end.
RunnableRuns == \A p \in Procs : state[p] = "RUNNABLE" ~> state[p] = "RUNNING"

\* A process to which a post handed a unit returns from its wait in the end.
GrantedReturns == \A p \in Procs : up[p] ~> ~up[p]
=============================================================================
