-------------------------- MODULE SchedulerProofs --------------------------
(***************************************************************************)
(* Safety of SleepWake, and of the timers of the scheduler, for any number *)
(* of processes and CPUs.                                                  *)
(***************************************************************************)
EXTENDS SleepWake, Timers, KListTheorems, FiniteSetTheorems

(* The inductive invariant. *)

\* The code that runs with runlock held, as seen by the CPU that executes it.
RunSection == {"both", "sched", "swtch", "out"}

\* The code that runs with sem.lock held.
SemSection == WaitOps \cup {"enqueued", "both", "woken", "post", "activate", "posted"}

\* The thread a CPU executes is thisproc, except between update_this_proc and
\* swtch; it is RUNNING and nobody else's; a thread no CPU executes waits in
\* simple_sched (or proc_entry) to be continued.
ExecInv ==
    /\ \A c \in CPUs : state[current[c]] = "RUNNING"
    /\ \A c, d \in CPUs : current[c] = current[d] => c = d
    /\ \A c, d \in CPUs : stack[c] = stack[d] => c = d
    /\ \A c \in CPUs : current[c] \in CPUs => current[c] = c
    /\ \A c \in CPUs : stack[c] \in CPUs => stack[c] = c
    /\ \A c \in CPUs : pc[stack[c]] # "swtch" <=> current[c] = stack[c]
    /\ \A t \in Threads : (\A c \in CPUs : stack[c] # t) => pc[t] = "out"
    /\ \A p \in Procs : state[p] = "RUNNING" => \E c \in CPUs : current[c] = p

\* Who holds the two locks.
LockInv ==
    /\ \A c \in CPUs : runlock = c <=> pc[stack[c]] \in RunSection
    /\ \A t \in Threads : semlock = t <=> pc[t] \in SemSection
    /\ \A t \in Threads : pc[t] = "activate" => target # None
    /\ target # None => \E t \in Threads : pc[t] = "activate"

\* A process that is in _wait_sem below its first return (new says how it
\* sleeps) is linked until a post takes it off the list.
WaitInv ==
    /\ \A t \in Threads : new[t] \in Asleep =>
          t \in Procs /\ pc[t] \in {"enqueued", "both", "sched", "swtch", "out", "relock", "woken"}
    /\ \A t \in Threads : pc[t] \in {"enqueued", "both", "relock", "woken"} => new[t] \in Asleep
    /\ \A t \in Threads : pc[t] \in WaitOps => t \in Procs
    /\ Members(sleeplist) = {p \in Procs : new[p] \in Asleep /\ ~ up[p]}
    /\ Distinct(sleeplist)
    /\ \A p \in Procs : up[p] => new[p] \in Asleep

\* A process sleeps only inside _wait_sem; one that was posted and sleeps, or
\* is going to, is the target of a poster that has not activated it yet.
SleepInv ==
    /\ \A t \in Threads : state[t] \in Asleep => new[t] = state[t] /\ pc[t] \in {"swtch", "out"}
    /\ \A p \in Procs :
          up[p] /\ (state[p] \in Asleep \/ pc[p] \in {"enqueued", "both", "sched"})
              => target = p
    /\ \A p \in Procs : target = p => up[p]
    /\ \A p \in Procs :
          new[p] = "DEEPSLEEPING" /\ ~ up[p] =>
              state[p] = "DEEPSLEEPING" \/ pc[p] \in {"enqueued", "both", "sched"}

QueueInv ==
    /\ Distinct(queue)
    /\ Members(queue) = {p \in Procs : state[p] \in {"RUNNABLE", "RUNNING"}}

IInv == TypeOK /\ ExecInv /\ LockInv /\ WaitInv /\ SleepInv /\ QueueInv /\ SemCount

-----------------------------------------------------------------------------
(* Start-up, and one lemma per action. *)

\* Start-up establishes the invariant.
LEMMA InitIInv == Init => IInv
<1> SUFFICES ASSUME Init PROVE IInv
  OBVIOUS
<1> USE ProcsAssumption, NoneAssumption, ValAssumption DEF Init, Threads
<1>1. TypeOK
  <2>1. queue \in Seq(Procs) /\ sleeplist \in Seq(Procs)
    OBVIOUS
  <2>2. up \in [Procs -> BOOLEAN] /\ all \in BOOLEAN
    OBVIOUS
  <2>3. state \in [Threads -> States]
    BY DEF States
  <2> QED
    BY <2>1, <2>2, <2>3 DEF TypeOK
<1>2. ExecInv /\ LockInv
  BY DEF ExecInv, LockInv, RunSection, SemSection, WaitOps
<1>3. WaitInv /\ SleepInv /\ SemCount
  BY EmptyFacts DEF WaitInv, SleepInv, SemCount, WaitOps, Asleep
<1>4. QueueInv
  BY DEF QueueInv, Members, Distinct
<1> QED
  BY <1>1, <1>2, <1>3, <1>4 DEF IInv

\* _activate_proc keeps queue and states in agreement.
LEMMA ActivateFacts ==
    ASSUME TypeOK, QueueInv, NEW p \in Procs, NEW b \in BOOLEAN, ActivateProc(p, b)
    PROVE  /\ queue' \in Seq(Procs) /\ QueueInv'
           /\ state' = IF Wakes(p, b) THEN [state EXCEPT ![p] = "RUNNABLE"] ELSE state
<1>1. CASE Wakes(p, b)
  <2>1. p \notin Members(queue)
    BY <1>1 DEF QueueInv, Wakes
  <2>2. state' = [state EXCEPT ![p] = "RUNNABLE"] /\ queue' = InsertHead(queue, p)
    BY <1>1 DEF ActivateProc
  <2>3. /\ queue' \in Seq(Procs) /\ Distinct(queue')
        /\ Members(queue') = Members(queue) \cup {p}
    <3>1. queue \in Seq(Procs) /\ Distinct(queue)
      BY DEF TypeOK, QueueInv
    <3> QED
      BY <2>1, <2>2, <3>1, InsertHeadFacts
  <2>4. Members(queue') = {q \in Procs : state'[q] \in {"RUNNABLE", "RUNNING"}}
    BY <2>2, <2>3 DEF QueueInv, TypeOK, Threads
  <2> QED
    BY <1>1, <2>2, <2>3, <2>4 DEF QueueInv
<1>2. CASE ~ Wakes(p, b)
  BY <1>2 DEF ActivateProc, QueueInv, TypeOK
<1> QED
  BY <1>1, <1>2

\* start_proc of a process that was never started.
LEMMA StartProcStep ==
    ASSUME IInv, NEW c \in CPUs, NEW q \in Procs, StartProc(c, q)
    PROVE  IInv'
<1> USE ProcsAssumption DEF Threads, sem, local
<1>1. /\ queue' \in Seq(Procs) /\ QueueInv'
      /\ state' = [state EXCEPT ![q] = "RUNNABLE"]
  BY ActivateFacts DEF IInv, StartProc, Wakes
<1>2. TypeOK' 
  BY <1>1 DEF IInv, TypeOK, StartProc, States
<1>3. ExecInv' 
  BY <1>1 DEF IInv, TypeOK, StartProc, ExecInv
<1>4. SleepInv'
  BY <1>1 DEF IInv, TypeOK, StartProc, SleepInv, Asleep, WaitInv, ExecInv
<1>5. LockInv' /\ WaitInv' /\ SemCount'
  BY DEF IInv, StartProc, LockInv, WaitInv, SemCount
<1> QED
  BY <1>1, <1>2, <1>3, <1>4, <1>5 DEF IInv

\* An alert ends SLEEPING, never DEEPSLEEPING.
LEMMA AlertProcStep ==
    ASSUME IInv, NEW c \in CPUs, NEW q \in Procs, AlertProc(c, q)
    PROVE  IInv'
<1> USE ProcsAssumption DEF Threads, sem, local
<1>1. /\ queue' \in Seq(Procs) /\ QueueInv'
      /\ state' = IF Wakes(q, TRUE) THEN [state EXCEPT ![q] = "RUNNABLE"] ELSE state
  BY ActivateFacts DEF IInv, AlertProc
<1>2. TypeOK' 
  BY <1>1 DEF IInv, TypeOK, AlertProc, States
<1>3. ExecInv' 
  BY <1>1 DEF IInv, TypeOK, AlertProc, ExecInv, Wakes
<1>4. SleepInv'
  BY <1>1 DEF IInv, TypeOK, AlertProc, SleepInv, Asleep, Wakes
<1>5. LockInv' /\ WaitInv' /\ SemCount'
  BY DEF IInv, AlertProc, LockInv, WaitInv, SemCount
<1> QED
  BY <1>1, <1>2, <1>3, <1>4, <1>5 DEF IInv

\* yield, the timer interrupt and exit: nothing is locked or changed yet.
LEMMA CallSchedStep ==
    ASSUME IInv, NEW c \in CPUs, NEW s \in {"RUNNABLE", "ZOMBIE"},
           s = "ZOMBIE" => stack[c] \in Procs, CallSched(c, s)
    PROVE  IInv'
<1> USE ProcsAssumption, NoneAssumption DEF Threads, sched, sem, local
<1>1. stack[c] \in Threads /\ current[c] \in Threads
  BY DEF IInv, TypeOK
<1>2. TypeOK'
  BY <1>1 DEF IInv, CallSched, TypeOK
<1>3. ExecInv'
  BY <1>1 DEF IInv, CallSched, ExecInv
<1>4. LockInv'
  BY <1>1 DEF IInv, CallSched, LockInv, RunSection, SemSection, WaitOps
<1>5. WaitInv'
  BY <1>1 DEF IInv, CallSched, WaitInv, Asleep, WaitOps
<1>6. SleepInv'
  BY <1>1 DEF IInv, CallSched, SleepInv, Asleep
<1>7. QueueInv'
  BY <1>1 DEF IInv, CallSched, QueueInv
<1>8. SemCount'
  BY <1>1 DEF IInv, CallSched, SemCount
<1> QED
  BY <1>2, <1>3, <1>4, <1>5, <1>6, <1>7, <1>8 DEF IInv

\* The CPU gets runlock.
LEMMA LockSchedStep ==
    ASSUME IInv, NEW c \in CPUs, LockSched(c)
    PROVE  IInv'
<1> USE ProcsAssumption, NoneAssumption DEF Threads, sched, sem, local
<1>1. stack[c] \in Threads /\ current[c] \in Threads
  BY DEF IInv, TypeOK
<1>2. TypeOK'
  BY <1>1 DEF IInv, LockSched, TypeOK
<1>3. ExecInv'
  BY <1>1 DEF IInv, LockSched, ExecInv
<1>4. LockInv'
  BY <1>1 DEF IInv, LockSched, TypeOK, LockInv, ExecInv, RunSection, SemSection, WaitOps
<1>5. WaitInv'
  BY <1>1 DEF IInv, LockSched, WaitInv, Asleep, WaitOps
<1>6. SleepInv'
  BY <1>1 DEF IInv, LockSched, TypeOK, SleepInv, WaitInv, Asleep, WaitOps
<1>7. QueueInv'
  BY <1>1 DEF IInv, LockSched, QueueInv
<1>8. SemCount'
  BY <1>1 DEF IInv, LockSched, SemCount
<1> QED
  BY <1>2, <1>3, <1>4, <1>5, <1>6, <1>7, <1>8 DEF IInv

LEMMA PickNextFacts ==
    ASSUME NEW q \in Seq(Procs), NEW st \in [Threads -> States], NEW c \in CPUs
    PROVE  \/ PickNext(q, st, c) = c
           \/ /\ PickNext(q, st, c) \in Members(q)
              /\ PickNext(q, st, c) \in Procs
              /\ st[PickNext(q, st, c)] = "RUNNABLE"
<1>1. CASE Candidates(q, st) = {}
  BY <1>1 DEF PickNext
<1>2. CASE Candidates(q, st) # {}
  <2>1. Candidates(q, st) \subseteq Nat
    BY DEF Candidates
  <2>2. PICK i \in Candidates(q, st) : \A j \in Candidates(q, st) : i <= j
    BY <1>2, <2>1, LeastExists
  <2> DEFINE k == CHOOSE j \in Candidates(q, st) : \A m \in Candidates(q, st) : j <= m
  <2>3. k \in Candidates(q, st)
    BY <2>2
  <2>4. PickNext(q, st, c) = q[k]
    BY <1>2 DEF PickNext
  <2>5. k \in DOMAIN q /\ st[q[k]] = "RUNNABLE"
    BY <2>3 DEF Candidates
  <2> HIDE DEF k
  <2>6. q[k] \in Members(q) /\ q[k] \in Procs
    BY <2>5 DEF Members
  <2> QED
    BY <2>4, <2>5, <2>6
<1> QED
  BY <1>1, <1>2

\* simple_sched: the process it picks was nobody's.
LEMMA SchedStep ==
    ASSUME IInv, NEW c \in CPUs, Sched(c)
    PROVE  IInv'
<1> USE ProcsAssumption DEF Threads
<1> DEFINE t == stack[c]
           st == [state EXCEPT ![t] = new[t]]
           q == QueueAfter(t, new[t])
           next == PickNext(q, st, c)
<1>1. /\ pc[t] = "sched" /\ queue' = q
      /\ state' = [st EXCEPT ![next] = "RUNNING"]
      /\ current' = [current EXCEPT ![c] = next]
      /\ pc' = [pc EXCEPT ![t] = IF next = t THEN "out" ELSE "swtch"]
      /\ stack' = stack /\ runlock' = runlock /\ semlock' = semlock /\ val' = val
      /\ sleeplist' = sleeplist /\ up' = up /\ new' = new /\ all' = all /\ target' = target
  BY DEF Sched, sem
<1>2. t \in Threads /\ new[t] \in States /\ st \in [Threads -> States]
  BY DEF IInv, TypeOK, States
<1>3. current[c] = t /\ state[t] = "RUNNING" /\ runlock = c
  BY <1>1, <1>2 DEF IInv, TypeOK, ExecInv, LockInv, RunSection
<1>4. /\ q \in Seq(Procs) /\ Distinct(q)
      /\ Members(q) = IF new[t] \in Asleep \cup {"ZOMBIE"} THEN Members(queue) \ {t} ELSE Members(queue)
  <2>1. queue \in Seq(Procs) /\ Distinct(queue)
    BY DEF IInv, TypeOK, QueueInv
  <2> QED
    BY <2>1, DetachFacts DEF QueueAfter
<1> HIDE DEF q, st
<1>5. \/ next = c
      \/ next \in Members(q) /\ next \in Procs /\ st[next] = "RUNNABLE"
  BY <1>2, <1>4, PickNextFacts
<1> HIDE DEF next, t
<1>6. \A u \in Threads : state'[u] = IF u = next THEN "RUNNING" ELSE IF u = t THEN new[t] ELSE state[u]
  BY <1>1, <1>2 DEF IInv, TypeOK, st
<1>7. \A d \in CPUs : d # c => current[d] # t /\ current[d] # next /\ stack[d] # t
  <2>1. ASSUME NEW d \in CPUs, d # c PROVE current[d] # t /\ stack[d] # t /\ state[current[d]] = "RUNNING"
    BY <1>3, <2>1 DEF IInv, ExecInv, t
  <2> QED
    BY <1>2, <1>5, <2>1 DEF IInv, ExecInv, TypeOK, st
<1>8. new[t] \in Asleep => next # t
  BY <1>2, <1>5 DEF IInv, WaitInv, TypeOK, st, Asleep
<1>9. TypeOK'
  BY <1>1, <1>2, <1>4, <1>5 DEF IInv, TypeOK, States
<1>10. ExecInv'
  <2>1. \A d \in CPUs : current'[d] = IF d = c THEN next ELSE current[d]
    BY <1>1 DEF IInv, TypeOK
  <2>2. \A u \in Threads : pc'[u] = IF u = t THEN (IF next = t THEN "out" ELSE "swtch") ELSE pc[u]
    BY <1>1 DEF IInv, TypeOK
  <2>3. \A d \in CPUs : state'[current'[d]] = "RUNNING"
    BY <1>5, <1>6, <1>7, <2>1 DEF IInv, TypeOK, ExecInv
  <2>4. \A d, e \in CPUs : current'[d] = current'[e] => d = e
    BY <1>7, <2>1 DEF IInv, ExecInv
  <2>5. \A d \in CPUs : current'[d] \in CPUs => current'[d] = d
    BY <1>5, <2>1 DEF IInv, ExecInv
  <2>6. \A d \in CPUs : pc'[stack'[d]] # "swtch" <=> current'[d] = stack'[d]
    BY <1>1, <1>2, <1>7, <2>1, <2>2 DEF IInv, ExecInv, TypeOK, t
  <2>7. \A u \in Threads : (\A d \in CPUs : stack'[d] # u) => pc'[u] = "out"
    BY <1>1, <2>2 DEF IInv, ExecInv, t
  <2>8. \A p \in Procs : state'[p] = "RUNNING" => \E d \in CPUs : current'[d] = p
    <3> SUFFICES ASSUME NEW p \in Procs, state'[p] = "RUNNING"
                 PROVE  \E d \in CPUs : current'[d] = p
      OBVIOUS
    <3>1. CASE p = next
      BY <3>1, <2>1
    <3>2. CASE p # next
      <4>1. p # t /\ state[p] = "RUNNING"
        BY <3>2, <1>6 DEF IInv, TypeOK
      <4>2. PICK d \in CPUs : current[d] = p
        BY <4>1 DEF IInv, ExecInv
      <4> QED
        BY <4>1, <4>2, <1>3, <2>1
    <3> QED
      BY <3>1, <3>2
  <2> QED
    BY <1>1, <2>3, <2>4, <2>5, <2>6, <2>7, <2>8 DEF IInv, ExecInv
<1>11. LockInv'
  BY <1>1, <1>2, <1>3, <1>7 DEF IInv, TypeOK, LockInv, RunSection, SemSection, WaitOps, t
<1>12. WaitInv' /\ SemCount'
  BY <1>1, <1>2 DEF IInv, TypeOK, WaitInv, SemCount, WaitOps, Asleep
<1>13. SleepInv'
  <2>1. next # t => pc[next] = "out"
    <3> SUFFICES ASSUME next # t, NEW d \in CPUs, stack[d] = next PROVE FALSE
      BY <1>5 DEF IInv, ExecInv
    <3>1. d # c
      BY DEF t
    <3>2. pc[stack[d]] = "swtch"
      BY <3>1, <1>7 DEF IInv, ExecInv
    <3> QED
      BY <3>1, <3>2, <1>3 DEF IInv, LockInv, RunSection
  <2>2. \A u \in Threads : pc'[u] = IF u = t THEN (IF next = t THEN "out" ELSE "swtch") ELSE pc[u]
    BY <1>1 DEF IInv, TypeOK
  <2>3. \A u \in Threads : state'[u] \in Asleep => new'[u] = state'[u] /\ pc'[u] \in {"swtch", "out"}
    BY <1>1, <1>6, <1>8, <2>2 DEF IInv, SleepInv, Asleep
  <2>4. \A p \in Procs :
          up'[p] /\ (state'[p] \in Asleep \/ pc'[p] \in {"enqueued", "both", "sched"})
              => target' = p
    BY <1>1, <1>6, <2>2 DEF IInv, SleepInv, Asleep
  <2>5. \A p \in Procs :
          new'[p] = "DEEPSLEEPING" /\ ~ up'[p] =>
              state'[p] = "DEEPSLEEPING" \/ pc'[p] \in {"enqueued", "both", "sched"}
    <3> SUFFICES ASSUME NEW p \in Procs, new[p] = "DEEPSLEEPING", ~ up[p]
                 PROVE  state'[p] = "DEEPSLEEPING" \/ pc'[p] \in {"enqueued", "both", "sched"}
      BY <1>1
    <3>1. CASE p = t
      BY <3>1, <1>6, <1>8 DEF Asleep
    <3>2. CASE p # t /\ p = next
      <4>1. state[p] = "DEEPSLEEPING"
        BY <3>2, <2>1 DEF IInv, SleepInv
      <4>2. st[p] = state[p]
        BY <3>2, <1>2 DEF st, IInv, TypeOK
      <4>3. next \notin CPUs
        BY <3>2
      <4> QED
        BY <3>2, <1>5, <4>1, <4>2, <4>3
    <3>3. CASE p # t /\ p # next
      BY <3>3, <1>6, <2>2 DEF IInv, SleepInv
    <3> QED
      BY <3>1, <3>2, <3>3
  <2> QED
    BY <1>1, <2>3, <2>4, <2>5 DEF IInv, SleepInv
<1>14. QueueInv'
  BY <1>1, <1>2, <1>3, <1>4, <1>5 DEF IInv, QueueInv, TypeOK, st, Asleep, States
<1> QED
  BY <1>9, <1>10, <1>11, <1>12, <1>13, <1>14 DEF IInv

\* swtch: the other thread was waiting to be continued, on no CPU's stack.
LEMMA SwtchStep ==
    ASSUME IInv, NEW c \in CPUs, Swtch(c)
    PROVE  IInv'
<1> USE ProcsAssumption, NoneAssumption DEF Threads, sched, sem, local
<1>1. stack[c] \in Threads /\ current[c] \in Threads
  BY DEF IInv, TypeOK
<1>2. TypeOK'
  BY <1>1 DEF IInv, Swtch, TypeOK
<1>3. ExecInv'
  BY <1>1 DEF IInv, Swtch, TypeOK, ExecInv, LockInv, RunSection, SemSection, WaitOps
<1>4. LockInv'
  BY <1>1 DEF IInv, Swtch, TypeOK, LockInv, ExecInv, RunSection, SemSection, WaitOps
<1>5. WaitInv'
  BY <1>1 DEF IInv, Swtch, WaitInv, Asleep, WaitOps
<1>6. SleepInv'
  BY <1>1 DEF IInv, Swtch, SleepInv, Asleep
<1>7. QueueInv'
  BY <1>1 DEF IInv, Swtch, QueueInv
<1>8. SemCount'
  BY <1>1 DEF IInv, Swtch, SemCount
<1> QED
  BY <1>2, <1>3, <1>4, <1>5, <1>6, <1>7, <1>8 DEF IInv

\* The continued thread releases the runlock its predecessor took.
LEMMA SchedReturnStep ==
    ASSUME IInv, NEW c \in CPUs, SchedReturn(c)
    PROVE  IInv'
<1> USE ProcsAssumption, NoneAssumption DEF Threads, sched, sem, local
<1>1. stack[c] \in Threads /\ current[c] \in Threads
  BY DEF IInv, TypeOK
<1>2. TypeOK'
  BY <1>1 DEF IInv, SchedReturn, TypeOK
<1>3. ExecInv'
  BY <1>1 DEF IInv, SchedReturn, ExecInv
<1>4. LockInv'
  BY <1>1 DEF IInv, SchedReturn, TypeOK, LockInv, RunSection, SemSection, WaitOps
<1>5. WaitInv'
  BY <1>1 DEF IInv, SchedReturn, WaitInv, Asleep, WaitOps
<1>6. SleepInv'
  BY <1>1 DEF IInv, SchedReturn, TypeOK, SleepInv, ExecInv, Asleep
<1>7. QueueInv'
  BY <1>1 DEF IInv, SchedReturn, QueueInv
<1>8. SemCount'
  BY <1>1 DEF IInv, SchedReturn, SemCount
<1> QED
  BY <1>2, <1>3, <1>4, <1>5, <1>6, <1>7, <1>8 DEF IInv

\* A thread gets sem.lock.
LEMMA LockSemStep ==
    ASSUME IInv, NEW c \in CPUs, NEW o \in WaitOps \cup PostOps, LockSem(c, o)
    PROVE  IInv'
<1> USE ProcsAssumption, NoneAssumption DEF Threads, sched, sem, local
<1>1. stack[c] \in Threads /\ current[c] \in Threads
  BY DEF IInv, TypeOK
<1>2. TypeOK'
  BY <1>1 DEF IInv, LockSem, TypeOK, WaitOps, PostOps
<1>3. ExecInv'
  BY <1>1 DEF IInv, LockSem, TypeOK, ExecInv, WaitOps, PostOps
<1>4. LockInv'
  BY <1>1 DEF IInv, LockSem, TypeOK, LockInv, RunSection, SemSection, WaitOps, PostOps
<1>5. WaitInv'
  BY <1>1 DEF IInv, LockSem, WaitInv, Asleep, WaitOps, PostOps
<1>6. SleepInv'
  BY <1>1 DEF IInv, LockSem, SleepInv, Asleep, WaitOps, PostOps
<1>7. QueueInv'
  BY <1>1 DEF IInv, LockSem, QueueInv
<1>8. SemCount'
  BY <1>1 DEF IInv, LockSem, SemCount
<1> QED
  BY <1>2, <1>3, <1>4, <1>5, <1>6, <1>7, <1>8 DEF IInv

\* _wait_sem takes a unit or links itself.
LEMMA WaitStep ==
    ASSUME IInv, NEW c \in CPUs, Wait(c)
    PROVE  IInv'
<1> USE ProcsAssumption, NoneAssumption DEF Threads, sched
<1> DEFINE t == stack[c]
<1>1. t \in Procs /\ pc[t] \in WaitOps /\ semlock = t /\ new[t] \notin Asleep /\ ~ up[t] /\ target = None
  BY DEF IInv, TypeOK, Wait, WaitInv, LockInv, WaitOps, SemSection
<1> HIDE DEF t
<1>2. CASE val > 0
  <2>1. /\ val' = val - 1 /\ semlock' = None /\ pc' = [pc EXCEPT ![t] = "user"]
        /\ UNCHANGED <<sched, sleeplist, up, new, all, target>>
    BY <1>2 DEF Wait, t
  <2>2. TypeOK' /\ QueueInv' /\ SemCount'
    BY <1>1, <1>2, <2>1 DEF IInv, TypeOK, QueueInv, SemCount
  <2>3. ExecInv' /\ LockInv'
    BY <1>1, <2>1 DEF IInv, TypeOK, ExecInv, LockInv, RunSection, SemSection, WaitOps, t
  <2>4. WaitInv' /\ SleepInv'
    BY <1>1, <2>1 DEF IInv, TypeOK, WaitInv, SleepInv, WaitOps, Asleep
  <2> QED
    BY <2>2, <2>3, <2>4 DEF IInv
<1>3. CASE ~ (val > 0)
  <2>1. /\ val' = val - 1 /\ sleeplist' = InsertHead(sleeplist, t)
        /\ up' = [up EXCEPT ![t] = FALSE] /\ pc' = [pc EXCEPT ![t] = "enqueued"]
        /\ new' = [new EXCEPT ![t] = IF pc[t] = "wait" THEN "SLEEPING" ELSE "DEEPSLEEPING"]
        /\ UNCHANGED <<sched, semlock, all, target>>
    BY <1>3 DEF Wait, t
  <2>2. sleeplist \in Seq(Procs) /\ Distinct(sleeplist) /\ t \notin Members(sleeplist)
    BY <1>1 DEF IInv, TypeOK, WaitInv
  <2>3. /\ sleeplist' \in Seq(Procs) /\ Distinct(sleeplist')
        /\ Members(sleeplist') = Members(sleeplist) \cup {t}
        /\ Len(sleeplist') = Len(sleeplist) + 1
    BY <1>1, <2>1, <2>2, InsertHeadFacts
  <2>4. TypeOK' /\ QueueInv'
    BY <1>1, <2>1, <2>3 DEF IInv, TypeOK, QueueInv
  <2>5. ExecInv' /\ LockInv'
    BY <1>1, <2>1 DEF IInv, TypeOK, ExecInv, LockInv, RunSection, SemSection, WaitOps, t
  <2>6. new'[t] \in Asleep /\ ~ up'[t] /\ \A u \in Procs : u # t => new'[u] = new[u] /\ up'[u] = up[u]
    BY <1>1, <2>1 DEF IInv, TypeOK, Asleep
  <2>7. Members(sleeplist') = {p \in Procs : new'[p] \in Asleep /\ ~ up'[p]}
    BY <1>1, <2>3, <2>6 DEF IInv, WaitInv
  <2>8. WaitInv'
    BY <1>1, <2>1, <2>3, <2>6, <2>7 DEF IInv, TypeOK, WaitInv, WaitOps, Asleep
  <2>9. SleepInv'
    BY <1>1, <2>1, <2>6 DEF IInv, TypeOK, SleepInv, WaitOps, Asleep
  <2>10. SemCount'
    BY <1>3, <2>1, <2>3, <2>2 DEF IInv, TypeOK, SemCount
  <2> QED
    BY <2>4, <2>5, <2>8, <2>9, <2>10 DEF IInv
<1> QED
  BY <1>2, <1>3

\* The waiter gets runlock while it holds sem.lock.
LEMMA WaitLockSchedStep ==
    ASSUME IInv, NEW c \in CPUs, WaitLockSched(c)
    PROVE  IInv'
<1> USE ProcsAssumption, NoneAssumption DEF Threads, sched, sem, local
<1>1. stack[c] \in Threads /\ current[c] \in Threads
  BY DEF IInv, TypeOK
<1>2. TypeOK'
  BY <1>1 DEF IInv, WaitLockSched, TypeOK
<1>3. ExecInv'
  BY <1>1 DEF IInv, WaitLockSched, ExecInv
<1>4. LockInv'
  BY <1>1 DEF IInv, WaitLockSched, TypeOK, LockInv, ExecInv, RunSection, SemSection, WaitOps
<1>5. WaitInv'
  BY <1>1 DEF IInv, WaitLockSched, WaitInv, Asleep, WaitOps
<1>6. SleepInv'
  BY <1>1 DEF IInv, WaitLockSched, SleepInv, Asleep
<1>7. QueueInv'
  BY <1>1 DEF IInv, WaitLockSched, QueueInv
<1>8. SemCount'
  BY <1>1 DEF IInv, WaitLockSched, SemCount
<1> QED
  BY <1>2, <1>3, <1>4, <1>5, <1>6, <1>7, <1>8 DEF IInv

\* The waiter releases sem.lock and keeps runlock.
LEMMA WaitUnlockStep ==
    ASSUME IInv, NEW c \in CPUs, WaitUnlock(c)
    PROVE  IInv'
<1> USE ProcsAssumption, NoneAssumption DEF Threads, sched, sem, local
<1>1. stack[c] \in Threads /\ current[c] \in Threads
  BY DEF IInv, TypeOK
<1>2. TypeOK'
  BY <1>1 DEF IInv, WaitUnlock, TypeOK
<1>3. ExecInv'
  BY <1>1 DEF IInv, WaitUnlock, ExecInv
<1>4. LockInv'
  BY <1>1 DEF IInv, WaitUnlock, TypeOK, LockInv, RunSection, SemSection, WaitOps
<1>5. WaitInv'
  BY <1>1 DEF IInv, WaitUnlock, WaitInv, Asleep, WaitOps
<1>6. SleepInv'
  BY <1>1 DEF IInv, WaitUnlock, SleepInv, Asleep
<1>7. QueueInv'
  BY <1>1 DEF IInv, WaitUnlock, QueueInv
<1>8. SemCount'
  BY <1>1 DEF IInv, WaitUnlock, SemCount
<1> QED
  BY <1>2, <1>3, <1>4, <1>5, <1>6, <1>7, <1>8 DEF IInv

\* The woken waiter gets sem.lock again.
LEMMA WaitRelockStep ==
    ASSUME IInv, NEW c \in CPUs, WaitRelock(c)
    PROVE  IInv'
<1> USE ProcsAssumption, NoneAssumption DEF Threads, sched, sem, local
<1>1. stack[c] \in Threads /\ current[c] \in Threads
  BY DEF IInv, TypeOK
<1>2. TypeOK'
  BY <1>1 DEF IInv, WaitRelock, TypeOK
<1>3. ExecInv'
  BY <1>1 DEF IInv, WaitRelock, ExecInv
<1>4. LockInv'
  BY <1>1 DEF IInv, WaitRelock, TypeOK, LockInv, RunSection, SemSection, WaitOps
<1>5. WaitInv'
  BY <1>1 DEF IInv, WaitRelock, WaitInv, Asleep, WaitOps
<1>6. SleepInv'
  BY <1>1 DEF IInv, WaitRelock, SleepInv, Asleep
<1>7. QueueInv'
  BY <1>1 DEF IInv, WaitRelock, QueueInv
<1>8. SemCount'
  BY <1>1 DEF IInv, WaitRelock, SemCount
<1> QED
  BY <1>2, <1>3, <1>4, <1>5, <1>6, <1>7, <1>8 DEF IInv

\* _wait_sem returns; a wait nobody posted unlinks itself and repays val.
LEMMA WaitReturnStep ==
    ASSUME IInv, NEW c \in CPUs, WaitReturn(c)
    PROVE  IInv'
<1> USE ProcsAssumption, NoneAssumption DEF Threads, sched
<1> DEFINE t == stack[c]
<1>1. t \in Procs /\ pc[t] = "woken" /\ semlock = t /\ new[t] \in Asleep /\ target = None
  BY DEF IInv, TypeOK, WaitReturn, WaitInv, LockInv, SemSection
<1>2. /\ up' = [up EXCEPT ![t] = FALSE] /\ semlock' = None
      /\ pc' = [pc EXCEPT ![t] = "user"] /\ new' = [new EXCEPT ![t] = "RUNNABLE"]
      /\ UNCHANGED <<sched, all, target>>
  BY DEF WaitReturn
<1>3. IF up[t] THEN val' = val /\ sleeplist' = sleeplist
      ELSE val' = val + 1 /\ sleeplist' = Detach(sleeplist, t)
  BY DEF WaitReturn
<1> HIDE DEF t
<1>4. sleeplist \in Seq(Procs) /\ Distinct(sleeplist) /\ (t \in Members(sleeplist) <=> ~ up[t])
  BY <1>1 DEF IInv, TypeOK, WaitInv
<1>5. /\ sleeplist' \in Seq(Procs) /\ Distinct(sleeplist')
      /\ Members(sleeplist') = Members(sleeplist) \ {t}
      /\ Len(sleeplist') = IF up[t] THEN Len(sleeplist) ELSE Len(sleeplist) - 1
  BY <1>3, <1>4, DetachFacts
<1>6. TypeOK' /\ QueueInv'
  BY <1>1, <1>2, <1>3, <1>5 DEF IInv, TypeOK, QueueInv
<1>7. ExecInv' /\ LockInv'
  BY <1>1, <1>2 DEF IInv, TypeOK, ExecInv, LockInv, RunSection, SemSection, WaitOps, t
<1>8. \A u \in Procs : IF u = t THEN new'[u] \notin Asleep /\ ~ up'[u]
                       ELSE new'[u] = new[u] /\ up'[u] = up[u]
  BY <1>1, <1>2 DEF IInv, TypeOK, Asleep
<1>9. Members(sleeplist') = {p \in Procs : new'[p] \in Asleep /\ ~ up'[p]}
  BY <1>5, <1>8 DEF IInv, WaitInv
<1>10. WaitInv'
  BY <1>1, <1>2, <1>5, <1>8, <1>9 DEF IInv, TypeOK, WaitInv, WaitOps, Asleep
<1>11. SleepInv'
  BY <1>1, <1>2, <1>8 DEF IInv, TypeOK, SleepInv, Asleep
<1>12. SemCount'
  <2>1. ~ up[t] => Len(sleeplist) # 0
    BY <1>4, EmptyFacts DEF IInv, Members
  <2> QED
    BY <1>3, <1>4, <1>5, <2>1 DEF IInv, TypeOK, SemCount
<1> QED
  BY <1>6, <1>7, <1>10, <1>11, <1>12 DEF IInv

\* _post_sem unlinks the oldest waiter.
LEMMA PostStep ==
    ASSUME IInv, NEW c \in CPUs, Post(c)
    PROVE  IInv'
<1> USE ProcsAssumption, NoneAssumption DEF Threads, sched
<1> DEFINE t == stack[c]
           w == sleeplist[Len(sleeplist)]
<1>1. t \in Threads /\ pc[t] = "post" /\ semlock = t /\ target = None /\ new[t] \notin Asleep
  BY DEF IInv, TypeOK, Post, WaitInv, LockInv, SemSection
<1>2. val' = val + 1 /\ UNCHANGED <<sched, semlock, new, all>>
  BY DEF Post
<1>3. CASE val < 0
  <2>1. /\ up' = [up EXCEPT ![w] = TRUE] /\ sleeplist' = Detach(sleeplist, w)
        /\ target' = w /\ pc' = [pc EXCEPT ![t] = "activate"]
    BY <1>3 DEF Post
  <2>2. sleeplist \in Seq(Procs) /\ Distinct(sleeplist) /\ Len(sleeplist) = -val
    BY <1>3 DEF IInv, TypeOK, WaitInv, SemCount
  <2>3. w \in Members(sleeplist) /\ w \in Procs
    BY <1>3, <2>2 DEF Members, IInv, TypeOK
  <2>4. new[w] \in Asleep /\ ~ up[w]
    BY <2>3 DEF IInv, WaitInv
  <2> HIDE DEF w, t
  <2>5. /\ sleeplist' \in Seq(Procs) /\ Distinct(sleeplist')
        /\ Members(sleeplist') = Members(sleeplist) \ {w}
        /\ Len(sleeplist') = Len(sleeplist) - 1
    BY <2>1, <2>2, <2>3, DetachFacts
  <2>6. TypeOK' /\ QueueInv'
    BY <1>1, <1>2, <2>1, <2>3, <2>5 DEF IInv, TypeOK, QueueInv
  <2>7. ExecInv' /\ LockInv'
    BY <1>1, <1>2, <2>1, <2>3 DEF IInv, TypeOK, ExecInv, LockInv, RunSection, SemSection, WaitOps, t
  <2>8. \A u \in Procs : up'[u] = IF u = w THEN TRUE ELSE up[u]
    BY <2>1, <2>3 DEF IInv, TypeOK
  <2>9. Members(sleeplist') = {p \in Procs : new'[p] \in Asleep /\ ~ up'[p]}
    BY <1>2, <2>4, <2>5, <2>8 DEF IInv, WaitInv
  <2>10. WaitInv'
    BY <1>1, <1>2, <2>1, <2>4, <2>5, <2>8, <2>9 DEF IInv, TypeOK, WaitInv, WaitOps, Asleep
  <2>11. SleepInv'
    BY <1>1, <1>2, <2>1, <2>3, <2>8 DEF IInv, TypeOK, SleepInv, Asleep
  <2>12. SemCount'
    BY <1>2, <1>3, <2>2, <2>5, EmptyFacts DEF IInv, TypeOK, SemCount
  <2> QED
    BY <2>6, <2>7, <2>10, <2>11, <2>12 DEF IInv
<1>4. CASE ~ (val < 0)
  <2>1. pc' = [pc EXCEPT ![t] = "posted"] /\ UNCHANGED <<sleeplist, up, target>>
    BY <1>4 DEF Post
  <2> HIDE DEF t
  <2>2. TypeOK' /\ QueueInv' /\ SemCount'
    BY <1>1, <1>2, <1>4, <2>1 DEF IInv, TypeOK, QueueInv, SemCount
  <2>3. ExecInv' /\ LockInv'
    BY <1>1, <1>2, <2>1 DEF IInv, TypeOK, ExecInv, LockInv, RunSection, SemSection, WaitOps, t
  <2>4. WaitInv' /\ SleepInv'
    BY <1>1, <1>2, <2>1 DEF IInv, TypeOK, WaitInv, SleepInv, WaitOps, Asleep
  <2> QED
    BY <2>2, <2>3, <2>4 DEF IInv
<1> QED
  BY <1>3, <1>4

\* The poster activates its target, which is asleep by then or has not slept.
LEMMA PostActivateStep ==
    ASSUME IInv, NEW c \in CPUs, PostActivate(c)
    PROVE  IInv'
<1> USE ProcsAssumption, NoneAssumption DEF Threads, sem
<1>0. stack[c] \in Threads /\ pc[stack[c]] = "activate" /\ target \in Procs
  BY DEF IInv, TypeOK, LockInv, PostActivate
<1>1. /\ queue' \in Seq(Procs) /\ QueueInv'
      /\ state' = IF Wakes(target, FALSE) THEN [state EXCEPT ![target] = "RUNNABLE"] ELSE state
  BY <1>0, ActivateFacts DEF IInv, PostActivate
<1>2. TypeOK' 
  BY <1>0, <1>1 DEF IInv, TypeOK, PostActivate, States
<1>3. ExecInv' 
  BY <1>0, <1>1 DEF IInv, TypeOK, PostActivate, ExecInv, Wakes
<1>4. LockInv' 
  BY <1>0 DEF IInv, TypeOK, PostActivate, ExecInv, LockInv, RunSection, SemSection, WaitOps
<1>5. WaitInv' /\ SemCount'
  BY <1>0 DEF IInv, TypeOK, PostActivate, WaitInv, SemCount, WaitOps, Asleep
<1>6. SleepInv'
  <2>1. pc[target] \notin {"enqueued", "both", "sched"}
    BY <1>0 DEF IInv, TypeOK, PostActivate, LockInv, ExecInv, RunSection, SemSection
  <2>2. up[target]
    BY <1>0 DEF IInv, SleepInv
  <2>3. \A t \in Threads : pc'[t] = IF t = stack[c] THEN "posted" ELSE pc[t]
    BY <1>0 DEF IInv, TypeOK, PostActivate
  <2>4. up' = up /\ new' = new /\ target' = None
    BY DEF PostActivate
  <2>5. \A t \in Threads :
          /\ state'[t] \in Asleep => state'[t] = state[t] /\ t # target
          /\ t # target => state'[t] = state[t]
    BY <1>0, <1>1 DEF IInv, TypeOK, Wakes, Asleep, States
  <2>6. \A t \in Threads : state'[t] \in Asleep => new'[t] = state'[t] /\ pc'[t] \in {"swtch", "out"}
    BY <1>0, <2>3, <2>4, <2>5 DEF IInv, SleepInv, TypeOK, Asleep
  <2>7. \A p \in Procs :
          ~ (up'[p] /\ (state'[p] \in Asleep \/ pc'[p] \in {"enqueued", "both", "sched"}))
    BY <1>0, <2>1, <2>3, <2>4, <2>5 DEF IInv, SleepInv, TypeOK, Asleep
  <2>8. \A p \in Procs :
          new'[p] = "DEEPSLEEPING" /\ ~ up'[p] =>
              state'[p] = "DEEPSLEEPING" \/ pc'[p] \in {"enqueued", "both", "sched"}
    BY <1>0, <2>2, <2>3, <2>4, <2>5 DEF IInv, SleepInv, TypeOK, Asleep
  <2> QED
    BY <2>4, <2>6, <2>7, <2>8 DEF SleepInv
<1> QED
  BY <1>1, <1>2, <1>3, <1>4, <1>5, <1>6 DEF IInv

\* post_sem unlocks; post_all_sem goes round again or unlocks.
LEMMA PostReturnStep ==
    ASSUME IInv, NEW c \in CPUs, PostReturn(c)
    PROVE  IInv'
<1> USE ProcsAssumption, NoneAssumption DEF Threads, sched
<1> DEFINE t == stack[c]
<1>1. t \in Threads /\ pc[t] = "posted" /\ semlock = t /\ new[t] \notin Asleep /\ target = None
  BY DEF IInv, TypeOK, PostReturn, WaitInv, LockInv, SemSection
<1>2. UNCHANGED <<sched, sleeplist, up, new, target>>
  BY DEF PostReturn
<1>3. \/ pc' = [pc EXCEPT ![t] = "post"] /\ UNCHANGED <<val, semlock, all>>
      \/ /\ pc' = [pc EXCEPT ![t] = "user"] /\ semlock' = None /\ all' = FALSE
         /\ val' = val \/ (val > 0 /\ val' = val - 1)
  BY DEF PostReturn, IInv, TypeOK
<1> HIDE DEF t
<1>4. TypeOK' /\ QueueInv' /\ SemCount'
  <2>1. all' \in BOOLEAN
    BY <1>3 DEF IInv, TypeOK
  <2>2. val \in Int /\ val' \in Int
    BY <1>3 DEF IInv, TypeOK
  <2>3. TypeOK' /\ QueueInv'
    BY <1>1, <1>2, <1>3, <2>1, <2>2 DEF IInv, TypeOK, QueueInv
  <2>4. SemCount'
    <3>1. sleeplist' = sleeplist /\ (val' = val \/ (val > 0 /\ val' = val - 1))
      BY <1>2, <1>3
    <3> QED
      <4>1. CASE val' = val
        BY <3>1, <4>1 DEF IInv, SemCount
      <4>2. CASE val > 0 /\ val' = val - 1
        <5>1. sleeplist = <<>> /\ ~ (val' < 0)
          BY <2>2, <4>2 DEF IInv, SemCount
        <5> QED
          BY <3>1, <5>1 DEF SemCount
      <4> QED
        BY <3>1, <4>1, <4>2
  <2> QED
    BY <2>3, <2>4
<1>5. ExecInv' /\ LockInv'
  <2>1. CASE pc' = [pc EXCEPT ![t] = "post"] /\ semlock' = semlock
    <3>1. ExecInv'
      BY <1>1, <1>2, <2>1 DEF IInv, TypeOK, ExecInv, t
    <3>2. LockInv'
      BY <1>1, <1>2, <2>1 DEF IInv, TypeOK, ExecInv, LockInv, RunSection, SemSection, WaitOps, t
    <3> QED
      BY <3>1, <3>2
  <2>2. CASE pc' = [pc EXCEPT ![t] = "user"] /\ semlock' = None
    <3>1. ExecInv'
      BY <1>1, <1>2, <2>2 DEF IInv, TypeOK, ExecInv, t
    <3>2. LockInv'
      BY <1>1, <1>2, <2>2 DEF IInv, TypeOK, ExecInv, LockInv, RunSection, SemSection, WaitOps, t
    <3> QED
      BY <3>1, <3>2
  <2> QED
    BY <1>3, <2>1, <2>2
<1>6. WaitInv' /\ SleepInv'
  BY <1>1, <1>2, <1>3 DEF IInv, TypeOK, WaitInv, SleepInv, WaitOps, Asleep
<1> QED
  BY <1>4, <1>5, <1>6 DEF IInv

\* get_sem takes a unit that is there.
LEMMA GetSemStep ==
    ASSUME IInv, NEW c \in CPUs, GetSem(c)
    PROVE  IInv'
<1> USE ProcsAssumption, NoneAssumption DEF Threads, sched, sem, local
<1>1. stack[c] \in Threads /\ current[c] \in Threads
  BY DEF IInv, TypeOK
<1>2. TypeOK'
  BY <1>1 DEF IInv, GetSem, TypeOK
<1>3. ExecInv'
  BY <1>1 DEF IInv, GetSem, ExecInv
<1>4. LockInv'
  BY <1>1 DEF IInv, GetSem, LockInv, RunSection, SemSection, WaitOps
<1>5. WaitInv'
  BY <1>1 DEF IInv, GetSem, WaitInv, Asleep, WaitOps
<1>6. SleepInv'
  BY <1>1 DEF IInv, GetSem, SleepInv, Asleep
<1>7. QueueInv'
  BY <1>1 DEF IInv, GetSem, QueueInv
<1>8. SemCount'
  BY <1>1 DEF IInv, GetSem, TypeOK, SemCount
<1> QED
  BY <1>2, <1>3, <1>4, <1>5, <1>6, <1>7, <1>8 DEF IInv

\* get_all_sem takes the units that are there.
LEMMA GetAllSemStep ==
    ASSUME IInv, NEW c \in CPUs, GetAllSem(c)
    PROVE  IInv'
<1> USE ProcsAssumption, NoneAssumption DEF Threads, sched, sem, local
<1>1. stack[c] \in Threads /\ current[c] \in Threads
  BY DEF IInv, TypeOK
<1>2. TypeOK'
  BY <1>1 DEF IInv, GetAllSem, TypeOK
<1>3. ExecInv'
  BY <1>1 DEF IInv, GetAllSem, ExecInv
<1>4. LockInv'
  BY <1>1 DEF IInv, GetAllSem, LockInv, RunSection, SemSection, WaitOps
<1>5. WaitInv'
  BY <1>1 DEF IInv, GetAllSem, WaitInv, Asleep, WaitOps
<1>6. SleepInv'
  BY <1>1 DEF IInv, GetAllSem, SleepInv, Asleep
<1>7. QueueInv'
  BY <1>1 DEF IInv, GetAllSem, QueueInv
<1>8. SemCount'
  BY <1>1 DEF IInv, GetAllSem, TypeOK, SemCount
<1> QED
  BY <1>2, <1>3, <1>4, <1>5, <1>6, <1>7, <1>8 DEF IInv

-----------------------------------------------------------------------------
(* The theorems. *)

\* Every step keeps the invariant.
LEMMA StepIInv == IInv /\ [Next]_vars => IInv'
<1> SUFFICES ASSUME IInv, [Next]_vars PROVE IInv'
  OBVIOUS
<1>1. CASE UNCHANGED vars
  BY <1>1 DEF vars, IInv, TypeOK, ExecInv, LockInv, WaitInv, SleepInv, QueueInv, SemCount
<1>2. ASSUME NEW c \in CPUs, NEW q \in Procs, StartProc(c, q) \/ AlertProc(c, q) PROVE IInv'
  BY <1>2, StartProcStep, AlertProcStep
<1>3. ASSUME NEW c \in CPUs, Yield(c) \/ Exit(c) PROVE IInv'
  BY <1>3, CallSchedStep DEF Yield, Exit
<1>4. ASSUME NEW c \in CPUs, LockSched(c) \/ Sched(c) \/ Swtch(c) \/ SchedReturn(c) PROVE IInv'
  BY <1>4, LockSchedStep, SchedStep, SwtchStep, SchedReturnStep
<1>5. ASSUME NEW c \in CPUs, NEW o \in WaitOps \cup PostOps, LockSem(c, o) PROVE IInv'
  BY <1>5, LockSemStep
<1>6. ASSUME NEW c \in CPUs,
             Wait(c) \/ WaitLockSched(c) \/ WaitUnlock(c) \/ WaitRelock(c) \/ WaitReturn(c)
      PROVE  IInv'
  BY <1>6, WaitStep, WaitLockSchedStep, WaitUnlockStep, WaitRelockStep, WaitReturnStep
<1>7. ASSUME NEW c \in CPUs, Post(c) \/ PostActivate(c) \/ PostReturn(c) PROVE IInv'
  BY <1>7, PostStep, PostActivateStep, PostReturnStep
<1>8. ASSUME NEW c \in CPUs, GetSem(c) \/ GetAllSem(c) PROVE IInv'
  BY <1>8, GetSemStep, GetAllSemStep
<1> QED
  BY <1>1, <1>2, <1>3, <1>4, <1>5, <1>6, <1>7, <1>8 DEF Next

\* The invariant holds of every behaviour.
THEOREM Invariance == Spec => []IInv
  BY InitIInv, StepIInv, PTL DEF Spec

\* The variables keep their types, whatever the number of processes and CPUs.
THEOREM TypeCorrect == Spec => []TypeOK
<1>1. IInv => TypeOK
  BY DEF IInv
<1> QED
  BY <1>1, Invariance, PTL

\* sem.val and the sleeplist agree at all times (sem.c).
THEOREM SemCountHolds == Spec => []SemCount
<1>1. IInv => SemCount
  BY DEF IInv
<1> QED
  BY <1>1, Invariance, PTL

\* No wake-up is lost between _post_sem and _wait_sem (sem.c, sched.c).
THEOREM WakeupsAreNotLost == Spec => []NoLostWakeup
<1>1. IInv => NoLostWakeup
  BY DEF IInv, TypeOK, SleepInv, WaitInv, NoLostWakeup, Asleep, Threads
<1> QED
  BY <1>1, Invariance, PTL

\* No kernel stack is run by two CPUs, and swtch continues a saved context
\* (sched.c).
THEOREM StacksAreExclusive == Spec => []OneStackPerCPU
<1>1. IInv => OneStackPerCPU
  <2> SUFFICES ASSUME IInv, NEW c \in CPUs, pc[stack[c]] = "swtch", NEW d \in CPUs
               PROVE  pc[current[c]] = "out" /\ stack[d] # current[c]
    BY DEF OneStackPerCPU, IInv, ExecInv
  <2>1. current[c] # stack[c] /\ current[c] \in Threads
    BY DEF IInv, ExecInv, TypeOK
  <2>2. ASSUME NEW e \in CPUs, stack[e] = current[c] PROVE FALSE
    <3>1. e # c
      BY <2>1, <2>2
    <3>2. current[e] # stack[e]
      BY <2>2, <3>1 DEF IInv, ExecInv
    <3>3. pc[stack[e]] = "swtch"
      BY <3>2 DEF IInv, ExecInv
    <3> QED
      BY <3>1, <3>3 DEF IInv, LockInv, RunSection
  <2> QED
    BY <2>1, <2>2 DEF IInv, ExecInv
<1> QED
  BY <1>1, Invariance, PTL

\* The runnable queue and the process states agree (sched.c).
THEOREM QueueIsConsistent == Spec => []QueueAgrees
<1>1. IInv => QueueAgrees
  BY DEF IInv, QueueInv, ExecInv, QueueAgrees
<1> QED
  BY <1>1, Invariance, PTL

\* The ASSERTs of sem.c and sched.c do not fail, and an unalertable wait
\* returns true.
THEOREM AssertionsDoNotFail == Spec => []AssertsHold
<1>1. IInv => AssertsHold
  <2> SUFFICES ASSUME IInv, NEW c \in CPUs
      PROVE  LET t == stack[c] IN
             /\ pc[t] = "sched" => state[t] = "RUNNING" /\ current[c] = t
             /\ pc[t] = "post" /\ val < 0 => sleeplist # <<>>
             /\ pc[t] = "woken" /\ ~ up[t] => val + 1 <= 0
             /\ pc[t] = "woken" /\ new[t] = "DEEPSLEEPING" => up[t]
    BY DEF AssertsHold
  <2> DEFINE t == stack[c]
  <2>1. pc[t] = "sched" => state[t] = "RUNNING" /\ current[c] = t
    BY DEF IInv, ExecInv
  <2>2. val < 0 => sleeplist # <<>>
    BY DEF IInv, SemCount, TypeOK
  <2>3. pc[t] = "woken" => t \in Procs /\ new[t] \in Asleep /\ t \in Threads
    BY DEF IInv, WaitInv, TypeOK
  <2>4. pc[t] = "woken" /\ ~ up[t] => val + 1 <= 0
    <3> SUFFICES ASSUME pc[t] = "woken", ~ up[t] PROVE val + 1 <= 0
      OBVIOUS
    <3>1. t \in Members(sleeplist)
      BY <2>3 DEF IInv, WaitInv
    <3>2. sleeplist # <<>>
      BY <3>1, EmptyFacts
    <3> QED
      BY <3>2 DEF IInv, SemCount, TypeOK
  <2>5. pc[t] = "woken" /\ new[t] = "DEEPSLEEPING" => up[t]
    <3> SUFFICES ASSUME pc[t] = "woken", new[t] = "DEEPSLEEPING", ~ up[t] PROVE FALSE
      OBVIOUS
    <3>1. state[t] = "DEEPSLEEPING"
      BY <2>3 DEF IInv, SleepInv
    <3> QED
      BY <2>3, <3>1 DEF IInv, SleepInv, Asleep
  <2> QED
    BY <2>1, <2>2, <2>4, <2>5
<1> QED
  BY <1>1, Invariance, PTL
-----------------------------------------------------------------------------
(* The refinement: the implementation is a counting semaphore. *)

\* The processes a post has handed a unit that they have not left with yet.
Granted == {p \in Procs : up[p]}

\* What the abstract semaphore sees of a process.
Kind(p) ==
    IF pc[p] \in WaitOps THEN pc[p]
    ELSE IF new[p] = "SLEEPING" THEN "wait"
    ELSE IF new[p] = "DEEPSLEEPING" THEN "unalertable_wait"
    ELSE "no"

Units == IF val > 0 THEN val ELSE 0

LEMMA AbstractState ==
    /\ Available = Units + Cardinality(Granted)
    /\ Waiting = [p \in Procs |-> Kind(p)]
    /\ Available' = Units' + Cardinality(Granted')
    /\ Waiting' = [p \in Procs |-> Kind(p)']
  BY DEF Available, Units, Granted, Waiting, Kind

LEMMA GrantedFinite ==
    /\ IsFiniteSet(Granted)
    /\ Cardinality(Granted) \in Nat
<1>1. Granted \in SUBSET Procs
  BY DEF Granted
<1>2. IsFiniteSet(Granted)
  BY <1>1, FiniteAssumption, FS_Subset
<1> QED
  BY <1>2, FS_CardinalityType

\* A step that leaves the counts alone and in which nobody enters or leaves
\* _wait_sem is invisible.
LEMMA SilentStep ==
    ASSUME val' = val, up' = up, \A p \in Procs : Kind(p)' = Kind(p)
    PROVE  UNCHANGED Abstract!svars
<1>1. Units' = Units /\ Granted' = Granted
  BY DEF Units, Granted
<1>2. [p \in Procs |-> Kind(p)]' = [p \in Procs |-> Kind(p)]
  OBVIOUS
<1> QED
  BY <1>1, <1>2, AbstractState DEF Abstract!svars

\* How the abstract variables change when one process's kind does.
LEMMA KindStep ==
    ASSUME NEW t \in Procs, NEW k, Kind(t)' = k,
           \A p \in Procs : p # t => Kind(p)' = Kind(p)
    PROVE  Waiting' = [Waiting EXCEPT ![t] = k] /\ Waiting[t] = Kind(t)
<1>1. Waiting' = [p \in Procs |-> Kind(p)']
  BY AbstractState
<1>2. Waiting = [p \in Procs |-> Kind(p)]
  BY AbstractState
<1> HIDE DEF Kind
<1> QED
  BY <1>1, <1>2

\* Only the state, the pc outside the first part of _wait_sem, or a new that
\* is no sleep changes.
LEMMA QuietKinds ==
    ASSUME IInv, NEW t \in Threads, NEW k, k \notin WaitOps, pc[t] \notin WaitOps,
           pc' = [pc EXCEPT ![t] = k],
           \A p \in Procs : new'[p] = new[p] \/ (new'[p] \notin Asleep /\ new[p] \notin Asleep)
    PROVE  \A p \in Procs : Kind(p)' = Kind(p)
<1> SUFFICES ASSUME NEW p \in Procs PROVE Kind(p)' = Kind(p)
  OBVIOUS
<1>1. p \in Threads /\ pc'[p] = (IF p = t THEN k ELSE pc[p])
  BY DEF IInv, TypeOK, Threads
<1> QED
  BY <1>1 DEF Kind, Asleep

\* The scheduler and the parts of wait and post that move no unit.
LEMMA SchedIsSilent ==
    ASSUME IInv, NEW c \in CPUs,
           \/ \E q \in Procs : StartProc(c, q) \/ AlertProc(c, q)
           \/ Yield(c) \/ Exit(c) \/ LockSched(c) \/ Sched(c) \/ Swtch(c) \/ SchedReturn(c)
           \/ \E o \in PostOps : LockSem(c, o)
           \/ WaitLockSched(c) \/ WaitUnlock(c) \/ WaitRelock(c) \/ PostActivate(c)
    PROVE  UNCHANGED Abstract!svars
<1>0. stack[c] \in Threads
  BY DEF IInv, TypeOK
<1>1. ASSUME NEW q \in Procs, StartProc(c, q) \/ AlertProc(c, q) PROVE UNCHANGED Abstract!svars
  <2>1. val' = val /\ up' = up /\ pc' = pc /\ new' = new
    BY <1>1 DEF StartProc, AlertProc, sem, local
  <2> QED
    BY <2>1, SilentStep DEF Kind
<1>2. CASE Yield(c) \/ Exit(c)
  <2>1. PICK s \in {"RUNNABLE", "ZOMBIE"} : CallSched(c, s)
    BY <1>2 DEF Yield, Exit
  <2>2. /\ val' = val /\ up' = up /\ pc[stack[c]] = "user"
        /\ pc' = [pc EXCEPT ![stack[c]] = "lock_sched"]
        /\ new' = [new EXCEPT ![stack[c]] = s]
    BY <2>1 DEF CallSched, sem
  <2>3. new[stack[c]] \notin Asleep
    BY <1>0, <2>2 DEF IInv, WaitInv
  <2>4. \A p \in Procs : new'[p] = new[p] \/ (new'[p] \notin Asleep /\ new[p] \notin Asleep)
    BY <1>0, <2>1, <2>2, <2>3 DEF IInv, TypeOK, Asleep, Threads
  <2>5. pc[stack[c]] \notin WaitOps /\ "lock_sched" \notin WaitOps
    BY <2>2 DEF WaitOps
  <2>6. \A p \in Procs : Kind(p)' = Kind(p)
    BY <1>0, <2>2, <2>4, <2>5, QuietKinds
  <2> QED
    BY <2>2, <2>6, SilentStep
<1>3. CASE \/ LockSched(c) \/ Sched(c) \/ Swtch(c) \/ SchedReturn(c)
           \/ \E o \in PostOps : LockSem(c, o)
           \/ WaitLockSched(c) \/ WaitUnlock(c) \/ WaitRelock(c) \/ PostActivate(c)
  <2>1. /\ val' = val /\ up' = up /\ new' = new /\ pc[stack[c]] \notin WaitOps
        /\ \E k : k \notin WaitOps /\ pc' = [pc EXCEPT ![stack[c]] = k]
    <3>1. CASE LockSched(c)
      BY <3>1 DEF LockSched, sem, WaitOps
    <3>2. CASE Sched(c)
      <4>1. PICK k \in {"out", "swtch"} : pc' = [pc EXCEPT ![stack[c]] = k]
        BY <3>2 DEF Sched
      <4>2. val' = val /\ up' = up /\ new' = new /\ pc[stack[c]] = "sched"
        BY <3>2 DEF Sched, sem
      <4> QED
        BY <4>1, <4>2 DEF WaitOps
    <3>3. CASE Swtch(c)
      BY <3>3 DEF Swtch, sem, WaitOps
    <3>4. CASE SchedReturn(c)
      BY <3>4 DEF SchedReturn, sem, WaitOps
    <3>5. CASE \E o \in PostOps : LockSem(c, o)
      BY <3>5 DEF LockSem, PostOps, WaitOps
    <3>6. CASE WaitLockSched(c)
      BY <3>6 DEF WaitLockSched, sem, WaitOps
    <3>7. CASE WaitUnlock(c)
      BY <3>7 DEF WaitUnlock, WaitOps
    <3>8. CASE WaitRelock(c)
      BY <3>8 DEF WaitRelock, WaitOps
    <3>9. CASE PostActivate(c)
      BY <3>9 DEF PostActivate, sem, WaitOps
    <3> QED
      BY <1>3, <3>1, <3>2, <3>3, <3>4, <3>5, <3>6, <3>7, <3>8, <3>9
  <2>2. \A p \in Procs : Kind(p)' = Kind(p)
    BY <1>0, <2>1, QuietKinds
  <2> QED
    BY <2>1, <2>2, SilentStep
<1> QED
  BY <1>1, <1>2, <1>3

\* A process locks the semaphore to wait: the abstract wait starts.
LEMMA LockSemStartsWait ==
    ASSUME IInv, NEW c \in CPUs, NEW o \in WaitOps, LockSem(c, o)
    PROVE  \E p \in Procs : \E k \in Abstract!Kinds : Abstract!StartWait(p, k)
<1>0. PICK t : t = stack[c]
  OBVIOUS
<1>1. /\ t \in Procs /\ pc[t] = "user" /\ pc' = [pc EXCEPT ![t] = o]
      /\ val' = val /\ up' = up /\ new' = new
  BY <1>0 DEF LockSem, WaitOps
<1>2. new[t] \notin Asleep /\ t \in Threads
  BY <1>1 DEF IInv, WaitInv, Threads
<1>3. Kind(t) = "no" /\ Kind(t)' = o
  BY <1>1, <1>2 DEF Kind, WaitOps, Asleep, IInv, TypeOK
<1>4. \A p \in Procs : p # t => Kind(p)' = Kind(p)
  BY <1>1, <1>2 DEF Kind, IInv, TypeOK, Threads
<1>5. Waiting' = [Waiting EXCEPT ![t] = o] /\ Waiting[t] = "no"
  BY <1>1, <1>3, <1>4, KindStep
<1>6. Available' = Available
  BY <1>1, AbstractState DEF Units, Granted
<1> QED
  BY <1>1, <1>5, <1>6 DEF Abstract!StartWait, Abstract!Kinds, WaitOps

\* _wait_sem takes a unit that is there at once; otherwise the wait goes on.
LEMMA WaitTakes ==
    ASSUME IInv, NEW c \in CPUs, Wait(c)
    PROVE  UNCHANGED Abstract!svars \/ \E p \in Procs : Abstract!Take(p)
<1>0. PICK t : t = stack[c]
  OBVIOUS
<1>1. t \in Procs /\ t \in Threads /\ pc[t] \in WaitOps /\ new[t] \notin Asleep /\ ~ up[t]
  BY <1>0 DEF IInv, TypeOK, Wait, WaitInv, WaitOps, Threads
<1>2. CASE val > 0
  <2>1. val' = val - 1 /\ pc' = [pc EXCEPT ![t] = "user"] /\ up' = up /\ new' = new
    BY <1>0, <1>2 DEF Wait
  <2>2. Kind(t) \in WaitOps /\ Kind(t)' = "no" 
    BY <1>1, <2>1 DEF Kind, WaitOps, Asleep, IInv, TypeOK
  <2>3. \A p \in Procs : p # t => Kind(p)' = Kind(p)
    BY <1>1, <2>1 DEF Kind, IInv, TypeOK, Threads
  <2>4. Waiting' = [Waiting EXCEPT ![t] = "no"] /\ Waiting[t] # "no"
    BY <1>1, <2>2, <2>3, KindStep DEF WaitOps
  <2>5. Units = val /\ Units' = val - 1 /\ Granted' = Granted
    BY <1>2, <2>1 DEF Units, Granted, IInv, TypeOK
  <2>6. Available > 0 /\ Available' = Available - 1
    BY <1>2, <2>5, AbstractState, GrantedFinite DEF IInv, TypeOK
  <2> QED
    BY <1>1, <2>4, <2>6 DEF Abstract!Take
<1>3. CASE ~ (val > 0)
  <2>1. /\ val' = val - 1 /\ pc' = [pc EXCEPT ![t] = "enqueued"]
        /\ up' = [up EXCEPT ![t] = FALSE]
        /\ new' = [new EXCEPT ![t] = IF pc[t] = "wait" THEN "SLEEPING" ELSE "DEEPSLEEPING"]
    BY <1>0, <1>3 DEF Wait
  <2>2. Units = 0 /\ Units' = 0
    BY <1>3, <2>1 DEF Units, IInv, TypeOK
  <2>3. Granted' = Granted
    BY <1>1, <2>1 DEF Granted, IInv, TypeOK
  <2>4. Kind(t)' = Kind(t)
    BY <1>1, <2>1 DEF Kind, WaitOps, IInv, TypeOK
  <2>5. \A p \in Procs : p # t => Kind(p)' = Kind(p)
    BY <1>1, <2>1 DEF Kind, IInv, TypeOK, Threads
  <2>6. Waiting' = Waiting
    BY <2>4, <2>5, AbstractState
  <2> QED
    BY <2>2, <2>3, <2>6, AbstractState DEF Abstract!svars
<1> QED
  BY <1>2, <1>3

\* The wait returns with the unit it was handed, or, if alertable, without.
LEMMA WaitReturnEnds ==
    ASSUME IInv, NEW c \in CPUs, WaitReturn(c)
    PROVE  \E p \in Procs : Abstract!Take(p) \/ Abstract!GiveUp(p)
<1>0. PICK t : t = stack[c]
  OBVIOUS
<1>1. t \in Procs /\ t \in Threads /\ pc[t] = "woken" /\ new[t] \in Asleep
  BY <1>0 DEF IInv, TypeOK, WaitReturn, WaitInv, Threads
<1>2. /\ up' = [up EXCEPT ![t] = FALSE] /\ pc' = [pc EXCEPT ![t] = "user"]
      /\ new' = [new EXCEPT ![t] = "RUNNABLE"] /\ val' = IF up[t] THEN val ELSE val + 1
  BY <1>0 DEF WaitReturn
<1>3. ~ up[t] => val + 1 <= 0 /\ new[t] = "SLEEPING"
  <2> SUFFICES ASSUME ~ up[t] PROVE val + 1 <= 0 /\ new[t] = "SLEEPING"
    OBVIOUS
  <2>1. t \in Members(sleeplist)
    BY <1>1 DEF IInv, WaitInv
  <2>2. val + 1 <= 0
    BY <2>1, EmptyFacts DEF IInv, SemCount, TypeOK
  <2>3. new[t] # "DEEPSLEEPING"
    BY <1>1 DEF IInv, SleepInv, Asleep
  <2> QED
    BY <1>1, <2>2, <2>3 DEF Asleep
<1>4. Kind(t)' = "no" /\ Kind(t) = IF new[t] = "SLEEPING" THEN "wait" ELSE "unalertable_wait"
  BY <1>1, <1>2 DEF Kind, WaitOps, Asleep, IInv, TypeOK
<1>5. \A p \in Procs : p # t => Kind(p)' = Kind(p)
  BY <1>1, <1>2 DEF Kind, IInv, TypeOK, Threads
<1>6. Waiting' = [Waiting EXCEPT ![t] = "no"] /\ Waiting[t] = Kind(t)
  BY <1>1, <1>4, <1>5, KindStep
<1>7. CASE up[t]
  <2>1. Granted' = Granted \ {t} /\ t \in Granted /\ Units' = Units
    BY <1>1, <1>2, <1>7 DEF Granted, Units, IInv, TypeOK
  <2>2. Cardinality(Granted \ {t}) = Cardinality(Granted) - 1
    BY <2>1, GrantedFinite, FS_RemoveElement
  <2>3. Cardinality(Granted) - 1 \in Nat
    BY <2>1, <2>2, GrantedFinite, FS_RemoveElement, FS_CardinalityType
  <2>4. Units \in Nat
    BY DEF Units, IInv, TypeOK
  <2>5. Available > 0 /\ Available' = Available - 1
    BY <2>1, <2>2, <2>3, <2>4, AbstractState, GrantedFinite
  <2> QED
    BY <1>1, <1>4, <1>6, <2>5 DEF Abstract!Take
<1>8. CASE ~ up[t]
  <2>1. Units = 0 /\ Units' = 0
    BY <1>2, <1>3, <1>8 DEF Units, IInv, TypeOK
  <2>2. Granted' = Granted
    BY <1>1, <1>2, <1>8 DEF Granted, IInv, TypeOK
  <2> QED
    BY <1>1, <1>3, <1>4, <1>6, <1>8, <2>1, <2>2, AbstractState DEF Abstract!GiveUp
<1> QED
  BY <1>7, <1>8

\* _post_sem gives one unit, to the waiter it unlinks or to val.
LEMMA PostGives ==
    ASSUME IInv, NEW c \in CPUs, Post(c)
    PROVE  Abstract!Give
<1>0. stack[c] \in Threads /\ pc[stack[c]] = "post" /\ val' = val + 1 /\ new' = new
  BY DEF IInv, TypeOK, Post
<1>1. \E k \in {"activate", "posted"} : pc' = [pc EXCEPT ![stack[c]] = k]
  BY DEF Post
<1>2. \A p \in Procs : Kind(p)' = Kind(p)
  BY <1>0, <1>1, QuietKinds DEF WaitOps
<1>3. Waiting' = Waiting
  BY <1>2, AbstractState
<1>4. CASE val < 0
  <2> DEFINE w == sleeplist[Len(sleeplist)]
  <2>1. up' = [up EXCEPT ![w] = TRUE]
    BY <1>4 DEF Post
  <2>2. sleeplist \in Seq(Procs) /\ sleeplist # <<>>
    BY <1>4 DEF IInv, TypeOK, SemCount
  <2>3. w \in Members(sleeplist) /\ w \in Procs
    BY <2>2 DEF Members
  <2>4. ~ up[w]
    BY <2>3 DEF IInv, WaitInv
  <2> HIDE DEF w
  <2>5. Granted' = Granted \cup {w} /\ w \notin Granted
    BY <2>1, <2>3, <2>4 DEF Granted, IInv, TypeOK
  <2>6. Cardinality(Granted \cup {w}) = Cardinality(Granted) + 1
    BY <2>5, GrantedFinite, FS_AddElement
  <2>7. Units = 0 /\ Units' = 0
    BY <1>0, <1>4 DEF Units, IInv, TypeOK
  <2>8. Available' = Available + 1
    BY <2>5, <2>6, <2>7, AbstractState, GrantedFinite
  <2> QED
    BY <1>3, <2>8 DEF Abstract!Give
<1>5. CASE ~ (val < 0)
  <2>1. Granted' = Granted
    BY <1>5 DEF Post, Granted
  <2>2. Units' = Units + 1 /\ Units \in Nat
    BY <1>0, <1>5 DEF Units, IInv, TypeOK
  <2>3. Available' = Available + 1
    BY <2>1, <2>2, AbstractState, GrantedFinite
  <2> QED
    BY <1>3, <2>3 DEF Abstract!Give
<1> QED
  BY <1>4, <1>5

\* Units that are there are taken by a caller that does not wait.
LEMMA GrabStep ==
    ASSUME IInv, val > 0, val' \in 0 .. val - 1, up' = up, \A p \in Procs : Kind(p)' = Kind(p)
    PROVE  Abstract!Grab
<1>1. Waiting' = Waiting
  BY AbstractState
<1>2. Granted' = Granted
  BY DEF Granted
<1>3. Units = val /\ Units' = val' /\ val \in Int
  BY DEF Units, IInv, TypeOK
<1>4. Available > 0 /\ Available' \in 0 .. Available - 1
  BY <1>2, <1>3, AbstractState, GrantedFinite
<1> QED
  BY <1>1, <1>4 DEF Abstract!Grab

\* post_all_sem takes its last unit back; get_sem and get_all_sem take some.
LEMMA ReturnAndGetGrab ==
    ASSUME IInv, NEW c \in CPUs, PostReturn(c) \/ GetSem(c) \/ GetAllSem(c)
    PROVE  UNCHANGED Abstract!svars \/ Abstract!Grab
<1>1. CASE PostReturn(c)
  <2>1. stack[c] \in Threads /\ pc[stack[c]] = "posted" /\ up' = up /\ new' = new
    BY <1>1 DEF IInv, TypeOK, PostReturn
  <2>2. \E k \in {"post", "user"} : pc' = [pc EXCEPT ![stack[c]] = k]
    BY <1>1 DEF PostReturn
  <2>3. \A p \in Procs : Kind(p)' = Kind(p)
    BY <2>1, <2>2, QuietKinds DEF WaitOps
  <2>4. val' = val \/ (val > 0 /\ val' = val - 1)
    BY <1>1 DEF PostReturn, IInv, TypeOK
  <2>5. CASE val' = val
    BY <2>1, <2>3, <2>5, SilentStep
  <2>6. CASE val > 0 /\ val' = val - 1
    <3>1. val' \in 0 .. val - 1
      BY <2>6 DEF IInv, TypeOK
    <3> QED
      BY <2>1, <2>3, <2>6, <3>1, GrabStep
  <2> QED
    BY <2>4, <2>5, <2>6
<1>2. CASE GetSem(c) \/ GetAllSem(c)
  <2>1. up' = up /\ new' = new /\ pc' = pc /\ val > 0 /\ val' \in 0 .. val - 1
    BY <1>2 DEF GetSem, GetAllSem, local, IInv, TypeOK
  <2>2. \A p \in Procs : Kind(p)' = Kind(p)
    BY <2>1 DEF Kind
  <2> QED
    BY <2>1, <2>2, GrabStep
<1> QED
  BY <1>1, <1>2

LEMMA InitSem == Init => Abstract!SInit
<1> SUFFICES ASSUME Init PROVE Abstract!SInit
  OBVIOUS
<1> USE ProcsAssumption, ValAssumption
<1>1. Granted = {}
  BY DEF Init, Granted
<1>2. Units = InitVal
  BY DEF Init, Units
<1>3. Available = InitVal
  BY <1>1, <1>2, AbstractState, FS_EmptySet
<1>4. \A p \in Procs : Kind(p) = "no"
  BY DEF Init, Kind, WaitOps, Threads
<1>5. Waiting = [p \in Procs |-> "no"]
  BY <1>4, AbstractState
<1> QED
  BY <1>3, <1>5 DEF Abstract!SInit

\* sem.c and sched.c, with their two spinlocks, context switches and
\* alerts, implement a counting semaphore for every number of processes and
\* CPUs: no wait succeeds without a unit of its own, none is lost when an
\* alert and a post race, and an unalertable wait never fails.
THEOREM IsCountingSemaphore == Spec => ImplementsSemaphore
<1>1. IInv /\ [Next]_vars => [Abstract!SNext]_(Abstract!svars)
  <2> SUFFICES ASSUME IInv, [Next]_vars PROVE [Abstract!SNext]_(Abstract!svars)
    OBVIOUS
  <2>1. CASE UNCHANGED vars
    <3>1. val' = val /\ up' = up /\ pc' = pc /\ new' = new
      BY <2>1 DEF vars
    <3> QED
      BY <3>1, SilentStep DEF Kind
  <2>2. ASSUME NEW c \in CPUs, NEW o \in WaitOps, LockSem(c, o) PROVE Abstract!SNext
    BY <2>2, LockSemStartsWait DEF Abstract!SNext
  <2>3. ASSUME NEW c \in CPUs, Wait(c) PROVE [Abstract!SNext]_(Abstract!svars)
    BY <2>3, WaitTakes DEF Abstract!SNext
  <2>4. ASSUME NEW c \in CPUs, WaitReturn(c) \/ Post(c) PROVE Abstract!SNext
    BY <2>4, WaitReturnEnds, PostGives DEF Abstract!SNext
  <2>5. ASSUME NEW c \in CPUs, PostReturn(c) \/ GetSem(c) \/ GetAllSem(c)
        PROVE  [Abstract!SNext]_(Abstract!svars)
    BY <2>5, ReturnAndGetGrab DEF Abstract!SNext
  <2> QED
    BY <2>1, <2>2, <2>3, <2>4, <2>5, SchedIsSilent DEF Next
<1> QED
  BY <1>1, InitSem, Invariance, PTL DEF Spec, ImplementsSemaphore, Abstract!SSpec

-----------------------------------------------------------------------------
(* Recursion: that the loops of the tree are what they say *)

\* The states of a loop exist, for any number of turns.
Iterated(f, a, F) == f = [k \in Nat |-> IF k = 0 THEN a ELSE F[f[k - 1]]]
IteratedTo(f, a, F, n) == f = [k \in 0 .. n |-> IF k = 0 THEN a ELSE F[f[k - 1]]]

LEMMA IteratedToExists ==
    ASSUME NEW X, NEW a \in X, NEW F \in [X -> X], NEW n \in Nat
    PROVE  \E f \in [0 .. n -> X] : IteratedTo(f, a, F, n)
<1> DEFINE Some(m) == \E f \in [0 .. m -> X] : IteratedTo(f, a, F, m)
           Bad == {m \in Nat : ~ Some(m)}
<1> SUFFICES ASSUME Bad # {} PROVE FALSE
  OBVIOUS
<1>1. PICK m \in Bad : \A j \in Bad : m <= j
  <2>1. Bad \subseteq Nat
    OBVIOUS
  <2> QED
    BY <2>1, LeastExists
<1>2. m # 0
  <2>1. PICK f : f = [k \in 0 .. 0 |-> a]
    OBVIOUS
  <2>2. \A k \in 0 .. 0 : k = 0
    OBVIOUS
  <2>3. f = [k \in 0 .. 0 |-> IF k = 0 THEN a ELSE F[f[k - 1]]] /\ f \in [0 .. 0 -> X]
    BY <2>1, <2>2
  <2>4. Some(0)
    BY <2>3 DEF IteratedTo
  <2> QED
    BY <2>4
<1>3. m \in Nat /\ m - 1 \in Nat /\ m - 1 \notin Bad
  BY <1>1, <1>2
<1>4. PICK f \in [0 .. m - 1 -> X] : IteratedTo(f, a, F, m - 1)
  BY <1>3
<1>5. m - 1 \in 0 .. m - 1 /\ F[f[m - 1]] \in X
  BY <1>3
<1>6. PICK g : g = [k \in 0 .. m |-> IF k = m THEN F[f[m - 1]] ELSE f[k]]
  OBVIOUS
<1>7. \A k \in 0 .. m : k = m \/ k \in 0 .. m - 1
  BY <1>3
<1>8. g \in [0 .. m -> X]
  BY <1>5, <1>6, <1>7
<1>9. \A k \in 0 .. m - 1 : g[k] = f[k] /\ k \in 0 .. m /\ k # m
  BY <1>3, <1>6
<1>10. ASSUME NEW k \in 0 .. m PROVE g[k] = IF k = 0 THEN a ELSE F[g[k - 1]]
  <2>1. CASE k = m
    BY <1>2, <1>3, <1>5, <1>6, <1>9, <2>1
  <2>2. CASE k \in 0 .. m - 1
    <3>1. f[k] = IF k = 0 THEN a ELSE F[f[k - 1]]
      BY <1>4, <2>2 DEF IteratedTo
    <3>2. k # 0 => k - 1 \in 0 .. m - 1
      BY <1>3, <2>2
    <3> QED
      BY <1>9, <2>2, <3>1, <3>2
  <2> QED
    BY <1>7, <2>1, <2>2
<1>11. g = [k \in 0 .. m |-> IF k = 0 THEN a ELSE F[g[k - 1]]]
  BY <1>8, <1>10
<1> QED
  BY <1>1, <1>8, <1>11 DEF IteratedTo

LEMMA IteratedToAgree ==
    ASSUME NEW a, NEW F, NEW n \in Nat, NEW m \in Nat, NEW f, NEW g,
           IteratedTo(f, a, F, n), IteratedTo(g, a, F, m), NEW k \in Nat, k <= n, k <= m
    PROVE  f[k] = g[k]
<1> DEFINE Bad == {j \in Nat : j <= n /\ j <= m /\ f[j] # g[j]}
<1> SUFFICES ASSUME Bad # {} PROVE FALSE
  OBVIOUS
<1>1. PICK j \in Bad : \A i \in Bad : j <= i
  <2>1. Bad \subseteq Nat
    OBVIOUS
  <2> QED
    BY <2>1, LeastExists
<1>2. f[j] = (IF j = 0 THEN a ELSE F[f[j - 1]]) /\ g[j] = IF j = 0 THEN a ELSE F[g[j - 1]]
  BY <1>1 DEF IteratedTo
<1>3. j # 0 => j - 1 \in Nat /\ j - 1 \notin Bad /\ j - 1 <= n /\ j - 1 <= m
  BY <1>1
<1> QED
  BY <1>1, <1>2, <1>3

LEMMA IteratedExists ==
    ASSUME NEW X, NEW a \in X, NEW F \in [X -> X]
    PROVE  \E f \in [Nat -> X] : Iterated(f, a, F)
<1>1. PICK G : G = [n \in Nat |-> CHOOSE f \in [0 .. n -> X] : IteratedTo(f, a, F, n)]
  OBVIOUS
<1>2. \A n \in Nat : G[n] \in [0 .. n -> X] /\ IteratedTo(G[n], a, F, n)
  BY <1>1, IteratedToExists
<1>3. PICK f : f = [n \in Nat |-> G[n][n]]
  OBVIOUS
<1>4. f \in [Nat -> X]
  <2>1. \A n \in Nat : G[n][n] \in X
    <3> SUFFICES ASSUME NEW n \in Nat PROVE G[n][n] \in X
      OBVIOUS
    <3>1. n \in 0 .. n /\ G[n] \in [0 .. n -> X]
      BY <1>2
    <3> QED
      BY <3>1
  <2> QED
    BY <1>3, <2>1
<1>5. ASSUME NEW k \in Nat PROVE f[k] = IF k = 0 THEN a ELSE F[f[k - 1]]
  <2>1. G[k][k] = IF k = 0 THEN a ELSE F[G[k][k - 1]]
    <3>1. k \in 0 .. k /\ IteratedTo(G[k], a, F, k)
      BY <1>2
    <3> QED
      BY <3>1 DEF IteratedTo
  <2>2. k # 0 => G[k][k - 1] = G[k - 1][k - 1]
    <3> SUFFICES ASSUME k # 0 PROVE G[k][k - 1] = G[k - 1][k - 1]
      OBVIOUS
    <3>1. k - 1 \in Nat /\ k - 1 <= k /\ k - 1 <= k - 1
      OBVIOUS
    <3>2. PICK j \in Nat : j = k - 1 /\ j <= k /\ j <= j
      BY <3>1
    <3>3. PICK g, h : g = G[k] /\ h = G[j]
      OBVIOUS
    <3>4. IteratedTo(g, a, F, k) /\ IteratedTo(h, a, F, j)
      BY <1>2, <3>2, <3>3
    <3>5. g[j] = h[j]
      BY <3>2, <3>4, IteratedToAgree
    <3> QED
      BY <3>2, <3>3, <3>5
  <2> QED
    BY <1>3, <2>1, <2>2
<1> QED
  BY <1>4, <1>5 DEF Iterated

\* The states of a loop that starts in a and takes a state of X to one of X.
Loop(f, X, a) == f \in [Nat -> X] /\ f[0] = a

LEMMA InsertFixRuns ==
    ASSUME NEW X, NEW t, NEW node, [tree |-> t, node |-> node] \in X,
           \A s \in X : InsertTurn(s) \in X, MaxTurns(t) \in Nat
    PROVE  \E f : /\ Loop(f, X, [tree |-> t, node |-> node])
                  /\ \A k \in Nat : f[k + 1] = InsertTurn(f[k])
                  /\ InsertFix(t, node) = f[MaxTurns(t)].tree
<1>1. PICK a : a = [tree |-> t, node |-> node]
  OBVIOUS
<1>2. PICK F : F = [s \in X |-> InsertTurn(s)]
  OBVIOUS
<1>3. PICK f \in [Nat -> X] : Iterated(f, a, F)
  BY <1>1, <1>2, IteratedExists
<1>4. f[0] = a /\ \A k \in Nat : f[k + 1] = InsertTurn(f[k])
  <2>1. f[0] = a
    BY <1>3 DEF Iterated
  <2>2. ASSUME NEW k \in Nat PROVE f[k + 1] = InsertTurn(f[k])
    <3>1. k + 1 \in Nat /\ k + 1 # 0 /\ (k + 1) - 1 = k /\ f[k] \in X
      BY <1>3
    <3>2. f[k + 1] = F[f[(k + 1) - 1]]
      BY <1>3, <3>1 DEF Iterated
    <3> QED
      BY <1>2, <3>1, <3>2
  <2> QED
    BY <2>1, <2>2
<1>5. PICK g : g = [k \in Nat |-> {f[k]}]
  OBVIOUS
<1>6. ASSUME NEW k \in Nat
      PROVE  g[k] = IF k = 0 THEN {a} ELSE {InsertTurn(s) : s \in g[k - 1]}
  <2>1. CASE k = 0
    BY <1>4, <1>5, <2>1
  <2>2. CASE k # 0
    <3>1. k - 1 \in Nat /\ (k - 1) + 1 = k
      BY <2>2
    <3>2. f[k] = InsertTurn(f[k - 1])
      BY <1>4, <3>1
    <3>3. g[k] = {f[k]} /\ g[k - 1] = {f[k - 1]}
      BY <1>5, <3>1
    <3> QED
      BY <2>2, <3>2, <3>3
  <2> QED
    BY <2>1, <2>2
<1>7. g = [k \in Nat |-> IF k = 0 THEN {a} ELSE {InsertTurn(s) : s \in g[k - 1]}]
  BY <1>5, <1>6
<1>8. PICK c : c = CHOOSE h : h = [k \in Nat |-> IF k = 0 THEN {a} ELSE {InsertTurn(s) : s \in h[k - 1]}]
  OBVIOUS
<1>9. c = [k \in Nat |-> IF k = 0 THEN {a} ELSE {InsertTurn(s) : s \in c[k - 1]}]
  BY <1>7, <1>8
<1>10. InsertFix(t, node) = (CHOOSE s \in c[MaxTurns(t)] : TRUE).tree
  BY <1>1, <1>8 DEF InsertFix
<1>11. \A k \in Nat : c[k] = g[k]
  <2> DEFINE Bad == {k \in Nat : c[k] # g[k]}
  <2> SUFFICES ASSUME Bad # {} PROVE FALSE
    OBVIOUS
  <2>1. PICK j \in Bad : \A i \in Bad : j <= i
    <3>1. Bad \subseteq Nat
      OBVIOUS
    <3> QED
      BY <3>1, LeastExists
  <2>2. c[j] = IF j = 0 THEN {a} ELSE {InsertTurn(s) : s \in c[j - 1]}
    BY <1>9, <2>1
  <2>3. j # 0 => j - 1 \in Nat /\ j - 1 \notin Bad
    BY <2>1
  <2> QED
    BY <1>6, <2>1, <2>2, <2>3
<1>12. c[MaxTurns(t)] = {f[MaxTurns(t)]}
  BY <1>5, <1>11
<1> QED
  BY <1>1, <1>3, <1>4, <1>10, <1>12 DEF Loop

-----------------------------------------------------------------------------
(* A tree that links at most its root *)

BareTrees(S) == [root : S \cup {Nil}, up : {[n \in S |-> Nil]}, color : [S -> Colors],
                 kid : {[n \in S |-> NoKids]}]

LEMMA BareNodes ==
    ASSUME NEW S, NEW t \in BareTrees(S)
    PROVE  /\ NodesOf(t) = S
           /\ \A n \in S : t.up[n] = Nil /\ \A d \in Sides : t.kid[n][d] = Nil
<1>1. t.up = [n \in S |-> Nil] /\ t.kid = [n \in S |-> NoKids]
  BY DEF BareTrees
<1>2. \A d \in Sides : NoKids[d] = Nil
  BY DEF NoKids
<1> QED
  BY <1>1, <1>2 DEF NodesOf

LEMMA BlankIsBare == ASSUME NEW S PROVE Blank(S) \in BareTrees(S) /\ Blank(S).root = Nil
<1>1. [n \in S |-> "red"] \in [S -> Colors]
  BY DEF Colors
<1> QED
  BY <1>1 DEF Blank, BareTrees

LEMMA InsertBare ==
    ASSUME NEW S, IsFiniteSet(S), Nil \notin S, NEW t \in BareTrees(S), t.root = Nil,
           NEW key, NEW node \in S
    PROVE  /\ Insert(t, key, node).ret = 0
           /\ Insert(t, key, node).tree \in BareTrees(S)
           /\ Insert(t, key, node).tree.root = node
<1>1. t.up = [n \in S |-> Nil] /\ t.kid = [n \in S |-> NoKids] /\ t.color \in [S -> Colors]
  BY DEF BareTrees
<1>2. PICK t0 : t0 = [t EXCEPT !.kid[node] = NoKids, !.up[node] = Nil, !.color[node] = "red"]
  OBVIOUS
<1>3. PICK c0 : c0 = [t.color EXCEPT ![node] = "red"]
  OBVIOUS
<1>4. c0 \in [S -> Colors]
  BY <1>1, <1>3 DEF Colors
<1>5. [t.kid EXCEPT ![node] = NoKids] = t.kid /\ [t.up EXCEPT ![node] = Nil] = t.up
  BY <1>1
<1>6. t0 = [root |-> t.root, up |-> t.up, color |-> c0, kid |-> t.kid]
  BY <1>2, <1>3, <1>5 DEF BareTrees
<1>7. t0 \in BareTrees(S) /\ NodesOf(t0) = S /\ t0.up[node] = Nil
  BY <1>1, <1>4, <1>6 DEF BareTrees, NodesOf
<1>8. PICK t1 : t1 = [t0 EXCEPT !.color[node] = "black", !.root = node]
  OBVIOUS
<1>9. t1 \in BareTrees(S) /\ t1.root = node
  <2>1. [c0 EXCEPT ![node] = "black"] \in [S -> Colors]
    BY <1>4 DEF Colors
  <2>2. t1 = [root |-> node, up |-> t.up, color |-> [c0 EXCEPT ![node] = "black"], kid |-> t.kid]
    BY <1>6, <1>8
  <2> QED
    BY <1>1, <2>1, <2>2 DEF BareTrees
<1>10. PICK a : a = [tree |-> t0, node |-> node]
  OBVIOUS
<1>11. PICK b : b = [tree |-> t1, node |-> Nil]
  OBVIOUS
<1>12. InsertTurn(a) = b
  <2>1. a.node # Nil /\ a.node = node /\ a.tree = t0
    BY <1>10
  <2> QED
    BY <1>7, <1>8, <1>11, <2>1 DEF InsertTurn
<1>13. InsertTurn(b) = b
  BY <1>11 DEF InsertTurn
<1>14. MaxTurns(t0) \in Nat /\ MaxTurns(t0) # 0
  <2>1. Cardinality(S) \in Nat /\ Cardinality(S) # 0
    BY FS_CardinalityType, FS_EmptySet
  <2> QED
    BY <1>7, <2>1 DEF MaxTurns
<1>15. PICK f : /\ Loop(f, {a, b}, [tree |-> t0, node |-> node])
                /\ \A k \in Nat : f[k + 1] = InsertTurn(f[k])
                /\ InsertFix(t0, node) = f[MaxTurns(t0)].tree
  <2>1. PICK X : X = {a, b}
    OBVIOUS
  <2>2. \A s \in X : InsertTurn(s) \in X
    BY <1>12, <1>13, <2>1
  <2>3. [tree |-> t0, node |-> node] \in X
    BY <1>10, <2>1
  <2>4. \E f : /\ Loop(f, X, [tree |-> t0, node |-> node])
               /\ \A k \in Nat : f[k + 1] = InsertTurn(f[k])
               /\ InsertFix(t0, node) = f[MaxTurns(t0)].tree
    BY <1>14, <2>2, <2>3, InsertFixRuns
  <2> QED
    BY <2>1, <2>4
<1>16. f[MaxTurns(t0)] = b
  <2>1. MaxTurns(t0) - 1 \in Nat /\ (MaxTurns(t0) - 1) + 1 = MaxTurns(t0)
    BY <1>14
  <2>2. f[MaxTurns(t0) - 1] \in {a, b}
    BY <1>15, <2>1 DEF Loop
  <2>3. f[MaxTurns(t0)] = InsertTurn(f[MaxTurns(t0) - 1])
    BY <1>15, <2>1
  <2> QED
    BY <1>12, <1>13, <2>2, <2>3
<1>17. Insert(t, key, node) = [tree |-> InsertFix(t0, node), ret |-> 0]
  BY <1>2 DEF Insert
<1> QED
  BY <1>9, <1>11, <1>15, <1>16, <1>17

LEMMA EraseBare ==
    ASSUME NEW S, Nil \notin S, NEW t \in BareTrees(S), NEW node \in S
    PROVE  Erase(t, node) \in BareTrees(S) /\ Erase(t, node).root = Nil
<1>1. t.up = [n \in S |-> Nil] /\ t.kid = [n \in S |-> NoKids] /\ t.color \in [S -> Colors]
  BY DEF BareTrees
<1>2. t.kid[node]["left"] = Nil /\ t.kid[node]["right"] = Nil /\ t.up[node] = Nil
  BY <1>1 DEF NoKids, Sides
<1>3. PICK t1 : t1 = [t EXCEPT !.root = Nil]
  OBVIOUS
<1>4. UnlinkLeaf(t, node) = [tree |-> t1, rebalance |-> Nil]
  BY <1>2, <1>3 DEF UnlinkLeaf, ChangeChild, SetParentColor
<1>5. Erase(t, node) = [t1 EXCEPT !.kid[node] = NoKids, !.up[node] = Nil, !.color[node] = "red"]
  BY <1>2, <1>4 DEF Erase
<1>6. [t.kid EXCEPT ![node] = NoKids] = t.kid /\ [t.up EXCEPT ![node] = Nil] = t.up
  BY <1>1
<1>7. [t.color EXCEPT ![node] = "red"] \in [S -> Colors]
  BY <1>1 DEF Colors
<1>8. t1 = [root |-> Nil, up |-> t.up, color |-> t.color, kid |-> t.kid]
  BY <1>3 DEF BareTrees
<1>9. Erase(t, node) = [root |-> Nil, up |-> t.up, color |-> [t.color EXCEPT ![node] = "red"], kid |-> t.kid]
  BY <1>5, <1>6, <1>8
<1> QED
  BY <1>1, <1>7, <1>9 DEF BareTrees

LEMMA BareFirst ==
    ASSUME NEW S, Nil \notin S, NEW t \in BareTrees(S)
    PROVE  First(t) = t.root
<1>1. t.root \in S \cup {Nil}
  BY DEF BareTrees
<1> SUFFICES ASSUME t.root # Nil PROVE Leftmost(t, t.root) = t.root
  BY <1>1 DEF First
<1>2. NodesOf(t) = S /\ \A m \in S : t.kid[m]["left"] = Nil
  BY BareNodes DEF Sides
<1>3. PICK g : g = [m \in S |-> m]
  OBVIOUS
<1>4. g = [m \in NodesOf(t) |-> IF t.kid[m]["left"] = Nil THEN m ELSE g[t.kid[m]["left"]]]
  BY <1>2, <1>3
<1>5. PICK c : c = CHOOSE h : h = [m \in NodesOf(t) |-> IF t.kid[m]["left"] = Nil THEN m ELSE h[t.kid[m]["left"]]]
  OBVIOUS
<1>6. c = [m \in NodesOf(t) |-> IF t.kid[m]["left"] = Nil THEN m ELSE c[t.kid[m]["left"]]]
  BY <1>4, <1>5
<1>7. c[t.root] = t.root
  BY <1>1, <1>2, <1>6
<1> QED
  BY <1>5, <1>7 DEF Leftmost

LEMMA BareHolds ==
    ASSUME NEW S, Nil \notin S, NEW t \in BareTrees(S)
    PROVE  Holds(t) = IF t.root = Nil THEN {} ELSE {t.root}
<1>1. t.root \in S \cup {Nil}
  BY DEF BareTrees
<1>2. NodesOf(t) = S /\ \A m \in S : t.kid[m]["left"] = Nil /\ t.kid[m]["right"] = Nil
  BY BareNodes DEF Sides
<1>3. PICK g : g = [n \in S \cup {Nil} |-> IF n = Nil THEN {} ELSE {n}]
  OBVIOUS
<1>4. \A n \in S : {n} \cup g[t.kid[n]["left"]] \cup g[t.kid[n]["right"]] = {n} /\ n # Nil
  BY <1>2, <1>3
<1>5. g = [n \in NodesOf(t) \cup {Nil} |->
              IF n = Nil THEN {} ELSE {n} \cup g[t.kid[n]["left"]] \cup g[t.kid[n]["right"]]]
  BY <1>2, <1>3, <1>4
<1>6. PICK c : c = CHOOSE h : h = [n \in NodesOf(t) \cup {Nil} |->
              IF n = Nil THEN {} ELSE {n} \cup h[t.kid[n]["left"]] \cup h[t.kid[n]["right"]]]
  OBVIOUS
<1>7. c = [n \in NodesOf(t) \cup {Nil} |->
              IF n = Nil THEN {} ELSE {n} \cup c[t.kid[n]["left"]] \cup c[t.kid[n]["right"]]]
  BY <1>5, <1>6
<1>8. c[Nil] = {}
  BY <1>7
<1>9. t.root # Nil => c[t.root] = {t.root}
  BY <1>1, <1>2, <1>7, <1>8
<1> QED
  BY <1>6, <1>8, <1>9 DEF Holds, Below

-----------------------------------------------------------------------------
(* Timers *)

\* The inductive invariant of the timers.  The tree of a CPU is empty, then
\* holds hello_timer, and then the timer of the running process, which has not
\* fired; the clock stands at the same time, unless the handler is about to
\* take a timer that is due.
TimersTyped ==
    /\ phase \in [Cpus -> {"off", "booted", "on"}]
    /\ timers \in [Cpus -> BareTrees(TimerNodes)]
    /\ left \in [TimerNodes -> Nat]
    /\ triggered \in [TimerNodes -> BOOLEAN]
    /\ clock \in [Cpus -> Nat]
    /\ looping \in [TimerNodes -> BOOLEAN]
    /\ slice \in [Cpus -> BOOLEAN] /\ failed \in BOOLEAN
    /\ on \in [Cpus -> TimerNodes]

RunsOne(c) ==
    /\ on[c] \in Tasks \cup {IdleOf(c)}
    /\ \A d \in Cpus \ {c} : on[d] # on[c]
    /\ ~ triggered[on[c]]
    /\ phase[c] # "on" => on[c] = IdleOf(c) /\ ~ looping[on[c]]
    /\ phase[c] = "off" => timers[c].root = Nil
    /\ phase[c] = "on" =>
         /\ timers[c].root = on[c]
         /\ clock[c] = left[on[c]] \/ (looping[on[c]] /\ left[on[c]] = 0)

TimersInv == TimersTyped /\ ~ failed /\ \A c \in Cpus : RunsOne(c)

\* The addresses of the timers differ, and there are finitely many.
LEMMA TimerAddresses ==
    /\ IsFiniteSet(TimerNodes) /\ Nil \notin TimerNodes
    /\ \A c, d \in Cpus : /\ IdleOf(c) # HelloOf(d)
                          /\ IdleOf(c) = IdleOf(d) => c = d
                          /\ IdleOf(c) \in TimerNodes /\ HelloOf(c) \in TimerNodes
                          /\ IdleOf(c) \notin Tasks /\ HelloOf(c) \notin Tasks
<1>1. Span \in Nat /\ Cpus \subseteq 0 .. Span - 1 /\ Tasks \subseteq 1 .. Span - 1
  BY SpanAssumption
<1>2. TimerNodes \subseteq 1 .. 3 * Span
  <2> SUFFICES ASSUME NEW n \in TimerNodes PROVE n \in 1 .. 3 * Span
    OBVIOUS
  <2>1. CASE n \in Tasks
    <3>1. n \in Int /\ 1 <= n /\ n <= Span - 1
      BY <1>1, <2>1
    <3> QED
      BY <1>1, <3>1
  <2>2. ASSUME NEW c \in Cpus, n = Span + c \/ n = 2 * Span + c PROVE n \in 1 .. 3 * Span
    <3>1. c \in Int /\ 0 <= c /\ c <= Span - 1
      BY <1>1
    <3> QED
      BY <1>1, <2>2, <3>1
  <2> QED
    BY <2>1, <2>2 DEF TimerNodes, IdleOf, HelloOf
<1>3. IsFiniteSet(1 .. 3 * Span)
  <2>1. 3 * Span \in Int /\ 1 \in Int
    BY <1>1
  <2> QED
    BY <2>1, FS_Interval
<1>4. IsFiniteSet(TimerNodes)
  BY <1>2, <1>3, FS_Subset
<1>5. Nil \notin TimerNodes
  BY <1>1, SpanAssumption DEF TimerNodes, IdleOf, HelloOf
<1>6. ASSUME NEW c \in Cpus, NEW d \in Cpus
      PROVE  /\ IdleOf(c) # HelloOf(d)
             /\ IdleOf(c) = IdleOf(d) => c = d
             /\ IdleOf(c) \notin Tasks /\ HelloOf(c) \notin Tasks
  BY <1>1 DEF IdleOf, HelloOf
<1>7. \A c \in Cpus : IdleOf(c) \in TimerNodes /\ HelloOf(c) \in TimerNodes
  BY DEF TimerNodes
<1> QED
  BY <1>4, <1>5, <1>6, <1>7

\* What the functions of cpu.c work on.
TimerStates == [tree : BareTrees(TimerNodes), left : [TimerNodes -> Nat],
                triggered : [TimerNodes -> BOOLEAN], ok : BOOLEAN]

LEMMA ElapseType == ASSUME NEW n PROVE Elapse(n) \in Nat
  BY TimesAssumption DEF Elapse

LEMMA SetTimerFacts ==
    ASSUME NEW s \in TimerStates, s.tree.root = Nil, NEW n \in TimerNodes
    PROVE  /\ SetTimer(s, n) \in TimerStates
           /\ SetTimer(s, n).ok <=> s.ok
           /\ SetTimer(s, n).tree.root = n
           /\ SetTimer(s, n).triggered = [s.triggered EXCEPT ![n] = FALSE]
           /\ \A m \in TimerNodes \ {n} : SetTimer(s, n).left[m] = s.left[m]
<1>1. PICK l : l = [s.left EXCEPT ![n] = Elapse(n)]
  OBVIOUS
<1>2. l \in [TimerNodes -> Nat]
  BY <1>1, ElapseType DEF TimerStates
<1>3. PICK i : i = Insert(s.tree, TimerOrder(l), n)
  OBVIOUS
<1>4. i.ret = 0 /\ i.tree \in BareTrees(TimerNodes) /\ i.tree.root = n
  <2>1. s.tree \in BareTrees(TimerNodes)
    BY DEF TimerStates
  <2>2. PICK key : key = TimerOrder(l)
    OBVIOUS
  <2>3. i = Insert(s.tree, key, n)
    BY <1>3, <2>2
  <2> QED
    BY <2>1, <2>3, InsertBare, TimerAddresses
<1>5. SetTimer(s, n) = [tree |-> i.tree, left |-> l, triggered |-> [s.triggered EXCEPT ![n] = FALSE],
                        ok |-> s.ok /\ i.ret = 0]
  BY <1>1, <1>3 DEF SetTimer
<1>6. [s.triggered EXCEPT ![n] = FALSE] \in [TimerNodes -> BOOLEAN] /\ s.ok \in BOOLEAN
  BY DEF TimerStates
<1>7. (s.ok /\ i.ret = 0) = s.ok
  BY <1>4, <1>6
<1>8. \A m \in TimerNodes \ {n} : l[m] = s.left[m]
  BY <1>1 DEF TimerStates
<1> QED
  BY <1>2, <1>4, <1>5, <1>6, <1>7, <1>8 DEF TimerStates

LEMMA CancelTimerFacts ==
    ASSUME NEW s \in TimerStates, NEW n \in TimerNodes, ~ s.triggered[n], NEW r, r = CancelTimer(s, n)
    PROVE  /\ r \in TimerStates /\ (r.ok <=> s.ok) /\ r.tree.root = Nil
           /\ r.triggered = s.triggered
           /\ r.left = [s.left EXCEPT ![n] = 0]
<1>1. PICK e : e = Erase(s.tree, n)
  OBVIOUS
<1>2. e \in BareTrees(TimerNodes) /\ e.root = Nil
  <2>1. s.tree \in BareTrees(TimerNodes)
    BY DEF TimerStates
  <2> QED
    BY <1>1, <2>1, EraseBare, TimerAddresses
<1>4. r = [s EXCEPT !.tree = e, !.left[n] = 0, !.ok = @ /\ ~ s.triggered[n]]
  BY <1>1 DEF CancelTimer
<1>5. s.left \in [TimerNodes -> Nat] /\ s.triggered \in [TimerNodes -> BOOLEAN] /\ s.ok \in BOOLEAN
  BY DEF TimerStates
<1>6. r = [tree |-> e, left |-> [s.left EXCEPT ![n] = 0], triggered |-> s.triggered, ok |-> s.ok]
  <2>1. (s.ok /\ ~ s.triggered[n]) = s.ok
    BY <1>5
  <2> QED
    BY <1>4, <2>1 DEF TimerStates
<1>7. [s.left EXCEPT ![n] = 0] \in [TimerNodes -> Nat]
  BY <1>5
<1> QED
  BY <1>2, <1>5, <1>6, <1>7 DEF TimerStates

LEMMA TimerStateType ==
    ASSUME TimersTyped, NEW c \in Cpus
    PROVE  /\ TimerState(c) \in TimerStates
           /\ TimerState(c).tree = timers[c] /\ TimerState(c).left = left
           /\ TimerState(c).triggered = triggered /\ TimerState(c).ok = ~ failed
  BY DEF TimersTyped, TimerState, TimerStates

\* What an action makes of the timers of a CPU that then runs one of them.
LEMMA StoreFacts ==
    ASSUME TimersTyped, NEW c \in Cpus, NEW s \in TimerStates, s.ok, NEW n \in TimerNodes,
           s.tree.root = n, Store(c, s)
    PROVE  /\ timers' = [timers EXCEPT ![c] = s.tree] /\ timers' \in [Cpus -> BareTrees(TimerNodes)]
           /\ left' = s.left /\ triggered' = s.triggered /\ ~ failed' /\ failed' \in BOOLEAN
           /\ clock' = [clock EXCEPT ![c] = s.left[n]] /\ clock' \in [Cpus -> Nat]
           /\ left' \in [TimerNodes -> Nat] /\ triggered' \in [TimerNodes -> BOOLEAN]
<1>1. /\ timers' = [timers EXCEPT ![c] = s.tree] /\ left' = s.left /\ triggered' = s.triggered
      /\ clock' = [clock EXCEPT ![c] = Armed(s.tree, s.left)] /\ failed' = ~ s.ok
  BY DEF Store
<1>2. s.tree \in BareTrees(TimerNodes) /\ s.left \in [TimerNodes -> Nat] /\ s.triggered \in [TimerNodes -> BOOLEAN]
  BY DEF TimerStates
<1>3. Armed(s.tree, s.left) = s.left[n]
  <2>1. First(s.tree) = n /\ n # Nil
    BY <1>2, BareFirst, TimerAddresses
  <2> QED
    BY <2>1 DEF Armed
<1> QED
  BY <1>1, <1>2, <1>3 DEF TimersTyped

LEMMA TimersInitInv == TimersInit => TimersInv
<1> SUFFICES ASSUME TimersInit PROVE TimersInv
  OBVIOUS
<1> USE DEF TimersInit
<1>1. PICK B : B = Blank(TimerNodes)
  OBVIOUS
<1>2. B \in BareTrees(TimerNodes) /\ B.root = Nil
  BY <1>1, BlankIsBare
<1>3. timers = [c \in Cpus |-> B]
  BY <1>1
<1>4. \A c \in Cpus : IdleOf(c) \in TimerNodes
  BY TimerAddresses
<1>5. TimersTyped
  BY <1>2, <1>3, <1>4, TimesAssumption DEF TimersTyped
<1>6. ASSUME NEW c \in Cpus PROVE RunsOne(c)
  <2>1. on[c] = IdleOf(c) /\ timers[c].root = Nil /\ phase[c] = "off"
    BY <1>2, <1>3
  <2>2. \A d \in Cpus \ {c} : on[d] # on[c]
    BY TimerAddresses
  <2> QED
    BY <1>4, <2>1, <2>2 DEF RunsOne
<1> QED
  BY <1>5, <1>6 DEF TimersInv

LEMMA SetCpuOnInv == ASSUME TimersInv, NEW c \in Cpus, SetCpuOn(c) PROVE TimersInv'
<1>1. phase[c] = "off" /\ phase' = [phase EXCEPT ![c] = "booted"] /\ on' = on /\ looping' = looping /\ slice' = slice
  BY DEF SetCpuOn
<1>2. PICK s : s = TimerState(c)
  OBVIOUS
<1>3. s \in TimerStates /\ s.tree.root = Nil /\ s.ok /\ s.left = left /\ s.triggered = triggered
  <2>1. TimersTyped /\ timers[c].root = Nil /\ ~ failed /\ failed \in BOOLEAN
    BY <1>1 DEF TimersInv, TimersTyped, RunsOne
  <2> QED
    BY <1>2, <2>1, TimerStateType
<1>4. HelloOf(c) \in TimerNodes
  BY TimerAddresses
<1>5. PICK r : r = SetTimer(s, HelloOf(c))
  OBVIOUS
<1>6. /\ r \in TimerStates /\ r.ok /\ r.tree.root = HelloOf(c)
      /\ r.triggered = [triggered EXCEPT ![HelloOf(c)] = FALSE]
      /\ \A m \in TimerNodes \ {HelloOf(c)} : r.left[m] = left[m]
  <2>1. s \in TimerStates /\ s.tree.root = Nil /\ r = SetTimer(s, HelloOf(c)) /\ HelloOf(c) \in TimerNodes
    BY <1>3, <1>4, <1>5
  <2>2. /\ r \in TimerStates /\ (r.ok <=> s.ok) /\ r.tree.root = HelloOf(c)
        /\ r.triggered = [s.triggered EXCEPT ![HelloOf(c)] = FALSE]
        /\ \A m \in TimerNodes \ {HelloOf(c)} : r.left[m] = s.left[m]
    BY <2>1, SetTimerFacts
  <2> QED
    BY <1>3, <2>2
<1>7. Store(c, r)
  BY <1>2, <1>5 DEF SetCpuOn
<1>8. /\ timers' = [timers EXCEPT ![c] = r.tree] /\ timers' \in [Cpus -> BareTrees(TimerNodes)]
      /\ left' = r.left /\ triggered' = r.triggered /\ ~ failed' /\ failed' \in BOOLEAN
      /\ clock' = [clock EXCEPT ![c] = r.left[HelloOf(c)]] /\ clock' \in [Cpus -> Nat]
      /\ left' \in [TimerNodes -> Nat] /\ triggered' \in [TimerNodes -> BOOLEAN]
  BY <1>4, <1>6, <1>7, StoreFacts DEF TimersInv
<1>9. TimersTyped'
  BY <1>1, <1>8 DEF TimersInv, TimersTyped
<1>10. ASSUME NEW d \in Cpus PROVE RunsOne(d)'
  <2>1. on[d] # HelloOf(c) /\ on[d] \in TimerNodes
    BY TimerAddresses DEF TimersInv, TimersTyped, RunsOne
  <2>2. left'[on[d]] = left[on[d]] /\ triggered'[on[d]] = triggered[on[d]]
    BY <1>6, <1>8, <2>1 DEF TimersInv, TimersTyped
  <2>3. RunsOne(d) /\ RunsOne(c)
    BY DEF TimersInv
  <2>4. CASE d = c
    BY <1>1, <2>2, <2>3, <2>4 DEF RunsOne, TimersInv, TimersTyped
  <2>5. CASE d # c
    <3>1. phase'[d] = phase[d] /\ timers'[d] = timers[d] /\ clock'[d] = clock[d]
      BY <1>1, <1>8, <2>5 DEF TimersInv, TimersTyped
    <3> QED
      BY <1>1, <2>2, <2>3, <3>1 DEF RunsOne
  <2> QED
    BY <2>4, <2>5
<1> QED
  BY <1>8, <1>9, <1>10 DEF TimersInv

LEMMA DroppedFacts ==
    ASSUME NEW s \in TimerStates, NEW n \in TimerNodes, s.triggered[n] => s.tree.root = Nil,
           NEW q, q = Dropped(s, n)
    PROVE  /\ q \in TimerStates /\ (q.ok <=> s.ok) /\ q.tree.root = Nil
           /\ \A m \in TimerNodes \ {n} : q.left[m] = s.left[m] /\ q.triggered[m] = s.triggered[m]
<1>1. CASE s.triggered[n]
  BY <1>1 DEF Dropped
<1>2. CASE ~ s.triggered[n]
  <2>1. q = CancelTimer(s, n)
    BY <1>2 DEF Dropped
  <2>2. /\ q \in TimerStates /\ (q.ok <=> s.ok) /\ q.tree.root = Nil /\ q.triggered = s.triggered
        /\ q.left = [s.left EXCEPT ![n] = 0]
    BY <1>2, <2>1, CancelTimerFacts
  <2>3. s.left \in [TimerNodes -> Nat]
    BY DEF TimerStates
  <2> QED
    BY <2>2, <2>3
<1> QED
  BY <1>1, <1>2

LEMMA SwitchedFacts ==
    ASSUME NEW s \in TimerStates, NEW c, on[c] \in TimerNodes, s.triggered[on[c]] => s.tree.root = Nil,
           NEW next \in TimerNodes, NEW r, r = Switched(c, s, next)
    PROVE  /\ r \in TimerStates /\ (r.ok <=> s.ok) /\ r.tree.root = next /\ ~ r.triggered[next]
           /\ \A m \in TimerNodes \ {on[c], next} :
                r.left[m] = s.left[m] /\ r.triggered[m] = s.triggered[m]
<1>1. PICK q : q = Dropped(s, on[c])
  OBVIOUS
<1>2. /\ q \in TimerStates /\ (q.ok <=> s.ok) /\ q.tree.root = Nil
      /\ \A m \in TimerNodes \ {on[c]} : q.left[m] = s.left[m] /\ q.triggered[m] = s.triggered[m]
  BY <1>1, DroppedFacts
<1>3. r = SetTimer(q, next)
  BY <1>1 DEF Switched
<1>4. q \in TimerStates /\ q.tree.root = Nil
  BY <1>2
<1>5. /\ r \in TimerStates /\ (r.ok <=> q.ok) /\ r.tree.root = next
      /\ r.triggered = [q.triggered EXCEPT ![next] = FALSE]
      /\ \A m \in TimerNodes \ {next} : r.left[m] = q.left[m]
  BY <1>3, <1>4, SetTimerFacts
<1>7. q.triggered \in [TimerNodes -> BOOLEAN]
  BY <1>2 DEF TimerStates
<1>8. ~ r.triggered[next] /\ \A m \in TimerNodes \ {next} : r.triggered[m] = q.triggered[m]
  <2>1. PICK g : g = q.triggered
    OBVIOUS
  <2>2. g \in [TimerNodes -> BOOLEAN] /\ r.triggered = [g EXCEPT ![next] = FALSE]
    BY <1>5, <1>7, <2>1
  <2> QED
    BY <2>1, <2>2
<1>9. r.ok <=> s.ok
  BY <1>2, <1>5
<1>10. \A m \in TimerNodes \ {on[c], next} : r.left[m] = s.left[m] /\ r.triggered[m] = s.triggered[m]
  BY <1>2, <1>5, <1>8
<1> QED
  BY <1>5, <1>8, <1>9, <1>10

\* The scheduler on CPU c, with the timer of the running process set or fired.
LEMMA SwitchedInv ==
    ASSUME TimersInv, NEW c \in Cpus, NEW next \in TimerNodes, Eligible(c, next),
           NEW s \in TimerStates, s.ok, s.triggered[on[c]] => s.tree.root = Nil,
           \A d \in Cpus \ {c} : s.left[on[d]] = left[on[d]] /\ s.triggered[on[d]] = triggered[on[d]],
           Store(c, Switched(c, s, next)),
           on' = [on EXCEPT ![c] = next], phase' = [phase EXCEPT ![c] = "on"],
           slice' = [slice EXCEPT ![c] = ~ @], looping' = looping
    PROVE  TimersInv'
<1>1. on[c] \in TimerNodes /\ on \in [Cpus -> TimerNodes] /\ phase \in [Cpus -> {"off", "booted", "on"}]
  BY DEF TimersInv, TimersTyped
<1>2. next \in Tasks \cup {IdleOf(c)} /\ \A d \in Cpus \ {c} : on[d] # next
  BY DEF Eligible
<1>3. PICK r : r = Switched(c, s, next)
  OBVIOUS
<1>4. /\ r \in TimerStates /\ (r.ok <=> s.ok) /\ r.tree.root = next /\ ~ r.triggered[next]
      /\ \A m \in TimerNodes \ {on[c], next} :
           r.left[m] = s.left[m] /\ r.triggered[m] = s.triggered[m]
  BY <1>1, <1>3, SwitchedFacts
<1>7. Store(c, r)
  BY <1>3
<1>8. /\ timers' = [timers EXCEPT ![c] = r.tree] /\ timers' \in [Cpus -> BareTrees(TimerNodes)]
      /\ left' = r.left /\ triggered' = r.triggered /\ ~ failed' /\ failed' \in BOOLEAN
      /\ clock' = [clock EXCEPT ![c] = r.left[next]] /\ clock' \in [Cpus -> Nat]
      /\ left' \in [TimerNodes -> Nat] /\ triggered' \in [TimerNodes -> BOOLEAN]
  BY <1>4, <1>7, StoreFacts DEF TimersInv
<1>9. TimersTyped'
  <2>1. on' \in [Cpus -> TimerNodes] /\ phase' \in [Cpus -> {"off", "booted", "on"}]
    BY <1>1
  <2>2. slice' \in [Cpus -> BOOLEAN] /\ looping' \in [TimerNodes -> BOOLEAN]
    BY DEF TimersInv, TimersTyped
  <2> QED
    BY <1>8, <2>1, <2>2 DEF TimersTyped
<1>10. ASSUME NEW d \in Cpus PROVE RunsOne(d)'
  <2>1. RunsOne(d) /\ RunsOne(c)
    BY DEF TimersInv
  <2>3. CASE d = c
    <3>1. on'[d] = next /\ phase'[d] = "on" /\ timers'[d].root = next /\ clock'[d] = left'[next]
      BY <1>1, <1>4, <1>8, <2>3 DEF TimersInv, TimersTyped
    <3>2. ~ triggered'[next]
      BY <1>4, <1>8
    <3>3. \A e \in Cpus \ {d} : on'[e] # on'[d]
      BY <1>1, <1>2, <2>3
    <3> QED
      BY <1>2, <2>3, <3>1, <3>2, <3>3 DEF RunsOne
  <2>4. CASE d # c
    <3>1. phase'[d] = phase[d] /\ timers'[d] = timers[d] /\ clock'[d] = clock[d] /\ on'[d] = on[d]
      BY <1>1, <1>8, <2>4 DEF TimersInv, TimersTyped
    <3>2. on[d] # next /\ on[d] \in TimerNodes /\ on[d] # on[c]
      BY <1>1, <1>2, <2>1, <2>4 DEF RunsOne
    <3>3. left'[on[d]] = left[on[d]] /\ triggered'[on[d]] = triggered[on[d]]
      BY <1>4, <1>8, <2>4, <3>2
    <3>4. \A e \in Cpus \ {d} : on'[e] # on'[d]
      <4>1. \A e \in Cpus \ {d} : on[e] # on[d]
        BY <2>1 DEF RunsOne
      <4> QED
        BY <1>1, <3>1, <3>2, <4>1
    <3> QED
      BY <2>1, <3>1, <3>3, <3>4 DEF RunsOne
  <2> QED
    BY <2>3, <2>4
<1> QED
  BY <1>8, <1>9, <1>10 DEF TimersInv

LEMMA YieldCpuInv ==
    ASSUME TimersInv, NEW c \in Cpus, NEW next \in TimerNodes, YieldCpu(c, next)
    PROVE  TimersInv'
<1>1. /\ Eligible(c, next) /\ Store(c, Switched(c, TimerState(c), next))
      /\ on' = [on EXCEPT ![c] = next] /\ phase' = [phase EXCEPT ![c] = "on"]
      /\ slice' = [slice EXCEPT ![c] = ~ @] /\ looping' = looping
  BY DEF YieldCpu
<1>2. PICK s : s = TimerState(c)
  OBVIOUS
<1>3. s \in TimerStates /\ s.ok /\ s.left = left /\ s.triggered = triggered
  BY <1>2, TimerStateType DEF TimersInv
<1>4. ~ s.triggered[on[c]]
  BY <1>3 DEF TimersInv, RunsOne
<1> QED
  BY <1>1, <1>2, <1>3, <1>4, SwitchedInv

LEMMA TimerFiresInv ==
    ASSUME TimersInv, NEW c \in Cpus, NEW next \in TimerNodes, TimerFires(c, next)
    PROVE  TimersInv'
<1>1. RunsOne(c) /\ TimersTyped /\ looping[on[c]] /\ on[c] \in TimerNodes
  BY DEF TimersInv, TimersTyped, TimerFires
<1>2. phase[c] = "on" /\ timers[c].root = on[c]
  BY <1>1 DEF RunsOne
<1>3. First(timers[c]) = on[c]
  BY <1>1, <1>2, BareFirst, TimerAddresses DEF TimersTyped
<1>4. on[c] # HelloOf(c)
  BY <1>1, TimerAddresses DEF RunsOne
<1>5. PICK q : q = TimerState(c)
  OBVIOUS
<1>6. q \in TimerStates /\ q.ok /\ q.left = left /\ q.triggered = triggered
  BY <1>5, TimerStateType DEF TimersInv
<1>7. PICK r : r = CancelTimer(q, on[c])
  OBVIOUS
<1>8. /\ r \in TimerStates /\ r.ok /\ r.tree.root = Nil /\ r.triggered = triggered
      /\ r.left = [left EXCEPT ![on[c]] = 0]
  <2>1. ~ q.triggered[on[c]]
    BY <1>1, <1>6 DEF RunsOne
  <2> QED
    BY <1>1, <1>6, <1>7, <2>1, CancelTimerFacts
<1>9. PICK s : s = [r EXCEPT !.triggered[on[c]] = TRUE]
  OBVIOUS
<1>10. s = [tree |-> r.tree, left |-> r.left, triggered |-> [triggered EXCEPT ![on[c]] = TRUE], ok |-> r.ok]
  BY <1>8, <1>9 DEF TimerStates
<1>11. s \in TimerStates /\ s.ok /\ s.tree.root = Nil
  BY <1>1, <1>8, <1>10 DEF TimerStates, TimersTyped
<1>12. \A d \in Cpus \ {c} : s.left[on[d]] = left[on[d]] /\ s.triggered[on[d]] = triggered[on[d]]
  <2>1. \A d \in Cpus \ {c} : on[d] # on[c] /\ on[d] \in TimerNodes
    BY <1>1 DEF RunsOne, TimersTyped
  <2>2. s.left = [left EXCEPT ![on[c]] = 0] /\ s.triggered = [triggered EXCEPT ![on[c]] = TRUE]
    BY <1>8, <1>10
  <2>3. left \in [TimerNodes -> Nat] /\ triggered \in [TimerNodes -> BOOLEAN]
    BY <1>1 DEF TimersTyped
  <2> QED
    BY <2>1, <2>2, <2>3
<1>13. /\ Eligible(c, next) /\ Store(c, Switched(c, s, next)) /\ on' = [on EXCEPT ![c] = next]
       /\ slice' = [slice EXCEPT ![c] = ~ @] /\ looping' = looping /\ phase' = phase
  BY <1>1, <1>3, <1>4, <1>5, <1>7, <1>9 DEF TimerFires, TimersTyped
<1>14. phase' = [phase EXCEPT ![c] = "on"]
  BY <1>1, <1>2, <1>13 DEF TimersTyped
<1> QED
  BY <1>11, <1>12, <1>13, <1>14, SwitchedInv

LEMMA ClockInterruptInv == ASSUME TimersInv, NEW c \in Cpus, ClockInterrupt(c) PROVE TimersInv'
<1>1. /\ phase[c] = "on" /\ clock[c] = 0 /\ ~ looping[on[c]]
      /\ looping' = [looping EXCEPT ![on[c]] = TRUE] /\ clock' = [clock EXCEPT ![c] = CLOCK]
      /\ phase' = phase /\ timers' = timers /\ left' = left /\ triggered' = triggered
      /\ on' = on /\ failed' = failed /\ slice' = slice
  BY DEF ClockInterrupt
<1>2. TimersTyped'
  BY <1>1, TimesAssumption DEF TimersInv, TimersTyped
<1>3. ASSUME NEW d \in Cpus PROVE RunsOne(d)'
  <2>1. RunsOne(d) /\ RunsOne(c) /\ on[d] \in TimerNodes /\ looping \in [TimerNodes -> BOOLEAN] /\ clock \in [Cpus -> Nat]
    BY DEF TimersInv, TimersTyped
  <2>2. CASE d = c
    <3>1. looping'[on[c]] /\ left[on[c]] = 0
      BY <1>1, <2>1, <2>2 DEF RunsOne
    <3> QED
      BY <1>1, <2>1, <2>2, <3>1 DEF RunsOne
  <2>3. CASE d # c
    <3>1. on[d] # on[c]
      BY <2>1, <2>3 DEF RunsOne
    <3>2. looping'[on[d]] = looping[on[d]] /\ clock'[d] = clock[d]
      BY <1>1, <2>1, <2>3, <3>1
    <3> QED
      BY <1>1, <2>1, <3>2 DEF RunsOne
  <2> QED
    BY <2>2, <2>3
<1> QED
  BY <1>1, <1>2, <1>3 DEF TimersInv

LEMMA HandlerReturnsInv == ASSUME TimersInv, NEW c \in Cpus, HandlerReturns(c) PROVE TimersInv'
<1>1. /\ looping[on[c]] /\ ~ DueTimer(c)
      /\ looping' = [looping EXCEPT ![on[c]] = FALSE] /\ clock' = clock
      /\ phase' = phase /\ timers' = timers /\ left' = left /\ triggered' = triggered
      /\ on' = on /\ failed' = failed /\ slice' = slice
  BY DEF HandlerReturns
<1>2. TimersTyped'
  BY <1>1 DEF TimersInv, TimersTyped
<1>3. RunsOne(c) /\ TimersTyped
  BY DEF TimersInv
<1>4. phase[c] = "on" /\ timers[c].root = on[c]
  BY <1>1, <1>3 DEF RunsOne
<1>5. First(timers[c]) = on[c] /\ on[c] # Nil
  BY <1>3, <1>4, BareFirst, TimerAddresses DEF TimersTyped
<1>6. left[on[c]] # 0
  BY <1>1, <1>5 DEF DueTimer
<1>7. ASSUME NEW d \in Cpus PROVE RunsOne(d)'
  <2>1. RunsOne(d) /\ on[d] \in TimerNodes /\ looping \in [TimerNodes -> BOOLEAN]
    BY DEF TimersInv, TimersTyped
  <2>2. CASE d = c
    BY <1>1, <1>4, <1>6, <2>1, <2>2 DEF RunsOne
  <2>3. CASE d # c
    <3>1. on[d] # on[c]
      BY <1>3, <2>1, <2>3 DEF RunsOne
    <3>2. looping'[on[d]] = looping[on[d]]
      BY <1>1, <2>1, <3>1
    <3> QED
      BY <1>1, <2>1, <3>2 DEF RunsOne
  <2> QED
    BY <2>2, <2>3
<1> QED
  BY <1>1, <1>2, <1>7 DEF TimersInv

LEMMA TickInv == ASSUME TimersInv, Tick PROVE TimersInv'
<1>1. /\ left' = [n \in TimerNodes |-> Less1(left[n])] /\ clock' = [c \in Cpus |-> Less1(clock[c])]
      /\ phase' = phase /\ timers' = timers /\ triggered' = triggered /\ on' = on
      /\ looping' = looping /\ failed' = failed /\ slice' = slice
  BY DEF Tick
<1>2. \A n \in Nat : Less1(n) \in Nat
  BY DEF Less1
<1>3. TimersTyped'
  <2>1. left' \in [TimerNodes -> Nat] /\ clock' \in [Cpus -> Nat]
    BY <1>1, <1>2 DEF TimersInv, TimersTyped
  <2> QED
    BY <1>1, <2>1 DEF TimersInv, TimersTyped
<1>4. ASSUME NEW c \in Cpus PROVE RunsOne(c)'
  <2>1. RunsOne(c) /\ on[c] \in TimerNodes
    BY DEF TimersInv, TimersTyped
  <2>2. left'[on[c]] = Less1(left[on[c]]) /\ clock'[c] = Less1(clock[c]) /\ Less1(0) = 0
    BY <1>1, <2>1 DEF Less1
  <2> QED
    BY <1>1, <2>1, <2>2 DEF RunsOne
<1> QED
  BY <1>1, <1>3, <1>4 DEF TimersInv

\* The invariant of the timers, for any CPUs, processes and periods.
THEOREM TimersInvariant == TimersSpec => []TimersInv
<1>1. TimersInv /\ [TimersNext]_timerVars => TimersInv'
  <2> SUFFICES ASSUME TimersInv, [TimersNext]_timerVars PROVE TimersInv'
    OBVIOUS
  <2>1. CASE UNCHANGED timerVars
    <3>1. /\ phase' = phase /\ timers' = timers /\ left' = left /\ triggered' = triggered
          /\ clock' = clock /\ on' = on /\ looping' = looping /\ failed' = failed /\ slice' = slice
      BY <2>1 DEF timerVars
    <3> QED
      BY <3>1 DEF TimersInv, TimersTyped, RunsOne
  <2> QED
    BY <2>1, TickInv, SetCpuOnInv, ClockInterruptInv, HandlerReturnsInv, YieldCpuInv, TimerFiresInv
       DEF TimersNext
<1> QED
  BY <1>1, TimersInitInv, PTL DEF TimersSpec

\* A CPU that runs processes has the timer of the running one in its tree and
\* nothing else, and the assertions of set_cpu_timer and cancel_cpu_timer
\* hold, for any number of CPUs and processes.
THEOREM OneTimerPerCpu == TimersSpec => []OnlyRunningIsTimed
<1>1. TimersInv => OnlyRunningIsTimed
  <2> SUFFICES ASSUME TimersInv, NEW c \in Cpus, phase[c] = "on" PROVE Holds(timers[c]) = {on[c]}
    BY DEF OnlyRunningIsTimed, TimersInv
  <2>1. timers[c] \in BareTrees(TimerNodes) /\ timers[c].root = on[c] /\ on[c] \in TimerNodes
    BY DEF TimersInv, TimersTyped, RunsOne
  <2> QED
    BY <2>1, BareHolds, TimerAddresses
<1> QED
  BY <1>1, TimersInvariant, PTL

\* timer_clock_handler and the scheduler leave the clock at the time of the
\* first timer.
THEOREM ClockFollowsTimer == TimersSpec => []ClockIsArmed
<1>1. TimersInv => ClockIsArmed
  <2> SUFFICES ASSUME TimersInv, NEW c \in Cpus, phase[c] = "on", ~ looping[on[c]]
               PROVE  clock[c] = left[First(timers[c])]
    BY DEF ClockIsArmed
  <2>1. /\ timers[c] \in BareTrees(TimerNodes) /\ timers[c].root = on[c] /\ on[c] \in TimerNodes
        /\ clock[c] = left[on[c]]
    BY DEF TimersInv, TimersTyped, RunsOne
  <2> QED
    BY <2>1, BareFirst, TimerAddresses
<1> QED
  BY <1>1, TimersInvariant, PTL
=============================================================================
