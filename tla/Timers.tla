------------------------------- MODULE Timers -------------------------------
(***************************************************************************)
(* The timers of the CPUs (kernel/cpu.c, driver/clock.c) and their user,    *)
(* the scheduler (kernel/sched.c): a process that is switched to gets a     *)
(* timer, one that is switched from loses it, and the clock interrupt calls *)
(* the handlers of the timers that are due.  Times are what is left until   *)
(* then.  Which process is runnable is left open.                           *)
(***************************************************************************)
EXTENDS RBTree

CONSTANTS
    Cpus,      \* numbers
    Tasks,     \* the processes other than the idle ones, by the address of their timer
    Span,      \* more than the number of any of them
    ELAPSE,    \* a time slice
    HELLO,     \* the period of hello_timer
    CLOCK      \* what the clock is set to when there is no timer

ASSUME SpanAssumption ==
    /\ Span \in Nat /\ Cpus \subseteq 0 .. Span - 1 /\ Tasks \subseteq 1 .. Span - 1
    /\ Nil \notin Tasks /\ Nil \notin Span .. 3 * Span
ASSUME TimesAssumption == ELAPSE \in Nat /\ HELLO \in Nat /\ CLOCK \in Nat

IdleOf(c) == Span + c
HelloOf(c) == 2 * Span + c
TimerNodes == Tasks \cup {IdleOf(c) : c \in Cpus} \cup {HelloOf(c) : c \in Cpus}

VARIABLES
    phase,      \* per CPU: "off", "booted" by set_cpu_on, "on" after its first yield
    timers,     \* cpus[].timer
    left,       \* per timer: the time until _key
    triggered,  \* per timer
    clock,      \* per CPU: the time until the clock interrupt
    on,         \* per CPU: thisproc(), by its timer
    looping,    \* per process: it is in timer_clock_handler
    failed,     \* an assertion has failed
    slice       \* history, per CPU: changes with every call of the scheduler

timerVars == <<phase, timers, left, triggered, clock, on, looping, failed, slice>>

TimersInit ==
    /\ phase = [c \in Cpus |-> "off"]
    /\ timers = [c \in Cpus |-> Blank(TimerNodes)]
    /\ left = [n \in TimerNodes |-> 0]
    /\ triggered = [n \in TimerNodes |-> FALSE]
    /\ clock = [c \in Cpus |-> CLOCK]
    /\ on = [c \in Cpus |-> IdleOf(c)]
    /\ looping = [n \in TimerNodes |-> FALSE]
    /\ failed = FALSE
    /\ slice = [c \in Cpus |-> FALSE]

\* __timer_cmp: by time, then by address.
TimerOrder(l) == [n \in TimerNodes |-> l[n] * 3 * Span + n]

Elapse(n) == IF n \in {HelloOf(c) : c \in Cpus} THEN HELLO ELSE ELAPSE

\* Mutant of Armed: the clock does not follow the first timer.
ArmedIdle(t, l) == CLOCK

\* __timer_set_clock
Armed(t, l) == IF First(t) = Nil THEN CLOCK ELSE l[First(t)]

\* What set_cpu_timer and cancel_cpu_timer work on.
TimerState(c) == [tree |-> timers[c], left |-> left, triggered |-> triggered, ok |-> ~ failed]

\* set_cpu_timer
SetTimer(s, n) ==
    LET l == [s.left EXCEPT ![n] = Elapse(n)]
        r == Insert(s.tree, TimerOrder(l), n)
    IN  [tree |-> r.tree, left |-> l, triggered |-> [s.triggered EXCEPT ![n] = FALSE],
         ok |-> s.ok /\ r.ret = 0]

\* cancel_cpu_timer.  The key of a timer that is not set is not read.
CancelTimer(s, n) ==
    [s EXCEPT !.tree = Erase(s.tree, n), !.left[n] = 0, !.ok = @ /\ ~ s.triggered[n]]

\* Mutant of Dropped: the timer is cancelled though it has fired.
DroppedAlways(s, n) == CancelTimer(s, n)

\* simple_sched drops the timer of the process that it switches from, unless
\* that has fired.  An idle process that runs for the first time drops a timer
\* that was never set.
Dropped(s, n) == IF s.triggered[n] THEN s ELSE CancelTimer(s, n)

\* The state of the timers of CPU c becomes new.
Store(c, new) == \E s \in {new} :
    /\ timers' = [timers EXCEPT ![c] = s.tree]
    /\ left' = s.left
    /\ triggered' = s.triggered
    /\ clock' = [clock EXCEPT ![c] = Armed(s.tree, s.left)]
    /\ failed' = ~ s.ok

\* simple_sched on CPU c with the timers in state s, to a process that is not
\* running elsewhere.
Eligible(c, next) == next \in Tasks \cup {IdleOf(c)} /\ \A d \in Cpus \ {c} : on[d] # next
Switched(c, s, next) == SetTimer(Dropped(s, on[c]), next)

-----------------------------------------------------------------------------
\* set_cpu_on: the clock starts and hello_timer is set, with traps disabled.
SetCpuOn(c) ==
    /\ phase[c] = "off"
    /\ phase' = [phase EXCEPT ![c] = "booted"]
    /\ Store(c, SetTimer(TimerState(c), HelloOf(c)))
    /\ UNCHANGED <<on, looping, slice>>

\* A process calls the scheduler.
YieldCpu(c, next) ==
    /\ phase[c] # "off" /\ ~ looping[on[c]] /\ Eligible(c, next)
    /\ Store(c, Switched(c, TimerState(c), next))
    /\ on' = [on EXCEPT ![c] = next]
    /\ slice' = [slice EXCEPT ![c] = ~ @]
    /\ phase' = [phase EXCEPT ![c] = "on"]
    /\ UNCHANGED looping

\* The clock interrupt: timer_clock_handler begins.
ClockInterrupt(c) ==
    /\ phase[c] = "on" /\ clock[c] = 0 /\ ~ looping[on[c]]
    /\ looping' = [looping EXCEPT ![on[c]] = TRUE]
    /\ clock' = [clock EXCEPT ![c] = CLOCK]
    /\ UNCHANGED <<phase, timers, left, triggered, on, failed, slice>>

DueTimer(c) == First(timers[c]) # Nil /\ left[First(timers[c])] <= 0

\* Mutant of TimerFires: the handler sets the timer again and returns.
FiresWithoutSched(c, next) ==
    LET n == First(timers[c])
        s == CancelTimer(TimerState(c), n)
    IN  /\ looping[on[c]] /\ DueTimer(c)
        /\ Store(c, SetTimer([s EXCEPT !.triggered[n] = TRUE], n))
        /\ UNCHANGED <<phase, looping, on, slice>>

\* The loop of timer_clock_handler, in which a process goes on when it is
\* switched to again, perhaps on another CPU: the first timer is due.  Handler
\* hello sets its timer again, handler interrupt calls the scheduler.
TimerFires(c, next) ==
    LET n == First(timers[c])
        s == CancelTimer(TimerState(c), n)
        fired == [s EXCEPT !.triggered[n] = TRUE]
        hello == n = HelloOf(c)
    IN  /\ looping[on[c]] /\ DueTimer(c) /\ Eligible(c, next)
        /\ Store(c, IF hello THEN SetTimer(fired, n) ELSE Switched(c, fired, next))
        /\ on' = [on EXCEPT ![c] = IF hello THEN @ ELSE next]
        /\ slice' = [slice EXCEPT ![c] = IF hello THEN @ ELSE ~ @]
        /\ UNCHANGED <<phase, looping>>

\* No timer is due.
HandlerReturns(c) ==
    /\ looping[on[c]] /\ ~ DueTimer(c)
    /\ looping' = [looping EXCEPT ![on[c]] = FALSE]
    /\ UNCHANGED <<phase, timers, left, triggered, clock, on, failed, slice>>

Less1(n) == IF n > 0 THEN n - 1 ELSE 0

Tick ==
    /\ left' = [n \in TimerNodes |-> Less1(left[n])]
    /\ clock' = [c \in Cpus |-> Less1(clock[c])]
    /\ UNCHANGED <<phase, timers, triggered, on, looping, failed, slice>>

TimersNext ==
    \/ Tick
    \/ \E c \in Cpus :
         \/ SetCpuOn(c) \/ ClockInterrupt(c) \/ HandlerReturns(c)
         \/ \E next \in TimerNodes : YieldCpu(c, next) \/ TimerFires(c, next)

TimersSpec == TimersInit /\ [][TimersNext]_timerVars

-----------------------------------------------------------------------------
(* Properties *)

\* Once a CPU runs processes, its tree holds the timer of the process that
\* runs on it and nothing else, whichever CPUs that process ran on before, and
\* no assertion of set_cpu_timer and cancel_cpu_timer fails.  The timer that
\* set_cpu_on has set is not there: the first yield of the idle process erases
\* a node that was never inserted, and with it the root.
OnlyRunningIsTimed ==
    /\ ~ failed
    /\ \A c \in Cpus : phase[c] = "on" => Holds(timers[c]) = {on[c]}

\* The clock interrupt comes when the first timer is due and not later, also
\* after the handler has set it to a second.
ClockIsArmed ==
    \A c \in Cpus :
        phase[c] = "on" /\ ~ looping[on[c]] => clock[c] = left[First(timers[c])]

\* A process that never calls the scheduler is interrupted: every time slice ends.
SlicesEnd ==
    \A c \in Cpus :
        /\ phase[c] = "on" /\ slice[c] ~> ~ slice[c]
        /\ phase[c] = "on" /\ ~ slice[c] ~> slice[c]
=============================================================================
