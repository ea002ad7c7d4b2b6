------------------------------ MODULE MCTimers ------------------------------
(* An instance of Timers for TLC. *)
EXTENDS Timers

\* Time passes, an interrupt is taken once it is raised, the handler goes on,
\* and a CPU is started and its idle process yields.  A process need not.
Fairness ==
    /\ WF_timerVars(Tick)
    /\ \A c \in Cpus :
        /\ WF_timerVars(SetCpuOn(c))
        /\ WF_timerVars(phase[c] = "booted" /\ \E n \in TimerNodes : YieldCpu(c, n))
        /\ WF_timerVars(ClockInterrupt(c))
        /\ WF_timerVars(HandlerReturns(c) \/ \E n \in TimerNodes : TimerFires(c, n))

FairSpec == TimersSpec /\ Fairness
=============================================================================
