---------------------------- MODULE CountingSem ----------------------------
(***************************************************************************)
(* What a semaphore promises, without locks, lists or a scheduler: units    *)
(* that are given and taken, and processes that wait for one.  A wait ends  *)
(* with a unit, or, if it is alertable, with none.                          *)
(***************************************************************************)
EXTENDS Integers

CONSTANTS Procs, InitVal

VARIABLES
    avail,    \* units given and not taken yet
    waiting   \* the kind of wait each process is in, or "no"

svars == <<avail, waiting>>

Kinds == {"wait", "unalertable_wait"}

SInit == avail = InitVal /\ waiting = [p \in Procs |-> "no"]

\* A unit is given; it may serve a process that waits or stay available.
Give == avail' = avail + 1 /\ UNCHANGED waiting

\* Some of the units are taken by a caller that does not wait.
Grab ==
    /\ avail > 0
    /\ avail' \in 0 .. avail - 1
    /\ UNCHANGED waiting

\* A process starts to wait.
StartWait(p, k) ==
    /\ waiting[p] = "no"
    /\ waiting' = [waiting EXCEPT ![p] = k]
    /\ UNCHANGED avail

\* A wait ends with a unit.
Take(p) ==
    /\ waiting[p] # "no"
    /\ avail > 0
    /\ avail' = avail - 1
    /\ waiting' = [waiting EXCEPT ![p] = "no"]

\* An alertable wait ends without one.
GiveUp(p) ==
    /\ waiting[p] = "wait"
    /\ waiting' = [waiting EXCEPT ![p] = "no"]
    /\ UNCHANGED avail

SNext ==
    \/ Give \/ Grab
    \/ \E p \in Procs : Take(p) \/ GiveUp(p) \/ \E k \in Kinds : StartWait(p, k)

SSpec == SInit /\ [][SNext]_svars
=============================================================================
