---------------------------- MODULE AtomicStore ----------------------------
(***************************************************************************)
(* What the logging layer of the block cache promises: operations change    *)
(* blocks in memory; from time to time, when no operation is running, all   *)
(* of memory becomes durable at once; a crash brings back what was durable, *)
(* so of every operation either all changes survive or none.  A leaky block *)
(* is the exception: it may become durable by itself, at any time.         *)
(***************************************************************************)
CONSTANTS Ops, Blocks, Vals, V0, Leaky

VARIABLES
    content,   \* what a reader of each block sees
    durable,   \* what a crash would bring back
    active     \* the operations that may still change blocks

avars == <<content, durable, active>>

AInit ==
    /\ content = [b \in Blocks |-> V0]
    /\ durable = [b \in Blocks |-> V0]
    /\ active = {}

ABegin(o) ==
    /\ o \notin active
    /\ active' = active \cup {o}
    /\ UNCHANGED <<content, durable>>

AWrite(o, b, v) ==
    /\ o \in active
    /\ content' = [content EXCEPT ![b] = v]
    /\ UNCHANGED <<durable, active>>

AEnd(o) ==
    /\ o \in active
    /\ active' = active \ {o}
    /\ UNCHANGED <<content, durable>>

ACommit ==
    /\ active = {}
    /\ durable' = content
    /\ UNCHANGED <<content, active>>

ALeak(b) ==
    /\ b \in Leaky
    /\ durable' = [durable EXCEPT ![b] = content[b]]
    /\ UNCHANGED <<content, active>>

ACrash ==
    /\ content' = durable
    /\ active' = {}
    /\ UNCHANGED durable

ANext ==
    \/ \E o \in Ops : ABegin(o) \/ AEnd(o)
    \/ \E o \in Ops, b \in Blocks, v \in Vals : AWrite(o, b, v)
    \/ \E b \in Blocks : ALeak(b)
    \/ ACommit \/ ACrash

ASpec == AInit /\ [][ANext]_avars
=============================================================================
