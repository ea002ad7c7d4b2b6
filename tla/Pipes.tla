------------------------------- MODULE Pipes -------------------------------
(***************************************************************************)
(* Pipes and their descriptors (fs/pipe.c, fs/file.c, sys_pipe2).  A call   *)
(* runs under the pipe's spin lock from its beginning to its end.  When it  *)
(* has to wait, wait_sem puts the process to sleep with that lock held:     *)
(* everybody who wakes sleepers needs the lock first, so the pipe is stuck. *)
(***************************************************************************)
EXTENDS Integers, FiniteSets, Sequences

CONSTANTS
    Users,      \* processes
    PipeFiles,  \* indices of the file table
    PipeFds,    \* descriptors of a process
    PIPESIZE,
    Width,      \* how many values nread and nwrite have, 2^32
    MaxBytes,   \* bound: how many bytes are written
    MaxPipes,   \* bound: how many pipes are made
    NoPipe      \* a null pointer

\* struct pipe, with stuck: a process sleeps with its lock held.
PipeRecords == [nread : Nat, nwrite : Nat, data : [0 .. PIPESIZE - 1 -> Nat],
                readopen : BOOLEAN, writeopen : BOOLEAN, stuck : BOOLEAN]

ASSUME SetsAssumption ==
    /\ IsFiniteSet(Users) /\ IsFiniteSet(PipeFds)
    /\ PipeFds \subseteq Nat /\ PipeFiles \subseteq Nat /\ NoPipe \notin PipeFiles
    /\ NoPipe \notin PipeRecords
ASSUME WidthAssumption ==
    /\ PIPESIZE \in Nat \ {0} /\ Width \in Nat /\ Width > PIPESIZE
    /\ Width % PIPESIZE = 0

VARIABLES
    ptable,    \* ftable.files: ref, the end of a pipe
    pfds,      \* per process: its descriptors
    pipes,     \* the pipes made so far, NoPipe once freed
    sent,      \* history: what was written to each pipe
    taken,     \* history: what was read from it
    astray     \* history: sys_pipe2 has left a descriptor of a file that it closed

pipeVars == <<ptable, pfds, pipes, sent, taken, astray>>

Shut == [ref |-> 0, pipe |-> 0, writable |-> FALSE]

PipesInit ==
    /\ ptable = [f \in PipeFiles |-> Shut]
    /\ pfds = [u \in Users |-> [d \in PipeFds |-> NoPipe]]
    /\ pipes = <<>>
    /\ sent = <<>>
    /\ taken = <<>>
    /\ astray = FALSE

-----------------------------------------------------------------------------
(* sys_pipe2 *)

Least(S) == CHOOSE x \in S : \A y \in S : x <= y
NoRef == {f \in PipeFiles : ptable[f].ref = 0}
NoFile(u) == {d \in PipeFds : pfds[u][d] = NoPipe}

EmptyPipe == [nread |-> 0, nwrite |-> 0, data |-> [i \in 0 .. PIPESIZE - 1 |-> 0],
              readopen |-> TRUE, writeopen |-> TRUE, stuck |-> FALSE]

\* pipeAlloc and fdalloc succeed.
Pipe2(u) ==
    LET f0 == Least(NoRef)
        f1 == Least(NoRef \ {f0})
        d0 == Least(NoFile(u))
        d1 == Least(NoFile(u) \ {d0})
        k == Len(pipes) + 1
    IN /\ Cardinality(NoRef) >= 2 /\ Cardinality(NoFile(u)) >= 2 /\ Len(pipes) < MaxPipes
       /\ ptable' = [ptable EXCEPT ![f0] = [ref |-> 1, pipe |-> k, writable |-> FALSE],
                                   ![f1] = [ref |-> 1, pipe |-> k, writable |-> TRUE]]
       /\ pfds' = [pfds EXCEPT ![u][d0] = f0, ![u][d1] = f1]
       /\ pipes' = Append(pipes, EmptyPipe)
       /\ sent' = Append(sent, <<>>)
       /\ taken' = Append(taken, <<>>)
       /\ UNCHANGED astray

\* There is a descriptor for the one end only: both files are closed and the
\* pipe is freed, and the descriptor of the read end is left as it is.
Pipe2Fails(u) ==
    LET f0 == Least(NoRef)
        d0 == Least(NoFile(u))
    IN /\ Cardinality(NoRef) >= 2 /\ Cardinality(NoFile(u)) = 1
       /\ pfds' = [pfds EXCEPT ![u][d0] = f0]
       /\ astray' = TRUE
       /\ UNCHANGED <<ptable, pipes, sent, taken>>

-----------------------------------------------------------------------------
(* dup, close *)

PipeDup(u, d) ==
    LET f == pfds[u][d] IN
    /\ f # NoPipe /\ NoFile(u) # {}
    /\ pfds' = [pfds EXCEPT ![u][Least(NoFile(u))] = f]
    /\ ptable' = [ptable EXCEPT ![f].ref = @ + 1]
    /\ UNCHANGED <<pipes, sent, taken, astray>>

\* pipeClose clears the flag of the end that is closed,
Closing(p, w) == [p EXCEPT !.writeopen = @ /\ ~ w, !.readopen = @ /\ w]

\* Mutant of AfterClose: freed as soon as one end is closed.
FreedEarly(p) == NoPipe

\* and frees the pipe when both ends are closed.
AfterClose(p) == IF ~ p.readopen /\ ~ p.writeopen THEN NoPipe ELSE p

\* The pipe behind a file is there, and its lock is free.
Lockable(f) == ptable[f].pipe # 0 /\ pipes[ptable[f].pipe] # NoPipe /\ ~ pipes[ptable[f].pipe].stuck

\* close, file_close, and pipeClose with the last reference.
PipeClose(u, d) ==
    LET f == pfds[u][d]
        k == ptable[f].pipe
    IN /\ f # NoPipe
       /\ pfds' = [pfds EXCEPT ![u][d] = NoPipe]
       /\ IF ptable[f].ref # 1 \/ k = 0
          THEN ptable' = [ptable EXCEPT ![f].ref = @ - 1] /\ UNCHANGED pipes
          ELSE /\ Lockable(f)
               /\ ptable' = [ptable EXCEPT ![f] = Shut]
               /\ pipes' = [pipes EXCEPT ![k] =
                     AfterClose(Closing(@, ptable[f].writable))]
       /\ UNCHANGED <<sent, taken, astray>>

-----------------------------------------------------------------------------
(* read, write *)

\* The descriptor is an end of a pipe whose lock is free.
Usable(u, d, writable) ==
    /\ pfds[u][d] # NoPipe
    /\ ptable[pfds[u][d]].writable = writable
    /\ Lockable(pfds[u][d])

\* Mutant of Room: the counters are compared as numbers that do not wrap.
RoomUnwrapped(p) == p.nread + PIPESIZE - p.nwrite

\* How many bytes can be written until nwrite == nread + PIPESIZE in u32.
Room(p) == (p.nread + PIPESIZE - p.nwrite) % Width

Waiting(p) == (p.nwrite - p.nread) % Width

\* The place of the i-th byte from counter n on.
Cell(n, i) == ((n + i) % Width) % PIPESIZE

\* The buffer once the bytes are stored from counter w on.
Stored(data, w, bytes) ==
    LET pos == 0 .. Len(bytes) - 1
    IN  [c \in DOMAIN data |->
            IF c \in {Cell(w, i) : i \in pos} THEN bytes[(CHOOSE i \in pos : Cell(w, i) = c) + 1]
            ELSE data[c]]

\* What pipeWrite of n bytes makes of a pipe that has room for the given ones.
AfterWrite(p, bytes, n) ==
    [p EXCEPT !.data = Stored(@, p.nwrite, bytes),
              !.nwrite = (@ + Len(bytes)) % Width,
              !.stuck = (Len(bytes) < n)]

\* The bytes of a write of n that fit, after l bytes: all of them are different.
Fitting(p, n, l) == [i \in 1 .. (IF n <= Room(p) THEN n ELSE Room(p)) |-> l + i]

\* pipeWrite of n bytes: nothing if no reader is left; otherwise what fits,
\* and the process waits if that is not all.
PipeWrite(u, d, n) ==
    LET k == ptable[pfds[u][d]].pipe
        bytes == Fitting(pipes[k], n, Len(sent[k]))
    IN /\ Usable(u, d, TRUE)
       /\ pipes[k].readopen
       /\ Len(sent[k]) + n <= MaxBytes
       /\ pipes' = [pipes EXCEPT ![k] = AfterWrite(@, bytes, n)]
       /\ sent' = [sent EXCEPT ![k] = @ \o bytes]
       /\ UNCHANGED <<ptable, pfds, taken, astray>>

\* What pipeRead of n bytes makes of a pipe from which it has taken m.
AfterRead(p, m, n) ==
    [p EXCEPT !.nread = (@ + m) % Width, !.stuck = (m < n /\ p.writeopen)]

\* The bytes that a read of n takes.
Available(p, n) ==
    [i \in 1 .. (IF n <= Waiting(p) THEN n ELSE Waiting(p)) |-> p.data[Cell(p.nread, i - 1)]]

\* pipeRead of n bytes: what is there, and the process waits if that is not
\* all and a writer is left.
PipeRead(u, d, n) ==
    LET k == ptable[pfds[u][d]].pipe
        bytes == Available(pipes[k], n)
    IN /\ Usable(u, d, FALSE)
       /\ pipes' = [pipes EXCEPT ![k] = AfterRead(@, Len(bytes), n)]
       /\ taken' = [taken EXCEPT ![k] = @ \o bytes]
       /\ UNCHANGED <<ptable, pfds, sent, astray>>

PipesNext ==
    \E u \in Users :
        \/ Pipe2(u) \/ Pipe2Fails(u)
        \/ \E d \in PipeFds :
             \/ PipeDup(u, d) \/ PipeClose(u, d)
             \/ \E n \in 1 .. PIPESIZE + 1 : PipeWrite(u, d, n) \/ PipeRead(u, d, n)

PipesSpec == PipesInit /\ [][PipesNext]_pipeVars

-----------------------------------------------------------------------------
(* Properties *)

\* What is read from a pipe is what was written to it, in that order and
\* without loss, and the rest is in the buffer; also when the counters have
\* passed 2^32.
PipeIsFifo ==
    \A k \in DOMAIN pipes :
        /\ Len(taken[k]) <= Len(sent[k])
        /\ taken[k] = SubSeq(sent[k], 1, Len(taken[k]))
        /\ pipes[k] # NoPipe =>
              /\ Waiting(pipes[k]) = Len(sent[k]) - Len(taken[k])
              /\ \A i \in 0 .. Waiting(pipes[k]) - 1 :
                    pipes[k].data[Cell(pipes[k].nread, i)] = sent[k][Len(taken[k]) + i + 1]

\* A pipe knows which of its ends a file refers to, and is freed when none
\* does: never while a descriptor leads to it.  Unless sys_pipe2 failed.
EndsAreKnown ==
    ~ astray => \A k \in DOMAIN pipes :
        LET open(w) == \E f \in PipeFiles :
                /\ ptable[f].ref > 0 /\ ptable[f].pipe = k /\ ptable[f].writable = w
        IN  IF pipes[k] = NoPipe THEN ~ open(TRUE) /\ ~ open(FALSE)
            ELSE pipes[k].readopen = open(FALSE) /\ pipes[k].writeopen = open(TRUE)
=============================================================================
