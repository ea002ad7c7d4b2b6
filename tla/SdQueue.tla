------------------------------ MODULE SdQueue ------------------------------
(***************************************************************************)
(* The SD card driver (driver/sd.c) behind fs/block_device.c: requests wait *)
(* in buf_queue, the card answers with an interrupt.  The block cache holds *)
(* the sleep lock of a block during a call, so no two calls are about the   *)
(* same block.  The semaphore of a request is never initialised             *)
(* (block_device.c:11, 25): its lock, its value and its list are what the   *)
(* stack holds.  A call that returns before its request was served leaves a *)
(* pointer to its stack in the queue; what the card does to that memory     *)
(* afterwards is not modelled: the caller stops there, and no call begins   *)
(* once requests are tangled.                                               *)
(***************************************************************************)
EXTENDS Integers, Sequences

CONSTANTS
    Callers,
    SdBlocks,
    Words,      \* the contents of a block
    Zero,       \* the contents of every block at first, one of Words
    Junk        \* the contents of a buffer that nobody has filled

VARIABLES
    where,      \* per caller: "out", "pushed", "waiting", "returned", "lost"
    buf,        \* per caller: the struct buf on its stack; its semaphore done
                \* is one of Stack
    queue,      \* buf_queue
    card,       \* the command the card works on, and EMMC_INTERRUPT
    platter,    \* what is on the card
    handler,    \* "none", or sd_intr holds sdlock: "tail", it has answered;
                \* "stuck", it spins for ever on the lock of a semaphore
    tangled     \* history: a call met a queue that was not empty, sd_start a busy
                \* card, the list of a semaphore was not one, or the card answered
                \* a request whose buffer was gone

sdVars == <<where, buf, queue, card, platter, handler, tangled>>

\* A semaphore as the stack may hold it: of value 0 or above 0, its lock free;
\* with its lock taken; or with a list that leads anywhere.
Stack == {"empty", "unit", "held", "wild"}

Quiet == [op |-> "none", block |-> Zero, data |-> Junk, irq |-> "none"]

SdInit ==
    /\ where = [p \in Callers |-> "out"]
    /\ buf = [p \in Callers |-> [block |-> Zero, dirty |-> FALSE, valid |-> FALSE,
                                 data |-> Junk, done |-> "empty"]]
    /\ queue = <<>>
    /\ card = Quiet
    /\ platter = [b \in SdBlocks |-> Zero]
    /\ handler = "none"
    /\ tangled = FALSE

\* A block whose sleep lock is free.
Unlocked(b) == \A p \in Callers : where[p] \in {"out", "lost"} \/ buf[p].block # b

\* sdrw up to the unlocking of the queue: without a request before it, the
\* caller goes on to start its own, otherwise it returns.
SdRw(p, r) ==
    /\ where[p] = "out" /\ Unlocked(r.block) /\ ~ tangled
    /\ buf' = [buf EXCEPT ![p] = r]
    /\ queue' = Append(queue, p)
    /\ where' = [where EXCEPT ![p] = IF queue = <<>> THEN "pushed" ELSE "returned"]
    /\ tangled' = (queue # <<>>)
    /\ UNCHANGED <<card, platter, handler>>

\* sd_read and sd_write: the request, with a semaphore of Stack.
ReadOf(b, done) ==
    [block |-> b, dirty |-> FALSE, valid |-> FALSE, data |-> Junk, done |-> done]
WriteOf(b, w, done) ==
    [block |-> b, dirty |-> TRUE, valid |-> TRUE, data |-> w, done |-> done]

\* sd_start
Started(r) ==
    [op |-> IF r.dirty THEN "write" ELSE "read", block |-> r.block,
     data |-> IF r.dirty THEN r.data ELSE Junk, irq |-> "none"]

\* The rest of sdrw: with sdlock held.
SdStart(p) ==
    /\ where[p] = "pushed" /\ handler = "none"
    /\ card' = Started(buf[p])
    /\ where' = [where EXCEPT ![p] = "waiting"]
    /\ tangled' = (tangled \/ card.op # "none")
    /\ UNCHANGED <<buf, queue, platter, handler>>

\* wait_sem(&b->done) finds a unit, posted or left by the stack.  A lock that
\* the stack has left taken is never released.
SdWait(p) ==
    /\ where[p] = "waiting" /\ buf[p].done = "unit"
    /\ buf' = [buf EXCEPT ![p].done = "empty"]
    /\ where' = [where EXCEPT ![p] = "returned"]
    /\ UNCHANGED <<queue, card, platter, handler, tangled>>

\* A killed caller leaves wait_sem without a unit.
SdAlerted(p) ==
    /\ where[p] = "waiting" /\ buf[p].done = "empty"
    /\ where' = [where EXCEPT ![p] = "returned"]
    /\ UNCHANGED <<buf, queue, card, platter, handler, tangled>>

\* The caller is linked into a list that leads anywhere.
SdAstray(p) ==
    /\ where[p] = "waiting" /\ buf[p].done = "wild"
    /\ where' = [where EXCEPT ![p] = "lost"]
    /\ tangled' = TRUE
    /\ UNCHANGED <<buf, queue, card, platter, handler>>

\* sd_read and sd_write return.
SdReturn(p) ==
    /\ where[p] = "returned"
    /\ where' = [where EXCEPT ![p] =
          IF \E i \in DOMAIN queue : queue[i] = p THEN "lost" ELSE "out"]
    /\ UNCHANGED <<buf, queue, card, platter, handler, tangled>>

-----------------------------------------------------------------------------
\* The card has the data of a read, or has stored those of a write.
CardDone ==
    /\ card.op # "none" /\ card.irq = "none"
    /\ IF card.op = "read"
       THEN card' = [card EXCEPT !.irq = "read_rdy", !.data = platter[card.block]]
            /\ UNCHANGED platter
       ELSE card' = [card EXCEPT !.irq = "data_done"]
            /\ platter' = [platter EXCEPT ![card.block] = card.data]
    /\ UNCHANGED <<where, buf, queue, handler, tangled>>

\* Mutant of Answered: the data are not copied.
AnsweredBlind(r) ==
    IF r.dirty THEN [r EXCEPT !.dirty = FALSE] ELSE [r EXCEPT !.valid = TRUE]

\* The first request after its interrupt.
Answered(r) ==
    IF r.dirty THEN [r EXCEPT !.dirty = FALSE]
    ELSE [r EXCEPT !.data = card.data, !.valid = TRUE]

\* post_sem(&b->done), when the lock is free and the list is one
Posted(r) == IF r.done = "empty" THEN [r EXCEPT !.done = "unit"] ELSE r

\* sd_intr up to post_sem.  The interrupt fits the first request, or it is
\* cleared and a read whose interrupt was one of a write starts again, with
\* EMMC_INTERRUPT cleared once more: a fast card loses its interrupt.
SdIntr ==
    LET p == Head(queue)
        r == buf[p]
        fits == /\ queue # <<>>
                /\ card.irq = IF r.dirty THEN "data_done" ELSE "read_rdy"
                /\ r.dirty \/ ~ r.valid
        again == queue # <<>> /\ ~ fits /\ card.irq = "data_done" /\ ~ r.valid
    IN  /\ card.irq # "none" /\ handler = "none"
        /\ card' \in (IF again THEN {Started(r), Quiet} ELSE {Quiet})
        /\ buf' = IF fits THEN [buf EXCEPT ![p] = Posted(Answered(@))] ELSE buf
        /\ queue' = IF fits THEN Tail(queue) ELSE queue
        /\ handler' = IF ~ fits THEN "none" ELSE IF r.done = "held" THEN "stuck" ELSE "tail"
        /\ tangled' = (tangled \/ (fits /\ (where[p] = "lost" \/ r.done = "wild")))
        /\ UNCHANGED <<where, platter>>

\* The rest of sd_intr: the next request starts, and EMMC_INTERRUPT is cleared
\* once more, which loses the interrupt of a fast card.
SdIntrTail ==
    LET r == buf[Head(queue)]
    IN  /\ handler = "tail"
        /\ handler' = "none"
        /\ \/ queue = <<>> /\ UNCHANGED <<card, platter, tangled>>
           \/ /\ queue # <<>> /\ tangled' = TRUE
              /\ \/ card' = Started(r) /\ UNCHANGED platter
                 \/ /\ card' = Quiet
                    /\ platter' = IF r.dirty THEN [platter EXCEPT ![r.block] = r.data]
                                  ELSE platter
        /\ UNCHANGED <<where, buf, queue>>

SdNext ==
    \/ \E p \in Callers :
         \/ SdStart(p) \/ SdWait(p) \/ SdAlerted(p) \/ SdAstray(p) \/ SdReturn(p)
         \/ \E b \in SdBlocks, done \in Stack :
              \/ SdRw(p, ReadOf(b, done))
              \/ \E w \in Words : SdRw(p, WriteOf(b, w, done))
    \/ CardDone \/ SdIntr \/ SdIntrTail

SdSpec == SdInit /\ [][SdNext]_sdVars

-----------------------------------------------------------------------------
(* Properties *)

\* As long as requests have not met each other: a buffer whose flags say that
\* its request was served holds the block as it is on the card, from the answer
\* (sd_intr) until sd_read or sd_write returns, whatever the stack has left in
\* the semaphore and whether or not the caller is killed.
SdIsFaithful ==
    \A p \in Callers :
        where[p] \in {"waiting", "returned"} /\ buf[p].valid /\ ~ buf[p].dirty /\ ~ tangled
            => buf[p].data = platter[buf[p].block]

\* sdrw returns when the flags of the buffer were modified: a read block is
\* valid, a written one is no longer dirty.
SdrwWaits ==
    \A p \in Callers : where[p] = "returned" => buf[p].valid /\ ~ buf[p].dirty
=============================================================================
