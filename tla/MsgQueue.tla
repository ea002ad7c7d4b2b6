------------------------------ MODULE MsgQueue ------------------------------
(***************************************************************************)
(* System V style message queues (common/ipc.c).  Everything happens under  *)
(* msg_ids.lock, and a process that goes to sleep takes the scheduler's     *)
(* lock before it gives that lock up (see SleepWake), so a critical section *)
(* is one step.  A message and a receiver are handed over by pointer: the   *)
(* sender writes r_msg on the stack of a sleeping receiver.  Alerts (kill)  *)
(* are left out.                                                            *)
(***************************************************************************)
EXTENDS KList, FiniteSets

CONSTANTS
    Procs,      \* processes
    Keys,       \* keys of msgget other than IPC_PRIVATE
    Slots,      \* msg_ids.size
    SeqMod,     \* how many values msg_ids.seq has, 2^16
    MaxMsg,     \* MAX_MSGNUM
    Types,      \* types of messages
    Requests,   \* mtypes that receivers ask for: any, one, or at most
    Sizes,      \* sizes of messages and of receivers' buffers
    MaxQueues,  \* bound: how many queues are created
    MaxSends,   \* bound: how many messages each process sends
    NULL, Wild  \* the null pointer; a pointer nobody has set

IPC_PRIVATE == 0

\* struct msg_msg, with its sender and the queue it was sent to; struct msg_queue.
Message == [from : Procs, n : 1 .. MaxSends, gen : 1 .. MaxQueues, type : Types, size : Sizes]
Queue == [key : Keys \cup {IPC_PRIVATE}, seq : 0 .. SeqMod - 1, sum : 0 .. MaxMsg,
          messages : Seq(Message), senders : Seq(Procs), receivers : Seq(Procs)]

ASSUME BoundAssumption ==
    /\ Slots \in Nat \ {0} /\ SeqMod \in Nat \ {0} /\ MaxMsg \in Nat \ {0}
    /\ MaxQueues \in Nat /\ MaxSends \in Nat /\ IsFiniteSet(Procs)
ASSUME TypeAssumption == Types \subseteq Nat \ {0} /\ Sizes \subseteq Nat /\ Requests \subseteq Int
ASSUME PointerAssumption ==
    /\ NULL \notin Message /\ NULL \notin Queue /\ NULL \notin Procs
    /\ Wild \notin Message /\ Wild # NULL

VARIABLES
    entries,   \* msg_ids.entries
    seq,       \* msg_ids.seq
    inUse,     \* msg_ids.in_use
    held,      \* msg_ids.lock is held for ever
    pc,        \* where each process is in ipc.c
    call,      \* the arguments of its call
    rmsg,      \* receiver.r_msg, found_msg
    live,      \* the messages that are allocated
    count,     \* how many messages each process has sent
    slots      \* history: the slot of every queue ever made

table == <<entries, seq, inUse, slots>>
vars == <<entries, seq, inUse, held, pc, call, rmsg, live, count, slots>>

\* The ids that msgget has returned, by the number of the queue they stand
\* for: ipc_buildin(slot, seq).
Made == 1 .. Len(slots)
Id(g) == [slot |-> slots[g], seq |-> (g - 1) % SeqMod]

Idle == [gen |-> 0]

Init ==
    /\ entries = [i \in 0 .. Slots - 1 |-> NULL]
    /\ seq = 0
    /\ inUse = 0
    /\ held = FALSE
    /\ pc = [p \in Procs |-> "idle"]
    /\ call = [p \in Procs |-> Idle]
    /\ rmsg = [p \in Procs |-> Wild]
    /\ live = {}
    /\ count = [p \in Procs |-> 0]
    /\ slots = <<>>

-----------------------------------------------------------------------------
(* msgget *)

Used == {i \in DOMAIN entries : entries[i] # NULL}

\* newque: the first free slot; no queue if there is none (ENOSEQ).
NewQue(key) ==
    LET free == DOMAIN entries \ Used
        i == CHOOSE j \in free : \A k \in free : j <= k
    IN  IF free = {} THEN UNCHANGED table
        ELSE /\ entries' = [entries EXCEPT ![i] =
                   [key |-> key, seq |-> seq, sum |-> 0,
                    messages |-> <<>>, senders |-> <<>>, receivers |-> <<>>]]
             /\ seq' = (seq + 1) % SeqMod
             /\ inUse' = inUse + 1
             /\ slots' = Append(slots, i)

\* sys_msgget: a new queue, or the id of one that is there, or an error.
MsgGet(p, key, create) ==
    /\ pc[p] = "idle" /\ ~ held /\ Len(slots) < MaxQueues
    /\ IF \/ key = IPC_PRIVATE
          \/ create /\ \A i \in Used : entries[i].key # key
       THEN NewQue(key)
       ELSE UNCHANGED table
    /\ UNCHANGED <<held, pc, call, rmsg, live, count>>

\* Mutant of GetMsgq: the sequence number is not compared.
AnyQueue(id) == IF entries[id.slot] = NULL THEN -1 ELSE id.slot

\* get_msgq: the slot that the id names, if its queue is still there; or -1.
GetMsgq(id) ==
    IF entries[id.slot] = NULL \/ entries[id.slot].seq # id.seq THEN -1 ELSE id.slot

-----------------------------------------------------------------------------
(* msgsnd *)

TestMsg(rqtype, type) ==
    IF rqtype = 0 THEN TRUE ELSE IF rqtype < 0 THEN rqtype + type <= 0 ELSE rqtype = type

\* A call of sys_msgsnd, with load_msg.
CallSnd(p, g, type, size) ==
    LET m == [from |-> p, n |-> count[p] + 1, gen |-> g, type |-> type, size |-> size] IN
    /\ pc[p] = "idle" /\ count[p] < MaxSends
    /\ live' = live \cup {m}
    /\ count' = [count EXCEPT ![p] = @ + 1]
    /\ call' = [call EXCEPT ![p] = [gen |-> g, msg |-> m]]
    /\ pc' = [pc EXCEPT ![p] = "send"]
    /\ UNCHANGED <<table, held, rmsg>>

\* free_msg, and an error is returned.
SndFails(p) ==
    /\ live' = live \ {call[p].msg}
    /\ call' = [call EXCEPT ![p] = Idle]
    /\ pc' = [pc EXCEPT ![p] = "idle"]
    /\ UNCHANGED <<table, held, rmsg, count>>

Full(i) == entries[i].sum + 1 > MaxMsg

\* The process links a msg_sender and sleeps until ss_wakeup.
SndSleeps(p, i) ==
    /\ entries' = [entries EXCEPT ![i].senders = Append(@, p)]
    /\ pc' = [pc EXCEPT ![p] = "snd_sleep"]
    /\ UNCHANGED <<seq, inUse, slots, held, call, rmsg, live, count>>

\* The receiver to which pipeline_send comes first; NULL if there is none.
Receiver(i, m) ==
    LET s == entries[i].receivers
        fits == {j \in DOMAIN s : TestMsg(call[s[j]].type, m.type)}
    IN  IF fits = {} THEN NULL ELSE s[CHOOSE j \in fits : \A k \in fits : j <= k]

\* No receiver waits for the message: it is queued.
SndQueues(p, i) ==
    /\ entries' = [entries EXCEPT ![i].messages = Append(@, call[p].msg),
                                  ![i].sum = @ + 1]
    /\ call' = [call EXCEPT ![p] = Idle]
    /\ pc' = [pc EXCEPT ![p] = "idle"]
    /\ UNCHANGED <<seq, inUse, slots, held, rmsg, live, count>>

\* pipeline_send finds a receiver, unlinks it, sets r_msg and wakes it.  If
\* the message is too big for it, the loop stays at the node that it has just
\* unlinked, with the lock held.
SndPipes(p, i) ==
    LET m == call[p].msg
        r == Receiver(i, m)
        big == m.size > call[r].size
    IN /\ entries' = [entries EXCEPT ![i].receivers = Detach(@, r)]
       /\ rmsg' = [rmsg EXCEPT ![r] = IF big THEN NULL ELSE m]
       /\ pc' = [pc EXCEPT ![r] = "received", ![p] = IF big THEN "hung" ELSE "idle"]
       /\ call' = IF big THEN call ELSE [call EXCEPT ![p] = Idle]
       /\ held' = big
       /\ UNCHANGED <<seq, inUse, slots, live, count>>

\* One turn of sys_msgsnd's retry loop; only the first can be IPC_NOWAIT.
MsgSnd(p) ==
    LET i == GetMsgq(Id(call[p].gen)) IN
    /\ pc[p] \in {"send", "resend"} /\ ~ held
    /\ IF i = -1 THEN SndFails(p)
       ELSE IF Full(i)
       THEN SndSleeps(p, i) \/ (pc[p] = "send" /\ SndFails(p))
       ELSE IF Receiver(i, call[p].msg) = NULL THEN SndQueues(p, i)
       ELSE SndPipes(p, i)

-----------------------------------------------------------------------------
(* msgrcv *)

\* Mutant of FoundMsg: the search goes on to the last message that fits.
LastMsg(s, mtype) ==
    LET fits == {i \in DOMAIN s : TestMsg(mtype, s[i].type)} IN
    IF fits = {} THEN 0 ELSE CHOOSE i \in fits : \A j \in fits : j <= i

\* One message of the list in the search of sys_msgrcv.  A negative type goes
\* up by one with every message found.
SearchStep(x, i, type) ==
    IF x.stop \/ ~ TestMsg(x.type, type) THEN x
    ELSE IF x.type < -1 THEN [at |-> i, type |-> x.type + 1, stop |-> FALSE]
    ELSE [at |-> i, type |-> x.type, stop |-> TRUE]

\* The search after each of the messages of s.
Search(s, mtype) ==
    LET f[i \in 0 .. Len(s)] ==
          IF i = 0 THEN [at |-> 0, type |-> mtype, stop |-> FALSE]
          ELSE SearchStep(f[i - 1], i, s[i].type)
    IN  f

\* The message that the search in sys_msgrcv ends with: its index, or 0.
FoundMsg(s, mtype) == Search(s, mtype)[Len(s)].at

\* ss_wakeup(&msgq->q_sender): every sleeping sender tries again.
SenderAwake(i) == [p \in Procs |-> IF p \in Members(entries[i].senders) THEN "resend" ELSE pc[p]]

\* Mutant of RcvTakes: the senders are not woken.
RcvTakesQuietly(p, i, k) ==
    /\ entries' = [entries EXCEPT ![i].messages = Without(@, k), ![i].sum = @ - 1]
    /\ pc' = [pc EXCEPT ![p] = "received"]
    /\ rmsg' = [rmsg EXCEPT ![p] = entries[i].messages[k]]
    /\ UNCHANGED <<seq, inUse, slots, held, live, count>>

\* A message is taken off the queue.
RcvTakes(p, i, k) ==
    /\ entries' = [entries EXCEPT ![i].messages = Without(@, k), ![i].sum = @ - 1,
                                  ![i].senders = <<>>]
    /\ pc' = [SenderAwake(i) EXCEPT ![p] = "received"]
    /\ rmsg' = [rmsg EXCEPT ![p] = entries[i].messages[k]]
    /\ UNCHANGED <<seq, inUse, slots, held, live, count>>

\* The process links a msg_receiver, r_msg not set, and sleeps.
RcvSleeps(p, i) ==
    /\ entries' = [entries EXCEPT ![i].receivers = Append(@, p)]
    /\ pc' = [pc EXCEPT ![p] = "rcv_sleep"]
    /\ rmsg' = [rmsg EXCEPT ![p] = Wild]
    /\ UNCHANGED <<seq, inUse, slots, held, live, count>>

\* sys_msgrcv up to the release of the lock.  What returns an error (EIDRM,
\* E2BIG, ENOMSG with IPC_NOWAIT) changes nothing and is no step.
MsgRcv(p, g, type, size) ==
    LET i == GetMsgq(Id(g))
        s == entries[i].messages
        k == FoundMsg(s, type)
    IN /\ pc[p] = "idle" /\ ~ held
       /\ i # -1
       /\ k # 0 => s[k].size <= size
       /\ call' = [call EXCEPT ![p] = [gen |-> g, type |-> type, size |-> size]]
       /\ IF k # 0 THEN RcvTakes(p, i, k) ELSE RcvSleeps(p, i)

\* The rest of sys_msgrcv, without the lock: store_msg and free_msg; E2BIG
\* if r_msg is NULL; anything if nobody has set r_msg.
Store(p) ==
    /\ pc[p] = "received"
    /\ live' = live \ {rmsg[p]}
    /\ pc' = [pc EXCEPT ![p] = IF rmsg[p] = Wild THEN "undefined" ELSE "idle"]
    /\ call' = [call EXCEPT ![p] = Idle]
    /\ rmsg' = [rmsg EXCEPT ![p] = Wild]
    /\ UNCHANGED <<table, held, count>>

-----------------------------------------------------------------------------
(* msgctl *)

\* Mutant of MsgCtl: the messages are not freed.
MsgCtlLeaks(p, g) ==
    LET i == GetMsgq(Id(g)) IN
    /\ pc[p] = "idle" /\ ~ held
    /\ i # -1
    /\ entries' = [entries EXCEPT ![i] = NULL]
    /\ inUse' = inUse - 1
    /\ \E x \in [Members(entries[i].receivers) -> {NULL, Wild}] :
          rmsg' = [q \in Procs |-> IF q \in DOMAIN x THEN x[q] ELSE rmsg[q]]
    /\ pc' = [q \in Procs |-> IF q \in Members(entries[i].receivers) THEN "received" ELSE pc[q]]
    /\ UNCHANGED <<seq, slots, held, call, live, count>>

\* sys_msgctl(IPC_RMID), freeque: the queue and its messages are freed.  The
\* receivers are woken by ss_wakeup, which leaves r_msg as it is; expunge_all
\* then finds none; q_sender is not looked at.
MsgCtl(p, g) ==
    LET i == GetMsgq(Id(g)) IN
    /\ pc[p] = "idle" /\ ~ held
    /\ i # -1
    /\ entries' = [entries EXCEPT ![i] = NULL]
    /\ inUse' = inUse - 1
    /\ live' = live \ Members(entries[i].messages)
    /\ \E x \in [Members(entries[i].receivers) -> {NULL, Wild}] :
          rmsg' = [q \in Procs |-> IF q \in DOMAIN x THEN x[q] ELSE rmsg[q]]
    /\ pc' = [q \in Procs |-> IF q \in Members(entries[i].receivers) THEN "received" ELSE pc[q]]
    /\ UNCHANGED <<seq, slots, held, call, count>>

-----------------------------------------------------------------------------
Next ==
    \E p \in Procs :
        \/ \E key \in Keys \cup {IPC_PRIVATE}, create \in BOOLEAN : MsgGet(p, key, create)
        \/ \E g \in Made, type \in Types, size \in Sizes : CallSnd(p, g, type, size)
        \/ MsgSnd(p)
        \/ \E g \in Made, type \in Requests, size \in Sizes : MsgRcv(p, g, type, size)
        \/ Store(p)
        \/ \E g \in Made : MsgCtl(p, g)

Spec == Init /\ [][Next]_vars

-----------------------------------------------------------------------------
(* Properties *)

TypeOK ==
    /\ entries \in [0 .. Slots - 1 -> Queue \cup {NULL}]
    /\ seq \in 0 .. SeqMod - 1
    /\ inUse = Cardinality(Used)
    /\ held \in BOOLEAN
    /\ pc \in [Procs -> {"idle", "send", "resend", "snd_sleep", "rcv_sleep", "received",
                         "hung", "undefined"}]
    /\ \A p \in Procs : rmsg[p] \in Message \cup {NULL, Wild}
    /\ live \subseteq Message
    /\ count \in [Procs -> 0 .. MaxSends]
    /\ slots \in Seq(0 .. Slots - 1)

\* Where the messages are: with their senders, in queues, with receivers.
Pending == {p \in Procs : pc[p] \in {"send", "resend", "snd_sleep", "hung"}}
InHand == {p \in Procs : rmsg[p] \notin {NULL, Wild}}

\* Every allocated message is in exactly one place, with its sender, in one
\* queue, once, or in the hands of one receiver, and messages are nowhere else:
\* none is lost, delivered twice, leaked, or used after it was freed.
ExactlyOnce ==
    /\ live = {call[p].msg : p \in Pending} \cup {rmsg[p] : p \in InHand}
              \cup UNION {Members(entries[i].messages) : i \in Used}
    /\ Cardinality(live) = Cardinality(Pending) + Cardinality(InHand)
           + Cardinality(UNION {{i} \X DOMAIN entries[i].messages : i \in Used})

\* No lost wake-up: a receiver sleeps on a queue that holds nothing for it, a
\* sender that is linked to a queue sleeps because the queue is full.
NobodySleepsInVain ==
    /\ \A p \in Procs : pc[p] = "rcv_sleep" =>
          \E i \in Used : p \in Members(entries[i].receivers)
    /\ \A i \in Used :
          /\ entries[i].sum = Len(entries[i].messages)
          /\ entries[i].senders # <<>> => entries[i].sum = MaxMsg
          /\ \A p \in Members(entries[i].senders) : pc[p] = "snd_sleep"
          /\ \A p \in Members(entries[i].receivers) :
                /\ pc[p] = "rcv_sleep"
                /\ \A m \in Members(entries[i].messages) : ~ TestMsg(call[p].type, m.type)

\* The queue that is in slot i now.
Generation(i) == CHOOSE g \in Made : slots[g] = i /\ \A h \in Made : slots[h] = i => h <= g

\* An id reaches only the queue it was returned for, though slots are used
\* again and a sender looks its queue up again after every sleep; as long as
\* fewer than 2^16 queues were made.
IdsAreNotConfused ==
    \A i \in Used :
        /\ \A m \in Members(entries[i].messages) : m.gen = Generation(i)
        /\ \A p \in Members(entries[i].senders \o entries[i].receivers) :
              call[p].gen = Generation(i)

\* A receiver that names a type or takes any gets the oldest message of the
\* type it gets.
TakesOldest ==
    \A p \in Procs :
        (/\ pc[p] # "received" /\ pc'[p] = "received"
         /\ rmsg'[p] \notin {NULL, Wild} /\ call'[p].type >= -1) =>
            LET m == rmsg'[p]
                s == entries[slots[m.gen]].messages
            IN  \A k \in DOMAIN s : s[k].type = m.type =>
                    m \in Members(s) /\ Place(s, m) <= k

\* Messages of one type are received in the order in which they were queued,
\* by receivers that name a type or take any; a message that is handed over
\* directly overtakes none.
OldestFirst == [][TakesOldest]_vars

\* Removing a queue wakes its sleeping senders.
RemovalWakesSenders ==
    \A p \in Procs : pc[p] = "snd_sleep" =>
        \E i \in Used : p \in Members(entries[i].senders)
=============================================================================
