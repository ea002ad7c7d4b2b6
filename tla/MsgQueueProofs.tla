-------------------------- MODULE MsgQueueProofs --------------------------
(* What the message queues keep, for every number of processes and queues. *)
EXTENDS MsgQueue, KListTheorems, FiniteSetTheorems

-----------------------------------------------------------------------------
(* The search for a message. *)

SearchStart(mtype) == [at |-> 0, type |-> mtype, stop |-> FALSE]

\* f follows the search over the first n messages.
Follows(f, s, mtype, n) ==
    f = [i \in 0 .. n |->
            IF i = 0 THEN SearchStart(mtype) ELSE SearchStep(f[i - 1], i, s[i].type)]

LEMMA SearchExists ==
    ASSUME NEW s, NEW mtype, NEW l \in Nat
    PROVE  \E f : Follows(f, s, mtype, l)
<1> DEFINE S == {n \in Nat : ~ \E f : Follows(f, s, mtype, n)}
<1> SUFFICES ASSUME S # {} PROVE FALSE
  OBVIOUS
<1>1. PICK n \in S : \A j \in S : n <= j
  BY LeastExists
<1>2. n # 0
  <2>1. PICK f : f = [i \in 0 .. 0 |-> SearchStart(mtype)]
    OBVIOUS
  <2>2. f = [i \in 0 .. 0 |-> IF i = 0 THEN SearchStart(mtype) ELSE SearchStep(f[i - 1], i, s[i].type)]
    BY <2>1
  <2>3. Follows(f, s, mtype, 0)
    BY <2>2 DEF Follows
  <2> QED
    BY <2>3
<1>3. n \in Nat /\ n - 1 \in Nat /\ n - 1 \notin S
  BY <1>1, <1>2
<1>4. PICK f : Follows(f, s, mtype, n - 1)
  BY <1>3
<1>5. PICK e : e = SearchStep(f[n - 1], n, s[n].type)
  OBVIOUS
<1>6. PICK g : g = [i \in 0 .. n |-> IF i = n THEN e ELSE f[i]]
  OBVIOUS
<1>7. \A i \in 0 .. n - 1 : g[i] = f[i]
  BY <1>3, <1>6
<1>8. ASSUME NEW i \in 0 .. n
      PROVE  g[i] = IF i = 0 THEN SearchStart(mtype) ELSE SearchStep(g[i - 1], i, s[i].type)
  <2>1. CASE i = n
    <3>1. g[i] = e /\ g[i - 1] = f[i - 1]
      BY <1>3, <1>6, <1>7, <2>1
    <3> QED
      BY <1>2, <1>5, <2>1, <3>1
  <2>2. CASE i # n
    <3>1. i \in 0 .. n - 1 /\ g[i] = f[i]
      BY <1>3, <1>6, <2>2
    <3>2. f[i] = IF i = 0 THEN SearchStart(mtype) ELSE SearchStep(f[i - 1], i, s[i].type)
      BY <1>4, <3>1 DEF Follows
    <3>3. i # 0 => g[i - 1] = f[i - 1]
      BY <1>3, <1>7, <3>1
    <3> QED
      BY <3>1, <3>2, <3>3
  <2> QED
    BY <2>1, <2>2
<1>9. Follows(g, s, mtype, n)
  BY <1>6, <1>8 DEF Follows
<1> QED
  BY <1>1, <1>9

LEMMA SearchFact ==
    ASSUME NEW s, NEW mtype, Len(s) \in Nat
    PROVE  /\ Search(s, mtype)[0] = SearchStart(mtype)
           /\ \A i \in 1 .. Len(s) :
                 Search(s, mtype)[i] = SearchStep(Search(s, mtype)[i - 1], i, s[i].type)
<1>1. \E f : Follows(f, s, mtype, Len(s))
  BY SearchExists
<1>2. \E f : f = [i \in 0 .. Len(s) |-> IF i = 0 THEN [at |-> 0, type |-> mtype, stop |-> FALSE]
                                          ELSE SearchStep(f[i - 1], i, s[i].type)]
  BY <1>1 DEF Follows, SearchStart
<1>3. Search(s, mtype) = [i \in 0 .. Len(s) |->
             IF i = 0 THEN [at |-> 0, type |-> mtype, stop |-> FALSE]
             ELSE SearchStep(Search(s, mtype)[i - 1], i, s[i].type)]
  BY <1>2 DEF Search
<1>4. PICK g : g = Search(s, mtype)
  OBVIOUS
<1>5. g = [i \in 0 .. Len(s) |->
             IF i = 0 THEN SearchStart(mtype) ELSE SearchStep(g[i - 1], i, s[i].type)]
  BY <1>3, <1>4 DEF SearchStart
<1>6. g[0] = SearchStart(mtype)
  <2>1. 0 \in 0 .. Len(s)
    OBVIOUS
  <2> QED
    BY <1>5, <2>1
<1>7. ASSUME NEW i \in 1 .. Len(s) PROVE g[i] = SearchStep(g[i - 1], i, s[i].type)
  <2>1. i \in 0 .. Len(s) /\ i # 0
    OBVIOUS
  <2> QED
    BY <1>5, <2>1
<1> QED
  BY <1>4, <1>6, <1>7

\* The search after i messages: it has found none that fits, or, unless the
\* type is below -1, it has stopped at the first.
Searched(x, i, s, mtype) ==
    /\ x.at \in 0 .. i
    /\ x.at = 0 => /\ x = SearchStart(mtype)
                   /\ \A j \in 1 .. i : ~ TestMsg(mtype, s[j].type)
    /\ mtype >= -1 /\ x.at # 0 => /\ x.stop /\ TestMsg(mtype, s[x.at].type)
                                  /\ \A j \in 1 .. x.at - 1 : ~ TestMsg(mtype, s[j].type)

LEMMA SearchedNext ==
    ASSUME NEW s, NEW mtype \in Int, NEW i \in Nat, i > 0, NEW x, Searched(x, i - 1, s, mtype)
    PROVE  Searched(SearchStep(x, i, s[i].type), i, s, mtype)
<1>1. PICK y : y = SearchStep(x, i, s[i].type)
  OBVIOUS
<1>2. \A j \in 1 .. i : j = i \/ j \in 1 .. i - 1
  OBVIOUS
<1>3. CASE x.at = 0
  <2>1. /\ x = SearchStart(mtype) /\ x.type = mtype /\ ~ x.stop
        /\ \A j \in 1 .. i - 1 : ~ TestMsg(mtype, s[j].type)
    BY <1>3 DEF Searched, SearchStart
  <2>2. CASE ~ TestMsg(mtype, s[i].type)
    <3>1. y = x
      BY <1>1, <2>1, <2>2 DEF SearchStep
    <3>2. \A j \in 1 .. i : ~ TestMsg(mtype, s[j].type)
      BY <1>2, <2>1, <2>2
    <3> QED
      BY <1>1, <1>3, <2>1, <3>1, <3>2 DEF Searched
  <2>3. CASE TestMsg(mtype, s[i].type)
    <3>1. y.at = i /\ (mtype >= -1 => y.stop)
      BY <1>1, <2>1, <2>3 DEF SearchStep
    <3>2. i # 0 /\ i \in 0 .. i
      OBVIOUS
    <3> QED
      BY <1>1, <2>1, <2>3, <3>1, <3>2 DEF Searched
  <2> QED
    BY <2>2, <2>3
<1>4. CASE x.at # 0
  <2>1. x.at \in 0 .. i - 1
    BY DEF Searched
  <2>2. CASE mtype >= -1
    <3>1. y = x
      BY <1>1, <1>4, <2>2 DEF SearchStep, Searched
    <3>2. x.at \in 0 .. i
      BY <2>1
    <3> QED
      BY <1>1, <1>4, <2>2, <3>1, <3>2 DEF Searched
  <2>3. CASE ~ (mtype >= -1)
    <3>1. y = x \/ y.at = i
      BY <1>1 DEF SearchStep
    <3>2. y.at \in 0 .. i /\ y.at # 0
      BY <1>4, <2>1, <3>1
    <3> QED
      BY <1>1, <2>3, <3>2 DEF Searched
  <2> QED
    BY <2>2, <2>3
<1> QED
  BY <1>3, <1>4

\* What the search ends with.
LEMMA FoundFacts ==
    ASSUME NEW s \in Seq(Message), NEW mtype \in Int
    PROVE  LET k == FoundMsg(s, mtype) IN
           /\ k \in 0 .. Len(s)
           /\ k = 0 => \A i \in 1 .. Len(s) : ~ TestMsg(mtype, s[i].type)
           /\ k # 0 /\ mtype >= -1 => /\ TestMsg(mtype, s[k].type)
                                      /\ \A j \in 1 .. k - 1 : ~ TestMsg(mtype, s[j].type)
<1>1. PICK l \in Nat : l = Len(s)
  OBVIOUS
<1>2. PICK g : g = Search(s, mtype)
  OBVIOUS
<1>3. g[0] = SearchStart(mtype) /\ \A i \in 1 .. l : g[i] = SearchStep(g[i - 1], i, s[i].type)
  BY <1>1, <1>2, SearchFact
<1> DEFINE S == {i \in 0 .. l : ~ Searched(g[i], i, s, mtype)}
<1>4. S = {}
  <2> SUFFICES ASSUME S # {} PROVE FALSE
    OBVIOUS
  <2>1. PICK i \in S : \A j \in S : i <= j
    <3>1. S \subseteq Nat
      OBVIOUS
    <3> QED
      BY <3>1, LeastExists
  <2>2. i # 0
    <3>1. Searched(g[0], 0, s, mtype)
      BY <1>3 DEF Searched, SearchStart
    <3> QED
      BY <3>1
  <2>3. i \in Nat /\ i > 0 /\ i - 1 \in 0 .. l /\ i - 1 \notin S /\ i \in 1 .. l
    BY <2>1, <2>2
  <2>4. Searched(g[i - 1], i - 1, s, mtype)
    BY <2>3
  <2>5. Searched(g[i], i, s, mtype)
    BY <1>3, <2>3, <2>4, SearchedNext
  <2> QED
    BY <2>5
<1>5. Searched(g[l], l, s, mtype)
  <2>1. l \in 0 .. l
    OBVIOUS
  <2> QED
    BY <1>4, <2>1
<1>6. PICK k : k = g[l].at
  OBVIOUS
<1>7. FoundMsg(s, mtype) = k
  BY <1>1, <1>2, <1>6 DEF FoundMsg
<1> QED
  BY <1>1, <1>5, <1>6, <1>7 DEF Searched

-----------------------------------------------------------------------------
(* The invariant. *)

PCs == {"idle", "send", "resend", "snd_sleep", "rcv_sleep", "received", "hung", "undefined"}
Calls == {Idle} \cup [gen : Nat, msg : Message] \cup [gen : Nat, type : Requests, size : Sizes]

Shapes ==
    /\ entries \in [0 .. Slots - 1 -> Queue \cup {NULL}]
    /\ seq \in 0 .. SeqMod - 1
    /\ held \in BOOLEAN
    /\ pc \in [Procs -> PCs]
    /\ call \in [Procs -> Calls]
    /\ rmsg \in [Procs -> Message \cup {NULL, Wild}]
    /\ live \subseteq Message
    /\ count \in [Procs -> 0 .. MaxSends]
    /\ slots \in Seq(0 .. Slots - 1) /\ Len(slots) <= MaxQueues

InUse == inUse = Cardinality(Used)

\* The process has a message of its own that is not yet queued.
Sending(p) == pc[p] \in {"send", "resend", "snd_sleep", "hung"}

\* The arguments of a call.
Asked ==
    \A p \in Procs :
        /\ Sending(p) => /\ call[p].gen \in Made /\ call[p].msg \in Message
                         /\ call[p].msg.from = p /\ call[p].msg.gen = call[p].gen
        /\ pc[p] = "rcv_sleep" =>
              call[p].gen \in Made /\ call[p].type \in Requests /\ call[p].size \in Sizes

\* The queue q of slot i: who is linked to it called it, and sleeps for a
\* reason.
QueueOK(q, i) ==
    /\ q.sum = Len(q.messages)
    /\ q.senders # <<>> => q.sum = MaxMsg
    /\ Distinct(q.messages) /\ Distinct(q.receivers)
    /\ \A m \in Members(q.messages) : m.gen \in Made /\ slots[m.gen] = i
    /\ \A p \in Members(q.senders) : pc[p] = "snd_sleep" /\ slots[call[p].gen] = i
    /\ \A p \in Members(q.receivers) :
          /\ pc[p] = "rcv_sleep" /\ slots[call[p].gen] = i
          /\ \A m \in Members(q.messages) : ~ TestMsg(call[p].type, m.type)

\* Every queue is so, and who waits for a message is linked to one.
Linked ==
    /\ \A i \in Used : QueueOK(entries[i], i)
    /\ \A p \in Procs : pc[p] = "rcv_sleep" =>
          \E i \in Used : p \in Members(entries[i].receivers)

\* The places where a message can be.
AtSender(m) == Sending(m.from) /\ call[m.from].msg = m
AtQueue(m) == entries[slots[m.gen]] # NULL /\ m \in Members(entries[slots[m.gen]].messages)

OnePlace(m) ==
    \/ AtSender(m) /\ ~ AtQueue(m) /\ \A p \in Procs : rmsg[p] # m
    \/ ~ AtSender(m) /\ AtQueue(m) /\ \A p \in Procs : rmsg[p] # m
    \/ /\ ~ AtSender(m) /\ ~ AtQueue(m)
       /\ \E p \in Procs : rmsg[p] = m /\ \A q \in Procs : rmsg[q] = m => q = p

\* Every allocated message is in one place, messages are nowhere else, and
\* those that are sent next are not among them.
Placed ==
    /\ \A m \in live : m.gen \in Made /\ m.n <= count[m.from] /\ OnePlace(m)
    /\ \A p \in Procs : Sending(p) => call[p].msg \in live
    /\ \A p \in Procs : rmsg[p] \in Message => rmsg[p] \in live
    /\ \A i \in Used : Members(entries[i].messages) \subseteq live
    /\ \A p \in Procs : pc[p] # "received" => rmsg[p] = Wild

IInv == Shapes /\ InUse /\ Asked /\ Linked /\ Placed

LEMMA UsedFacts ==
    ASSUME Shapes
    PROVE  /\ Used = {i \in 0 .. Slots - 1 : entries[i] # NULL}
           /\ \A i \in Used : i \in 0 .. Slots - 1 /\ i \in Nat /\ entries[i] \in Queue
           /\ \A i \in Used : /\ entries[i].messages \in Seq(Message) /\ entries[i].senders \in Seq(Procs)
                              /\ entries[i].receivers \in Seq(Procs) /\ entries[i].sum \in 0 .. MaxMsg
           /\ IsFiniteSet(Used)
<1>1. Used = {i \in 0 .. Slots - 1 : entries[i] # NULL}
  BY DEF Shapes, Used
<1>2. \A i \in Used : i \in 0 .. Slots - 1 /\ i \in Nat /\ entries[i] \in Queue
  BY <1>1, BoundAssumption DEF Shapes
<1>3. \A i \in Used : /\ entries[i].messages \in Seq(Message) /\ entries[i].senders \in Seq(Procs)
                      /\ entries[i].receivers \in Seq(Procs) /\ entries[i].sum \in 0 .. MaxMsg
  BY <1>2 DEF Queue
<1>4. IsFiniteSet(Used)
  <2>1. IsFiniteSet(0 .. Slots - 1)
    <3>1. 0 \in Int /\ Slots - 1 \in Int
      BY BoundAssumption
    <3> QED
      BY <3>1, FS_Interval
  <2>2. Used \in SUBSET (0 .. Slots - 1)
    BY <1>1
  <2> QED
    BY <2>1, <2>2, FS_Subset
<1> QED
  BY <1>1, <1>2, <1>3, <1>4

LEMMA ElementTyped ==
    ASSUME NEW S, NEW s \in Seq(S), NEW i \in 1 .. Len(s)
    PROVE  s[i] \in S
  OBVIOUS

LEMMA MembersTyped ==
    ASSUME NEW S, NEW s \in Seq(S)
    PROVE  Members(s) \subseteq S
  BY DEF Members

\* get_msgq finds the slot of the id, in which there is a queue, or nothing.
LEMMA GetFact ==
    ASSUME Shapes, NEW g \in Made
    PROVE  /\ slots[g] \in 0 .. Slots - 1
           /\ GetMsgq(Id(g)) # -1 =>
                 /\ GetMsgq(Id(g)) = slots[g] /\ slots[g] \in Used
                 /\ entries[slots[g]].seq = (g - 1) % SeqMod
<1>1. slots[g] \in 0 .. Slots - 1
  <2>1. slots \in Seq(0 .. Slots - 1)
    BY DEF Shapes
  <2>2. g \in 1 .. Len(slots)
    BY DEF Made
  <2> QED
    BY <2>1, <2>2, ElementTyped
<1>2. Id(g).slot = slots[g] /\ Id(g).seq = (g - 1) % SeqMod
  BY DEF Id
<1>3. GetMsgq(Id(g)) # -1 => /\ GetMsgq(Id(g)) = slots[g] /\ entries[slots[g]] # NULL
                             /\ entries[slots[g]].seq = (g - 1) % SeqMod
  BY <1>2 DEF GetMsgq
<1> QED
  BY <1>1, <1>3, UsedFacts

LEMMA CallFacts ==
    /\ Idle \in Calls
    /\ \A g \in Nat, m \in Message : [gen |-> g, msg |-> m] \in Calls
    /\ \A g \in Nat, t \in Requests, z \in Sizes : [gen |-> g, type |-> t, size |-> z] \in Calls
  BY DEF Calls

LEMMA InitIInv == Init => IInv
<1> SUFFICES ASSUME Init PROVE IInv
  OBVIOUS
<1>1. Used = {}
  BY DEF Init, Used
<1>2. Shapes
  <2>1. /\ entries = [i \in 0 .. Slots - 1 |-> NULL] /\ seq = 0 /\ held = FALSE
        /\ pc = [p \in Procs |-> "idle"] /\ call = [p \in Procs |-> Idle]
        /\ rmsg = [p \in Procs |-> Wild] /\ live = {} /\ count = [p \in Procs |-> 0] /\ slots = <<>>
    BY DEF Init
  <2>2. Len(slots) <= MaxQueues /\ slots \in Seq(0 .. Slots - 1)
    BY <2>1, BoundAssumption
  <2>3. seq \in 0 .. SeqMod - 1
    BY <2>1, BoundAssumption
  <2>4. count \in [Procs -> 0 .. MaxSends]
    BY <2>1, BoundAssumption
  <2>5. pc \in [Procs -> PCs] /\ call \in [Procs -> Calls] /\ held \in BOOLEAN
    BY <2>1, CallFacts DEF PCs
  <2> QED
    BY <2>1, <2>2, <2>3, <2>4, <2>5 DEF Shapes
<1>3. InUse
  BY <1>1, FS_EmptySet DEF Init, InUse
<1>4. Asked
  BY DEF Init, Asked, Sending
<1>5. Linked
  BY <1>1 DEF Init, Linked
<1>6. Placed
  <2>1. \A p \in Procs : ~ Sending(p) /\ rmsg[p] = Wild /\ Wild \notin Message
    BY PointerAssumption DEF Init, Sending
  <2> QED
    BY <1>1, <2>1 DEF Init, Placed
<1> QED
  BY <1>2, <1>3, <1>4, <1>5, <1>6 DEF IInv

LEMMA IInvTypes == IInv => TypeOK
<1> SUFFICES ASSUME IInv PROVE TypeOK
  OBVIOUS
<1>1. \A p \in Procs : rmsg[p] \in Message \cup {NULL, Wild}
  BY DEF IInv, Shapes
<1> QED
  BY <1>1 DEF IInv, Shapes, InUse, TypeOK, PCs

LEMMA IInvSleeps == IInv => NobodySleepsInVain
  BY DEF IInv, Linked, QueueOK, NobodySleepsInVain

-----------------------------------------------------------------------------
(* What a step has to show. *)

\* Ids that were returned stay as they are.
Grown == \A g \in Made : g \in Made' /\ slots'[g] = slots[g]

LEMMA Undisturbed ==
    ASSUME Asked, Grown, NEW i, NEW q \in Queue, QueueOK(q, i),
           \A p \in Procs : pc[p] \in {"snd_sleep", "rcv_sleep"} /\ slots[call[p].gen] = i =>
               pc'[p] = pc[p] /\ call'[p] = call[p]
    PROVE  QueueOK(q, i)'
<1>1. Members(q.senders) \subseteq Procs /\ Members(q.receivers) \subseteq Procs
  BY MembersTyped DEF Queue
<1>2. ASSUME NEW p \in Members(q.senders) PROVE pc'[p] = "snd_sleep" /\ slots'[call'[p].gen] = i
  <2>1. p \in Procs /\ pc[p] = "snd_sleep" /\ slots[call[p].gen] = i
    BY <1>1 DEF QueueOK
  <2>2. call[p].gen \in Made
    BY <2>1 DEF Asked, Sending
  <2> QED
    BY <2>1, <2>2 DEF Grown
<1>3. ASSUME NEW p \in Members(q.receivers)
      PROVE  /\ pc'[p] = "rcv_sleep" /\ slots'[call'[p].gen] = i
             /\ \A m \in Members(q.messages) : ~ TestMsg(call'[p].type, m.type)
  <2>1. /\ p \in Procs /\ pc[p] = "rcv_sleep" /\ slots[call[p].gen] = i
        /\ \A m \in Members(q.messages) : ~ TestMsg(call[p].type, m.type)
    BY <1>1 DEF QueueOK
  <2>2. call[p].gen \in Made
    BY <2>1 DEF Asked
  <2>3. pc'[p] = pc[p] /\ call'[p] = call[p]
    BY <2>1
  <2> QED
    BY <2>1, <2>2, <2>3 DEF Grown
<1>4. \A m \in Members(q.messages) : m.gen \in Made' /\ slots'[m.gen] = i
  BY DEF QueueOK, Grown
<1> QED
  BY <1>2, <1>3, <1>4 DEF QueueOK

\* A step changes the queue of one slot.
LEMMA OneQueue ==
    ASSUME Shapes, Asked, Linked, Shapes', Grown, NEW i \in 0 .. Slots - 1,
           \A j \in 0 .. Slots - 1 : j # i => entries'[j] = entries[j],
           entries'[i] # NULL => QueueOK(entries[i], i)',
           \A p \in Procs : pc[p] \in {"snd_sleep", "rcv_sleep"} /\ slots[call[p].gen] # i =>
               pc'[p] = pc[p] /\ call'[p] = call[p],
           \A p \in Procs : pc'[p] = "rcv_sleep" =>
               \/ entries'[i] # NULL /\ p \in Members(entries'[i].receivers)
               \/ pc[p] = "rcv_sleep" /\ ~ (entries[i] # NULL /\ p \in Members(entries[i].receivers))
    PROVE  Linked'
<1>1. /\ Used = {j \in 0 .. Slots - 1 : entries[j] # NULL}
      /\ Used' = {j \in 0 .. Slots - 1 : entries'[j] # NULL}
  BY DEF Shapes, Used
<1>2. ASSUME NEW j \in Used' PROVE QueueOK(entries[j], j)'
  <2>1. CASE j = i
    BY <1>1, <2>1
  <2>2. CASE j # i
    <3>1. j \in Used /\ entries'[j] = entries[j]
      BY <1>1, <2>2
    <3>2. PICK q \in Queue : q = entries[j]
      BY <3>1, UsedFacts
    <3>3. QueueOK(q, j)
      BY <3>1, <3>2 DEF Linked
    <3>4. \A p \in Procs : pc[p] \in {"snd_sleep", "rcv_sleep"} /\ slots[call[p].gen] = j =>
               pc'[p] = pc[p] /\ call'[p] = call[p]
      BY <2>2
    <3>5. QueueOK(q, j)'
      BY <3>3, <3>4, Undisturbed
    <3> QED
      BY <3>1, <3>2, <3>5 DEF QueueOK
  <2> QED
    BY <2>1, <2>2
<1>3. ASSUME NEW p \in Procs, pc'[p] = "rcv_sleep"
      PROVE  \E j \in Used' : p \in Members(entries'[j].receivers)
  <2>1. CASE entries'[i] # NULL /\ p \in Members(entries'[i].receivers)
    BY <1>1, <2>1
  <2>2. CASE pc[p] = "rcv_sleep" /\ ~ (entries[i] # NULL /\ p \in Members(entries[i].receivers))
    <3>1. PICK j \in Used : p \in Members(entries[j].receivers)
      BY <2>2 DEF Linked
    <3>2. j # i /\ j \in 0 .. Slots - 1 /\ entries[j] # NULL
      BY <1>1, <2>2, <3>1
    <3> QED
      BY <1>1, <3>1, <3>2
  <2> QED
    BY <1>3, <2>1, <2>2
<1> QED
  BY <1>2, <1>3 DEF Linked

\* A step changes no queue.
LEMMA SameQueues ==
    ASSUME Shapes, Asked, Linked, UNCHANGED <<entries, slots>>,
           \A p \in Procs : pc[p] \in {"snd_sleep", "rcv_sleep"} => pc'[p] = pc[p] /\ call'[p] = call[p],
           \A p \in Procs : pc'[p] = "rcv_sleep" => pc[p] = "rcv_sleep"
    PROVE  Linked'
<1>1. Used' = Used /\ Made' = Made /\ Grown
  BY DEF Used, Made, Grown
<1>2. ASSUME NEW j \in Used PROVE QueueOK(entries[j], j)'
  <2>1. PICK q \in Queue : q = entries[j]
    BY UsedFacts
  <2>2. QueueOK(q, j)
    BY <2>1 DEF Linked
  <2>3. QueueOK(q, j)'
    BY <1>1, <2>2, Undisturbed
  <2> QED
    BY <2>1, <2>3 DEF QueueOK
<1> QED
  BY <1>1, <1>2 DEF Linked

\* The message is where it was.
Stays(m) ==
    /\ m.gen \in Made' /\ count[m.from] <= count'[m.from]
    /\ AtSender(m)' <=> AtSender(m)
    /\ AtQueue(m)' <=> AtQueue(m)
    /\ \A p \in Procs : rmsg'[p] = m <=> rmsg[p] = m

\* A step moves one message at most.
LEMMA OneMoves ==
    ASSUME Shapes, Placed, Shapes', NEW m0, live' \subseteq live \cup {m0},
           \A m \in live' : m # m0 => Stays(m),
           m0 \in live' => m0.gen \in Made' /\ m0.n <= count'[m0.from] /\ OnePlace(m0)',
           \A p \in Procs : Sending(p)' => call'[p].msg \in live',
           \A p \in Procs : rmsg'[p] \in Message => rmsg'[p] \in live',
           \A i \in Used' : Members(entries'[i].messages) \subseteq live',
           \A p \in Procs : pc'[p] # "received" => rmsg'[p] = Wild
    PROVE  Placed'
<1>1. ASSUME NEW m \in live', m # m0
      PROVE  m.gen \in Made' /\ m.n <= count'[m.from] /\ OnePlace(m)'
  <2>1. m \in live /\ Stays(m)
    BY <1>1
  <2>2. m.n <= count[m.from] /\ OnePlace(m)
    BY <2>1 DEF Placed
  <2>3. m.n \in Int /\ m.from \in Procs
    BY <2>1 DEF Shapes, Message
  <2>4. count[m.from] \in Int /\ count'[m.from] \in Int
    BY <2>3 DEF Shapes
  <2>5. m.n <= count'[m.from]
    BY <2>1, <2>2, <2>3, <2>4 DEF Stays
  <2>6. OnePlace(m)'
    BY <2>1, <2>2 DEF Stays, OnePlace
  <2> QED
    BY <2>1, <2>5, <2>6 DEF Stays
<1> QED
  BY <1>1 DEF Placed

\* The message that a process sends is with it and nowhere else.
LEMMA OwnMessage ==
    ASSUME Shapes, Asked, Linked, Placed, NEW p \in Procs, Sending(p)
    PROVE  /\ call[p].msg \in live /\ call[p].msg \in Message /\ call[p].msg.from = p
           /\ AtSender(call[p].msg) /\ ~ AtQueue(call[p].msg)
           /\ \A q \in Procs : rmsg[q] # call[p].msg
           /\ \A i \in Used : call[p].msg \notin Members(entries[i].messages)
<1>1. PICK m \in Message : m = call[p].msg /\ m.from = p
  BY DEF Asked
<1>2. m \in live /\ AtSender(m)
  BY <1>1 DEF Placed, AtSender
<1>3. ~ AtQueue(m) /\ \A q \in Procs : rmsg[q] # m
  BY <1>2 DEF Placed, OnePlace
<1>4. ASSUME NEW i \in Used, m \in Members(entries[i].messages) PROVE FALSE
  <2>1. slots[m.gen] = i
    BY <1>4 DEF Linked, QueueOK
  <2>2. entries[i] # NULL
    BY UsedFacts
  <2> QED
    BY <1>3, <1>4, <2>1, <2>2 DEF AtQueue
<1> QED
  BY <1>1, <1>2, <1>3, <1>4

\* A message that is not with its sender leaves AtSender alone when only
\* another message of the process changes.
LEMMA SenderStays ==
    ASSUME NEW p \in Procs, NEW m \in Message,
           \A q \in Procs : q # p => pc'[q] = pc[q] /\ call'[q] = call[q],
           Sending(p)' => call'[p].msg # m, Sending(p) => call[p].msg # m
    PROVE  AtSender(m)' <=> AtSender(m)
<1>1. m.from \in Procs
  BY DEF Message
<1>2. CASE m.from = p
  BY <1>2 DEF AtSender, Sending
<1>3. CASE m.from # p
  BY <1>1, <1>3 DEF AtSender, Sending
<1> QED
  BY <1>2, <1>3

-----------------------------------------------------------------------------
(* msgget *)

LEMMA NewQueKeeps ==
    ASSUME IInv, NEW key \in Keys \cup {IPC_PRIVATE}, Len(slots) < MaxQueues,
           NewQue(key), DOMAIN entries \ Used # {},
           UNCHANGED <<held, pc, call, rmsg, live, count>>
    PROVE  IInv'
<1> USE DEF IInv
<1> DEFINE free == DOMAIN entries \ Used
<1>1. PICK i \in 0 .. Slots - 1 : i \notin Used /\ i = CHOOSE j \in free : \A k \in free : j <= k
  <2>1. free \subseteq Nat /\ free \subseteq 0 .. Slots - 1
    BY BoundAssumption DEF Shapes
  <2>2. \E j \in free : \A k \in free : j <= k
    BY <2>1, LeastExists
  <2> HIDE DEF free
  <2>3. (CHOOSE j \in free : \A k \in free : j <= k) \in free
    BY <2>2
  <2> QED
    BY <2>1, <2>3 DEF free
<1>2. PICK q : q = [key |-> key, seq |-> seq, sum |-> 0,
                    messages |-> <<>>, senders |-> <<>>, receivers |-> <<>>]
  OBVIOUS
<1>3. /\ entries' = [entries EXCEPT ![i] = q] /\ seq' = (seq + 1) % SeqMod
      /\ inUse' = inUse + 1 /\ slots' = Append(slots, i)
  BY <1>1, <1>2 DEF NewQue
<1>4. q \in Queue /\ q # NULL
  <2>1. 0 \in 0 .. MaxMsg /\ <<>> \in Seq(Message) /\ <<>> \in Seq(Procs)
    BY BoundAssumption
  <2>2. q \in Queue
    BY <1>2, <2>1 DEF Queue, Shapes
  <2> QED
    BY <2>2, PointerAssumption
<1>5. /\ q.messages = <<>> /\ q.senders = <<>> /\ q.receivers = <<>> /\ q.sum = 0
  BY <1>2
<1>6. /\ slots' \in Seq(0 .. Slots - 1) /\ Len(slots') = Len(slots) + 1 /\ Len(slots) \in Nat
      /\ Grown
  <2>1. slots \in Seq(0 .. Slots - 1)
    BY DEF Shapes
  <2>2. PICK S : S = 0 .. Slots - 1
    OBVIOUS
  <2>3. /\ slots' \in Seq(S) /\ Len(slots') = Len(slots) + 1 /\ Len(slots) \in Nat
        /\ \A g \in 1 .. Len(slots) : slots'[g] = slots[g]
    BY <1>3, <2>1, <2>2
  <2>4. Grown
    BY <2>3 DEF Grown, Made
  <2> QED
    BY <2>2, <2>3, <2>4
<1>7. /\ entries'[i] = q /\ entries[i] = NULL
      /\ \A j \in 0 .. Slots - 1 : j # i => entries'[j] = entries[j]
      /\ entries' \in [0 .. Slots - 1 -> Queue \cup {NULL}]
  <2>1. entries[i] = NULL
    BY <1>1, UsedFacts
  <2> QED
    BY <1>3, <1>4, <2>1 DEF Shapes
<1>8. Shapes'
  <2>1. seq' \in 0 .. SeqMod - 1
    BY <1>3, BoundAssumption DEF Shapes
  <2>2. Len(slots') <= MaxQueues
    BY <1>6, BoundAssumption
  <2> QED
    BY <1>6, <1>7, <2>1, <2>2 DEF Shapes
<1>9. Used' = Used \cup {i}
  BY <1>4, <1>7, <1>8, UsedFacts DEF Used, Shapes
<1>10. InUse'
  <2>1. IsFiniteSet(Used)
    BY UsedFacts
  <2>2. Cardinality(Used \cup {i}) = Cardinality(Used) + 1
    BY <1>1, <2>1, FS_AddElement
  <2> QED
    BY <1>3, <1>9, <2>2 DEF InUse
<1>11. Asked'
  BY <1>6 DEF Asked, Sending, Grown
<1>12. Linked'
  <2>1. QueueOK(entries[i], i)'
    BY <1>5, <1>7, EmptyFacts DEF QueueOK
  <2> QED
    BY <1>6, <1>7, <1>8, <2>1, OneQueue
<1>13. Placed'
  <2>1. ASSUME NEW m \in live PROVE Stays(m)
    <3>1. m.gen \in Made /\ m.gen \in Made' /\ slots'[m.gen] = slots[m.gen]
      BY <1>6 DEF Placed, Grown
    <3>2. slots[m.gen] \in 0 .. Slots - 1
      BY <3>1, GetFact
    <3>3. AtQueue(m)' <=> AtQueue(m)
      BY <1>5, <1>7, <3>1, <3>2, EmptyFacts DEF AtQueue
    <3>4. AtSender(m)' <=> AtSender(m)
      BY DEF AtSender, Sending
    <3>5. count[m.from] \in Int
      BY DEF Shapes, Message
    <3> QED
      BY <3>1, <3>3, <3>4, <3>5 DEF Stays
  <2>2. \A j \in Used' : Members(entries'[j].messages) \subseteq live'
    <3>1. ASSUME NEW j \in Used' PROVE Members(entries'[j].messages) \subseteq live'
      <4>1. CASE j = i
        BY <1>5, <1>7, <4>1, EmptyFacts
      <4>2. CASE j # i
        <5>1. j \in Used /\ entries'[j] = entries[j]
          BY <1>7, <1>9, <4>2, UsedFacts
        <5> QED
          BY <5>1 DEF Placed
      <4> QED
        BY <4>1, <4>2
    <3> QED
      BY <3>1
  <2>3. NULL \notin live
    BY PointerAssumption DEF Shapes
  <2>4. \A p \in Procs : Sending(p)' => call'[p].msg \in live'
    BY DEF Placed, Sending
  <2>5. /\ \A p \in Procs : rmsg'[p] \in Message => rmsg'[p] \in live'
        /\ \A p \in Procs : pc'[p] # "received" => rmsg'[p] = Wild
    BY DEF Placed
  <2> QED
    BY <1>8, <2>1, <2>2, <2>3, <2>4, <2>5, OneMoves
<1> QED
  BY <1>8, <1>10, <1>11, <1>12, <1>13

LEMMA Unchanged ==
    ASSUME IInv, UNCHANGED vars PROVE IInv'
<1>1. Used' = Used /\ Made' = Made
  BY DEF vars, Used, Made
<1>2. Shapes' /\ InUse' /\ Asked'
  BY <1>1 DEF vars, IInv, Shapes, InUse, Asked, Sending
<1>3. Linked'
  BY <1>1 DEF vars, IInv, Linked, QueueOK
<1>4. Placed'
  BY <1>1 DEF vars, IInv, Placed, OnePlace, AtSender, AtQueue, Sending
<1> QED
  BY <1>2, <1>3, <1>4 DEF IInv

LEMMA MsgGetKeeps ==
    ASSUME IInv, NEW p \in Procs, NEW key \in Keys \cup {IPC_PRIVATE}, NEW create \in BOOLEAN,
           MsgGet(p, key, create)
    PROVE  IInv'
<1>1. Len(slots) < MaxQueues /\ UNCHANGED <<held, pc, call, rmsg, live, count>>
  BY DEF MsgGet
<1>2. NewQue(key) \/ UNCHANGED table
  BY DEF MsgGet
<1>3. CASE NewQue(key) /\ DOMAIN entries \ Used # {}
  BY <1>1, <1>3, NewQueKeeps
<1>4. CASE UNCHANGED table \/ (NewQue(key) /\ DOMAIN entries \ Used = {})
  <2>1. UNCHANGED table
    BY <1>4 DEF NewQue
  <2> QED
    BY <1>1, <2>1, Unchanged DEF vars, table
<1> QED
  BY <1>2, <1>3, <1>4

-----------------------------------------------------------------------------
(* Steps that leave the queues alone. *)

LEMMA CallSndKeeps ==
    ASSUME IInv, NEW p \in Procs, NEW g \in Made, NEW type \in Types, NEW size \in Sizes,
           CallSnd(p, g, type, size)
    PROVE  IInv'
<1> USE DEF IInv
<1>1. PICK m : m = [from |-> p, n |-> count[p] + 1, gen |-> g, type |-> type, size |-> size]
  OBVIOUS
<1>2. /\ pc[p] = "idle" /\ count[p] < MaxSends /\ live' = live \cup {m}
      /\ count' = [count EXCEPT ![p] = @ + 1] /\ call' = [call EXCEPT ![p] = [gen |-> g, msg |-> m]]
      /\ pc' = [pc EXCEPT ![p] = "send"] /\ UNCHANGED <<entries, seq, inUse, slots, held, rmsg>>
  BY <1>1 DEF CallSnd, table
<1>3. /\ m.from = p /\ m.n = count[p] + 1 /\ m.gen = g
  BY <1>1
<1>4. count[p] \in 0 .. MaxSends /\ count[p] + 1 \in 1 .. MaxSends /\ g \in 1 .. MaxQueues
  <2>1. count[p] \in 0 .. MaxSends
    BY DEF Shapes
  <2>2. Len(slots) \in Nat /\ Len(slots) <= MaxQueues
    BY DEF Shapes
  <2> QED
    BY <1>2, <2>1, <2>2, BoundAssumption DEF Made
<1>5. m \in Message
  BY <1>1, <1>4 DEF Message
<1>6. /\ pc'[p] = "send" /\ call'[p].msg = m /\ call'[p].gen = g /\ count'[p] = count[p] + 1
      /\ \A q \in Procs : q # p => pc'[q] = pc[q] /\ call'[q] = call[q] /\ count'[q] = count[q]
  BY <1>2 DEF Shapes
<1>7. Shapes'
  <2>1. call' \in [Procs -> Calls]
    <3>1. [gen |-> g, msg |-> m] \in Calls
      BY <1>4, <1>5, CallFacts
    <3> QED
      BY <1>2, <3>1 DEF Shapes
  <2>2. count' \in [Procs -> 0 .. MaxSends]
    BY <1>2, <1>4 DEF Shapes
  <2>3. pc' \in [Procs -> PCs]
    BY <1>2 DEF Shapes, PCs
  <2> QED
    BY <1>2, <1>5, <2>1, <2>2, <2>3 DEF Shapes
<1>8. Used' = Used /\ Made' = Made
  BY <1>2 DEF Used, Made
<1>9. InUse' /\ Asked'
  BY <1>2, <1>3, <1>5, <1>6, <1>8 DEF InUse, Asked, Sending
<1>10. Linked'
  BY <1>2, <1>6, SameQueues
<1>11. m \notin live
  <2> SUFFICES ASSUME m \in live PROVE FALSE
    OBVIOUS
  <2>1. count[p] + 1 <= count[p]
    BY <1>3 DEF Placed
  <2> QED
    BY <1>4, <2>1
<1>12. Placed'
  <2>1. ASSUME NEW x \in live PROVE Stays(x)
    <3>1. x \in Message /\ x # m /\ x.from \in Procs /\ x.gen \in Made
      BY <1>11 DEF Shapes, Message, Placed
    <3>2. AtSender(x)' <=> AtSender(x)
      <4>1. Sending(p)' => call'[p].msg # x
        BY <1>6, <3>1
      <4>2. ~ Sending(p)
        BY <1>2 DEF Sending
      <4> QED
        BY <1>6, <3>1, <4>1, <4>2, SenderStays
    <3>3. AtQueue(x)' <=> AtQueue(x)
      BY <1>2 DEF AtQueue
    <3>4. count[x.from] <= count'[x.from]
      <4>1. count[x.from] \in Int
        BY <3>1 DEF Shapes
      <4> QED
        BY <1>6, <3>1, <4>1
    <3> QED
      BY <1>2, <1>8, <3>1, <3>2, <3>3, <3>4 DEF Stays
  <2>2. m.gen \in Made' /\ m.n <= count'[m.from]
    BY <1>3, <1>4, <1>6, <1>8
  <2>3. OnePlace(m)'
    <3>1. AtSender(m)'
      BY <1>3, <1>6 DEF AtSender, Sending
    <3>2. ~ AtQueue(m)'
      <4>1. slots[g] \in 0 .. Slots - 1
        BY GetFact
      <4>2. entries[slots[g]] # NULL => m \notin Members(entries[slots[g]].messages)
        BY <1>11, <4>1, UsedFacts DEF Placed
      <4> QED
        BY <1>2, <1>3, <4>2 DEF AtQueue
    <3>3. \A q \in Procs : rmsg'[q] # m
      BY <1>2, <1>5, <1>11 DEF Placed
    <3> QED
      BY <3>1, <3>2, <3>3 DEF OnePlace
  <2>4. \A q \in Procs : Sending(q)' => call'[q].msg \in live'
    BY <1>2, <1>6 DEF Placed, Sending
  <2>5. \A q \in Procs : rmsg'[q] \in Message => rmsg'[q] \in live'
    BY <1>2 DEF Placed
  <2>6. \A i \in Used' : Members(entries'[i].messages) \subseteq live'
    BY <1>2, <1>8 DEF Placed
  <2>7. \A q \in Procs : pc'[q] # "received" => rmsg'[q] = Wild
    BY <1>2, <1>6 DEF Placed
  <2> QED
    BY <1>2, <1>7, <2>1, <2>2, <2>3, <2>4, <2>5, <2>6, <2>7, OneMoves
<1> QED
  BY <1>7, <1>9, <1>10, <1>12

LEMMA SndFailsKeeps ==
    ASSUME IInv, NEW p \in Procs, pc[p] \in {"send", "resend"}, SndFails(p)
    PROVE  IInv'
<1> USE DEF IInv
<1>1. Sending(p)
  BY DEF Sending
<1>2. PICK m \in Message : /\ m = call[p].msg /\ m \in live /\ m.from = p
                           /\ \A q \in Procs : rmsg[q] # m
                           /\ \A i \in Used : m \notin Members(entries[i].messages)
  BY <1>1, OwnMessage
<1>3. /\ live' = live \ {m} /\ call' = [call EXCEPT ![p] = Idle]
      /\ pc' = [pc EXCEPT ![p] = "idle"]
      /\ UNCHANGED <<entries, seq, inUse, slots, held, rmsg, count>>
  BY <1>2 DEF SndFails, table
<1>4. /\ pc'[p] = "idle" /\ \A q \in Procs : q # p => pc'[q] = pc[q] /\ call'[q] = call[q]
  BY <1>3 DEF Shapes
<1>5. Shapes'
  <2>1. call' \in [Procs -> Calls] /\ pc' \in [Procs -> PCs]
    BY <1>3, CallFacts DEF Shapes, PCs
  <2> QED
    BY <1>3, <2>1 DEF Shapes
<1>6. Used' = Used /\ Made' = Made
  BY <1>3 DEF Used, Made
<1>7. InUse' /\ Asked'
  BY <1>3, <1>4, <1>6 DEF InUse, Asked, Sending
<1>8. Linked'
  BY <1>3, <1>4, SameQueues
<1>9. Placed'
  <2>1. ASSUME NEW x \in live, x # m PROVE Stays(x)
    <3>1. x \in Message /\ x.from \in Procs /\ x.gen \in Made
      BY DEF Shapes, Message, Placed
    <3>2. AtSender(x)' <=> AtSender(x)
      <4>1. ~ Sending(p)'
        BY <1>4 DEF Sending
      <4>2. call[p].msg # x
        BY <1>2, <2>1
      <4> QED
        BY <1>4, <3>1, <4>1, <4>2, SenderStays
    <3>3. AtQueue(x)' <=> AtQueue(x)
      BY <1>3 DEF AtQueue
    <3>4. count[x.from] \in Int
      BY <3>1 DEF Shapes
    <3> QED
      BY <1>3, <1>6, <3>1, <3>2, <3>3, <3>4 DEF Stays
  <2>2. ASSUME NEW q \in Procs, Sending(q)' PROVE call'[q].msg \in live'
    <3>1. q # p /\ Sending(q) /\ call'[q] = call[q]
      BY <1>4, <2>2 DEF Sending
    <3>2. call[q].msg \in live /\ call[q].msg.from = q
      BY <3>1 DEF Placed, Asked
    <3> QED
      BY <1>2, <1>3, <3>1, <3>2
  <2>3. \A q \in Procs : rmsg'[q] \in Message => rmsg'[q] \in live'
    BY <1>2, <1>3 DEF Placed
  <2>4. \A i \in Used' : Members(entries'[i].messages) \subseteq live'
    BY <1>2, <1>3, <1>6 DEF Placed
  <2>5. \A q \in Procs : pc'[q] # "received" => rmsg'[q] = Wild
    <3>1. pc[p] # "received"
      OBVIOUS
    <3> QED
      BY <1>3, <1>4, <3>1 DEF Placed
  <2> QED
    BY <1>3, <1>5, <2>1, <2>2, <2>3, <2>4, <2>5, OneMoves
<1> QED
  BY <1>5, <1>7, <1>8, <1>9

LEMMA StoreKeeps ==
    ASSUME IInv, NEW p \in Procs, Store(p)
    PROVE  IInv'
<1> USE DEF IInv
<1>1. PICK m : m = rmsg[p]
  OBVIOUS
<1>2. /\ pc[p] = "received" /\ live' = live \ {m} /\ call' = [call EXCEPT ![p] = Idle]
      /\ pc' = [pc EXCEPT ![p] = IF rmsg[p] = Wild THEN "undefined" ELSE "idle"]
      /\ rmsg' = [rmsg EXCEPT ![p] = Wild]
      /\ UNCHANGED <<entries, seq, inUse, slots, held, count>>
  BY <1>1 DEF Store, table
<1>3. /\ pc'[p] \in {"undefined", "idle"} /\ rmsg'[p] = Wild
      /\ \A q \in Procs : q # p => pc'[q] = pc[q] /\ call'[q] = call[q] /\ rmsg'[q] = rmsg[q]
  BY <1>2 DEF Shapes
<1>4. Shapes'
  <2>1. call' \in [Procs -> Calls] /\ rmsg' \in [Procs -> Message \cup {NULL, Wild}]
    BY <1>2, CallFacts DEF Shapes
  <2>2. pc' \in [Procs -> PCs]
    BY <1>2 DEF Shapes, PCs
  <2> QED
    BY <1>2, <2>1, <2>2 DEF Shapes
<1>5. Used' = Used /\ Made' = Made
  BY <1>2 DEF Used, Made
<1>6. InUse' /\ Asked'
  BY <1>2, <1>3, <1>5 DEF InUse, Asked, Sending
<1>7. Linked'
  BY <1>2, <1>3, SameQueues
<1>8. m \in live => ~ AtSender(m) /\ ~ AtQueue(m) /\ \A q \in Procs : rmsg[q] = m => q = p
  BY <1>1 DEF Placed, OnePlace
<1>9. Placed'
  <2>1. ASSUME NEW x \in live, x # m PROVE Stays(x)
    <3>1. x \in Message /\ x.from \in Procs /\ x.gen \in Made
      BY DEF Shapes, Message, Placed
    <3>2. AtSender(x)' <=> AtSender(x)
      <4>1. ~ Sending(p)' /\ ~ Sending(p)
        BY <1>2, <1>3 DEF Sending
      <4> QED
        BY <1>3, <3>1, <4>1, SenderStays
    <3>3. AtQueue(x)' <=> AtQueue(x)
      BY <1>2 DEF AtQueue
    <3>4. count[x.from] \in Int
      BY <3>1 DEF Shapes
    <3>5. \A q \in Procs : rmsg'[q] = x <=> rmsg[q] = x
      BY <1>1, <1>3, <2>1, <3>1, PointerAssumption
    <3> QED
      BY <1>2, <1>5, <3>1, <3>2, <3>3, <3>4, <3>5 DEF Stays
  <2>2. ASSUME NEW q \in Procs, Sending(q)' PROVE call'[q].msg \in live'
    <3>1. q # p /\ Sending(q) /\ call'[q] = call[q]
      BY <1>3, <2>2 DEF Sending
    <3>2. call[q].msg \in live /\ call[q].msg # m
      BY <1>1, <3>1, OwnMessage
    <3> QED
      BY <1>2, <3>1, <3>2
  <2>3. ASSUME NEW q \in Procs, rmsg'[q] \in Message PROVE rmsg'[q] \in live'
    <3>1. q # p /\ rmsg'[q] = rmsg[q]
      BY <1>3, <2>3, PointerAssumption
    <3> QED
      BY <1>2, <1>8, <2>3, <3>1 DEF Placed
  <2>4. ASSUME NEW i \in Used PROVE Members(entries[i].messages) \subseteq live'
    <3> SUFFICES ASSUME m \in Members(entries[i].messages) PROVE FALSE
      BY <1>2 DEF Placed
    <3>1. m \in live /\ slots[m.gen] = i /\ entries[i] # NULL
      BY UsedFacts DEF Placed, Linked, QueueOK
    <3> QED
      BY <1>8, <3>1 DEF AtQueue
  <2>5. \A q \in Procs : pc'[q] # "received" => rmsg'[q] = Wild
    BY <1>3 DEF Placed
  <2> QED
    BY <1>2, <1>4, <1>5, <2>1, <2>2, <2>3, <2>4, <2>5, OneMoves
<1> QED
  BY <1>4, <1>6, <1>7, <1>9

-----------------------------------------------------------------------------
(* msgsnd *)

LEMMA QueueChange ==
    ASSUME Shapes, NEW i \in Used, NEW q \in Queue, entries' = [entries EXCEPT ![i] = q]
    PROVE  /\ entries' \in [0 .. Slots - 1 -> Queue \cup {NULL}] /\ entries'[i] = q /\ q # NULL
           /\ \A j \in 0 .. Slots - 1 : j # i => entries'[j] = entries[j]
           /\ Used' = Used /\ i \in 0 .. Slots - 1
<1>1. i \in 0 .. Slots - 1 /\ q # NULL /\ entries[i] # NULL
  BY UsedFacts, PointerAssumption
<1>2. entries \in [0 .. Slots - 1 -> Queue \cup {NULL}]
  BY DEF Shapes
<1>3. /\ entries' \in [0 .. Slots - 1 -> Queue \cup {NULL}] /\ entries'[i] = q
      /\ \A j \in 0 .. Slots - 1 : j # i => entries'[j] = entries[j]
  BY <1>1, <1>2
<1>4. Used' = Used
  BY <1>1, <1>2, <1>3 DEF Used
<1> QED
  BY <1>1, <1>3, <1>4

\* A queue with other messages, and one that has let its senders go.
Refilled(e, a, b) == [e EXCEPT !.messages = a, !.sum = b]
Released(e) == [e EXCEPT !.senders = <<>>]

LEMMA RefilledFacts ==
    ASSUME NEW e \in Queue, NEW a \in Seq(Message), NEW b \in 0 .. MaxMsg
    PROVE  LET q == Refilled(e, a, b) IN
           /\ q \in Queue /\ q.messages = a /\ q.sum = b /\ q.seq = e.seq
           /\ q.senders = e.senders /\ q.receivers = e.receivers
<1>1. PICK x : x = [e EXCEPT !.messages = a]
  OBVIOUS
<1>2. /\ x \in Queue /\ x.messages = a /\ x.seq = e.seq
      /\ x.senders = e.senders /\ x.receivers = e.receivers
  BY <1>1 DEF Queue
<1>3. PICK q : q = [x EXCEPT !.sum = b]
  OBVIOUS
<1>4. q = Refilled(e, a, b)
  BY <1>1, <1>3 DEF Refilled
<1>5. /\ q \in Queue /\ q.messages = a /\ q.sum = b /\ q.seq = e.seq
      /\ q.senders = e.senders /\ q.receivers = e.receivers
  BY <1>2, <1>3 DEF Queue
<1> QED
  BY <1>4, <1>5

LEMMA ReleasedFacts ==
    ASSUME NEW e \in Queue
    PROVE  LET q == Released(e) IN
           /\ q \in Queue /\ q.messages = e.messages /\ q.sum = e.sum /\ q.seq = e.seq
           /\ q.senders = <<>> /\ q.receivers = e.receivers
<1>1. PICK n \in Seq(Procs) : n = <<>>
  <2>1. <<>> \in Seq(Procs)
    OBVIOUS
  <2> QED
    BY <2>1
<1>2. PICK q : q = [e EXCEPT !.senders = n]
  OBVIOUS
<1>3. q = Released(e)
  BY <1>1, <1>2 DEF Released
<1>4. /\ q \in Queue /\ q.messages = e.messages /\ q.sum = e.sum /\ q.seq = e.seq
      /\ q.senders = n /\ q.receivers = e.receivers
  BY <1>1, <1>2 DEF Queue
<1> QED
  BY <1>1, <1>3, <1>4

LEMMA QueueStays ==
    ASSUME Shapes, NEW i \in Used, NEW x, x.gen \in Made, UNCHANGED slots,
           \A j \in 0 .. Slots - 1 : j # i => entries'[j] = entries[j], entries'[i] # NULL,
           x \in Members(entries'[i].messages) <=> x \in Members(entries[i].messages)
    PROVE  AtQueue(x)' <=> AtQueue(x)
<1>1. slots[x.gen] \in 0 .. Slots - 1 /\ slots'[x.gen] = slots[x.gen]
  BY GetFact
<1>2. entries[i] # NULL
  BY UsedFacts
<1> QED
  BY <1>1, <1>2 DEF AtQueue

LEMMA SndSleepsKeeps ==
    ASSUME IInv, NEW p \in Procs, pc[p] \in {"send", "resend"}, NEW i \in Used,
           slots[call[p].gen] = i, Full(i), SndSleeps(p, i)
    PROVE  IInv'
<1> USE DEF IInv
<1>1. PICK e \in Queue : e = entries[i]
  BY UsedFacts
<1>2. PICK q : q = [e EXCEPT !.senders = Append(e.senders, p)]
  OBVIOUS
<1>3. /\ entries' = [entries EXCEPT ![i] = q] /\ pc' = [pc EXCEPT ![p] = "snd_sleep"]
      /\ UNCHANGED <<seq, inUse, slots, held, call, rmsg, live, count>>
  BY <1>1, <1>2 DEF SndSleeps
<1>4. /\ e.senders \in Seq(Procs) /\ Append(e.senders, p) \in Seq(Procs)
      /\ Members(Append(e.senders, p)) = Members(e.senders) \cup {p}
  <2>1. e.senders \in Seq(Procs)
    BY DEF Queue
  <2> QED
    BY <2>1, AppendFacts
<1>5. /\ q \in Queue /\ q.senders = Append(e.senders, p)
      /\ q.messages = e.messages /\ q.receivers = e.receivers /\ q.sum = e.sum
  BY <1>2, <1>4 DEF Queue
<1>6. /\ entries' \in [0 .. Slots - 1 -> Queue \cup {NULL}] /\ entries'[i] = q /\ q # NULL
      /\ \A j \in 0 .. Slots - 1 : j # i => entries'[j] = entries[j]
      /\ Used' = Used /\ i \in 0 .. Slots - 1
  BY <1>3, <1>5, QueueChange
<1>7. /\ pc'[p] = "snd_sleep" /\ pc' \in [Procs -> PCs]
      /\ \A r \in Procs : r # p => pc'[r] = pc[r]
  BY <1>3 DEF Shapes, PCs
<1>8. Shapes'
  BY <1>3, <1>6, <1>7 DEF Shapes
<1>9. InUse'
  BY <1>3, <1>6 DEF InUse
<1>10. Made' = Made /\ Grown
  BY <1>3 DEF Made, Grown
<1>11. \A r \in Procs : Sending(r)' <=> Sending(r)
  BY <1>7 DEF Sending
<1>12. Asked'
  BY <1>3, <1>7, <1>10, <1>11 DEF Asked
<1>13. Linked'
  <2>1. QueueOK(e, i)
    BY <1>1 DEF Linked
  <2>2. q.sum = MaxMsg
    <3>1. e.sum \in 0 .. MaxMsg /\ e.sum + 1 > MaxMsg
      BY <1>1 DEF Full, Queue
    <3> QED
      BY <1>5, <3>1, BoundAssumption
  <2>3. \A r \in Members(q.receivers) : r \in Procs /\ r # p /\ pc'[r] = "rcv_sleep"
    <3>1. Members(e.receivers) \subseteq Procs
      BY MembersTyped DEF Queue
    <3> QED
      BY <1>5, <1>7, <2>1, <3>1 DEF QueueOK
  <2>4. \A r \in Members(q.senders) : pc'[r] = "snd_sleep" /\ slots[call[r].gen] = i
    <3>1. Members(e.senders) \subseteq Procs
      BY <1>4, MembersTyped
    <3> QED
      BY <1>4, <1>5, <1>7, <2>1, <3>1 DEF QueueOK
  <2>5. QueueOK(entries[i], i)'
    BY <1>3, <1>5, <1>6, <1>10, <2>1, <2>2, <2>3, <2>4 DEF QueueOK
  <2>6. \A r \in Procs : pc[r] \in {"snd_sleep", "rcv_sleep"} => pc'[r] = pc[r] /\ call'[r] = call[r]
    BY <1>3, <1>7
  <2>7. \A r \in Procs : pc'[r] = "rcv_sleep" => pc[r] = "rcv_sleep"
    BY <1>7
  <2> QED
    BY <1>1, <1>5, <1>6, <1>8, <1>10, <2>5, <2>6, <2>7, OneQueue
<1>14. Placed'
  <2>1. ASSUME NEW x \in live PROVE Stays(x)
    <3>1. x \in Message /\ x.from \in Procs /\ x.gen \in Made
      BY DEF Shapes, Message, Placed
    <3>2. AtSender(x)' <=> AtSender(x)
      BY <1>3, <1>11, <3>1 DEF AtSender
    <3>3. AtQueue(x)' <=> AtQueue(x)
      BY <1>1, <1>3, <1>5, <1>6, <3>1, QueueStays
    <3>4. count[x.from] \in Int
      BY <3>1 DEF Shapes
    <3> QED
      BY <1>3, <1>10, <3>1, <3>2, <3>3, <3>4 DEF Stays
  <2>2. NULL \notin live
    BY PointerAssumption DEF Shapes
  <2>3. \A r \in Procs : Sending(r)' => call'[r].msg \in live'
    BY <1>3, <1>11 DEF Placed
  <2>4. \A r \in Procs : rmsg'[r] \in Message => rmsg'[r] \in live'
    BY <1>3 DEF Placed
  <2>5. \A j \in Used' : Members(entries'[j].messages) \subseteq live'
    <3>1. \A j \in Used : entries'[j].messages = entries[j].messages
      BY <1>1, <1>5, <1>6, UsedFacts
    <3> QED
      BY <1>3, <1>6, <3>1 DEF Placed
  <2>6. \A r \in Procs : pc'[r] # "received" => rmsg'[r] = Wild
    BY <1>3, <1>7 DEF Placed
  <2> QED
    BY <1>3, <1>8, <2>1, <2>2, <2>3, <2>4, <2>5, <2>6, OneMoves
<1> QED
  BY <1>8, <1>9, <1>12, <1>13, <1>14

\* pipeline_send looks at every receiver.
LEMMA ReceiverFact ==
    ASSUME Shapes, NEW i \in Used, NEW m
    PROVE  /\ Receiver(i, m) = NULL =>
                 \A r \in Members(entries[i].receivers) : ~ TestMsg(call[r].type, m.type)
           /\ Receiver(i, m) # NULL =>
                 /\ Receiver(i, m) \in Members(entries[i].receivers)
                 /\ TestMsg(call[Receiver(i, m)].type, m.type)
<1>1. PICK s \in Seq(Procs) : s = entries[i].receivers
  BY UsedFacts
<1>2. PICK fits : fits = {j \in DOMAIN s : TestMsg(call[s[j]].type, m.type)}
  OBVIOUS
<1>3. PICK k : k = CHOOSE j \in fits : \A l \in fits : j <= l
  OBVIOUS
<1>4. Receiver(i, m) = IF fits = {} THEN NULL ELSE s[k]
  BY <1>1, <1>2, <1>3 DEF Receiver
<1>5. CASE fits = {}
  BY <1>1, <1>2, <1>4, <1>5 DEF Members
<1>6. CASE fits # {}
  <2>1. fits \subseteq Nat
    BY <1>2
  <2>2. \E j \in fits : \A l \in fits : j <= l
    BY <1>6, <2>1, LeastExists
  <2>3. k \in fits
    BY <1>3, <2>2
  <2>4. k \in 1 .. Len(s) /\ k \in DOMAIN s /\ TestMsg(call[s[k]].type, m.type)
    BY <1>2, <2>3
  <2>5. s[k] \in Procs /\ s[k] # NULL
    BY <2>4, ElementTyped, PointerAssumption
  <2> QED
    BY <1>1, <1>4, <1>6, <2>4, <2>5 DEF Members
<1> QED
  BY <1>5, <1>6

LEMMA SndQueuesKeeps ==
    ASSUME IInv, NEW p \in Procs, pc[p] \in {"send", "resend"}, NEW i \in Used,
           slots[call[p].gen] = i, ~ Full(i), Receiver(i, call[p].msg) = NULL, SndQueues(p, i)
    PROVE  IInv'
<1> USE DEF IInv
<1>1. PICK e \in Queue : e = entries[i]
  BY UsedFacts
<1>2. PICK m \in Message : /\ m = call[p].msg /\ m \in live /\ m.from = p
                           /\ \A r \in Procs : rmsg[r] # m
                           /\ \A j \in Used : m \notin Members(entries[j].messages)
  <2>1. Sending(p)
    BY DEF Sending
  <2> QED
    BY <2>1, OwnMessage
<1>3. m.gen \in Made /\ slots[m.gen] = i
  BY <1>2 DEF Asked, Sending
<1>4. PICK q : q = Refilled(e, Append(e.messages, m), e.sum + 1)
  OBVIOUS
<1>5. /\ entries' = [entries EXCEPT ![i] = q] /\ call' = [call EXCEPT ![p] = Idle]
      /\ pc' = [pc EXCEPT ![p] = "idle"]
      /\ UNCHANGED <<seq, inUse, slots, held, rmsg, live, count>>
  BY <1>1, <1>2, <1>4 DEF SndQueues, Refilled
<1>6. /\ e.messages \in Seq(Message) /\ Append(e.messages, m) \in Seq(Message)
      /\ Members(Append(e.messages, m)) = Members(e.messages) \cup {m}
      /\ Len(Append(e.messages, m)) = Len(e.messages) + 1
      /\ Distinct(e.messages) => Distinct(Append(e.messages, m))
  <2>1. e.messages \in Seq(Message) /\ m \notin Members(e.messages)
    BY <1>1, <1>2 DEF Queue
  <2> QED
    BY <2>1, AppendFacts
<1>7. e.sum \in 0 .. MaxMsg /\ e.sum < MaxMsg
  <2>1. e.sum \in 0 .. MaxMsg /\ ~ (e.sum + 1 > MaxMsg)
    BY <1>1 DEF Full, Queue
  <2> QED
    BY <2>1, BoundAssumption
<1>8. /\ q \in Queue /\ q.messages = Append(e.messages, m) /\ q.sum = e.sum + 1
      /\ q.senders = e.senders /\ q.receivers = e.receivers
  <2>1. e.sum + 1 \in 0 .. MaxMsg
    BY <1>7, BoundAssumption
  <2> QED
    BY <1>4, <1>6, <2>1, RefilledFacts
<1>9. /\ entries' \in [0 .. Slots - 1 -> Queue \cup {NULL}] /\ entries'[i] = q /\ q # NULL
      /\ \A j \in 0 .. Slots - 1 : j # i => entries'[j] = entries[j]
      /\ Used' = Used /\ i \in 0 .. Slots - 1
  BY <1>5, <1>8, QueueChange
<1>10. /\ pc'[p] = "idle" /\ pc' \in [Procs -> PCs] /\ call' \in [Procs -> Calls]
       /\ \A r \in Procs : r # p => pc'[r] = pc[r] /\ call'[r] = call[r]
  BY <1>5, CallFacts DEF Shapes, PCs
<1>11. Shapes'
  BY <1>5, <1>9, <1>10 DEF Shapes
<1>12. InUse'
  BY <1>5, <1>9 DEF InUse
<1>13. Made' = Made /\ Grown
  BY <1>5 DEF Made, Grown
<1>14. Asked'
  BY <1>10, <1>13 DEF Asked, Sending
<1>15. Linked'
  <2>1. QueueOK(e, i)
    BY <1>1 DEF Linked
  <2>2. q.sum = Len(q.messages) /\ q.senders = <<>>
    BY <1>6, <1>7, <1>8, <2>1 DEF QueueOK
  <2>3. Distinct(q.messages) /\ \A x \in Members(q.messages) : x.gen \in Made /\ slots[x.gen] = i
    BY <1>3, <1>6, <1>8, <2>1 DEF QueueOK
  <2>4. ASSUME NEW r \in Members(q.receivers)
        PROVE  /\ pc'[r] = "rcv_sleep" /\ slots[call'[r].gen] = i
               /\ \A x \in Members(q.messages) : ~ TestMsg(call'[r].type, x.type)
    <3>1. r \in Procs
      BY <1>8, MembersTyped DEF Queue
    <3>2. /\ pc[r] = "rcv_sleep" /\ slots[call[r].gen] = i
          /\ \A x \in Members(e.messages) : ~ TestMsg(call[r].type, x.type)
      BY <1>8, <2>1 DEF QueueOK
    <3>3. pc'[r] = pc[r] /\ call'[r] = call[r]
      BY <1>10, <3>1, <3>2
    <3>4. ~ TestMsg(call[r].type, m.type)
      BY <1>1, <1>2, <1>8, ReceiverFact
    <3> QED
      BY <1>6, <1>8, <3>2, <3>3, <3>4
  <2>5. QueueOK(entries[i], i)'
    <3>1. Distinct(q.receivers)
      BY <1>8, <2>1 DEF QueueOK
    <3>2. Members(q.senders) = {}
      BY <2>2, EmptyFacts
    <3> QED
      BY <1>5, <1>9, <1>13, <2>2, <2>3, <2>4, <3>1, <3>2 DEF QueueOK
  <2>6. \A r \in Procs : pc[r] \in {"snd_sleep", "rcv_sleep"} => pc'[r] = pc[r] /\ call'[r] = call[r]
    BY <1>10
  <2>7. \A r \in Procs : pc'[r] = "rcv_sleep" => pc[r] = "rcv_sleep"
    BY <1>10
  <2> QED
    BY <1>1, <1>8, <1>9, <1>11, <1>13, <2>5, <2>6, <2>7, OneQueue
<1>16. Placed'
  <2>1. ASSUME NEW x \in live, x # m PROVE Stays(x)
    <3>1. x \in Message /\ x.from \in Procs /\ x.gen \in Made
      BY DEF Shapes, Message, Placed
    <3>2. AtSender(x)' <=> AtSender(x)
      <4>1. ~ Sending(p)' /\ call[p].msg # x
        BY <1>2, <1>10, <2>1 DEF Sending
      <4> QED
        BY <1>10, <3>1, <4>1, SenderStays
    <3>3. AtQueue(x)' <=> AtQueue(x)
      <4>1. x \in Members(entries'[i].messages) <=> x \in Members(entries[i].messages)
        BY <1>1, <1>6, <1>8, <1>9, <2>1
      <4> QED
        BY <1>5, <1>9, <3>1, <4>1, QueueStays
    <3>4. count[x.from] \in Int
      BY <3>1 DEF Shapes
    <3> QED
      BY <1>5, <1>13, <3>1, <3>2, <3>3, <3>4 DEF Stays
  <2>2. m.gen \in Made' /\ m.n <= count'[m.from]
    BY <1>2, <1>5, <1>13 DEF Placed
  <2>3. OnePlace(m)'
    <3>1. ~ AtSender(m)'
      BY <1>2, <1>10 DEF AtSender, Sending
    <3>2. AtQueue(m)'
      BY <1>3, <1>5, <1>6, <1>8, <1>9 DEF AtQueue
    <3> QED
      BY <1>2, <1>5, <3>1, <3>2 DEF OnePlace
  <2>4. \A r \in Procs : Sending(r)' => call'[r].msg \in live'
    BY <1>5, <1>10 DEF Placed, Sending
  <2>5. \A r \in Procs : rmsg'[r] \in Message => rmsg'[r] \in live'
    BY <1>5 DEF Placed
  <2>6. \A j \in Used' : Members(entries'[j].messages) \subseteq live'
    <3>1. ASSUME NEW j \in Used PROVE Members(entries'[j].messages) \subseteq live
      <4>1. CASE j = i
        BY <1>1, <1>2, <1>6, <1>8, <1>9, <4>1 DEF Placed
      <4>2. CASE j # i
        BY <1>9, <4>2, UsedFacts DEF Placed
      <4> QED
        BY <4>1, <4>2
    <3> QED
      BY <1>5, <1>9, <3>1
  <2>7. \A r \in Procs : pc'[r] # "received" => rmsg'[r] = Wild
    BY <1>5, <1>10 DEF Placed
  <2> QED
    BY <1>5, <1>11, <2>1, <2>2, <2>3, <2>4, <2>5, <2>6, <2>7, OneMoves
<1> QED
  BY <1>11, <1>12, <1>14, <1>15, <1>16

\* Nobody begins or stops to send, but p.
LEMMA SendersStay ==
    ASSUME NEW p \in Procs, NEW m \in Message,
           \A q \in Procs : q # p => /\ Sending(q)' <=> Sending(q)
                                     /\ Sending(q) => call'[q] = call[q],
           Sending(p)' => call'[p].msg # m, Sending(p) => call[p].msg # m
    PROVE  AtSender(m)' <=> AtSender(m)
<1>1. m.from \in Procs
  BY DEF Message
<1>2. CASE m.from = p
  BY <1>2 DEF AtSender
<1>3. CASE m.from # p
  BY <1>1, <1>3 DEF AtSender
<1> QED
  BY <1>2, <1>3

LEMMA SndPipesKeeps ==
    ASSUME IInv, NEW p \in Procs, pc[p] \in {"send", "resend"}, NEW i \in Used,
           slots[call[p].gen] = i, Receiver(i, call[p].msg) # NULL, SndPipes(p, i)
    PROVE  IInv'
<1> USE DEF IInv
<1>1. PICK e \in Queue : e = entries[i]
  BY UsedFacts
<1>2. PICK m \in Message : /\ m = call[p].msg /\ m \in live /\ m.from = p
                           /\ \A x \in Procs : rmsg[x] # m
                           /\ \A j \in Used : m \notin Members(entries[j].messages)
  <2>1. Sending(p)
    BY DEF Sending
  <2> QED
    BY <2>1, OwnMessage
<1>3. QueueOK(e, i)
  BY <1>1 DEF Linked
<1>4. PICK r \in Procs : /\ r = Receiver(i, m) /\ r \in Members(e.receivers)
                         /\ pc[r] = "rcv_sleep" /\ slots[call[r].gen] = i
  <2>1. Receiver(i, m) \in Members(e.receivers)
    BY <1>1, <1>2, ReceiverFact
  <2>2. Members(e.receivers) \subseteq Procs
    BY MembersTyped DEF Queue
  <2> QED
    BY <1>3, <2>1, <2>2 DEF QueueOK
<1>5. r # p /\ rmsg[r] = Wild
  BY <1>4 DEF Placed
<1>6. PICK big \in BOOLEAN : big = (m.size > call[r].size)
  <2>1. PICK a \in Int, b \in Int : a = m.size /\ b = call[r].size
    <3>1. m.size \in Sizes
      BY DEF Message
    <3>2. call[r].size \in Sizes
      BY <1>4 DEF Asked
    <3>3. \A x \in Sizes : x \in Int
      BY TypeAssumption
    <3> QED
      BY <3>1, <3>2, <3>3, Zenon
  <2>2. (a > b) \in BOOLEAN
    BY <2>1
  <2>3. (m.size > call[r].size) \in BOOLEAN
    BY <2>1, <2>2
  <2> QED
    BY <2>3
<1>7. PICK q : q = [e EXCEPT !.receivers = Detach(e.receivers, r)]
  OBVIOUS
<1>8. /\ entries' = [entries EXCEPT ![i] = q]
      /\ rmsg' = [rmsg EXCEPT ![r] = IF big THEN NULL ELSE m]
      /\ pc' = [pc EXCEPT ![r] = "received", ![p] = IF big THEN "hung" ELSE "idle"]
      /\ call' = (IF big THEN call ELSE [call EXCEPT ![p] = Idle])
      /\ held' = big
      /\ UNCHANGED <<seq, inUse, slots, live, count>>
  BY <1>1, <1>2, <1>4, <1>6, <1>7 DEF SndPipes
<1>9. /\ e.receivers \in Seq(Procs) /\ Detach(e.receivers, r) \in Seq(Procs)
      /\ Members(Detach(e.receivers, r)) = Members(e.receivers) \ {r}
      /\ Distinct(Detach(e.receivers, r))
  <2>1. e.receivers \in Seq(Procs) /\ Distinct(e.receivers)
    BY <1>3 DEF Queue, QueueOK
  <2> QED
    BY <2>1, DetachFacts
<1>10. /\ q \in Queue /\ q.receivers = Detach(e.receivers, r)
       /\ q.messages = e.messages /\ q.senders = e.senders /\ q.sum = e.sum
  BY <1>7, <1>9 DEF Queue
<1>11. /\ entries' \in [0 .. Slots - 1 -> Queue \cup {NULL}] /\ entries'[i] = q /\ q # NULL
       /\ \A j \in 0 .. Slots - 1 : j # i => entries'[j] = entries[j]
       /\ Used' = Used /\ i \in 0 .. Slots - 1
  BY <1>8, <1>10, QueueChange
<1>12. /\ pc'[r] = "received" /\ pc'[p] = (IF big THEN "hung" ELSE "idle")
       /\ rmsg'[r] = (IF big THEN NULL ELSE m)
       /\ big => call' = call
       /\ \A x \in Procs : x # p /\ x # r => pc'[x] = pc[x]
       /\ \A x \in Procs : x # p => call'[x] = call[x]
       /\ \A x \in Procs : x # r => rmsg'[x] = rmsg[x]
  <2>1. /\ pc'[r] = "received" /\ pc'[p] = (IF big THEN "hung" ELSE "idle")
        /\ \A x \in Procs : x # p /\ x # r => pc'[x] = pc[x]
    BY <1>5, <1>8 DEF Shapes
  <2>2. /\ rmsg'[r] = (IF big THEN NULL ELSE m) /\ \A x \in Procs : x # r => rmsg'[x] = rmsg[x]
    BY <1>8 DEF Shapes
  <2>3. big => call' = call
    BY <1>8
  <2>4. \A x \in Procs : x # p => call'[x] = call[x]
    BY <1>8 DEF Shapes
  <2> QED
    BY <2>1, <2>2, <2>3, <2>4
<1>13. Shapes'
  <2>1. pc' \in [Procs -> PCs]
    BY <1>8 DEF Shapes, PCs
  <2>2. call' \in [Procs -> Calls]
    BY <1>8, CallFacts DEF Shapes
  <2>3. rmsg' \in [Procs -> Message \cup {NULL, Wild}]
    BY <1>8 DEF Shapes
  <2> QED
    BY <1>8, <1>11, <2>1, <2>2, <2>3 DEF Shapes
<1>14. InUse'
  BY <1>8, <1>11 DEF InUse
<1>15. Made' = Made /\ Grown
  BY <1>8 DEF Made, Grown
<1>16. /\ \A x \in Procs : x # p => (Sending(x)' <=> Sending(x))
       /\ Sending(p) /\ (Sending(p)' <=> big)
  BY <1>4, <1>12 DEF Sending
<1>17. Asked'
  <2> SUFFICES ASSUME NEW x \in Procs
               PROVE  /\ Sending(x)' => /\ call'[x].gen \in Made /\ call'[x].msg \in Message
                                        /\ call'[x].msg.from = x /\ call'[x].msg.gen = call'[x].gen
                      /\ pc'[x] = "rcv_sleep" =>
                            call'[x].gen \in Made /\ call'[x].type \in Requests /\ call'[x].size \in Sizes
    BY <1>15 DEF Asked
  <2>1. CASE x = p
    <3>1. pc'[p] # "rcv_sleep"
      BY <1>12
    <3> QED
      BY <1>12, <1>16, <2>1, <3>1 DEF Asked
  <2>2. CASE x # p
    <3>1. pc'[x] = "rcv_sleep" => pc[x] = "rcv_sleep"
      BY <1>12, <2>2
    <3> QED
      BY <1>12, <1>16, <2>2, <3>1 DEF Asked
  <2> QED
    BY <2>1, <2>2
<1>18. Linked'
  <2>1. ASSUME NEW x \in Members(q.receivers)
        PROVE  /\ pc'[x] = "rcv_sleep" /\ slots[call'[x].gen] = i
               /\ \A y \in Members(q.messages) : ~ TestMsg(call'[x].type, y.type)
    <3>1. x \in Procs /\ x # r /\ x \in Members(e.receivers)
      BY <1>9, <1>10, MembersTyped
    <3>2. /\ pc[x] = "rcv_sleep" /\ slots[call[x].gen] = i
          /\ \A y \in Members(e.messages) : ~ TestMsg(call[x].type, y.type)
      BY <1>3, <3>1 DEF QueueOK
    <3>3. x # p
      BY <3>2
    <3>4. pc'[x] = pc[x] /\ call'[x] = call[x]
      BY <1>12, <3>1, <3>3
    <3> QED
      BY <1>10, <3>2, <3>4
  <2>2. ASSUME NEW x \in Members(q.senders)
        PROVE  pc'[x] = "snd_sleep" /\ slots[call'[x].gen] = i
    <3>1. x \in Procs
      BY <1>10, MembersTyped DEF Queue
    <3>2. pc[x] = "snd_sleep" /\ slots[call[x].gen] = i
      BY <1>3, <1>10 DEF QueueOK
    <3>3. x # p /\ x # r
      BY <1>4, <3>2
    <3> QED
      BY <1>12, <3>1, <3>2, <3>3
  <2>3. QueueOK(entries[i], i)'
    BY <1>3, <1>8, <1>9, <1>10, <1>11, <1>15, <2>1, <2>2 DEF QueueOK
  <2>4. \A x \in Procs : pc[x] \in {"snd_sleep", "rcv_sleep"} /\ slots[call[x].gen] # i =>
           pc'[x] = pc[x] /\ call'[x] = call[x]
    BY <1>4, <1>12
  <2>5. \A x \in Procs : pc'[x] = "rcv_sleep" => pc[x] = "rcv_sleep" /\ x # r
    BY <1>12
  <2>6. \A x \in Procs : pc'[x] = "rcv_sleep" =>
           \/ entries'[i] # NULL /\ x \in Members(entries'[i].receivers)
           \/ pc[x] = "rcv_sleep" /\ ~ (entries[i] # NULL /\ x \in Members(entries[i].receivers))
    BY <1>1, <1>9, <1>10, <1>11, <2>5
  <2> QED
    BY <1>11, <1>13, <1>15, <2>3, <2>4, <2>6, OneQueue
<1>19. Placed'
  <2>1. ASSUME NEW x \in live, x # m PROVE Stays(x)
    <3>1. x \in Message /\ x.from \in Procs /\ x.gen \in Made
      BY DEF Shapes, Message, Placed
    <3>2. AtSender(x)' <=> AtSender(x)
      <4>1. (Sending(p)' => call'[p].msg # x) /\ call[p].msg # x
        BY <1>2, <1>12, <1>16, <2>1
      <4> QED
        BY <1>12, <1>16, <3>1, <4>1, SendersStay
    <3>3. AtQueue(x)' <=> AtQueue(x)
      BY <1>1, <1>8, <1>10, <1>11, <3>1, QueueStays
    <3>4. count[x.from] \in Int
      BY <3>1 DEF Shapes
    <3>5. \A y \in Procs : rmsg'[y] = x <=> rmsg[y] = x
      BY <1>5, <1>12, <2>1, <3>1, PointerAssumption
    <3> QED
      BY <1>8, <1>15, <3>1, <3>2, <3>3, <3>4, <3>5 DEF Stays
  <2>2. m.gen \in Made' /\ m.n <= count'[m.from]
    BY <1>2, <1>8, <1>15 DEF Placed
  <2>3. OnePlace(m)'
    <3>1. ~ AtQueue(m)'
      <4>1. AtQueue(m)' <=> AtQueue(m)
        BY <1>1, <1>2, <1>8, <1>10, <1>11, QueueStays DEF Placed
      <4>2. ~ AtQueue(m)
        BY <1>2, <1>16, OwnMessage
      <4> QED
        BY <4>1, <4>2
    <3>2. CASE big
      <4>1. AtSender(m)'
        BY <1>2, <1>12, <1>16, <3>2 DEF AtSender
      <4>2. \A x \in Procs : rmsg'[x] # m
        BY <1>2, <1>12, <3>2, PointerAssumption
      <4> QED
        BY <3>1, <4>1, <4>2 DEF OnePlace
    <3>3. CASE ~ big
      <4>1. ~ AtSender(m)'
        BY <1>2, <1>16, <3>3 DEF AtSender
      <4>2. rmsg'[r] = m /\ \A x \in Procs : rmsg'[x] = m => x = r
        BY <1>2, <1>12, <3>3
      <4> QED
        BY <3>1, <4>1, <4>2 DEF OnePlace
    <3> QED
      BY <3>2, <3>3
  <2>4. ASSUME NEW x \in Procs, Sending(x)' PROVE call'[x].msg \in live'
    <3>1. CASE x = p
      BY <1>2, <1>8, <1>12, <1>16, <2>4, <3>1
    <3>2. CASE x # p
      BY <1>8, <1>12, <1>16, <2>4, <3>2 DEF Placed
    <3> QED
      BY <3>1, <3>2
  <2>5. \A x \in Procs : rmsg'[x] \in Message => rmsg'[x] \in live'
    BY <1>2, <1>8, <1>12, PointerAssumption DEF Placed
  <2>6. \A j \in Used' : Members(entries'[j].messages) \subseteq live'
    <3>1. \A j \in Used : entries'[j].messages = entries[j].messages
      BY <1>1, <1>10, <1>11, UsedFacts
    <3> QED
      BY <1>8, <1>11, <3>1 DEF Placed
  <2>7. \A x \in Procs : pc'[x] # "received" => rmsg'[x] = Wild
    <3>1. pc[p] # "received"
      OBVIOUS
    <3> QED
      BY <1>5, <1>12, <3>1 DEF Placed
  <2> QED
    BY <1>8, <1>13, <2>1, <2>2, <2>3, <2>4, <2>5, <2>6, <2>7, OneMoves
<1> QED
  BY <1>13, <1>14, <1>17, <1>18, <1>19

\* One turn of the loop in sys_msgsnd.
LEMMA MsgSndKeeps ==
    ASSUME IInv, NEW p \in Procs, MsgSnd(p)
    PROVE  IInv'
<1>1. PICK i : i = GetMsgq(Id(call[p].gen))
  OBVIOUS
<1>2. pc[p] \in {"send", "resend"}
  BY DEF MsgSnd
<1>3. call[p].gen \in Made
  BY <1>2 DEF IInv, Asked, Sending
<1>4. i # -1 => i \in Used /\ slots[call[p].gen] = i
  BY <1>1, <1>3, GetFact DEF IInv
<1>5. CASE SndFails(p)
  BY <1>2, <1>5, SndFailsKeeps
<1>6. CASE i # -1 /\ Full(i) /\ SndSleeps(p, i)
  BY <1>2, <1>4, <1>6, SndSleepsKeeps
<1>7. CASE i # -1 /\ ~ Full(i) /\ Receiver(i, call[p].msg) = NULL /\ SndQueues(p, i)
  BY <1>2, <1>4, <1>7, SndQueuesKeeps
<1>8. CASE i # -1 /\ ~ Full(i) /\ Receiver(i, call[p].msg) # NULL /\ SndPipes(p, i)
  BY <1>2, <1>4, <1>8, SndPipesKeeps
<1> QED
  BY <1>1, <1>5, <1>6, <1>7, <1>8 DEF MsgSnd

-----------------------------------------------------------------------------
(* msgrcv *)

\* A process that does nothing in ipc.c holds no message and is linked nowhere.
LEMMA IdleFacts ==
    ASSUME IInv, NEW p \in Procs, pc[p] = "idle"
    PROVE  /\ rmsg[p] = Wild /\ ~ Sending(p)
           /\ \A i \in Used : /\ p \notin Members(entries[i].senders)
                              /\ p \notin Members(entries[i].receivers)
<1>1. rmsg[p] = Wild /\ ~ Sending(p)
  BY DEF IInv, Placed, Sending
<1>2. \A i \in Used : p \notin Members(entries[i].senders) /\ p \notin Members(entries[i].receivers)
  BY DEF IInv, Linked, QueueOK
<1> QED
  BY <1>1, <1>2

\* A message that is queued is nowhere else.
LEMMA QueuedMessage ==
    ASSUME Shapes, Linked, Placed, NEW i \in Used, NEW m \in Members(entries[i].messages)
    PROVE  /\ m \in live /\ m \in Message /\ m.gen \in Made /\ slots[m.gen] = i
           /\ ~ AtSender(m) /\ \A r \in Procs : rmsg[r] # m
<1>1. m \in live /\ m \in Message /\ m.gen \in Made
  BY DEF Placed, Shapes
<1>2. slots[m.gen] = i /\ entries[i] # NULL
  BY UsedFacts DEF Linked, QueueOK
<1>3. AtQueue(m)
  BY <1>2 DEF AtQueue
<1>4. ~ AtSender(m) /\ \A r \in Procs : rmsg[r] # m
  BY <1>1, <1>3 DEF Placed, OnePlace
<1> QED
  BY <1>1, <1>2, <1>4

LEMMA RcvTakesKeeps ==
    ASSUME IInv, NEW p \in Procs, pc[p] = "idle", NEW i \in Used,
           NEW g \in Made, NEW type \in Requests, NEW size \in Sizes,
           call' = [call EXCEPT ![p] = [gen |-> g, type |-> type, size |-> size]],
           NEW k \in DOMAIN entries[i].messages, RcvTakes(p, i, k)
    PROVE  IInv'
<1> USE DEF IInv
<1>1. PICK e \in Queue : e = entries[i]
  BY UsedFacts
<1>2. QueueOK(e, i)
  BY <1>1 DEF Linked
<1>3. /\ e.messages \in Seq(Message) /\ e.senders \in Seq(Procs) /\ e.receivers \in Seq(Procs)
      /\ e.sum \in 0 .. MaxMsg /\ e.sum = Len(e.messages)
  BY <1>2 DEF Queue, QueueOK
<1>4. PICK m \in Message : /\ m = e.messages[k] /\ m \in Members(e.messages) /\ m \in live
                           /\ m.gen \in Made /\ slots[m.gen] = i
                           /\ ~ AtSender(m) /\ \A r \in Procs : rmsg[r] # m
  <2>1. e.messages[k] \in Members(e.messages)
    BY <1>1 DEF Members
  <2> QED
    BY <1>1, <2>1, QueuedMessage
<1>5. PICK w : w = Without(e.messages, k)
  OBVIOUS
<1>6. w \in Seq(Message) /\ Members(w) = Members(e.messages) \ {m} /\ Distinct(w)
      /\ Len(w) = Len(e.messages) - 1
  <2>1. Distinct(e.messages) /\ k \in DOMAIN e.messages
    BY <1>1, <1>2 DEF QueueOK
  <2> QED
    BY <1>3, <1>4, <1>5, <2>1, WithoutFacts
<1>7. PICK f : f = Refilled(e, w, e.sum - 1)
  OBVIOUS
<1>8. PICK q : q = Released(f)
  OBVIOUS
<1>9. /\ entries' = [entries EXCEPT ![i] = q]
      /\ pc' = [SenderAwake(i) EXCEPT ![p] = "received"]
      /\ rmsg' = [rmsg EXCEPT ![p] = m]
      /\ UNCHANGED <<seq, inUse, slots, held, live, count>>
  BY <1>1, <1>4, <1>5, <1>7, <1>8 DEF RcvTakes, Refilled, Released
<1>10. /\ q \in Queue /\ q.messages = w /\ q.sum = e.sum - 1
       /\ q.senders = <<>> /\ q.receivers = e.receivers
  <2>1. e.sum - 1 \in 0 .. MaxMsg
    <3>1. Len(w) \in Nat
      BY <1>6
    <3> QED
      BY <1>3, <1>6, <3>1, BoundAssumption
  <2>2. /\ f \in Queue /\ f.messages = w /\ f.sum = e.sum - 1 /\ f.receivers = e.receivers
    BY <1>6, <1>7, <2>1, RefilledFacts
  <2> QED
    BY <1>8, <2>2, ReleasedFacts
<1>11. /\ entries' \in [0 .. Slots - 1 -> Queue \cup {NULL}] /\ entries'[i] = q /\ q # NULL
       /\ \A j \in 0 .. Slots - 1 : j # i => entries'[j] = entries[j]
       /\ Used' = Used /\ i \in 0 .. Slots - 1
  BY <1>9, <1>10, QueueChange
<1>12. /\ rmsg[p] = Wild /\ ~ Sending(p) /\ p \notin Members(e.senders)
       /\ p \notin Members(e.receivers)
  BY <1>1, IdleFacts
<1>13. /\ pc'[p] = "received" /\ rmsg'[p] = m
       /\ call'[p].gen = g /\ call'[p].type = type /\ call'[p].size = size
       /\ \A x \in Procs : x # p => call'[x] = call[x] /\ rmsg'[x] = rmsg[x]
       /\ \A x \in Procs : x # p => pc'[x] = IF x \in Members(e.senders) THEN "resend" ELSE pc[x]
  <2>1. /\ rmsg'[p] = m /\ \A x \in Procs : x # p => rmsg'[x] = rmsg[x]
    BY <1>9 DEF Shapes
  <2>2. /\ pc'[p] = "received"
        /\ \A x \in Procs : x # p => pc'[x] = IF x \in Members(e.senders) THEN "resend" ELSE pc[x]
    BY <1>1, <1>9 DEF SenderAwake
  <2>3. /\ call'[p] = [gen |-> g, type |-> type, size |-> size]
        /\ \A x \in Procs : x # p => call'[x] = call[x]
    BY DEF Shapes
  <2> QED
    BY <2>1, <2>2, <2>3
<1>14. Shapes'
  <2>1. pc' \in [Procs -> PCs]
    <3>1. SenderAwake(i) \in [Procs -> PCs]
      BY DEF SenderAwake, Shapes, PCs
    <3> QED
      BY <1>9, <3>1 DEF PCs
  <2>2. call' \in [Procs -> Calls]
    <3>1. [gen |-> g, type |-> type, size |-> size] \in Calls
      BY CallFacts DEF Made
    <3> QED
      BY <3>1 DEF Shapes
  <2>3. rmsg' \in [Procs -> Message \cup {NULL, Wild}]
    BY <1>9 DEF Shapes
  <2> QED
    BY <1>9, <1>11, <2>1, <2>2, <2>3 DEF Shapes
<1>15. InUse'
  BY <1>9, <1>11 DEF InUse
<1>16. Made' = Made /\ Grown
  BY <1>9 DEF Made, Grown
<1>17. /\ \A x \in Procs : Sending(x)' <=> Sending(x)
       /\ \A x \in Procs : pc'[x] = "rcv_sleep" <=> pc[x] = "rcv_sleep"
       /\ \A x \in Members(e.senders) : pc[x] = "snd_sleep" /\ slots[call[x].gen] = i
  <2>1. \A x \in Members(e.senders) : pc[x] = "snd_sleep" /\ slots[call[x].gen] = i
    BY <1>2 DEF QueueOK
  <2>2. ~ Sending(p)' /\ ~ Sending(p)
    BY <1>12, <1>13 DEF Sending
  <2>3. ASSUME NEW x \in Procs, x # p
        PROVE  (Sending(x)' <=> Sending(x)) /\ (pc'[x] = "rcv_sleep" <=> pc[x] = "rcv_sleep")
    <3>1. CASE x \in Members(e.senders)
      BY <1>13, <2>1, <2>3, <3>1 DEF Sending
    <3>2. CASE x \notin Members(e.senders)
      BY <1>13, <2>3, <3>2 DEF Sending
    <3> QED
      BY <3>1, <3>2
  <2>4. pc'[p] # "rcv_sleep" /\ pc[p] # "rcv_sleep"
    BY <1>13
  <2> QED
    BY <2>1, <2>2, <2>3, <2>4
<1>18. Asked'
  <2> SUFFICES ASSUME NEW x \in Procs
               PROVE  /\ Sending(x)' => /\ call'[x].gen \in Made /\ call'[x].msg \in Message
                                        /\ call'[x].msg.from = x /\ call'[x].msg.gen = call'[x].gen
                      /\ pc'[x] = "rcv_sleep" =>
                            call'[x].gen \in Made /\ call'[x].type \in Requests /\ call'[x].size \in Sizes
    BY <1>16 DEF Asked
  <2>1. CASE x = p
    BY <1>12, <1>17, <2>1
  <2>2. CASE x # p
    BY <1>13, <1>17, <2>2 DEF Asked
  <2> QED
    BY <2>1, <2>2
<1>19. Linked'
  <2>1. ASSUME NEW x \in Members(q.receivers)
        PROVE  /\ pc'[x] = "rcv_sleep" /\ slots[call'[x].gen] = i
               /\ \A y \in Members(q.messages) : ~ TestMsg(call'[x].type, y.type)
    <3>1. x \in Procs /\ x # p /\ x \in Members(e.receivers)
      BY <1>3, <1>10, <1>12, MembersTyped
    <3>2. /\ pc[x] = "rcv_sleep" /\ slots[call[x].gen] = i
          /\ \A y \in Members(e.messages) : ~ TestMsg(call[x].type, y.type)
      BY <1>2, <3>1 DEF QueueOK
    <3>3. pc'[x] = pc[x] /\ call'[x] = call[x]
      BY <1>13, <1>17, <3>1, <3>2
    <3> QED
      BY <1>6, <1>10, <3>2, <3>3
  <2>2. Members(q.senders) = {} /\ q.senders = <<>>
    BY <1>10, EmptyFacts
  <2>3. q.sum = Len(q.messages)
    BY <1>3, <1>6, <1>10
  <2>4. Distinct(q.receivers) /\ Distinct(q.messages)
    BY <1>2, <1>6, <1>10 DEF QueueOK
  <2>5. \A y \in Members(q.messages) : y.gen \in Made /\ slots[y.gen] = i
    BY <1>2, <1>6, <1>10 DEF QueueOK
  <2>6. QueueOK(entries[i], i)'
    BY <1>9, <1>11, <1>16, <2>1, <2>2, <2>3, <2>4, <2>5 DEF QueueOK
  <2>7. ASSUME NEW x \in Procs, pc[x] \in {"snd_sleep", "rcv_sleep"}, slots[call[x].gen] # i
        PROVE  pc'[x] = pc[x] /\ call'[x] = call[x]
    <3>1. x # p /\ x \notin Members(e.senders)
      BY <1>17, <2>7
    <3> QED
      BY <1>13, <3>1
  <2>8. \A x \in Procs : pc'[x] = "rcv_sleep" =>
           \/ entries'[i] # NULL /\ x \in Members(entries'[i].receivers)
           \/ pc[x] = "rcv_sleep" /\ ~ (entries[i] # NULL /\ x \in Members(entries[i].receivers))
    BY <1>1, <1>10, <1>11, <1>17
  <2> QED
    BY <1>11, <1>14, <1>16, <2>6, <2>7, <2>8, OneQueue
<1>20. Placed'
  <2>1. ASSUME NEW x \in live PROVE AtSender(x)' <=> AtSender(x)
    <3>1. x \in Message
      BY DEF Shapes
    <3> QED
      BY <1>12, <1>13, <1>17, <3>1, SendersStay
  <2>2. ASSUME NEW x \in live, x # m PROVE Stays(x)
    <3>1. x \in Message /\ x.from \in Procs /\ x.gen \in Made
      BY DEF Shapes, Message, Placed
    <3>2. AtQueue(x)' <=> AtQueue(x)
      <4>1. x \in Members(entries'[i].messages) <=> x \in Members(entries[i].messages)
        BY <1>1, <1>6, <1>10, <1>11, <2>2
      <4> QED
        BY <1>9, <1>11, <3>1, <4>1, QueueStays
    <3>3. count[x.from] \in Int
      BY <3>1 DEF Shapes
    <3>4. \A y \in Procs : rmsg'[y] = x <=> rmsg[y] = x
      BY <1>12, <1>13, <2>2, <3>1, PointerAssumption
    <3> QED
      BY <1>9, <1>16, <2>1, <3>1, <3>2, <3>3, <3>4 DEF Stays
  <2>3. m.gen \in Made' /\ m.n <= count'[m.from]
    BY <1>4, <1>9, <1>16 DEF Placed
  <2>4. OnePlace(m)'
    <3>1. ~ AtSender(m)'
      BY <1>4, <2>1
    <3>2. ~ AtQueue(m)'
      BY <1>4, <1>6, <1>9, <1>10, <1>11 DEF AtQueue
    <3>3. rmsg'[p] = m /\ \A x \in Procs : rmsg'[x] = m => x = p
      BY <1>4, <1>13
    <3> QED
      BY <3>1, <3>2, <3>3 DEF OnePlace
  <2>5. \A x \in Procs : Sending(x)' => call'[x].msg \in live'
    BY <1>9, <1>12, <1>13, <1>17 DEF Placed
  <2>6. \A x \in Procs : rmsg'[x] \in Message => rmsg'[x] \in live'
    BY <1>4, <1>9, <1>13 DEF Placed
  <2>7. \A j \in Used' : Members(entries'[j].messages) \subseteq live'
    <3>1. ASSUME NEW j \in Used PROVE Members(entries'[j].messages) \subseteq live
      <4>1. CASE j = i
        BY <1>1, <1>6, <1>10, <1>11, <4>1 DEF Placed
      <4>2. CASE j # i
        BY <1>11, <4>2, UsedFacts DEF Placed
      <4> QED
        BY <4>1, <4>2
    <3> QED
      BY <1>9, <1>11, <3>1
  <2>8. ASSUME NEW x \in Procs, pc'[x] # "received" PROVE rmsg'[x] = Wild
    <3>1. x # p
      BY <1>13, <2>8
    <3>2. pc[x] # "received"
      <4>1. CASE x \in Members(e.senders)
        BY <1>17, <4>1
      <4>2. CASE x \notin Members(e.senders)
        BY <1>13, <2>8, <3>1, <4>2
      <4> QED
        BY <4>1, <4>2
    <3> QED
      BY <1>13, <3>1, <3>2 DEF Placed
  <2> QED
    BY <1>9, <1>14, <2>2, <2>3, <2>4, <2>5, <2>6, <2>7, <2>8, OneMoves
<1> QED
  BY <1>14, <1>15, <1>18, <1>19, <1>20

LEMMA RcvSleepsKeeps ==
    ASSUME IInv, NEW p \in Procs, pc[p] = "idle", NEW i \in Used,
           NEW g \in Made, NEW type \in Requests, NEW size \in Sizes, slots[g] = i,
           call' = [call EXCEPT ![p] = [gen |-> g, type |-> type, size |-> size]],
           FoundMsg(entries[i].messages, type) = 0, RcvSleeps(p, i)
    PROVE  IInv'
<1> USE DEF IInv
<1>1. PICK e \in Queue : e = entries[i]
  BY UsedFacts
<1>2. QueueOK(e, i)
  BY <1>1 DEF Linked
<1>3. /\ e.messages \in Seq(Message) /\ e.receivers \in Seq(Procs)
  BY DEF Queue
<1>4. \A m \in Members(e.messages) : ~ TestMsg(type, m.type)
  <2>1. type \in Int
    BY TypeAssumption
  <2>2. \A j \in 1 .. Len(e.messages) : ~ TestMsg(type, e.messages[j].type)
    BY <1>1, <1>3, <2>1, FoundFacts
  <2>3. DOMAIN e.messages = 1 .. Len(e.messages)
    BY <1>3
  <2> QED
    BY <2>2, <2>3 DEF Members
<1>5. PICK q : q = [e EXCEPT !.receivers = Append(e.receivers, p)]
  OBVIOUS
<1>6. /\ rmsg[p] = Wild /\ ~ Sending(p) /\ p \notin Members(e.senders)
      /\ p \notin Members(e.receivers)
  BY <1>1, IdleFacts
<1>7. /\ entries' = [entries EXCEPT ![i] = q]
      /\ pc' = [pc EXCEPT ![p] = "rcv_sleep"]
      /\ rmsg' = [rmsg EXCEPT ![p] = Wild]
      /\ UNCHANGED <<seq, inUse, slots, held, live, count>>
  BY <1>1, <1>5 DEF RcvSleeps
<1>8. /\ Append(e.receivers, p) \in Seq(Procs)
      /\ Members(Append(e.receivers, p)) = Members(e.receivers) \cup {p}
      /\ Distinct(Append(e.receivers, p))
  <2>1. Distinct(e.receivers)
    BY <1>2 DEF QueueOK
  <2> QED
    BY <1>3, <1>6, <2>1, AppendFacts
<1>9. /\ q \in Queue /\ q.receivers = Append(e.receivers, p)
      /\ q.messages = e.messages /\ q.senders = e.senders /\ q.sum = e.sum
  BY <1>5, <1>8 DEF Queue
<1>10. /\ entries' \in [0 .. Slots - 1 -> Queue \cup {NULL}] /\ entries'[i] = q /\ q # NULL
       /\ \A j \in 0 .. Slots - 1 : j # i => entries'[j] = entries[j]
       /\ Used' = Used /\ i \in 0 .. Slots - 1
  BY <1>7, <1>9, QueueChange
<1>11. /\ pc'[p] = "rcv_sleep" /\ rmsg' = rmsg
       /\ call'[p].gen = g /\ call'[p].type = type /\ call'[p].size = size
       /\ \A x \in Procs : x # p => call'[x] = call[x] /\ pc'[x] = pc[x]
  <2>1. pc'[p] = "rcv_sleep" /\ \A x \in Procs : x # p => pc'[x] = pc[x]
    BY <1>7 DEF Shapes
  <2>2. rmsg' = rmsg
    BY <1>6, <1>7 DEF Shapes
  <2>3. /\ call'[p] = [gen |-> g, type |-> type, size |-> size]
        /\ \A x \in Procs : x # p => call'[x] = call[x]
    BY DEF Shapes
  <2> QED
    BY <2>1, <2>2, <2>3
<1>12. Shapes'
  <2>1. pc' \in [Procs -> PCs]
    BY <1>7 DEF Shapes, PCs
  <2>2. call' \in [Procs -> Calls]
    <3>1. [gen |-> g, type |-> type, size |-> size] \in Calls
      BY CallFacts DEF Made
    <3> QED
      BY <3>1 DEF Shapes
  <2> QED
    BY <1>7, <1>10, <1>11, <2>1, <2>2 DEF Shapes
<1>13. InUse'
  BY <1>7, <1>10 DEF InUse
<1>14. Made' = Made /\ Grown
  BY <1>7 DEF Made, Grown
<1>15. \A x \in Procs : Sending(x)' <=> Sending(x)
  <2>1. ~ Sending(p)'
    BY <1>11 DEF Sending
  <2>2. \A x \in Procs : x # p => (Sending(x)' <=> Sending(x))
    BY <1>11 DEF Sending
  <2> QED
    BY <1>6, <2>1, <2>2
<1>16. Asked'
  <2> SUFFICES ASSUME NEW x \in Procs
               PROVE  /\ Sending(x)' => /\ call'[x].gen \in Made /\ call'[x].msg \in Message
                                        /\ call'[x].msg.from = x /\ call'[x].msg.gen = call'[x].gen
                      /\ pc'[x] = "rcv_sleep" =>
                            call'[x].gen \in Made /\ call'[x].type \in Requests /\ call'[x].size \in Sizes
    BY <1>14 DEF Asked
  <2>1. CASE x = p
    BY <1>6, <1>11, <1>15, <2>1
  <2>2. CASE x # p
    BY <1>11, <1>15, <2>2 DEF Asked
  <2> QED
    BY <2>1, <2>2
<1>17. Linked'
  <2>1. ASSUME NEW x \in Members(q.receivers)
        PROVE  /\ pc'[x] = "rcv_sleep" /\ slots[call'[x].gen] = i
               /\ \A y \in Members(q.messages) : ~ TestMsg(call'[x].type, y.type)
    <3>1. CASE x = p
      BY <1>4, <1>9, <1>11, <3>1
    <3>2. CASE x # p
      <4>1. x \in Members(e.receivers) /\ x \in Procs
        BY <1>3, <1>8, <1>9, <3>2, MembersTyped
      <4>2. pc'[x] = pc[x] /\ call'[x] = call[x]
        BY <1>11, <3>2, <4>1
      <4> QED
        BY <1>2, <1>9, <4>1, <4>2 DEF QueueOK
    <3> QED
      BY <3>1, <3>2
  <2>2. ASSUME NEW x \in Members(q.senders)
        PROVE  pc'[x] = "snd_sleep" /\ slots[call'[x].gen] = i
    <3>1. x \in Procs /\ x # p /\ x \in Members(e.senders)
      BY <1>6, <1>9, MembersTyped DEF Queue
    <3> QED
      BY <1>2, <1>11, <3>1 DEF QueueOK
  <2>3. QueueOK(entries[i], i)'
    BY <1>2, <1>7, <1>8, <1>9, <1>10, <1>14, <2>1, <2>2 DEF QueueOK
  <2>4. \A x \in Procs : pc[x] \in {"snd_sleep", "rcv_sleep"} => pc'[x] = pc[x] /\ call'[x] = call[x]
    BY <1>11
  <2>5. \A x \in Procs : pc'[x] = "rcv_sleep" => x = p \/ pc[x] = "rcv_sleep"
    BY <1>11
  <2>6. \A x \in Procs : pc'[x] = "rcv_sleep" =>
           \/ entries'[i] # NULL /\ x \in Members(entries'[i].receivers)
           \/ pc[x] = "rcv_sleep" /\ ~ (entries[i] # NULL /\ x \in Members(entries[i].receivers))
    BY <1>1, <1>8, <1>9, <1>10, <2>5
  <2> QED
    BY <1>10, <1>12, <1>14, <2>3, <2>4, <2>6, OneQueue
<1>18. Placed'
  <2>1. ASSUME NEW x \in live PROVE Stays(x)
    <3>1. x \in Message /\ x.from \in Procs /\ x.gen \in Made
      BY DEF Shapes, Message, Placed
    <3>2. AtSender(x)' <=> AtSender(x)
      BY <1>6, <1>11, <1>15, <3>1, SendersStay
    <3>3. AtQueue(x)' <=> AtQueue(x)
      BY <1>1, <1>7, <1>9, <1>10, <3>1, QueueStays
    <3>4. count[x.from] \in Int
      BY <3>1 DEF Shapes
    <3> QED
      BY <1>7, <1>11, <1>14, <3>1, <3>2, <3>3, <3>4 DEF Stays
  <2>2. NULL \notin live
    BY PointerAssumption DEF Shapes
  <2>3. \A r \in Procs : Sending(r)' => call'[r].msg \in live'
    BY <1>6, <1>7, <1>11, <1>15 DEF Placed
  <2>4. \A r \in Procs : rmsg'[r] \in Message => rmsg'[r] \in live'
    BY <1>7, <1>11 DEF Placed
  <2>5. \A j \in Used' : Members(entries'[j].messages) \subseteq live'
    <3>1. \A j \in Used : entries'[j].messages = entries[j].messages
      BY <1>1, <1>9, <1>10, UsedFacts
    <3> QED
      BY <1>7, <1>10, <3>1 DEF Placed
  <2>6. \A r \in Procs : pc'[r] # "received" => rmsg'[r] = Wild
    BY <1>6, <1>11 DEF Placed
  <2> QED
    BY <1>7, <1>12, <2>1, <2>2, <2>3, <2>4, <2>5, <2>6, OneMoves
<1> QED
  BY <1>12, <1>13, <1>16, <1>17, <1>18

LEMMA MsgRcvKeeps ==
    ASSUME IInv, NEW p \in Procs, NEW g \in Made, NEW type \in Requests, NEW size \in Sizes,
           MsgRcv(p, g, type, size)
    PROVE  IInv'
<1>1. PICK i : i = GetMsgq(Id(g))
  OBVIOUS
<1>2. i # -1 /\ pc[p] = "idle"
  BY <1>1 DEF MsgRcv
<1>3. i \in Used /\ slots[g] = i
  BY <1>1, <1>2, GetFact DEF IInv
<1>4. PICK k : k = FoundMsg(entries[i].messages, type)
  OBVIOUS
<1>5. call' = [call EXCEPT ![p] = [gen |-> g, type |-> type, size |-> size]]
  BY DEF MsgRcv
<1>6. IF k # 0 THEN RcvTakes(p, i, k) ELSE RcvSleeps(p, i)
  BY <1>1, <1>4 DEF MsgRcv
<1>7. CASE k = 0
  BY <1>2, <1>3, <1>4, <1>5, <1>6, <1>7, RcvSleepsKeeps
<1>8. CASE k # 0
  <2>1. entries[i].messages \in Seq(Message) /\ type \in Int
    BY <1>3, UsedFacts, TypeAssumption DEF IInv
  <2>2. k \in 0 .. Len(entries[i].messages)
    BY <1>4, <2>1, FoundFacts
  <2>3. k \in DOMAIN entries[i].messages
    BY <1>8, <2>1, <2>2
  <2> QED
    BY <1>2, <1>3, <1>5, <1>6, <1>8, <2>3, RcvTakesKeeps
<1> QED
  BY <1>7, <1>8

-----------------------------------------------------------------------------
(* msgctl *)

LEMMA MsgCtlKeeps ==
    ASSUME IInv, NEW p \in Procs, NEW g \in Made, MsgCtl(p, g)
    PROVE  IInv'
<1> USE DEF IInv
<1>1. PICK i : i = GetMsgq(Id(g))
  OBVIOUS
<1>2. i \in Used /\ i \in 0 .. Slots - 1 /\ entries[i] # NULL
  <2>1. i # -1
    BY <1>1 DEF MsgCtl
  <2> QED
    BY <1>1, <2>1, GetFact, UsedFacts
<1>3. PICK e \in Queue : e = entries[i]
  BY <1>2, UsedFacts
<1>4. QueueOK(e, i)
  BY <1>2, <1>3 DEF Linked
<1>5. /\ entries' = [entries EXCEPT ![i] = NULL] /\ inUse' = inUse - 1
      /\ live' = live \ Members(e.messages)
      /\ pc' = [x \in Procs |-> IF x \in Members(e.receivers) THEN "received" ELSE pc[x]]
      /\ UNCHANGED <<seq, slots, held, call, count>>
  BY <1>1, <1>3 DEF MsgCtl
<1>6. PICK y \in [Members(e.receivers) -> {NULL, Wild}] :
         rmsg' = [x \in Procs |-> IF x \in DOMAIN y THEN y[x] ELSE rmsg[x]]
  BY <1>1, <1>3 DEF MsgCtl
<1>7. /\ entries' \in [0 .. Slots - 1 -> Queue \cup {NULL}] /\ entries'[i] = NULL
      /\ \A j \in 0 .. Slots - 1 : j # i => entries'[j] = entries[j]
  BY <1>2, <1>5 DEF Shapes
<1>8. Members(e.receivers) \subseteq Procs /\ \A x \in Members(e.receivers) :
         pc[x] = "rcv_sleep" /\ slots[call[x].gen] = i /\ rmsg[x] = Wild
  <2>1. Members(e.receivers) \subseteq Procs
    BY MembersTyped DEF Queue
  <2>2. \A x \in Members(e.receivers) : pc[x] = "rcv_sleep" /\ slots[call[x].gen] = i
    BY <1>4 DEF QueueOK
  <2>3. \A x \in Members(e.receivers) : rmsg[x] = Wild
    BY <2>1, <2>2 DEF Placed
  <2> QED
    BY <2>1, <2>2, <2>3
<1>9. ASSUME NEW x \in Procs
      PROVE  /\ x \in Members(e.receivers) => pc'[x] = "received" /\ rmsg'[x] \in {NULL, Wild}
             /\ x \notin Members(e.receivers) => pc'[x] = pc[x] /\ rmsg'[x] = rmsg[x]
  BY <1>5, <1>6
<1>10. Shapes'
  <2>1. pc' \in [Procs -> PCs]
    BY <1>5 DEF Shapes, PCs
  <2>2. rmsg' \in [Procs -> Message \cup {NULL, Wild}]
    <3>1. \A x \in Procs : rmsg'[x] \in Message \cup {NULL, Wild}
      BY <1>9 DEF Shapes
    <3> QED
      BY <1>6, <3>1
  <2> QED
    BY <1>5, <1>7, <2>1, <2>2 DEF Shapes
<1>11. Used' = Used \ {i}
  BY <1>2, <1>7, <1>10, UsedFacts DEF Used, Shapes
<1>12. InUse'
  <2>1. IsFiniteSet(Used)
    BY UsedFacts
  <2>2. Cardinality(Used \ {i}) = Cardinality(Used) - 1
    BY <1>2, <2>1, FS_RemoveElement
  <2> QED
    BY <1>5, <1>11, <2>2 DEF InUse
<1>13. Made' = Made /\ Grown
  BY <1>5 DEF Made, Grown
<1>14. \A x \in Procs : Sending(x)' <=> Sending(x)
  <2>1. ASSUME NEW x \in Procs PROVE Sending(x)' <=> Sending(x)
    <3>1. CASE x \in Members(e.receivers)
      BY <1>8, <1>9, <3>1 DEF Sending
    <3>2. CASE x \notin Members(e.receivers)
      BY <1>9, <3>2 DEF Sending
    <3> QED
      BY <3>1, <3>2
  <2> QED
    BY <2>1
<1>15. \A x \in Procs : pc'[x] = "rcv_sleep" => pc[x] = "rcv_sleep" /\ x \notin Members(e.receivers)
  BY <1>9
<1>16. Asked'
  BY <1>5, <1>13, <1>14, <1>15 DEF Asked
<1>17. Linked'
  <2>1. \A x \in Procs : pc[x] \in {"snd_sleep", "rcv_sleep"} /\ slots[call[x].gen] # i =>
           pc'[x] = pc[x] /\ call'[x] = call[x]
    BY <1>5, <1>8, <1>9
  <2> QED
    BY <1>2, <1>3, <1>7, <1>10, <1>13, <1>15, <2>1, OneQueue
<1>18. Placed'
  <2>1. ASSUME NEW m \in live' PROVE Stays(m)
    <3>1. m \in live /\ m \in Message /\ m.from \in Procs /\ m.gen \in Made
      BY <1>5 DEF Shapes, Message, Placed
    <3>2. AtSender(m)' <=> AtSender(m)
      BY <1>5, <1>14, <3>1 DEF AtSender
    <3>3. AtQueue(m)' <=> AtQueue(m)
      <4>1. slots[m.gen] \in 0 .. Slots - 1 /\ slots'[m.gen] = slots[m.gen]
        BY <1>5, <3>1, GetFact
      <4>2. m \notin Members(entries[i].messages)
        BY <1>3, <1>5
      <4>3. CASE slots[m.gen] = i
        BY <1>7, <4>1, <4>2, <4>3 DEF AtQueue
      <4>4. CASE slots[m.gen] # i
        BY <1>7, <4>1, <4>4 DEF AtQueue
      <4> QED
        BY <4>3, <4>4
    <3>4. count[m.from] \in Int
      BY <3>1 DEF Shapes
    <3>5. \A x \in Procs : rmsg'[x] = m <=> rmsg[x] = m
      BY <1>8, <1>9, <3>1, PointerAssumption
    <3> QED
      BY <1>5, <1>13, <3>1, <3>2, <3>3, <3>4, <3>5 DEF Stays
  <2>2. NULL \notin live /\ live' \subseteq live
    BY <1>5, PointerAssumption DEF Shapes
  <2>3. ASSUME NEW x \in Procs, Sending(x)' PROVE call'[x].msg \in live'
    <3>1. Sending(x)
      BY <1>14, <2>3
    <3>2. call[x].msg \in live /\ call[x].msg \notin Members(entries[i].messages)
      BY <1>2, <3>1, OwnMessage
    <3> QED
      BY <1>3, <1>5, <3>2
  <2>4. ASSUME NEW x \in Procs, rmsg'[x] \in Message PROVE rmsg'[x] \in live'
    <3>1. x \notin Members(e.receivers)
      BY <1>9, <2>4, PointerAssumption
    <3>2. rmsg'[x] = rmsg[x] /\ rmsg[x] \in live
      BY <1>9, <2>4, <3>1 DEF Placed
    <3>3. rmsg[x] \notin Members(entries[i].messages)
      BY <1>2, QueuedMessage
    <3> QED
      BY <1>3, <1>5, <3>2, <3>3
  <2>5. ASSUME NEW j \in Used' PROVE Members(entries'[j].messages) \subseteq live'
    <3>1. j \in Used /\ j # i /\ entries'[j] = entries[j]
      BY <1>7, <1>11, UsedFacts
    <3>2. ASSUME NEW m \in Members(entries[j].messages) PROVE m \in live /\ m \notin Members(e.messages)
      <4>1. m \in live /\ slots[m.gen] = j
        BY <3>1, <3>2, QueuedMessage
      <4>2. m \in Members(e.messages) => slots[m.gen] = i
        BY <1>2, <1>3, QueuedMessage
      <4> QED
        BY <3>1, <4>1, <4>2
    <3> QED
      BY <1>5, <3>1, <3>2
  <2>6. ASSUME NEW x \in Procs, pc'[x] # "received" PROVE rmsg'[x] = Wild
    <3>1. x \notin Members(e.receivers)
      BY <1>9, <2>6
    <3> QED
      BY <1>9, <2>6, <3>1 DEF Placed
  <2> QED
    BY <1>10, <2>1, <2>2, <2>3, <2>4, <2>5, <2>6, OneMoves
<1> QED
  BY <1>10, <1>12, <1>16, <1>17, <1>18

-----------------------------------------------------------------------------
(* Every step keeps the invariant. *)

LEMMA NextIInv == IInv /\ [Next]_vars => IInv'
<1> SUFFICES ASSUME IInv, [Next]_vars PROVE IInv'
  OBVIOUS
<1>1. CASE UNCHANGED vars
  BY <1>1, Unchanged
<1>2. CASE Next
  <2>1. PICK p \in Procs :
          \/ \E key \in Keys \cup {IPC_PRIVATE}, create \in BOOLEAN : MsgGet(p, key, create)
          \/ \E g \in Made, type \in Types, size \in Sizes : CallSnd(p, g, type, size)
          \/ MsgSnd(p)
          \/ \E g \in Made, type \in Requests, size \in Sizes : MsgRcv(p, g, type, size)
          \/ Store(p)
          \/ \E g \in Made : MsgCtl(p, g)
    BY <1>2 DEF Next
  <2>2. ASSUME NEW key \in Keys \cup {IPC_PRIVATE}, NEW create \in BOOLEAN, MsgGet(p, key, create)
        PROVE  IInv'
    BY <2>2, MsgGetKeeps
  <2>3. ASSUME NEW g \in Made, NEW type \in Types, NEW size \in Sizes, CallSnd(p, g, type, size)
        PROVE  IInv'
    BY <2>3, CallSndKeeps
  <2>4. CASE MsgSnd(p)
    BY <2>4, MsgSndKeeps
  <2>5. ASSUME NEW g \in Made, NEW type \in Requests, NEW size \in Sizes, MsgRcv(p, g, type, size)
        PROVE  IInv'
    BY <2>5, MsgRcvKeeps
  <2>6. CASE Store(p)
    BY <2>6, StoreKeeps
  <2>7. ASSUME NEW g \in Made, MsgCtl(p, g) PROVE IInv'
    BY <2>7, MsgCtlKeeps
  <2> QED
    BY <2>1, <2>2, <2>3, <2>4, <2>5, <2>6, <2>7
<1> QED
  BY <1>1, <1>2

\* The invariant of the message queues (ipc.c): shapes, the count of queues in
\* use, the arguments of calls, the links of queues, the place of every message.
THEOREM Inductive == Spec => []IInv
<1>1. Init => IInv
  BY InitIInv
<1>2. IInv /\ [Next]_vars => IInv'
  BY NextIInv
<1> QED
  BY <1>1, <1>2, PTL DEF Spec

\* Every variable keeps its type, and msg_ids.in_use counts the queues.
THEOREM TypeCorrect == Spec => []TypeOK
  BY Inductive, IInvTypes, PTL

\* No lost wake-up in ipc.c: a receiver sleeps on a queue that holds nothing
\* for it, a sender that is linked to a queue sleeps because it is full.
THEOREM NoSleepInVain == Spec => []NobodySleepsInVain
  BY Inductive, IInvSleeps, PTL

-----------------------------------------------------------------------------
(* Every message is in one place. *)

LEMMA OneToOne ==
    ASSUME NEW S, NEW T, IsFiniteSet(S), NEW f \in [S -> T],
           \A a \in S, b \in S : f[a] = f[b] => a = b, \A t \in T : \E s \in S : f[s] = t
    PROVE  IsFiniteSet(T) /\ Cardinality(T) = Cardinality(S)
<1>1. f \in Injection(S, T)
  BY DEF Injection, IsInjective
<1>2. f \in Surjection(S, T)
  BY DEF Surjection
<1>3. ExistsBijection(S, T)
  BY <1>1, <1>2 DEF ExistsBijection, Bijection
<1> QED
  BY <1>3, FS_Bijection

LEMMA ThreeParts ==
    ASSUME NEW A, NEW B, NEW C, IsFiniteSet(A), IsFiniteSet(B), IsFiniteSet(C),
           A \cap B = {}, (A \cup B) \cap C = {}
    PROVE  Cardinality(A \cup B \cup C) = Cardinality(A) + Cardinality(B) + Cardinality(C)
<1>1. /\ IsFiniteSet(A \cup B)
      /\ Cardinality(A \cup B) = Cardinality(A) + Cardinality(B) - Cardinality({})
  BY FS_Union
<1>2. Cardinality((A \cup B) \cup C) = Cardinality(A \cup B) + Cardinality(C) - Cardinality({})
  BY <1>1, FS_Union
<1>3. Cardinality({}) = 0
  BY FS_EmptySet
<1>4. Cardinality(A) \in Nat /\ Cardinality(B) \in Nat /\ Cardinality(C) \in Nat
  BY FS_CardinalityType
<1> QED
  BY <1>1, <1>2, <1>3, <1>4

WithSenders == {call[p].msg : p \in Pending}
WithReceivers == {rmsg[p] : p \in InHand}
Queued == UNION {Members(entries[i].messages) : i \in Used}
Positions == UNION {{i} \X DOMAIN entries[i].messages : i \in Used}

LEMMA WithSendersCounted ==
    ASSUME IInv
    PROVE  IsFiniteSet(WithSenders) /\ Cardinality(WithSenders) = Cardinality(Pending)
<1>1. IsFiniteSet(Pending)
  <2>1. Pending \in SUBSET Procs
    BY DEF Pending
  <2> QED
    BY <2>1, BoundAssumption, FS_Subset
<1>2. PICK f : f = [p \in Pending |-> call[p].msg]
  OBVIOUS
<1>3. f \in [Pending -> WithSenders]
  BY <1>2 DEF WithSenders
<1>4. \A p \in Pending : f[p].from = p
  BY <1>2 DEF Pending, IInv, Asked, Sending
<1>5. \A a \in Pending, b \in Pending : f[a] = f[b] => a = b
  <2> SUFFICES ASSUME NEW a \in Pending, NEW b \in Pending, f[a] = f[b] PROVE a = b
    OBVIOUS
  <2>1. f[a].from = a /\ f[b].from = b
    BY <1>4
  <2> QED
    BY <2>1
<1>6. \A t \in WithSenders : \E p \in Pending : f[p] = t
  BY <1>2 DEF WithSenders
<1> QED
  BY <1>1, <1>3, <1>5, <1>6, OneToOne

LEMMA HandFacts ==
    ASSUME IInv, NEW p \in InHand
    PROVE  p \in Procs /\ rmsg[p] \in Message /\ rmsg[p] \in live
<1>1. p \in Procs /\ rmsg[p] \in Message
  BY DEF InHand, IInv, Shapes
<1> QED
  BY <1>1 DEF IInv, Placed

LEMMA WithReceiversCounted ==
    ASSUME IInv
    PROVE  IsFiniteSet(WithReceivers) /\ Cardinality(WithReceivers) = Cardinality(InHand)
<1>1. IsFiniteSet(InHand)
  <2>1. InHand \in SUBSET Procs
    BY DEF InHand
  <2> QED
    BY <2>1, BoundAssumption, FS_Subset
<1>2. PICK f : f = [p \in InHand |-> rmsg[p]]
  OBVIOUS
<1>3. f \in [InHand -> WithReceivers]
  BY <1>2 DEF WithReceivers
<1>4. \A a \in InHand, b \in InHand : f[a] = f[b] => a = b
  <2> SUFFICES ASSUME NEW a \in InHand, NEW b \in InHand, f[a] = f[b] PROVE a = b
    OBVIOUS
  <2>1. /\ a \in Procs /\ b \in Procs /\ rmsg[a] \in live /\ rmsg[a] = rmsg[b]
    BY <1>2, HandFacts
  <2>2. OnePlace(rmsg[a])
    BY <2>1 DEF IInv, Placed
  <2> QED
    BY <2>1, <2>2 DEF OnePlace
<1>5. \A t \in WithReceivers : \E p \in InHand : f[p] = t
  BY <1>2 DEF WithReceivers
<1> QED
  BY <1>1, <1>3, <1>4, <1>5, OneToOne

LEMMA QueuedCounted ==
    ASSUME IInv
    PROVE  IsFiniteSet(Queued) /\ Cardinality(Queued) = Cardinality(Positions)
<1>1. \A x \in Positions : /\ x[1] \in Used /\ x[2] \in DOMAIN entries[x[1]].messages
                           /\ x = <<x[1], x[2]>>
  BY DEF Positions
<1>2. ASSUME NEW i \in Used, NEW k \in DOMAIN entries[i].messages PROVE <<i, k>> \in Positions
  BY DEF Positions
<1>3. IsFiniteSet(Positions)
  <2>1. IsFiniteSet(0 .. Slots - 1) /\ IsFiniteSet(1 .. MaxMsg)
    <3>1. 0 \in Int /\ 1 \in Int /\ Slots - 1 \in Int /\ MaxMsg \in Int
      BY BoundAssumption
    <3> QED
      BY <3>1, FS_Interval
  <2>2. IsFiniteSet((0 .. Slots - 1) \X (1 .. MaxMsg))
    BY <2>1, FS_Product
  <2>3. ASSUME NEW i \in Used PROVE i \in 0 .. Slots - 1 /\ DOMAIN entries[i].messages \subseteq 1 .. MaxMsg
    <3>1. /\ i \in 0 .. Slots - 1 /\ entries[i].messages \in Seq(Message)
          /\ entries[i].sum \in 0 .. MaxMsg
      BY UsedFacts DEF IInv
    <3>2. entries[i].sum = Len(entries[i].messages)
      BY DEF IInv, Linked, QueueOK
    <3>3. DOMAIN entries[i].messages = 1 .. Len(entries[i].messages)
      BY <3>1
    <3> QED
      BY <3>1, <3>2, <3>3, BoundAssumption
  <2>4. Positions \in SUBSET ((0 .. Slots - 1) \X (1 .. MaxMsg))
    <3>1. ASSUME NEW x \in Positions PROVE x \in (0 .. Slots - 1) \X (1 .. MaxMsg)
      <4>1. x[1] \in Used /\ x[2] \in DOMAIN entries[x[1]].messages /\ x = <<x[1], x[2]>>
        BY <1>1
      <4>2. x[1] \in 0 .. Slots - 1 /\ x[2] \in 1 .. MaxMsg
        BY <2>3, <4>1
      <4> QED
        BY <4>1, <4>2
    <3> QED
      BY <3>1
  <2> QED
    BY <2>2, <2>4, FS_Subset
<1>4. PICK f : f = [x \in Positions |-> entries[x[1]].messages[x[2]]]
  OBVIOUS
<1>5. ASSUME NEW x \in Positions PROVE x[1] \in Used /\ f[x] \in Members(entries[x[1]].messages)
  BY <1>1, <1>4 DEF Members
<1>6. f \in [Positions -> Queued]
  <2>1. \A x \in Positions : f[x] \in Queued
    BY <1>5 DEF Queued
  <2> QED
    BY <1>4, <2>1
<1>7. \A x \in Positions, y \in Positions : f[x] = f[y] => x = y
  <2> SUFFICES ASSUME NEW x \in Positions, NEW y \in Positions, f[x] = f[y] PROVE x = y
    OBVIOUS
  <2>1. slots[f[x].gen] = x[1] /\ slots[f[y].gen] = y[1]
    BY <1>5, QueuedMessage DEF IInv
  <2>2. PICK i \in Used : i = x[1] /\ i = y[1]
    BY <1>5, <2>1
  <2>3. PICK s : s = entries[i].messages
    OBVIOUS
  <2>4. Distinct(s)
    BY <2>3 DEF IInv, Linked, QueueOK
  <2>5. x[2] \in DOMAIN s /\ y[2] \in DOMAIN s /\ s[x[2]] = s[y[2]]
    BY <1>1, <1>4, <2>2, <2>3
  <2>6. x[2] = y[2]
    BY <2>4, <2>5 DEF Distinct
  <2> QED
    BY <1>1, <2>2, <2>6
<1>8. ASSUME NEW t \in Queued PROVE \E x \in Positions : f[x] = t
  <2>1. PICK i \in Used : t \in Members(entries[i].messages)
    BY DEF Queued
  <2>2. PICK k \in DOMAIN entries[i].messages : t = entries[i].messages[k]
    BY <2>1 DEF Members
  <2>3. <<i, k>> \in Positions
    BY <1>2
  <2>4. f[<<i, k>>] = t
    BY <1>4, <2>2, <2>3
  <2> QED
    BY <2>3, <2>4
<1> QED
  BY <1>3, <1>6, <1>7, <1>8, OneToOne

LEMMA IInvPlaces == IInv => ExactlyOnce
<1> SUFFICES ASSUME IInv PROVE ExactlyOnce
  OBVIOUS
<1>1. \A p \in Pending : p \in Procs /\ Sending(p)
  BY DEF Pending, Sending
<1>2. ASSUME NEW m \in WithSenders PROVE m \in live /\ AtSender(m)
  <2>1. PICK p \in Pending : m = call[p].msg
    BY DEF WithSenders
  <2> QED
    BY <1>1, <2>1, OwnMessage DEF IInv
<1>3. ASSUME NEW m \in WithReceivers PROVE m \in live /\ \E p \in Procs : rmsg[p] = m
  <2>1. PICK p \in InHand : m = rmsg[p]
    BY DEF WithReceivers
  <2> QED
    BY <2>1, HandFacts
<1>4. ASSUME NEW m \in Queued
      PROVE  m \in live /\ ~ AtSender(m) /\ \A p \in Procs : rmsg[p] # m
  <2>1. PICK i \in Used : m \in Members(entries[i].messages)
    BY DEF Queued
  <2> QED
    BY <2>1, QueuedMessage DEF IInv
<1>5. ASSUME NEW m \in live PROVE m \in WithSenders \cup WithReceivers \cup Queued
  <2>1. OnePlace(m) /\ m.gen \in Made /\ m \in Message
    BY DEF IInv, Placed, Shapes
  <2>2. CASE AtSender(m)
    <3>1. m.from \in Procs /\ m.from \in Pending /\ call[m.from].msg = m
      BY <2>1, <2>2 DEF AtSender, Pending, Sending, Message
    <3> QED
      BY <3>1 DEF WithSenders
  <2>3. CASE AtQueue(m)
    <3>1. slots[m.gen] \in Used /\ m \in Members(entries[slots[m.gen]].messages)
      <4>1. Shapes
        BY DEF IInv
      <4> QED
        BY <2>1, <2>3, <4>1, GetFact, UsedFacts DEF AtQueue
    <3> QED
      BY <3>1 DEF Queued
  <2>4. CASE \E p \in Procs : rmsg[p] = m
    <3>1. PICK p \in Procs : rmsg[p] = m
      BY <2>4
    <3>2. p \in InHand
      BY <2>1, <3>1, PointerAssumption DEF InHand
    <3> QED
      BY <3>1, <3>2 DEF WithReceivers
  <2> QED
    BY <2>1, <2>2, <2>3, <2>4 DEF OnePlace
<1>6. live = WithSenders \cup WithReceivers \cup Queued
  BY <1>2, <1>3, <1>4, <1>5
<1>7. WithSenders \cap WithReceivers = {} /\ (WithSenders \cup WithReceivers) \cap Queued = {}
  <2>1. ASSUME NEW m \in WithSenders, m \in WithReceivers PROVE FALSE
    <3>1. m \in live /\ AtSender(m) /\ \E p \in Procs : rmsg[p] = m
      BY <1>2, <1>3, <2>1
    <3>2. OnePlace(m)
      BY <3>1 DEF IInv, Placed
    <3> QED
      BY <3>1, <3>2 DEF OnePlace
  <2>2. ASSUME NEW m \in Queued PROVE m \notin WithSenders /\ m \notin WithReceivers
    BY <1>2, <1>3, <1>4
  <2> QED
    BY <2>1, <2>2
<1>8. Cardinality(live) = Cardinality(WithSenders) + Cardinality(WithReceivers) + Cardinality(Queued)
  BY <1>6, <1>7, WithSendersCounted, WithReceiversCounted, QueuedCounted, ThreeParts
<1>9. Cardinality(live) = Cardinality(Pending) + Cardinality(InHand) + Cardinality(Positions)
  BY <1>8, WithSendersCounted, WithReceiversCounted, QueuedCounted
<1> QED
  BY <1>6, <1>9 DEF ExactlyOnce, WithSenders, WithReceivers, Queued, Positions

\* Every message that load_msg allocated and free_msg has not freed is with its
\* sender, or once in one queue, or with one receiver, and no pointer to a freed
\* message is left: none is lost, delivered twice or leaked.
THEOREM MessagesAreExact == Spec => []ExactlyOnce
  BY Inductive, IInvPlaces, PTL

-----------------------------------------------------------------------------
(* The order of messages. *)

\* A step in which nobody is handed a message.
Quiet == \A x \in Procs : pc'[x] = "received" => pc[x] = "received" \/ rmsg'[x] \in {NULL, Wild}

LEMMA QuietTakesNone ==
    ASSUME Quiet PROVE TakesOldest
  BY DEF Quiet, TakesOldest

LEMMA SndPipesOrder ==
    ASSUME IInv, NEW p \in Procs, pc[p] \in {"send", "resend"}, NEW i \in Used,
           slots[call[p].gen] = i, Receiver(i, call[p].msg) # NULL, SndPipes(p, i)
    PROVE  TakesOldest
<1>1. PICK m : m = call[p].msg
  OBVIOUS
<1>2. Sending(p) /\ m.gen = call[p].gen
  BY <1>1 DEF Sending, IInv, Asked
<1>3. PICK r : r = Receiver(i, m)
  OBVIOUS
<1>4. r \in Members(entries[i].receivers) /\ TestMsg(call[r].type, m.type)
  BY <1>1, <1>3, ReceiverFact DEF IInv
<1>5. \A y \in Members(entries[i].messages) : ~ TestMsg(call[r].type, y.type)
  BY <1>4 DEF IInv, Linked, QueueOK
<1>6. /\ r \in Procs /\ pc[r] = "rcv_sleep" /\ r # p
  <2>1. entries[i].receivers \in Seq(Procs)
    BY UsedFacts DEF IInv
  <2>2. r \in Procs
    BY <1>4, <2>1, MembersTyped
  <2> QED
    BY <1>4, <2>2 DEF IInv, Linked, QueueOK
<1>7. /\ \A x \in Procs : x # r /\ pc'[x] = "received" => pc[x] = "received"
      /\ rmsg'[r] \in {NULL, m}
  <2>1. PICK a : a = (IF m.size > call[r].size THEN "hung" ELSE "idle")
    OBVIOUS
  <2>2. /\ pc' = [pc EXCEPT ![r] = "received", ![p] = a]
        /\ rmsg' = [rmsg EXCEPT ![r] = IF m.size > call[r].size THEN NULL ELSE m]
    BY <1>1, <1>3, <2>1 DEF SndPipes
  <2>3. a # "received"
    BY <2>1
  <2>4. \A x \in Procs : x # r /\ pc'[x] = "received" => pc[x] = "received"
    BY <2>2, <2>3 DEF IInv, Shapes
  <2>5. rmsg'[r] \in {NULL, m}
    BY <1>6, <2>2 DEF IInv, Shapes
  <2> QED
    BY <2>4, <2>5
<1> SUFFICES ASSUME NEW x \in Procs, pc[x] # "received", pc'[x] = "received", rmsg'[x] # NULL,
                    NEW k \in DOMAIN entries[slots[rmsg'[x].gen]].messages,
                    entries[slots[rmsg'[x].gen]].messages[k].type = rmsg'[x].type
             PROVE  FALSE
  BY DEF TakesOldest
<1>8. x = r /\ rmsg'[x] = m
  BY <1>7
<1>9. PICK s : s = entries[i].messages
  OBVIOUS
<1>10. k \in DOMAIN s /\ s[k].type = m.type
  BY <1>2, <1>8, <1>9
<1>11. s[k] \in Members(entries[i].messages)
  BY <1>9, <1>10 DEF Members
<1> QED
  BY <1>4, <1>5, <1>10, <1>11

LEMMA RcvTakesOrder ==
    ASSUME IInv, NEW p \in Procs, pc[p] = "idle", NEW i \in Used,
           NEW g \in Made, NEW type \in Requests, NEW size \in Sizes,
           call' = [call EXCEPT ![p] = [gen |-> g, type |-> type, size |-> size]],
           NEW k, k = FoundMsg(entries[i].messages, type), k # 0, RcvTakes(p, i, k)
    PROVE  TakesOldest
<1>1. PICK s \in Seq(Message) : s = entries[i].messages
  BY UsedFacts DEF IInv
<1>2. type \in Int /\ k \in 1 .. Len(s) /\ k \in DOMAIN s
  <2>1. type \in Int
    BY TypeAssumption
  <2>2. k \in 0 .. Len(s)
    BY <1>1, <2>1, FoundFacts
  <2> QED
    BY <2>1, <2>2
<1>3. type >= -1 => \A j \in 1 .. k - 1 : ~ TestMsg(type, s[j].type)
  BY <1>1, <1>2, FoundFacts
<1>4. type >= -1 => TestMsg(type, s[k].type)
  BY <1>1, <1>2, FoundFacts
<1>5. PICK m : m = s[k]
  OBVIOUS
<1>6. m \in Members(s) /\ slots[m.gen] = i
  <2>1. m \in Members(s)
    BY <1>2, <1>5 DEF Members
  <2> QED
    BY <1>1, <2>1, QueuedMessage DEF IInv
<1>7. Place(s, m) = k
  <2>1. Distinct(s)
    BY <1>1 DEF IInv, Linked, QueueOK
  <2> QED
    BY <1>2, <1>5, <2>1 DEF Distinct, Place
<1>8. rmsg'[p] = m /\ call'[p].type = type
  <2>1. rmsg' = [rmsg EXCEPT ![p] = m]
    BY <1>1, <1>5 DEF RcvTakes
  <2>2. call'[p] = [gen |-> g, type |-> type, size |-> size]
    BY DEF IInv, Shapes
  <2> QED
    BY <2>1, <2>2 DEF IInv, Shapes
<1>9. \A x \in Procs : x # p /\ pc'[x] = "received" => pc[x] = "received"
  <2>1. pc' = [SenderAwake(i) EXCEPT ![p] = "received"]
    BY DEF RcvTakes
  <2>2. \A x \in Procs : x # p => pc'[x] = IF x \in Members(entries[i].senders) THEN "resend" ELSE pc[x]
    BY <2>1 DEF SenderAwake
  <2> QED
    BY <2>2
<1> SUFFICES ASSUME NEW x \in Procs, pc[x] # "received", pc'[x] = "received", call'[x].type >= -1,
                    NEW j \in DOMAIN entries[slots[rmsg'[x].gen]].messages,
                    entries[slots[rmsg'[x].gen]].messages[j].type = rmsg'[x].type
             PROVE  /\ rmsg'[x] \in Members(entries[slots[rmsg'[x].gen]].messages)
                    /\ Place(entries[slots[rmsg'[x].gen]].messages, rmsg'[x]) <= j
  BY DEF TakesOldest
<1>10. x = p /\ rmsg'[x] = m /\ type >= -1
  BY <1>8, <1>9
<1>11. entries[slots[rmsg'[x].gen]].messages = s
  BY <1>1, <1>6, <1>10
<1>12. j \in 1 .. Len(s) /\ s[j].type = s[k].type
  BY <1>5, <1>10, <1>11
<1>13. ~ (j \in 1 .. k - 1)
  BY <1>3, <1>4, <1>10, <1>12
<1>14. k <= j
  BY <1>2, <1>12, <1>13
<1> QED
  BY <1>6, <1>7, <1>10, <1>11, <1>14

\* Nobody is handed a message when a queue is made, a call begins or fails, a
\* message is queued or stored, or a queue is removed.
LEMMA QuietSteps ==
    ASSUME IInv, NEW p \in Procs, pc[p] # "received" \/ Store(p)
    PROVE  /\ \A key \in Keys \cup {IPC_PRIVATE}, create \in BOOLEAN : MsgGet(p, key, create) => Quiet
           /\ \A g \in Made, type \in Types, size \in Sizes : CallSnd(p, g, type, size) => Quiet
           /\ SndFails(p) => Quiet
           /\ Store(p) => Quiet
           /\ \A i \in Used : SndSleeps(p, i) \/ SndQueues(p, i) \/ RcvSleeps(p, i) => Quiet
           /\ \A g \in Made : MsgCtl(p, g) => Quiet
<1>1. ASSUME NEW a, pc' = [pc EXCEPT ![p] = a], a # "received" PROVE Quiet
  BY <1>1 DEF Quiet, IInv, Shapes
<1>2. \A key \in Keys \cup {IPC_PRIVATE}, create \in BOOLEAN : MsgGet(p, key, create) => Quiet
  BY DEF MsgGet, Quiet
<1>3. \A g \in Made, type \in Types, size \in Sizes : CallSnd(p, g, type, size) => Quiet
  BY <1>1 DEF CallSnd
<1>4. SndFails(p) => Quiet
  BY <1>1 DEF SndFails
<1>5. ASSUME Store(p) PROVE Quiet
  <2>1. PICK a : a = (IF rmsg[p] = Wild THEN "undefined" ELSE "idle")
    OBVIOUS
  <2>2. pc' = [pc EXCEPT ![p] = a] /\ a # "received"
    BY <1>5, <2>1 DEF Store
  <2> QED
    BY <1>1, <2>2
<1>6. \A i \in Used : SndSleeps(p, i) \/ SndQueues(p, i) \/ RcvSleeps(p, i) => Quiet
  BY <1>1 DEF SndSleeps, SndQueues, RcvSleeps
<1>7. ASSUME NEW g \in Made, MsgCtl(p, g) PROVE Quiet
  <2>1. PICK R : R = Members(entries[GetMsgq(Id(g))].receivers)
    OBVIOUS
  <2>2. /\ pc' = [q \in Procs |-> IF q \in R THEN "received" ELSE pc[q]]
        /\ \E x \in [R -> {NULL, Wild}] : rmsg' = [q \in Procs |-> IF q \in DOMAIN x THEN x[q] ELSE rmsg[q]]
    BY <1>7, <2>1 DEF MsgCtl
  <2>3. PICK y \in [R -> {NULL, Wild}] : rmsg' = [q \in Procs |-> IF q \in DOMAIN y THEN y[q] ELSE rmsg[q]]
    BY <2>2
  <2>4. ASSUME NEW x \in Procs, pc'[x] = "received" PROVE pc[x] = "received" \/ rmsg'[x] \in {NULL, Wild}
    BY <2>2, <2>3, <2>4
  <2> QED
    BY <2>4 DEF Quiet
<1> QED
  BY <1>2, <1>3, <1>4, <1>5, <1>6, <1>7

LEMMA NextOrder == IInv /\ [Next]_vars => [TakesOldest]_vars
<1> SUFFICES ASSUME IInv, Next PROVE TakesOldest
  OBVIOUS
<1>1. PICK p \in Procs :
        \/ \E key \in Keys \cup {IPC_PRIVATE}, create \in BOOLEAN : MsgGet(p, key, create)
        \/ \E g \in Made, type \in Types, size \in Sizes : CallSnd(p, g, type, size)
        \/ MsgSnd(p)
        \/ \E g \in Made, type \in Requests, size \in Sizes : MsgRcv(p, g, type, size)
        \/ Store(p)
        \/ \E g \in Made : MsgCtl(p, g)
  BY DEF Next
<1>2. ASSUME NEW key \in Keys \cup {IPC_PRIVATE}, NEW create \in BOOLEAN, MsgGet(p, key, create)
      PROVE  TakesOldest
  <2>1. pc[p] # "received"
    BY <1>2 DEF MsgGet
  <2> QED
    BY <1>2, <2>1, QuietSteps, QuietTakesNone
<1>3. ASSUME NEW g \in Made, NEW type \in Types, NEW size \in Sizes, CallSnd(p, g, type, size)
      PROVE  TakesOldest
  <2>1. pc[p] # "received"
    BY <1>3 DEF CallSnd
  <2> QED
    BY <1>3, <2>1, QuietSteps, QuietTakesNone
<1>4. CASE MsgSnd(p)
  <2>1. PICK i : i = GetMsgq(Id(call[p].gen))
    OBVIOUS
  <2>2. pc[p] \in {"send", "resend"}
    BY <1>4 DEF MsgSnd
  <2>3. call[p].gen \in Made
    BY <2>2 DEF IInv, Asked, Sending
  <2>4. i # -1 => i \in Used /\ slots[call[p].gen] = i
    BY <2>1, <2>3, GetFact DEF IInv
  <2>5. CASE SndFails(p)
    BY <2>2, <2>5, QuietSteps, QuietTakesNone
  <2>6. CASE i # -1 /\ (SndSleeps(p, i) \/ SndQueues(p, i))
    BY <2>2, <2>4, <2>6, QuietSteps, QuietTakesNone
  <2>7. CASE i # -1 /\ Receiver(i, call[p].msg) # NULL /\ SndPipes(p, i)
    BY <2>2, <2>4, <2>7, SndPipesOrder
  <2> QED
    BY <1>4, <2>1, <2>5, <2>6, <2>7 DEF MsgSnd
<1>5. ASSUME NEW g \in Made, NEW type \in Requests, NEW size \in Sizes, MsgRcv(p, g, type, size)
      PROVE  TakesOldest
  <2>1. PICK i : i = GetMsgq(Id(g))
    OBVIOUS
  <2>2. i # -1 /\ pc[p] = "idle"
    BY <1>5, <2>1 DEF MsgRcv
  <2>3. i \in Used
    BY <2>1, <2>2, GetFact DEF IInv
  <2>4. PICK k : k = FoundMsg(entries[i].messages, type)
    OBVIOUS
  <2>5. call' = [call EXCEPT ![p] = [gen |-> g, type |-> type, size |-> size]]
    BY <1>5 DEF MsgRcv
  <2>6. IF k # 0 THEN RcvTakes(p, i, k) ELSE RcvSleeps(p, i)
    BY <1>5, <2>1, <2>4 DEF MsgRcv
  <2>7. CASE k = 0
    BY <2>2, <2>3, <2>6, <2>7, QuietSteps, QuietTakesNone
  <2>8. CASE k # 0
    BY <2>2, <2>3, <2>4, <2>5, <2>6, <2>8, RcvTakesOrder
  <2> QED
    BY <2>7, <2>8
<1>6. CASE Store(p)
  BY <1>6, QuietSteps, QuietTakesNone
<1>7. ASSUME NEW g \in Made, MsgCtl(p, g) PROVE TakesOldest
  <2>1. pc[p] # "received"
    BY <1>7 DEF MsgCtl
  <2> QED
    BY <1>7, <2>1, QuietSteps, QuietTakesNone
<1> QED
  BY <1>1, <1>2, <1>3, <1>4, <1>5, <1>6, <1>7

\* sys_msgrcv and pipeline_send give a receiver that names a type, or takes
\* any, the oldest message of the type it gets.
THEOREM ReceivedInOrder == Spec => OldestFirst
<1>1. IInv /\ [Next]_vars => [TakesOldest]_vars
  BY NextOrder
<1> QED
  BY <1>1, Inductive, PTL DEF Spec, OldestFirst

-----------------------------------------------------------------------------
(* The ids of queues. *)

\* The queue q of slot i is the last one that was made there, and all that is
\* linked to it was meant for it.
Latest(q, i) ==
    /\ q.seq + 1 \in Made /\ slots[q.seq + 1] = i
    /\ \A h \in Made : slots[h] = i => h <= q.seq + 1
    /\ \A m \in Members(q.messages) : m.gen = q.seq + 1
    /\ \A p \in Members(q.senders) \cup Members(q.receivers) : call[p].gen = q.seq + 1

\* As long as msg_ids.seq has not come round.
NotRound == Len(slots) <= SeqMod

Gens ==
    /\ Len(slots) < SeqMod => seq = Len(slots)
    /\ NotRound => \A i \in Used : Latest(entries[i], i)

LEMMA SeqFact ==
    ASSUME Shapes, NotRound, NEW g \in Made
    PROVE  (g - 1) % SeqMod = g - 1 /\ g - 1 + 1 = g
<1>1. PICK l \in Nat : l = Len(slots)
  BY DEF Shapes
<1>2. g \in 1 .. l /\ l <= SeqMod /\ SeqMod \in Nat \ {0}
  BY <1>1, BoundAssumption DEF Made, NotRound
<1>3. g - 1 \in 0 .. SeqMod - 1
  BY <1>2
<1> QED
  BY <1>2, <1>3

\* A step makes no queue, and links to one queue at most what was meant for it.
LEMMA OneQueueGens ==
    ASSUME IInv, Gens, UNCHANGED <<seq, slots>>, NEW i \in Used, Shapes',
           \A j \in 0 .. Slots - 1 : j # i => entries'[j] = entries[j],
           \A p \in Procs : pc[p] \in {"snd_sleep", "rcv_sleep"} => call'[p] = call[p],
           entries'[i] # NULL =>
               /\ entries'[i].seq = entries[i].seq
               /\ NotRound => \A m \in Members(entries'[i].messages) :
                     m \in Members(entries[i].messages) \/ m.gen = entries[i].seq + 1
               /\ NotRound => \A p \in Members(entries'[i].senders) \cup Members(entries'[i].receivers) :
                     \/ p \in Members(entries[i].senders) \cup Members(entries[i].receivers)
                     \/ call'[p].gen = entries[i].seq + 1
    PROVE  Gens'
<1>1. Made' = Made /\ (NotRound' <=> NotRound)
  BY DEF Made, NotRound
<1>2. /\ Used = {j \in 0 .. Slots - 1 : entries[j] # NULL}
      /\ Used' = {j \in 0 .. Slots - 1 : entries'[j] # NULL}
  BY DEF IInv, Shapes, Used
<1>3. ASSUME NEW j \in Used, NEW p \in Members(entries[j].senders) \cup Members(entries[j].receivers)
      PROVE  call'[p] = call[p]
  <2>1. entries[j].senders \in Seq(Procs) /\ entries[j].receivers \in Seq(Procs)
    BY UsedFacts DEF IInv
  <2>2. p \in Procs
    BY <2>1, MembersTyped
  <2>3. pc[p] \in {"snd_sleep", "rcv_sleep"}
    BY DEF IInv, Linked, QueueOK
  <2> QED
    BY <2>2, <2>3
<1>4. ASSUME NotRound, NEW j \in Used' PROVE Latest(entries[j], j)'
  <2>1. j \in Used
    BY <1>2
  <2>2. Latest(entries[j], j)
    BY <1>4, <2>1 DEF Gens
  <2>3. CASE j # i
    <3>1. entries'[j] = entries[j]
      BY <1>2, <2>3
    <3> QED
      BY <1>1, <1>3, <2>1, <2>2, <3>1 DEF Latest
  <2>4. CASE j = i
    <3>1. PICK s : s = entries[i].seq + 1
      OBVIOUS
    <3>2. /\ entries'[i].seq + 1 = s
          /\ \A m \in Members(entries'[i].messages) : m.gen = s
      BY <1>2, <1>4, <2>2, <2>4, <3>1 DEF Latest
    <3>3. ASSUME NEW p \in Members(entries'[i].senders) \cup Members(entries'[i].receivers)
          PROVE  call'[p].gen = s
      <4>1. CASE p \in Members(entries[i].senders) \cup Members(entries[i].receivers)
        BY <1>3, <2>2, <2>4, <3>1, <4>1 DEF Latest
      <4>2. CASE p \notin Members(entries[i].senders) \cup Members(entries[i].receivers)
        BY <1>2, <1>4, <2>4, <3>1, <4>2
      <4> QED
        BY <4>1, <4>2
    <3>4. s \in Made /\ slots[s] = i /\ \A h \in Made : slots[h] = i => h <= s
      BY <2>2, <2>4, <3>1 DEF Latest
    <3> QED
      BY <1>1, <2>4, <3>2, <3>3, <3>4 DEF Latest
  <2> QED
    BY <2>3, <2>4
<1>5. Len(slots') < SeqMod => seq' = Len(slots')
  BY DEF Gens
<1> QED
  BY <1>1, <1>4, <1>5 DEF Gens

\* A step changes no queue.
LEMMA SameGens ==
    ASSUME IInv, Gens, UNCHANGED table,
           \A p \in Procs : pc[p] \in {"snd_sleep", "rcv_sleep"} => call'[p] = call[p]
    PROVE  Gens'
<1>1. UNCHANGED <<entries, seq, slots>> /\ Used' = Used /\ Made' = Made /\ (NotRound' <=> NotRound)
  BY DEF table, Used, Made, NotRound
<1>2. ASSUME NotRound, NEW j \in Used PROVE Latest(entries[j], j)'
  <2>1. Latest(entries[j], j)
    BY <1>2 DEF Gens
  <2>2. ASSUME NEW p \in Members(entries[j].senders) \cup Members(entries[j].receivers)
        PROVE  call'[p] = call[p]
    <3>1. entries[j].senders \in Seq(Procs) /\ entries[j].receivers \in Seq(Procs)
      BY UsedFacts DEF IInv
    <3>2. p \in Procs
      BY <3>1, MembersTyped
    <3>3. pc[p] \in {"snd_sleep", "rcv_sleep"}
      BY DEF IInv, Linked, QueueOK
    <3> QED
      BY <3>2, <3>3
  <2> QED
    BY <1>1, <2>1, <2>2 DEF Latest
<1> QED
  BY <1>1, <1>2 DEF Gens

LEMMA NewQueGens ==
    ASSUME IInv, Gens, NEW key, NewQue(key), DOMAIN entries \ Used # {}, UNCHANGED call
    PROVE  Gens'
<1> DEFINE free == DOMAIN entries \ Used
<1>1. PICK i \in 0 .. Slots - 1 : i \notin Used /\ i = CHOOSE j \in free : \A k \in free : j <= k
  <2>1. free \subseteq Nat /\ free \subseteq 0 .. Slots - 1
    BY BoundAssumption DEF IInv, Shapes
  <2>2. \E j \in free : \A k \in free : j <= k
    BY <2>1, LeastExists
  <2> HIDE DEF free
  <2>3. (CHOOSE j \in free : \A k \in free : j <= k) \in free
    BY <2>2
  <2> QED
    BY <2>1, <2>3 DEF free
<1>2. PICK q : q = [key |-> key, seq |-> seq, sum |-> 0,
                    messages |-> <<>>, senders |-> <<>>, receivers |-> <<>>]
  OBVIOUS
<1>3. /\ entries' = [entries EXCEPT ![i] = q] /\ seq' = (seq + 1) % SeqMod
      /\ slots' = Append(slots, i)
  BY <1>1, <1>2 DEF NewQue
<1>4. PICK l \in Nat : l = Len(slots)
  BY DEF IInv, Shapes
<1>5. /\ Len(slots') = l + 1 /\ slots'[l + 1] = i /\ \A g \in 1 .. l : slots'[g] = slots[g]
      /\ Made = 1 .. l /\ Made' = 1 .. l + 1
  <2>1. PICK S : S = 0 .. Slots - 1
    OBVIOUS
  <2>2. slots \in Seq(S) /\ i \in S
    BY <2>1 DEF IInv, Shapes
  <2>3. Len(slots') = l + 1 /\ slots'[l + 1] = i /\ \A g \in 1 .. l : slots'[g] = slots[g]
    BY <1>3, <1>4, <2>2
  <2> QED
    BY <1>4, <2>3 DEF Made
<1>6. /\ entries'[i] = q /\ \A j \in 0 .. Slots - 1 : j # i => entries'[j] = entries[j]
      /\ DOMAIN entries' = 0 .. Slots - 1
  BY <1>3 DEF IInv, Shapes
<1>7. q.seq = seq /\ Members(q.messages) = {} /\ Members(q.senders) = {} /\ Members(q.receivers) = {}
  BY <1>2, EmptyFacts
<1>8. Len(slots') < SeqMod => seq' = Len(slots')
  <2> SUFFICES ASSUME l + 1 < SeqMod PROVE seq' = l + 1
    BY <1>5
  <2>1. seq = l
    BY <1>4, BoundAssumption DEF Gens
  <2>2. (l + 1) % SeqMod = l + 1
    <3>1. SeqMod \in Nat \ {0} /\ l + 1 \in 0 .. SeqMod - 1
      BY BoundAssumption
    <3> QED
      BY <3>1
  <2> QED
    BY <1>3, <2>1, <2>2
<1>9. ASSUME NotRound', NEW j \in Used' PROVE Latest(entries[j], j)'
  <2>1. l + 1 <= SeqMod /\ l < SeqMod /\ NotRound
    BY <1>4, <1>5, <1>9, BoundAssumption DEF NotRound
  <2>2. CASE j = i
    <3>1. q.seq + 1 = l + 1
      BY <1>4, <1>7, <2>1 DEF Gens
    <3>2. \A h \in Made' : h <= l + 1
      BY <1>5
    <3>3. l + 1 \in Made'
      BY <1>5
    <3> QED
      BY <1>5, <1>6, <1>7, <2>2, <3>1, <3>2, <3>3 DEF Latest
  <2>3. CASE j # i
    <3>1. j \in Used /\ entries'[j] = entries[j]
      BY <1>6, <2>3 DEF Used, IInv, Shapes
    <3>2. PICK e : e = entries[j]
      OBVIOUS
    <3>3. Latest(e, j)
      BY <2>1, <3>1, <3>2 DEF Gens
    <3>4. e.seq + 1 \in Made /\ slots[e.seq + 1] = j /\ \A h \in Made : slots[h] = j => h <= e.seq + 1
      BY <3>3 DEF Latest
    <3>5. e.seq + 1 \in Made' /\ slots'[e.seq + 1] = j
      BY <1>5, <3>4
    <3>6. ASSUME NEW h \in Made', slots'[h] = j PROVE h <= e.seq + 1
      <4>1. h # l + 1
        BY <1>5, <2>3, <3>6
      <4>2. h \in 1 .. l
        BY <1>5, <4>1
      <4> QED
        BY <1>5, <3>4, <3>6, <4>2
    <3>7. /\ \A m \in Members(e.messages) : m.gen = e.seq + 1
          /\ \A p \in Members(e.senders) \cup Members(e.receivers) : call'[p].gen = e.seq + 1
      BY <3>3 DEF Latest
    <3> QED
      BY <3>1, <3>2, <3>5, <3>6, <3>7 DEF Latest
  <2> QED
    BY <2>2, <2>3
<1> QED
  BY <1>8, <1>9 DEF Gens

\* get_msgq finds the queue for which the id was returned.
LEMMA FoundGen ==
    ASSUME IInv, NEW g \in Made, GetMsgq(Id(g)) # -1, NotRound
    PROVE  entries[GetMsgq(Id(g))].seq + 1 = g
<1>1. entries[GetMsgq(Id(g))].seq = (g - 1) % SeqMod
  BY GetFact DEF IInv
<1>2. (g - 1) % SeqMod = g - 1 /\ g - 1 + 1 = g
  BY SeqFact DEF IInv
<1> QED
  BY <1>1, <1>2

LEMMA SndSleepsGens ==
    ASSUME IInv, Gens, Shapes', NEW p \in Procs, NEW i \in Used,
           NotRound => call[p].gen = entries[i].seq + 1, SndSleeps(p, i)
    PROVE  Gens'
<1>1. PICK e \in Queue : e = entries[i]
  BY UsedFacts DEF IInv
<1>2. PICK q : q = [e EXCEPT !.senders = Append(e.senders, p)]
  OBVIOUS
<1>3. /\ entries' = [entries EXCEPT ![i] = q] /\ UNCHANGED <<seq, slots, call>>
  BY <1>1, <1>2 DEF SndSleeps
<1>4. /\ Append(e.senders, p) \in Seq(Procs)
      /\ Members(Append(e.senders, p)) = Members(e.senders) \cup {p}
  <2>1. e.senders \in Seq(Procs)
    BY DEF Queue
  <2> QED
    BY <2>1, AppendFacts
<1>5. /\ q \in Queue /\ q.senders = Append(e.senders, p) /\ q.seq = e.seq
      /\ q.messages = e.messages /\ q.receivers = e.receivers
  BY <1>2, <1>4 DEF Queue
<1>6. entries'[i] = q /\ \A j \in 0 .. Slots - 1 : j # i => entries'[j] = entries[j]
  BY <1>3, <1>5, QueueChange DEF IInv
<1>7. NotRound => \A x \in Members(entries'[i].messages) :
         x \in Members(entries[i].messages) \/ x.gen = entries[i].seq + 1
  BY <1>1, <1>5, <1>6
<1>8. NotRound => \A x \in Members(entries'[i].senders) \cup Members(entries'[i].receivers) :
         \/ x \in Members(entries[i].senders) \cup Members(entries[i].receivers)
         \/ call'[x].gen = entries[i].seq + 1
  BY <1>1, <1>3, <1>4, <1>5, <1>6
<1> QED
  BY <1>1, <1>3, <1>5, <1>6, <1>7, <1>8, OneQueueGens

LEMMA SndQueuesGens ==
    ASSUME IInv, Gens, Shapes', NEW p \in Procs, pc[p] \in {"send", "resend"}, NEW i \in Used,
           NotRound => call[p].gen = entries[i].seq + 1, ~ Full(i), SndQueues(p, i)
    PROVE  Gens'
<1>1. PICK e \in Queue : e = entries[i]
  BY UsedFacts DEF IInv
<1>2. PICK m \in Message : m = call[p].msg /\ m.gen = call[p].gen
  BY DEF IInv, Asked, Sending
<1>3. PICK q : q = Refilled(e, Append(e.messages, m), e.sum + 1)
  OBVIOUS
<1>4. /\ entries' = [entries EXCEPT ![i] = q] /\ call' = [call EXCEPT ![p] = Idle]
      /\ UNCHANGED <<seq, slots>>
  BY <1>1, <1>2, <1>3 DEF SndQueues, Refilled
<1>5. /\ Append(e.messages, m) \in Seq(Message)
      /\ Members(Append(e.messages, m)) = Members(e.messages) \cup {m}
  <2>1. e.messages \in Seq(Message)
    BY DEF Queue
  <2> QED
    BY <2>1, AppendFacts
<1>6. /\ q \in Queue /\ q.messages = Append(e.messages, m) /\ q.seq = e.seq
      /\ q.senders = e.senders /\ q.receivers = e.receivers
  <2>1. e.sum \in 0 .. MaxMsg /\ ~ (e.sum + 1 > MaxMsg)
    BY <1>1 DEF Full, Queue
  <2>2. e.sum + 1 \in 0 .. MaxMsg
    BY <2>1, BoundAssumption
  <2> QED
    BY <1>3, <1>5, <2>2, RefilledFacts
<1>7. entries'[i] = q /\ \A j \in 0 .. Slots - 1 : j # i => entries'[j] = entries[j]
  BY <1>4, <1>6, QueueChange DEF IInv
<1>8. \A x \in Procs : pc[x] \in {"snd_sleep", "rcv_sleep"} => call'[x] = call[x]
  BY <1>4 DEF IInv, Shapes
<1>9. NotRound => \A x \in Members(entries'[i].messages) :
         x \in Members(entries[i].messages) \/ x.gen = entries[i].seq + 1
  BY <1>1, <1>2, <1>5, <1>6, <1>7
<1>10. NotRound => \A x \in Members(entries'[i].senders) \cup Members(entries'[i].receivers) :
         \/ x \in Members(entries[i].senders) \cup Members(entries[i].receivers)
         \/ call'[x].gen = entries[i].seq + 1
  BY <1>1, <1>6, <1>7
<1> QED
  BY <1>1, <1>4, <1>6, <1>7, <1>8, <1>9, <1>10, OneQueueGens

LEMMA SndPipesGens ==
    ASSUME IInv, Gens, Shapes', NEW p \in Procs, pc[p] \in {"send", "resend"}, NEW i \in Used,
           SndPipes(p, i)
    PROVE  Gens'
<1>1. PICK e \in Queue : e = entries[i]
  BY UsedFacts DEF IInv
<1>2. PICK r : r = Receiver(i, call[p].msg)
  OBVIOUS
<1>3. PICK q : q = [e EXCEPT !.receivers = Detach(e.receivers, r)]
  OBVIOUS
<1>4. /\ entries' = [entries EXCEPT ![i] = q] /\ UNCHANGED <<seq, slots>>
      /\ call' = call \/ call' = [call EXCEPT ![p] = Idle]
  BY <1>1, <1>2, <1>3 DEF SndPipes
<1>5. /\ Detach(e.receivers, r) \in Seq(Procs)
      /\ Members(Detach(e.receivers, r)) = Members(e.receivers) \ {r}
  <2>1. e.receivers \in Seq(Procs) /\ Distinct(e.receivers)
    BY <1>1 DEF Queue, IInv, Linked, QueueOK
  <2> QED
    BY <2>1, DetachFacts
<1>6. /\ q \in Queue /\ q.receivers = Detach(e.receivers, r) /\ q.seq = e.seq
      /\ q.messages = e.messages /\ q.senders = e.senders
  BY <1>3, <1>5 DEF Queue
<1>7. entries'[i] = q /\ \A j \in 0 .. Slots - 1 : j # i => entries'[j] = entries[j]
  BY <1>4, <1>6, QueueChange DEF IInv
<1>8. \A x \in Procs : pc[x] \in {"snd_sleep", "rcv_sleep"} => call'[x] = call[x]
  BY <1>4 DEF IInv, Shapes
<1> QED
  BY <1>1, <1>4, <1>5, <1>6, <1>7, <1>8, OneQueueGens

LEMMA RcvTakesGens ==
    ASSUME IInv, Gens, Shapes', NEW p \in Procs, pc[p] = "idle", NEW i \in Used, NEW c,
           call' = [call EXCEPT ![p] = c], NEW k \in DOMAIN entries[i].messages, RcvTakes(p, i, k)
    PROVE  Gens'
<1>1. PICK e \in Queue : e = entries[i]
  BY UsedFacts DEF IInv
<1>2. PICK w : w = Without(e.messages, k)
  OBVIOUS
<1>3. /\ e.messages \in Seq(Message) /\ Distinct(e.messages) /\ e.sum = Len(e.messages)
      /\ e.sum \in 0 .. MaxMsg
  BY <1>1 DEF Queue, IInv, Linked, QueueOK
<1>4. /\ w \in Seq(Message) /\ Members(w) \subseteq Members(e.messages)
      /\ Len(w) = Len(e.messages) - 1
  BY <1>1, <1>2, <1>3, WithoutFacts
<1>5. PICK f : f = Refilled(e, w, e.sum - 1)
  OBVIOUS
<1>6. PICK q : q = Released(f)
  OBVIOUS
<1>7. entries' = [entries EXCEPT ![i] = q] /\ UNCHANGED <<seq, slots>>
  BY <1>1, <1>2, <1>5, <1>6 DEF RcvTakes, Refilled, Released
<1>8. /\ q \in Queue /\ q.messages = w /\ q.seq = e.seq
      /\ q.senders = <<>> /\ q.receivers = e.receivers
  <2>1. e.sum - 1 \in 0 .. MaxMsg
    <3>1. Len(w) \in Nat
      BY <1>4
    <3> QED
      BY <1>3, <1>4, <3>1, BoundAssumption
  <2>2. f \in Queue /\ f.messages = w /\ f.seq = e.seq /\ f.receivers = e.receivers
    BY <1>4, <1>5, <2>1, RefilledFacts
  <2> QED
    BY <1>6, <2>2, ReleasedFacts
<1>9. entries'[i] = q /\ \A j \in 0 .. Slots - 1 : j # i => entries'[j] = entries[j]
  BY <1>7, <1>8, QueueChange DEF IInv
<1>10. \A x \in Procs : pc[x] \in {"snd_sleep", "rcv_sleep"} => call'[x] = call[x]
  BY DEF IInv, Shapes
<1>11. Members(q.senders) = {}
  BY <1>8, EmptyFacts
<1> QED
  BY <1>1, <1>4, <1>7, <1>8, <1>9, <1>10, <1>11, OneQueueGens

LEMMA RcvSleepsGens ==
    ASSUME IInv, Gens, Shapes', NEW p \in Procs, pc[p] = "idle", NEW i \in Used, NEW c,
           call' = [call EXCEPT ![p] = c], NotRound => c.gen = entries[i].seq + 1, RcvSleeps(p, i)
    PROVE  Gens'
<1>1. PICK e \in Queue : e = entries[i]
  BY UsedFacts DEF IInv
<1>2. PICK q : q = [e EXCEPT !.receivers = Append(e.receivers, p)]
  OBVIOUS
<1>3. /\ entries' = [entries EXCEPT ![i] = q] /\ UNCHANGED <<seq, slots>>
  BY <1>1, <1>2 DEF RcvSleeps
<1>4. /\ Append(e.receivers, p) \in Seq(Procs)
      /\ Members(Append(e.receivers, p)) = Members(e.receivers) \cup {p}
  <2>1. e.receivers \in Seq(Procs)
    BY DEF Queue
  <2> QED
    BY <2>1, AppendFacts
<1>5. /\ q \in Queue /\ q.receivers = Append(e.receivers, p) /\ q.seq = e.seq
      /\ q.messages = e.messages /\ q.senders = e.senders
  BY <1>2, <1>4 DEF Queue
<1>6. entries'[i] = q /\ \A j \in 0 .. Slots - 1 : j # i => entries'[j] = entries[j]
  BY <1>3, <1>5, QueueChange DEF IInv
<1>7. /\ \A x \in Procs : pc[x] \in {"snd_sleep", "rcv_sleep"} => call'[x] = call[x]
      /\ call'[p] = c
  BY DEF IInv, Shapes
<1>8. NotRound => \A x \in Members(entries'[i].messages) :
         x \in Members(entries[i].messages) \/ x.gen = entries[i].seq + 1
  BY <1>1, <1>5, <1>6
<1>9. NotRound => \A x \in Members(entries'[i].senders) \cup Members(entries'[i].receivers) :
         \/ x \in Members(entries[i].senders) \cup Members(entries[i].receivers)
         \/ call'[x].gen = entries[i].seq + 1
  BY <1>1, <1>4, <1>5, <1>6, <1>7
<1> QED
  BY <1>1, <1>3, <1>5, <1>6, <1>7, <1>8, <1>9, OneQueueGens

LEMMA MsgCtlGens ==
    ASSUME IInv, Gens, Shapes', NEW p \in Procs, NEW g \in Made, MsgCtl(p, g)
    PROVE  Gens'
<1>1. PICK i : i = GetMsgq(Id(g))
  OBVIOUS
<1>2. i \in Used
  <2>1. i # -1
    BY <1>1 DEF MsgCtl
  <2> QED
    BY <1>1, <2>1, GetFact DEF IInv
<1>3. entries' = [entries EXCEPT ![i] = NULL] /\ UNCHANGED <<seq, slots, call>>
  BY <1>1 DEF MsgCtl
<1>4. entries'[i] = NULL /\ \A j \in 0 .. Slots - 1 : j # i => entries'[j] = entries[j]
  BY <1>2, <1>3, UsedFacts DEF IInv, Shapes
<1> QED
  BY <1>2, <1>3, <1>4, OneQueueGens

LEMMA NextGens == IInv /\ IInv' /\ Gens /\ [Next]_vars => Gens'
<1> SUFFICES ASSUME IInv, IInv', Gens, [Next]_vars PROVE Gens'
  OBVIOUS
<1>1. Shapes'
  BY DEF IInv
<1>2. ASSUME UNCHANGED table, NEW p \in Procs, pc[p] \notin {"snd_sleep", "rcv_sleep"}, NEW c,
             call' = [call EXCEPT ![p] = c]
      PROVE  Gens'
  <2>1. \A x \in Procs : pc[x] \in {"snd_sleep", "rcv_sleep"} => call'[x] = call[x]
    BY <1>2 DEF IInv, Shapes
  <2> QED
    BY <1>2, <2>1, SameGens
<1>3. CASE UNCHANGED vars
  <2>1. UNCHANGED table /\ \A x \in Procs : call'[x] = call[x]
    BY <1>3 DEF vars, table
  <2> QED
    BY <2>1, SameGens
<1>4. CASE Next
  <2>1. PICK p \in Procs :
          \/ \E key \in Keys \cup {IPC_PRIVATE}, create \in BOOLEAN : MsgGet(p, key, create)
          \/ \E g \in Made, type \in Types, size \in Sizes : CallSnd(p, g, type, size)
          \/ MsgSnd(p)
          \/ \E g \in Made, type \in Requests, size \in Sizes : MsgRcv(p, g, type, size)
          \/ Store(p)
          \/ \E g \in Made : MsgCtl(p, g)
    BY <1>4 DEF Next
  <2>2. ASSUME NEW key \in Keys \cup {IPC_PRIVATE}, NEW create \in BOOLEAN, MsgGet(p, key, create)
        PROVE  Gens'
    <3>1. UNCHANGED call /\ (NewQue(key) \/ UNCHANGED table)
      BY <2>2 DEF MsgGet
    <3>2. CASE NewQue(key) /\ DOMAIN entries \ Used # {}
      BY <3>1, <3>2, NewQueGens
    <3>3. CASE UNCHANGED table \/ (NewQue(key) /\ DOMAIN entries \ Used = {})
      <4>1. UNCHANGED table
        BY <3>3 DEF NewQue
      <4> QED
        BY <3>1, <4>1, SameGens
    <3> QED
      BY <3>1, <3>2, <3>3
  <2>3. ASSUME NEW g \in Made, NEW type \in Types, NEW size \in Sizes, CallSnd(p, g, type, size)
        PROVE  Gens'
    <3>1. PICK c : call' = [call EXCEPT ![p] = c]
      BY <2>3 DEF CallSnd
    <3>2. UNCHANGED table /\ pc[p] = "idle"
      BY <2>3 DEF CallSnd
    <3> QED
      BY <1>2, <3>1, <3>2
  <2>4. CASE MsgSnd(p)
    <3>1. PICK i : i = GetMsgq(Id(call[p].gen))
      OBVIOUS
    <3>2. pc[p] \in {"send", "resend"}
      BY <2>4 DEF MsgSnd
    <3>3. call[p].gen \in Made
      BY <3>2 DEF IInv, Asked, Sending
    <3>4. i # -1 => i \in Used /\ (NotRound => call[p].gen = entries[i].seq + 1)
      BY <3>1, <3>3, GetFact, FoundGen DEF IInv
    <3>5. CASE SndFails(p)
      <4>1. UNCHANGED table /\ call' = [call EXCEPT ![p] = Idle]
        BY <3>5 DEF SndFails
      <4> QED
        BY <1>2, <3>2, <4>1
    <3>6. CASE i # -1 /\ SndSleeps(p, i)
      BY <1>1, <3>4, <3>6, SndSleepsGens
    <3>7. CASE i # -1 /\ ~ Full(i) /\ SndQueues(p, i)
      BY <1>1, <3>2, <3>4, <3>7, SndQueuesGens
    <3>8. CASE i # -1 /\ SndPipes(p, i)
      BY <1>1, <3>2, <3>4, <3>8, SndPipesGens
    <3> QED
      BY <2>4, <3>1, <3>5, <3>6, <3>7, <3>8 DEF MsgSnd
  <2>5. ASSUME NEW g \in Made, NEW type \in Requests, NEW size \in Sizes, MsgRcv(p, g, type, size)
        PROVE  Gens'
    <3>1. PICK i : i = GetMsgq(Id(g))
      OBVIOUS
    <3>2. i # -1 /\ pc[p] = "idle"
      BY <2>5, <3>1 DEF MsgRcv
    <3>3. i \in Used /\ (NotRound => g = entries[i].seq + 1)
      BY <3>1, <3>2, GetFact, FoundGen DEF IInv
    <3>4. PICK k : k = FoundMsg(entries[i].messages, type)
      OBVIOUS
    <3>5. PICK c : c = [gen |-> g, type |-> type, size |-> size]
      OBVIOUS
    <3>6. call' = [call EXCEPT ![p] = c] /\ c.gen = g
      BY <2>5, <3>5 DEF MsgRcv
    <3>7. IF k # 0 THEN RcvTakes(p, i, k) ELSE RcvSleeps(p, i)
      BY <2>5, <3>1, <3>4 DEF MsgRcv
    <3>8. CASE k = 0
      BY <1>1, <3>2, <3>3, <3>6, <3>7, <3>8, RcvSleepsGens
    <3>9. CASE k # 0
      <4>1. entries[i].messages \in Seq(Message) /\ type \in Int
        BY <3>3, UsedFacts, TypeAssumption DEF IInv
      <4>2. k \in 0 .. Len(entries[i].messages)
        BY <3>4, <4>1, FoundFacts
      <4>3. k \in DOMAIN entries[i].messages
        BY <3>9, <4>1, <4>2
      <4> QED
        BY <1>1, <3>2, <3>3, <3>6, <3>7, <3>9, <4>3, RcvTakesGens
    <3> QED
      BY <3>8, <3>9
  <2>6. CASE Store(p)
    <3>1. UNCHANGED table /\ call' = [call EXCEPT ![p] = Idle] /\ pc[p] = "received"
      BY <2>6 DEF Store
    <3> QED
      BY <1>2, <3>1
  <2>7. ASSUME NEW g \in Made, MsgCtl(p, g) PROVE Gens'
    BY <1>1, <2>7, MsgCtlGens
  <2> QED
    BY <2>1, <2>2, <2>3, <2>4, <2>5, <2>6, <2>7
<1> QED
  BY <1>3, <1>4

LEMMA InitGens == Init => Gens
<1> SUFFICES ASSUME Init PROVE Gens
  OBVIOUS
<1>1. Used = {} /\ seq = 0 /\ Len(slots) = 0
  BY DEF Init, Used
<1> QED
  BY <1>1 DEF Gens

LEMMA GensIds == IInv /\ Gens => (NotRound => IdsAreNotConfused)
<1> SUFFICES ASSUME IInv, Gens, NotRound, NEW i \in Used
             PROVE  /\ \A m \in Members(entries[i].messages) : m.gen = Generation(i)
                    /\ \A p \in Members(entries[i].senders \o entries[i].receivers) :
                          call[p].gen = Generation(i)
  BY DEF IdsAreNotConfused
<1>1. PICK g : g = entries[i].seq + 1
  OBVIOUS
<1>2. Latest(entries[i], i)
  BY DEF Gens
<1>3. g \in Made /\ slots[g] = i /\ \A h \in Made : slots[h] = i => h <= g
  BY <1>1, <1>2 DEF Latest
<1>4. Generation(i) = g
  <2>1. \A x \in Made : x \in Int
    BY DEF Made
  <2>2. \A x \in Made : slots[x] = i /\ (\A h \in Made : slots[h] = i => h <= x) => x = g
    BY <1>3, <2>1
  <2> QED
    BY <1>3, <2>2 DEF Generation
<1>5. \A m \in Members(entries[i].messages) : m.gen = g
  BY <1>1, <1>2 DEF Latest
<1>6. ASSUME NEW p \in Members(entries[i].senders \o entries[i].receivers) PROVE call[p].gen = g
  <2>1. PICK s \in Seq(Procs), t \in Seq(Procs) : s = entries[i].senders /\ t = entries[i].receivers
    BY UsedFacts DEF IInv
  <2>2. p \in Members(s) \cup Members(t)
    BY <1>6, <2>1, ConcatFacts
  <2> QED
    BY <1>1, <1>2, <2>1, <2>2 DEF Latest
<1> QED
  BY <1>4, <1>5, <1>6

\* As long as msg_ids.seq has not come round, the id that msgget returned
\* reaches no other queue than its own: not after the slot was used again, not
\* when a sender looks its queue up again after it slept.
THEOREM IdsStayApart == Spec => [](Len(slots) <= SeqMod => IdsAreNotConfused)
<1>1. Init => Gens
  BY InitGens
<1>2. IInv /\ IInv' /\ Gens /\ [Next]_vars => Gens'
  BY NextGens
<1>3. IInv /\ Gens => (Len(slots) <= SeqMod => IdsAreNotConfused)
  BY GensIds DEF NotRound
<1> QED
  BY <1>1, <1>2, <1>3, Inductive, PTL DEF Spec
=============================================================================
