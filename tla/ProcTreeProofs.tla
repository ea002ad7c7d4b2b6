--------------------------- MODULE ProcTreeProofs ---------------------------
(***************************************************************************)
(* Safety of ProcTree, without kill, for any number of processes and pids. *)
(***************************************************************************)
EXTENDS ProcTree, KListTheorems, FiniteSetTheorems

\* Where a process holds one that it has created and not yet started.
Making == {"init", "created", "parent", "start", "activate"}

\* Only a LIVE process executes; a process that is being created is UNUSED,
\* belongs to one creator and, before it is adopted, to no list.
OnlyLiveRuns == \A p \in Structs : state[p] # "LIVE" => at[p] = "none"
RootLives == state[Root] = "LIVE" /\ at[Root] \notin {"exit", "exited"}
MadeIsUnused ==
    \A p \in Structs : at[p] \in Making => obj[p] \in Others /\ state[obj[p]] = "UNUSED"
MadeByOne ==
    \A p, q \in Structs : at[p] \in Making /\ at[q] \in Making /\ obj[p] = obj[q] => p = q
MadeIsFresh ==
    /\ \A p \in Structs : at[p] \in {"init", "parent"} => parent[obj[p]] = NoProc
    /\ \A p \in Structs : at[p] = "init" => pid[obj[p]] = -1
FreeIsUnlinked == \A p \in Others : state[p] = "FREE" => parent[p] = NoProc /\ pid[p] = -1

LifeInv ==
    OnlyLiveRuns /\ RootLives /\ MadeIsUnused /\ MadeByOne /\ MadeIsFresh /\ FreeIsUnlinked

\* TreeIsSound, in two parts.
ListsInv ==
    /\ \A q \in Structs : Distinct(children[q])
    /\ \A c \in Others, q \in Structs : parent[c] = q <=> c \in Members(children[q])
    /\ \A c \in Linked : state[parent[c]] = "LIVE" /\ at[parent[c]] # "exited"

RootedInv == \A S \in SUBSET Linked : S # {} => \E c \in S : parent[c] \notin S

IInv == ProcTyped /\ LifeInv /\ ListsInv /\ RootedInv /\ PidsAreUnique

-----------------------------------------------------------------------------
(* Lemmas about the operators. *)

LEMMA FreePidFacts ==
    ASSUME ProcTyped, NEW start
    PROVE  /\ FreePid(start) \in -1 .. MaxPid - 1
           /\ FreePid(start) \notin pidmap
<1> DEFINE free == (0 .. MaxPid - 1) \ pidmap
           above == {i \in free : i >= start}
           least(S) == CHOOSE i \in S : \A j \in S : i <= j
<1>1. ASSUME NEW S, S \subseteq free, S # {} PROVE least(S) \in free
  <2>1. S \subseteq Nat
    BY <1>1, PidAssumption
  <2>2. \E i \in S : \A j \in S : i <= j
    BY <1>1, <2>1, LeastExists
  <2> QED BY <1>1, <2>2
<1>2. FreePid(start) = -1 \/ FreePid(start) \in free
  <2>1. CASE free = {}
    BY <2>1 DEF FreePid
  <2>2. CASE free # {} /\ above # {}
    <3>1. FreePid(start) = least(above)
      BY <2>2 DEF FreePid
    <3>2. least(above) \in free
      BY <1>1, <2>2
    <3> QED BY <3>1, <3>2
  <2>3. CASE free # {} /\ above = {}
    <3>1. FreePid(start) = least(free)
      BY <2>3 DEF FreePid
    <3>2. least(free) \in free
      BY <1>1, <2>3
    <3> QED BY <3>1, <3>2
  <2> QED BY <2>1, <2>2, <2>3
<1>3. -1 \notin pidmap
  BY PidAssumption DEF ProcTyped
<1> QED BY <1>2, <1>3, PidAssumption

\* The order in which exit hands over the children: a permutation of them.
LEMMA OrphansFacts ==
    ASSUME ProcTyped, NEW p \in Structs, Distinct(children[p])
    PROVE  /\ Orphans(p) \in Seq(Others)
           /\ Members(Orphans(p)) = Members(children[p])
           /\ Distinct(Orphans(p))
<1> DEFINE s == children[p]
           n == Len(s)
           t == Orphans(p)
<1>1. s \in Seq(Others) /\ n \in Nat /\ DOMAIN s = 1 .. n
  BY DEF ProcTyped
<1>2. CASE s = <<>>
  BY <1>2 DEF Orphans
<1>3. CASE s # <<>>
  <2>1. n > 0 /\ t = <<s[n]>> \o SubSeq(s, 1, n - 1)
    BY <1>1, <1>3 DEF Orphans
  <2> DEFINE u == SubSeq(s, 1, n - 1)
  <2>2. u \in Seq(Others) /\ Len(u) = n - 1 /\ \A i \in 1 .. n - 1 : u[i] = s[i]
    BY <1>1, <2>1
  <2>3. s[n] \in Others
    BY <1>1, <2>1
  <2> HIDE DEF u
  <2>4. <<s[n]>> \in Seq(Others) /\ Len(<<s[n]>>) = 1 /\ <<s[n]>>[1] = s[n]
    BY <2>3
  <2>5. t \in Seq(Others) /\ Len(t) = n /\ t[1] = s[n]
    BY <1>1, <2>1, <2>2, <2>3, <2>4 DEF u
  <2>6. \A i \in 2 .. n : t[i] = s[i - 1]
    BY <1>1, <2>1, <2>2, <2>3, <2>4 DEF u
  <2>7. DOMAIN t = 1 .. n
    BY <2>5
  <2>8. \A i \in 1 .. n : t[i] = IF i = 1 THEN s[n] ELSE s[i - 1]
    BY <1>1, <2>5, <2>6
  <2> HIDE DEF t, s
  <2>9. Members(t) \subseteq Members(s)
    BY <1>1, <2>1, <2>7, <2>8 DEF Members
  <2>10. ASSUME NEW i \in 1 .. n PROVE \E j \in 1 .. n : t[j] = s[i]
    <3>1. CASE i = n
      BY <1>1, <2>1, <2>5, <3>1
    <3>2. CASE i # n
      <4>1. i + 1 \in 2 .. n /\ i + 1 \in 1 .. n /\ (i + 1) - 1 = i
        <5>1. n \in Nat /\ i \in 1 .. n /\ i # n
          BY <1>1, <3>2
        <5> HIDE DEF n
        <5> QED BY <5>1
      <4> QED BY <2>6, <4>1
    <3> QED BY <3>1, <3>2
  <2>11. Members(s) \subseteq Members(t)
    BY <1>1, <2>7, <2>10 DEF Members
  <2>12. Distinct(t)
    <3>1. ASSUME NEW i \in 1 .. n, NEW j \in 1 .. n, t[i] = t[j] PROVE i = j
      <4> DEFINE f(k) == IF k = 1 THEN n ELSE k - 1
      <4>1. f(i) \in 1 .. n /\ f(j) \in 1 .. n /\ t[i] = s[f(i)] /\ t[j] = s[f(j)]
        BY <1>1, <2>1, <2>8
      <4>2. s[f(i)] = s[f(j)] /\ f(i) \in DOMAIN s /\ f(j) \in DOMAIN s
        BY <1>1, <3>1, <4>1
      <4>3. Distinct(s)
        BY DEF s
      <4>4. f(i) = f(j)
        <5> HIDE DEF f
        <5> QED BY <4>2, <4>3 DEF Distinct
      <4> QED BY <1>1, <4>4
    <3> QED BY <2>7, <3>1 DEF Distinct
  <2> QED BY <2>5, <2>9, <2>11, <2>12 DEF s, t
<1> QED BY <1>2, <1>3

\* wait finds a zombie if there is one.
LEMMA FirstZombieFacts ==
    ASSUME NEW s \in Seq(Others), \E i \in DOMAIN s : state[s[i]] = "ZOMBIE"
    PROVE  /\ FirstZombie(s) \in Others
           /\ FirstZombie(s) \in Members(s)
           /\ state[FirstZombie(s)] = "ZOMBIE"
<1> DEFINE Z == {i \in DOMAIN s : state[s[i]] = "ZOMBIE"}
           Is(i) == state[s[i]] = "ZOMBIE" /\ \A j \in 1 .. i - 1 : state[s[j]] # "ZOMBIE"
<1>1. Z # {} /\ Z \subseteq Nat
  OBVIOUS
<1>2. PICK k \in Z : \A j \in Z : k <= j
  BY <1>1, LeastExists
<1>3. k \in DOMAIN s /\ Is(k)
  <2>1. ASSUME NEW j \in 1 .. k - 1 PROVE state[s[j]] # "ZOMBIE"
    <3>1. j \in DOMAIN s /\ ~ (k <= j)
      BY <1>1, <1>2
    <3> QED BY <1>2, <3>1
  <2> QED BY <1>2, <2>1
<1> DEFINE i == CHOOSE i \in DOMAIN s : Is(i)
<1>4. i \in DOMAIN s /\ Is(i)
  BY <1>3
<1>5. FirstZombie(s) = s[i]
  BY DEF FirstZombie
<1>6. s[i] \in Others
  BY <1>4
<1> QED BY <1>4, <1>5, <1>6 DEF Members

-----------------------------------------------------------------------------
(* Initiation and consecution, part by part. *)

LEMMA InitIInv == ProcInit => IInv
<1> SUFFICES ASSUME ProcInit PROVE IInv
  OBVIOUS
<1> USE ProcsAssumption, PidAssumption
<1>1. ProcTyped
  <2>1. locked \in BOOLEAN
    BY DEF ProcInit
  <2> QED BY <2>1 DEF ProcInit, ProcTyped, Structs, Sections
<1>2. LifeInv
  BY DEF ProcInit, LifeInv, OnlyLiveRuns, RootLives, MadeIsUnused,
     MadeByOne, MadeIsFresh, FreeIsUnlinked, Structs, Making
<1>3. ListsInv
  <2>1. \A q \in Structs : children[q] = <<>>
    BY DEF ProcInit
  <2>2. Linked = {}
    BY DEF ProcInit, Linked, Structs
  <2>3. \A c \in Others, q \in Structs : parent[c] # q
    BY DEF ProcInit, Structs
  <2> QED BY <2>1, <2>2, <2>3, EmptyFacts DEF ListsInv
<1>4. RootedInv
  BY DEF ProcInit, RootedInv, Linked, Structs
<1>5. PidsAreUnique
  <2>1. Root \in Structs /\ pid[Root] = 0 /\ \A p \in Structs : pid[p] # -1 => p = Root
    BY DEF ProcInit, Structs
  <2>2. {q \in Structs : pid[q] # -1} = {Root} /\ pidmap = {0}
    BY <2>1 DEF ProcInit
  <2>3. {pid[p] : p \in {q \in Structs : pid[q] # -1}} = {0}
    BY <2>1, <2>2
  <2> QED BY <2>1, <2>2, <2>3 DEF PidsAreUnique
<1> QED BY <1>1, <1>2, <1>3, <1>4, <1>5 DEF IInv

\* In the state of a process that creates another.
LEMMA ObjFacts ==
    ASSUME IInv, NEW p \in Structs, at[p] \in Making
    PROVE  /\ obj[p] \in Others /\ obj[p] \in Structs /\ obj[p] # p
           /\ state[obj[p]] = "UNUSED" /\ at[obj[p]] = "none" /\ state[p] = "LIVE"
           /\ \A c \in Others : parent[c] # obj[p]
           /\ Members(children[obj[p]]) = {}
<1> USE DEF IInv
<1>1. /\ obj[p] \in Others /\ obj[p] \in Structs
      /\ state[obj[p]] = "UNUSED" /\ at[obj[p]] = "none" /\ state[p] = "LIVE"
  BY DEF LifeInv, OnlyLiveRuns, RootLives, MadeIsUnused,
     MadeByOne, MadeIsFresh, FreeIsUnlinked, Structs, Making
<1>2. \A c \in Others : parent[c] # obj[p]
  BY <1>1, ProcsAssumption DEF ListsInv, Linked
<1>3. ASSUME NEW x \in Members(children[obj[p]]) PROVE FALSE
  <2>1. x \in Others
    BY <1>1 DEF ProcTyped, Members
  <2> QED BY <1>1, <1>2, <2>1 DEF ListsInv
<1> QED BY <1>1, <1>2, <1>3

\* What wait cleans up.
LEMMA CollectFacts ==
    ASSUME IInv, NEW p \in Structs, Collect(p),
           \E i \in DOMAIN children[p] : state[children[p][i]] = "ZOMBIE"
    PROVE  LET c == FirstZombie(children[p]) IN
           /\ c \in Others /\ c \in Structs /\ c # p /\ state[c] = "ZOMBIE" /\ at[c] = "none"
           /\ parent[c] = p /\ \A d \in Others : parent[d] # c
           /\ children' = [children EXCEPT ![p] = Detach(children[p], c)]
           /\ Detach(children[p], c) \in Seq(Others)
           /\ Members(Detach(children[p], c)) = Members(children[p]) \ {c}
           /\ Distinct(Detach(children[p], c))
<1> DEFINE c == FirstZombie(children[p])
<1> USE DEF IInv
<1>1. children[p] \in Seq(Others) /\ state[p] = "LIVE"
  BY DEF ProcTyped, LifeInv, OnlyLiveRuns, RootLives, MadeIsUnused,
     MadeByOne, MadeIsFresh, FreeIsUnlinked, Collect
<1>2. c \in Others /\ c \in Members(children[p]) /\ state[c] = "ZOMBIE"
  BY <1>1, FirstZombieFacts
<1> HIDE DEF c
<1>3. c \in Structs /\ c # p /\ at[c] = "none" /\ parent[c] = p
  BY <1>1, <1>2 DEF Structs, LifeInv, OnlyLiveRuns, RootLives, MadeIsUnused,
     MadeByOne, MadeIsFresh, FreeIsUnlinked, ListsInv
<1>4. \A d \in Others : parent[d] # c
  BY <1>2, ProcsAssumption DEF ListsInv, Linked
<1>5. children' = [children EXCEPT ![p] = Detach(children[p], c)]
  BY DEF Collect, c
<1>6. /\ Detach(children[p], c) \in Seq(Others)
      /\ Members(Detach(children[p], c)) = Members(children[p]) \ {c}
      /\ Distinct(Detach(children[p], c))
  BY <1>1, DetachFacts DEF ListsInv
<1> QED BY <1>2, <1>3, <1>4, <1>5, <1>6 DEF c

LEMMA TypeStep == ASSUME IInv, NEW p \in Structs, Step(p) PROVE ProcTyped'
<1> USE DEF IInv, family, pids
<1>1. ASSUME NEW l \in Sections \ {"init", "kill"}, Call(p, l) PROVE ProcTyped'
  <2>1. locked' \in BOOLEAN
    BY <1>1 DEF Call, Enter
  <2> QED BY <1>1, <2>1 DEF ProcTyped, Call, Enter
<1>2. ASSUME NEW c \in Others, CreateProc(p, c) PROVE ProcTyped'
  <2>1. locked' \in BOOLEAN
    BY <1>2 DEF CreateProc, Enter
  <2> QED BY <1>2, <2>1 DEF ProcTyped, CreateProc, Enter, Sections
<1>3. CASE InitProc(p)
  <2> DEFINE new == FreePid((lastPid + 1) % MaxPid)
  <2>1. new \in -1 .. MaxPid - 1
    BY FreePidFacts
  <2>2. obj[p] \in Others /\ obj[p] \in Structs
    BY <1>3, ObjFacts DEF InitProc, Making
  <2>3. locked' \in BOOLEAN
    BY <1>3 DEF InitProc
  <2>4. /\ pid' = [pid EXCEPT ![obj[p]] = new]
        /\ pidmap' = IF new = -1 THEN pidmap ELSE pidmap \cup {new}
        /\ lastPid' = IF new = -1 THEN lastPid ELSE new
    BY <1>3 DEF InitProc
  <2> HIDE DEF new
  <2>5. /\ pid' \in [Structs -> -1 .. MaxPid - 1] /\ lastPid' \in 0 .. MaxPid - 1
        /\ pidmap' \in SUBSET (0 .. MaxPid - 1)
    <3>1. CASE new = -1
      BY <2>1, <2>4, <3>1 DEF ProcTyped
    <3>2. CASE new # -1
      <4>1. new \in 0 .. MaxPid - 1
        BY <2>1, <3>2, PidAssumption
      <4> QED BY <2>1, <2>4, <3>2, <4>1 DEF ProcTyped
    <3> QED BY <3>1, <3>2
  <2>6. <<>> \in Seq(Others)
    OBVIOUS
  <2>7. childexit' \in [Structs -> Nat] /\ children' \in [Structs -> Seq(Others)]
    BY <1>3, <2>2, <2>6 DEF ProcTyped, InitProc
  <2> QED BY <1>3, <2>2, <2>3, <2>5, <2>7 DEF ProcTyped, InitProc
<1>4. ASSUME at[p] \in {"parent", "start"}, NEW q \in Structs, Adopt(q, obj[p])
      PROVE  parent' \in [Structs -> Structs \cup {NoProc}] /\ children' \in [Structs -> Seq(Others)]
  <2>1. obj[p] \in Others /\ obj[p] \in Structs
    BY <1>4, ObjFacts DEF Making
  <2>2. InsertHead(children[q], obj[p]) \in Seq(Others)
    BY <2>1, InsertHeadFacts DEF ProcTyped
  <2> QED BY <1>4, <2>1, <2>2 DEF ProcTyped, Adopt
<1>5. CASE SetParentToThis(p)
  <2>1. locked' \in BOOLEAN
    BY <1>5 DEF SetParentToThis
  <2> QED BY <1>4, <1>5, <2>1 DEF ProcTyped, SetParentToThis
<1>6. CASE StartProc(p)
  <2>1. locked' \in BOOLEAN /\ Root \in Structs
    BY <1>6 DEF StartProc, Structs
  <2>2. parent' \in [Structs -> Structs \cup {NoProc}] /\ children' \in [Structs -> Seq(Others)]
    BY <1>4, <1>6, <2>1 DEF ProcTyped, StartProc
  <2> QED BY <1>6, <2>1, <2>2 DEF ProcTyped, StartProc
<1>7. CASE ActivateNew(p)
  <2>1. obj[p] \in Structs
    BY <1>7, ObjFacts DEF ActivateNew, Making
  <2> QED BY <1>7, <2>1 DEF ProcTyped, ActivateNew
<1>8. CASE Exit(p)
  <2>1. locked' \in BOOLEAN /\ Root \in Structs
    BY <1>8 DEF Exit, Structs
  <2>2. Members(children[p]) \subseteq Others
    BY DEF ProcTyped, Members
  <2>3. Cardinality({c \in Members(children[p]) : state[c] = "ZOMBIE"}) \in Nat
    BY <2>2, ProcsAssumption, FS_Subset, FS_CardinalityType
  <2>4. \A q \in Structs : Posts(p)[q] \in Nat
    BY <2>3 DEF Posts
  <2>5. \A q \in Structs : Units(q, Posts(p)[q]) \in Nat
    BY <2>4 DEF Units, ProcTyped
  <2>6. Orphans(p) \in Seq(Others) /\ children[Root] \in Seq(Others)
    BY <2>1, OrphansFacts DEF ListsInv, ProcTyped
  <2>7. Orphans(p) \o children[Root] \in Seq(Others) /\ <<>> \in Seq(Others)
    BY <2>6
  <2>8. children' \in [Structs -> Seq(Others)]
    BY <1>8, <2>7 DEF ProcTyped, Exit
  <2>9. childexit' \in [Structs -> Nat]
    BY <1>8, <2>5 DEF Exit
  <2>10. parent' \in [Structs -> Structs \cup {NoProc}]
    BY <1>8, <2>1 DEF Exit, ProcTyped
  <2> QED BY <1>8, <2>1, <2>8, <2>9, <2>10 DEF ProcTyped, Exit
<1>9. CASE Zombie(p)
  BY <1>9 DEF ProcTyped, Zombie
<1>10. CASE WaitCheck(p)
  <2>1. locked' \in BOOLEAN
    BY <1>10 DEF WaitCheck
  <2> QED BY <1>10, <2>1 DEF ProcTyped, WaitCheck
<1>11. CASE WaitSem(p)
  <2>1. childexit' \in [Structs -> Nat]
    BY <1>11 DEF ProcTyped, WaitSem
  <2> QED BY <1>11, <2>1 DEF ProcTyped, WaitSem
<1>12. CASE Collect(p)
  <2>1. locked' \in BOOLEAN
    BY <1>12 DEF Collect
  <2>2. CASE \E i \in DOMAIN children[p] : state[children[p][i]] = "ZOMBIE"
    <3> DEFINE c == FirstZombie(children[p])
    <3>1. /\ c \in Structs /\ Detach(children[p], c) \in Seq(Others)
          /\ children' = [children EXCEPT ![p] = Detach(children[p], c)]
      BY <1>12, <2>2, CollectFacts
    <3>2. /\ state' = [state EXCEPT ![c] = IF pid[c] = -1 THEN "ZOMBIE" ELSE "FREE"]
          /\ parent' = [parent EXCEPT ![c] = NoProc]
          /\ pidmap' = pidmap \ {pid[c]} /\ pid' = [pid EXCEPT ![c] = -1]
          /\ at' = [at EXCEPT ![p] = IF pid[c] = -1 THEN "panic" ELSE "run"]
          /\ UNCHANGED <<lastPid, childexit, obj>>
      BY <1>12, <2>2 DEF Collect
    <3> HIDE DEF c
    <3>3. -1 \in -1 .. MaxPid - 1
      BY PidAssumption
    <3> QED BY <2>1, <3>1, <3>2, <3>3 DEF ProcTyped
  <2>3. CASE ~ \E i \in DOMAIN children[p] : state[children[p][i]] = "ZOMBIE"
    BY <1>12, <2>1, <2>3 DEF ProcTyped, Collect
  <2> QED BY <2>2, <2>3
<1> QED
  BY <1>1, <1>2, <1>3, <1>5, <1>6, <1>7, <1>8, <1>9, <1>10, <1>11, <1>12 DEF Step

\* What exit does to the processes.
LEMMA ExitFacts ==
    ASSUME IInv, NEW p \in Structs, Exit(p)
    PROVE  /\ p # Root /\ p \in Others /\ at'[p] = "exited" /\ state' = state
           /\ pid' = pid /\ pidmap' = pidmap /\ obj' = obj
           /\ \A q \in Structs \ {p} : at'[q] # at[q] => at[q] = "asleep" /\ at'[q] = "woken"
           /\ \A c \in Structs : c \in Members(children[p]) => parent'[c] = Root
           /\ \A c \in Structs : c \notin Members(children[p]) => parent'[c] = parent[c]
           /\ state[p] = "LIVE" /\ at[p] = "exit"
<1> USE DEF IInv, family, pids
<1>1. p # Root /\ p \in Others /\ state[p] = "LIVE" /\ at[p] = "exit"
  BY DEF Exit, LifeInv, OnlyLiveRuns, RootLives, MadeIsUnused,
     MadeByOne, MadeIsFresh, FreeIsUnlinked, Structs
<1> QED BY <1>1 DEF Exit

LEMMA LifeStep == ASSUME IInv, NEW p \in Structs, Step(p) PROVE LifeInv'
<1> USE DEF IInv, family, pids
<1>0. Root \in Structs /\ NoProc \notin Structs /\ Others \subseteq Structs /\ Root \notin Others
  BY ProcsAssumption DEF Structs
<1>1. ASSUME NEW l \in Sections \ {"init", "kill"}, Call(p, l) PROVE LifeInv'
  <2>1. /\ UNCHANGED <<state, parent, pid, obj>> /\ at' = [at EXCEPT ![p] = l]
        /\ l \in {"parent", "start"} => at[p] = "created"
        /\ l \notin {"parent", "start"} => at[p] \in {"run", "woken"} /\ l \notin Making
        /\ l = "exit" => p # Root
        /\ l = "parent" => parent[obj[p]] = NoProc
        /\ l # "init" /\ l # "exited" /\ l # "none" /\ at[p] # "none"
    BY <1>1 DEF Call, Enter, EntryOf, Sections, Making
  <2>2. OnlyLiveRuns'
    BY <1>0, <2>1 DEF LifeInv, ProcTyped, Making, OnlyLiveRuns
  <2>3. RootLives'
    BY <1>0, <2>1 DEF LifeInv, ProcTyped, Making, RootLives
  <2>4. MadeIsUnused'
    BY <1>0, <2>1 DEF LifeInv, ProcTyped, Making, MadeIsUnused, MadeByOne
  <2>5. MadeByOne'
    BY <1>0, <2>1 DEF LifeInv, ProcTyped, Making, MadeByOne, MadeIsUnused
  <2>6. MadeIsFresh'
    BY <1>0, <2>1 DEF LifeInv, ProcTyped, Making, MadeIsFresh, MadeByOne, MadeIsUnused, FreeIsUnlinked
  <2>7. FreeIsUnlinked'
    BY <1>0, <2>1 DEF LifeInv, ProcTyped, Making, FreeIsUnlinked
  <2> QED BY <2>2, <2>3, <2>4, <2>5, <2>6, <2>7 DEF LifeInv
<1>2. ASSUME NEW c \in Others, CreateProc(p, c) PROVE LifeInv'
  <2>1. /\ at[p] = "run" /\ at' = [at EXCEPT ![p] = "init"] /\ state[c] = "FREE"
        /\ state' = [state EXCEPT ![c] = "UNUSED"] /\ obj' = [obj EXCEPT ![p] = c]
        /\ UNCHANGED <<parent, pid>>
    BY <1>2 DEF CreateProc, Enter, EntryOf
  <2>2. c # p /\ c \in Structs /\ state[p] = "LIVE" /\ at[c] = "none"
    BY <1>0, <2>1 DEF LifeInv, OnlyLiveRuns, RootLives, MadeIsUnused,
     MadeByOne, MadeIsFresh, FreeIsUnlinked
  <2>3. OnlyLiveRuns'
    BY <1>0, <2>1, <2>2 DEF LifeInv, ProcTyped, Making, OnlyLiveRuns
  <2>4. RootLives'
    BY <1>0, <2>1, <2>2 DEF LifeInv, ProcTyped, Making, RootLives
  <2>5. MadeIsUnused'
    BY <1>0, <2>1, <2>2 DEF LifeInv, ProcTyped, Making, MadeIsUnused, MadeByOne
  <2>6. MadeByOne'
    BY <1>0, <2>1, <2>2 DEF LifeInv, ProcTyped, Making, MadeByOne, MadeIsUnused
  <2>7. MadeIsFresh'
    BY <1>0, <2>1, <2>2 DEF LifeInv, ProcTyped, Making, MadeIsFresh, MadeByOne, MadeIsUnused, FreeIsUnlinked
  <2>8. FreeIsUnlinked'
    BY <1>0, <2>1, <2>2 DEF LifeInv, ProcTyped, Making, FreeIsUnlinked
  <2> QED BY <2>3, <2>4, <2>5, <2>6, <2>7, <2>8 DEF LifeInv
<1>3. CASE InitProc(p)
  <2>1. /\ at[p] = "init" /\ at' = [at EXCEPT ![p] = "created"]
        /\ parent' = [parent EXCEPT ![obj[p]] = NoProc]
        /\ UNCHANGED <<state, obj>>
        /\ \A q \in Structs : q # obj[p] => pid'[q] = pid[q]
    BY <1>3 DEF InitProc, ProcTyped
  <2>2. obj[p] \in Others /\ state[obj[p]] = "UNUSED"
    BY <2>1, ObjFacts DEF Making
  <2>3. OnlyLiveRuns'
    BY <1>0, <2>1, <2>2 DEF LifeInv, ProcTyped, Making, OnlyLiveRuns
  <2>4. RootLives'
    BY <1>0, <2>1, <2>2 DEF LifeInv, ProcTyped, Making, RootLives
  <2>5. MadeIsUnused'
    BY <1>0, <2>1, <2>2 DEF LifeInv, ProcTyped, Making, MadeIsUnused, MadeByOne
  <2>6. MadeByOne'
    BY <1>0, <2>1, <2>2 DEF LifeInv, ProcTyped, Making, MadeByOne, MadeIsUnused
  <2>7. MadeIsFresh'
    BY <1>0, <2>1, <2>2 DEF LifeInv, ProcTyped, Making, MadeIsFresh, MadeByOne, MadeIsUnused, FreeIsUnlinked
  <2>8. FreeIsUnlinked'
    BY <1>0, <2>1, <2>2 DEF LifeInv, ProcTyped, Making, FreeIsUnlinked
  <2> QED BY <2>3, <2>4, <2>5, <2>6, <2>7, <2>8 DEF LifeInv
<1>4. CASE SetParentToThis(p) \/ StartProc(p)
  <2>1. /\ at[p] \in {"parent", "start"} /\ UNCHANGED <<state, obj, pid>>
        /\ at' = [at EXCEPT ![p] = "created"] \/ at' = [at EXCEPT ![p] = "activate"]
        /\ \A c \in Structs : c # obj[p] => parent'[c] = parent[c]
    BY <1>4 DEF SetParentToThis, StartProc, Adopt, ProcTyped
  <2>2. obj[p] \in Others /\ state[obj[p]] = "UNUSED"
    BY <2>1, ObjFacts DEF Making
  <2>3. /\ at[p] \in Making /\ at[p] # "none" /\ at'[p] \in {"created", "activate"}
        /\ \A q \in Structs : q # p => at'[q] = at[q]
    BY <2>1 DEF ProcTyped, Making
  <2>4. \A q \in Structs : at'[q] \in Making => at[q] \in Making
    BY <2>3
  <2>5. OnlyLiveRuns'
    BY <1>0, <2>1, <2>2 DEF LifeInv, ProcTyped, Making, OnlyLiveRuns
  <2>6. RootLives'
    BY <1>0, <2>1, <2>2 DEF LifeInv, ProcTyped, Making, RootLives
  <2>7. MadeIsUnused'
    BY <2>1, <2>4 DEF LifeInv, MadeIsUnused, MadeByOne
  <2>8. MadeByOne'
    BY <2>1, <2>4 DEF LifeInv, MadeByOne, MadeIsUnused
  <2>9. MadeIsFresh'
    BY <1>0, <2>1, <2>3 DEF LifeInv, Making, MadeIsFresh, MadeByOne, MadeIsUnused, FreeIsUnlinked
  <2>10. FreeIsUnlinked'
    BY <1>0, <2>1, <2>2 DEF LifeInv, ProcTyped, Making, FreeIsUnlinked
  <2> QED BY <2>5, <2>6, <2>7, <2>8, <2>9, <2>10 DEF LifeInv
<1>5. CASE ActivateNew(p)
  <2>1. /\ obj[p] \in Others /\ obj[p] # p /\ state[obj[p]] = "UNUSED" /\ at[p] = "activate"
    BY <1>5, ObjFacts DEF ActivateNew, Making
  <2>2. /\ state' = [state EXCEPT ![obj[p]] = "LIVE"] /\ UNCHANGED <<parent, pid>>
        /\ at' = [at EXCEPT ![p] = "run", ![obj[p]] = "run"]
        /\ obj' = [obj EXCEPT ![p] = NoProc]
    BY <1>5 DEF ActivateNew
  <2>3. OnlyLiveRuns'
    BY <1>0, <2>1, <2>2 DEF LifeInv, ProcTyped, Making, OnlyLiveRuns
  <2>4. RootLives'
    BY <1>0, <2>1, <2>2 DEF LifeInv, ProcTyped, Making, RootLives
  <2>5. MadeIsUnused'
    BY <1>0, <2>1, <2>2 DEF LifeInv, ProcTyped, Making, MadeIsUnused, MadeByOne
  <2>6. MadeByOne'
    BY <1>0, <2>1, <2>2 DEF LifeInv, ProcTyped, Making, MadeByOne, MadeIsUnused
  <2>7. MadeIsFresh'
    BY <1>0, <2>1, <2>2 DEF LifeInv, ProcTyped, Making, MadeIsFresh, MadeByOne, MadeIsUnused, FreeIsUnlinked
  <2>8. FreeIsUnlinked'
    BY <1>0, <2>1, <2>2 DEF LifeInv, ProcTyped, Making, FreeIsUnlinked
  <2> QED BY <2>3, <2>4, <2>5, <2>6, <2>7, <2>8 DEF LifeInv
<1>6. CASE Exit(p)
  <2>1. \A q \in Structs : at[q] \in {"init", "parent"} => parent'[obj[q]] = NoProc
    BY <1>0, <1>6, ExitFacts, ObjFacts DEF LifeInv, OnlyLiveRuns, RootLives, MadeIsUnused,
     MadeByOne, MadeIsFresh, FreeIsUnlinked, ListsInv, Making
  <2>2. \A c \in Others : state[c] = "FREE" => parent'[c] = NoProc
    BY <1>0, <1>6, ExitFacts DEF LifeInv, OnlyLiveRuns, RootLives, MadeIsUnused,
     MadeByOne, MadeIsFresh, FreeIsUnlinked, ListsInv
  <2>3. \A q \in Structs : \A l \in Making \cup {"exit", "none"} : at'[q] = l => at[q] = l
    BY <1>6, ExitFacts DEF Making
  <2>4. \A q \in Structs : at[q] = "none" => at'[q] = "none"
    BY <1>6, ExitFacts
  <2>5. at'[Root] \notin {"exit", "exited"}
    BY <1>0, <1>6, ExitFacts DEF LifeInv, OnlyLiveRuns, RootLives, MadeIsUnused,
     MadeByOne, MadeIsFresh, FreeIsUnlinked
  <2>6. \A q \in Structs : at'[q] \in Making => at[q] = at'[q]
    BY <2>3 DEF Making
  <2>7. OnlyLiveRuns'
    BY <1>0, <1>6, <2>1, <2>2, <2>4, <2>5, <2>6, ExitFacts DEF LifeInv, Making, OnlyLiveRuns
  <2>8. RootLives'
    BY <1>0, <1>6, <2>1, <2>2, <2>4, <2>5, <2>6, ExitFacts DEF LifeInv, Making, RootLives
  <2>9. MadeIsUnused'
    BY <1>0, <1>6, <2>1, <2>2, <2>4, <2>5, <2>6, ExitFacts DEF LifeInv, Making, MadeIsUnused, MadeByOne
  <2>10. MadeByOne'
    BY <1>0, <1>6, <2>1, <2>2, <2>4, <2>5, <2>6, ExitFacts DEF LifeInv, Making, MadeByOne, MadeIsUnused
  <2>11. MadeIsFresh'
    BY <1>0, <1>6, <2>1, <2>2, <2>4, <2>5, <2>6, ExitFacts DEF LifeInv, Making, MadeIsFresh, MadeByOne, MadeIsUnused, FreeIsUnlinked
  <2>12. FreeIsUnlinked'
    BY <1>0, <1>6, <2>1, <2>2, <2>4, <2>5, <2>6, ExitFacts DEF LifeInv, Making, FreeIsUnlinked
  <2> QED BY <2>7, <2>8, <2>9, <2>10, <2>11, <2>12 DEF LifeInv
<1>7. CASE Zombie(p)
  <2>1. p # Root /\ state[p] = "LIVE"
    BY <1>7 DEF Zombie, LifeInv, OnlyLiveRuns, RootLives
  <2>2. OnlyLiveRuns'
    BY <1>0, <1>7, <2>1 DEF LifeInv, ProcTyped, Zombie, Making, OnlyLiveRuns
  <2>3. RootLives'
    BY <1>0, <1>7, <2>1 DEF LifeInv, ProcTyped, Zombie, Making, RootLives
  <2>4. MadeIsUnused'
    BY <1>0, <1>7, <2>1 DEF LifeInv, ProcTyped, Zombie, Making, MadeIsUnused, MadeByOne
  <2>5. MadeByOne'
    BY <1>0, <1>7, <2>1 DEF LifeInv, ProcTyped, Zombie, Making, MadeByOne, MadeIsUnused
  <2>6. MadeIsFresh'
    BY <1>0, <1>7, <2>1 DEF LifeInv, ProcTyped, Zombie, Making, MadeIsFresh, MadeByOne, MadeIsUnused, FreeIsUnlinked
  <2>7. FreeIsUnlinked'
    BY <1>0, <1>7, <2>1 DEF LifeInv, ProcTyped, Zombie, Making, FreeIsUnlinked
  <2> QED BY <2>2, <2>3, <2>4, <2>5, <2>6, <2>7 DEF LifeInv
<1>8. CASE WaitCheck(p) \/ WaitSem(p)
  <2>1. /\ UNCHANGED <<state, parent, pid, obj>> /\ at[p] \in {"wait", "waiting"}
        /\ \E l \in {"run", "waiting", "asleep", "woken"} : at' = [at EXCEPT ![p] = l]
    BY <1>8 DEF WaitCheck, WaitSem
  <2>2. OnlyLiveRuns'
    BY <1>0, <2>1 DEF LifeInv, ProcTyped, Making, OnlyLiveRuns
  <2>3. RootLives'
    BY <1>0, <2>1 DEF LifeInv, ProcTyped, Making, RootLives
  <2>4. MadeIsUnused'
    BY <1>0, <2>1 DEF LifeInv, ProcTyped, Making, MadeIsUnused, MadeByOne
  <2>5. MadeByOne'
    BY <1>0, <2>1 DEF LifeInv, ProcTyped, Making, MadeByOne, MadeIsUnused
  <2>6. MadeIsFresh'
    BY <1>0, <2>1 DEF LifeInv, ProcTyped, Making, MadeIsFresh, MadeByOne, MadeIsUnused, FreeIsUnlinked
  <2>7. FreeIsUnlinked'
    BY <1>0, <2>1 DEF LifeInv, ProcTyped, Making, FreeIsUnlinked
  <2> QED BY <2>2, <2>3, <2>4, <2>5, <2>6, <2>7 DEF LifeInv
<1>9. CASE Collect(p)
  <2>1. CASE \E i \in DOMAIN children[p] : state[children[p][i]] = "ZOMBIE"
    <3> DEFINE c == FirstZombie(children[p])
    <3>1. c \in Others /\ c # p /\ state[c] = "ZOMBIE" /\ at[c] = "none"
      BY <1>9, <2>1, CollectFacts
    <3>2. /\ \E st \in {"FREE", "ZOMBIE"} : state' = [state EXCEPT ![c] = st]
          /\ parent' = [parent EXCEPT ![c] = NoProc]
          /\ pid' = [pid EXCEPT ![c] = -1] /\ obj' = obj /\ at[p] = "collect"
          /\ \E l \in {"panic", "run"} : at' = [at EXCEPT ![p] = l]
      BY <1>9, <2>1 DEF Collect
    <3> HIDE DEF c
    <3>3. \A q \in Structs : at'[q] \in Making => at[q] \in Making
      BY <3>2 DEF ProcTyped, Making
    <3>4. OnlyLiveRuns'
      BY <1>0, <3>1, <3>2 DEF LifeInv, ProcTyped, Making, OnlyLiveRuns
    <3>5. RootLives'
      BY <1>0, <3>1, <3>2 DEF LifeInv, ProcTyped, Making, RootLives
    <3>6. MadeIsUnused'
      BY <1>0, <3>1, <3>2 DEF LifeInv, ProcTyped, Making, MadeIsUnused, MadeByOne
    <3>7. MadeByOne'
      BY <3>2, <3>3 DEF LifeInv, MadeByOne
    <3>8. MadeIsFresh'
      BY <1>0, <3>1, <3>2 DEF LifeInv, ProcTyped, Making, MadeIsFresh
    <3>9. FreeIsUnlinked'
      BY <1>0, <3>1, <3>2 DEF LifeInv, ProcTyped, Making, FreeIsUnlinked
    <3> QED BY <3>4, <3>5, <3>6, <3>7, <3>8, <3>9 DEF LifeInv
  <2>2. CASE ~ \E i \in DOMAIN children[p] : state[children[p][i]] = "ZOMBIE"
    <3>1. /\ UNCHANGED <<state, parent, pid, obj>> /\ at[p] = "collect"
          /\ at' = [at EXCEPT ![p] = "panic"]
      BY <1>9, <2>2 DEF Collect
    <3>2. OnlyLiveRuns'
      BY <1>0, <3>1 DEF LifeInv, ProcTyped, Making, OnlyLiveRuns
    <3>3. RootLives'
      BY <1>0, <3>1 DEF LifeInv, ProcTyped, Making, RootLives
    <3>4. MadeIsUnused'
      BY <1>0, <3>1 DEF LifeInv, ProcTyped, Making, MadeIsUnused, MadeByOne
    <3>5. MadeByOne'
      BY <1>0, <3>1 DEF LifeInv, ProcTyped, Making, MadeByOne, MadeIsUnused
    <3>6. MadeIsFresh'
      BY <1>0, <3>1 DEF LifeInv, ProcTyped, Making, MadeIsFresh, MadeByOne, MadeIsUnused, FreeIsUnlinked
    <3>7. FreeIsUnlinked'
      BY <1>0, <3>1 DEF LifeInv, ProcTyped, Making, FreeIsUnlinked
    <3> QED BY <3>2, <3>3, <3>4, <3>5, <3>6, <3>7 DEF LifeInv
  <2> QED BY <2>1, <2>2
<1> QED
  BY <1>1, <1>2, <1>3, <1>4, <1>5, <1>6, <1>7, <1>8, <1>9 DEF Step

\* A step that leaves the tree alone and neither ends nor frees a process.
LEMMA SameTree ==
    ASSUME IInv, UNCHANGED <<parent, children>>,
           \A q \in Structs : state[q] = "LIVE" => state'[q] = "LIVE",
           \A q \in Structs : at'[q] = "exited" => at[q] = "exited"
    PROVE  ListsInv' /\ RootedInv'
<1>1. Linked' = Linked
  BY DEF Linked
<1>2. RootedInv'
  BY <1>1 DEF IInv, RootedInv
<1>3. \A c \in Linked : parent[c] \in Structs
  BY DEF Linked, IInv, ProcTyped, Structs
<1>4. \A c \in Linked' : state'[parent'[c]] = "LIVE" /\ at'[parent'[c]] # "exited"
  BY <1>1, <1>3 DEF IInv, ListsInv
<1>5. ListsInv'
  BY <1>4 DEF IInv, ListsInv
<1> QED BY <1>2, <1>5

LEMMA AdoptTree ==
    ASSUME IInv, NEW p \in Structs, at[p] \in Making, parent[obj[p]] = NoProc,
           NEW q \in Structs, state[q] = "LIVE", at[q] # "exited", Adopt(q, obj[p]),
           UNCHANGED state, \A r \in Structs : at'[r] = "exited" => at[r] = "exited"
    PROVE  ListsInv' /\ RootedInv'
<1> USE DEF IInv
<1> DEFINE c == obj[p]
<1>0. Root \in Structs /\ NoProc \notin Structs /\ Others \subseteq Structs
  BY ProcsAssumption DEF Structs
<1>1. /\ c \in Others /\ c \in Structs /\ c # q /\ \A d \in Others : parent[d] # c
  BY ObjFacts
<1>2. parent' = [parent EXCEPT ![c] = q] /\ children' = [children EXCEPT ![q] = InsertHead(@, c)]
  BY DEF Adopt
<1> HIDE DEF c
<1>3. c \notin Members(children[q]) /\ parent[c] = NoProc
  BY <1>0, <1>1 DEF ListsInv, c
<1>4. /\ Members(InsertHead(children[q], c)) = Members(children[q]) \cup {c}
      /\ Distinct(InsertHead(children[q], c))
  BY <1>1, <1>3, InsertHeadFacts DEF ProcTyped, ListsInv
<1>5. Linked' = Linked \cup {c}
  BY <1>0, <1>1, <1>2 DEF Linked, ProcTyped
<1>6. \A r \in Structs : Distinct(children'[r])
  BY <1>2, <1>4 DEF ListsInv, ProcTyped
<1>7. \A d \in Others, r \in Structs : parent'[d] = r <=> d \in Members(children'[r])
  <2> SUFFICES ASSUME NEW d \in Others, NEW r \in Structs
               PROVE  parent'[d] = r <=> d \in Members(children'[r])
    OBVIOUS
  <2>1. parent'[d] = IF d = c THEN q ELSE parent[d]
    BY <1>0, <1>2 DEF ProcTyped
  <2>2. Members(children'[r]) = IF r = q THEN Members(children[q]) \cup {c} ELSE Members(children[r])
    BY <1>2, <1>4 DEF ProcTyped
  <2>3. parent[d] = r <=> d \in Members(children[r])
    BY DEF ListsInv
  <2> QED BY <1>0, <1>3, <2>1, <2>2, <2>3
<1>8. \A d \in Linked' : state'[parent'[d]] = "LIVE" /\ at'[parent'[d]] # "exited"
  <2> SUFFICES ASSUME NEW d \in Linked'
               PROVE  state'[parent'[d]] = "LIVE" /\ at'[parent'[d]] # "exited"
    OBVIOUS
  <2>1. CASE d = c
    BY <1>1, <1>2, <2>1 DEF ProcTyped
  <2>2. CASE d # c
    <3>1. d \in Linked /\ parent'[d] = parent[d] /\ parent[d] \in Structs
      BY <1>0, <1>2, <1>5, <2>2 DEF Linked, ProcTyped
    <3> QED BY <3>1 DEF ListsInv
  <2> QED BY <2>1, <2>2
<1>9. RootedInv'
  <2> SUFFICES ASSUME NEW S \in SUBSET Linked', S # {}
               PROVE  \E d \in S : parent'[d] \notin S
    BY DEF RootedInv
  <2>1. CASE S = {c}
    BY <1>1, <1>2, <2>1 DEF ProcTyped
  <2>2. CASE S # {c}
    <3>1. S \ {c} \in SUBSET Linked /\ S \ {c} # {}
      BY <1>5, <2>2
    <3>2. PICK d \in S \ {c} : parent[d] \notin S \ {c}
      BY <3>1 DEF RootedInv
    <3>3. d \in Others /\ parent'[d] = parent[d] /\ parent[d] # c
      BY <1>0, <1>1, <1>2, <3>1 DEF Linked, ProcTyped
    <3> QED BY <3>2, <3>3
  <2> QED BY <2>1, <2>2
<1>10. ListsInv'
  BY <1>6, <1>7, <1>8 DEF ListsInv
<1> QED BY <1>9, <1>10

LEMMA ExitTree ==
    ASSUME IInv, NEW p \in Structs, Exit(p)
    PROVE  ListsInv' /\ RootedInv'
<1> USE DEF IInv
<1>0. Root \in Structs /\ NoProc \notin Structs /\ Others \subseteq Structs /\ Root \notin Others
  BY ProcsAssumption DEF Structs
<1> DEFINE O == Members(children[p])
<1>1. /\ p # Root /\ p \in Others /\ state' = state /\ state[p] = "LIVE"
      /\ \A q \in Structs : at'[q] = "exited" => q = p \/ at[q] = "exited"
      /\ \A c \in Structs : c \in O => parent'[c] = Root
      /\ \A c \in Structs : c \notin O => parent'[c] = parent[c]
  BY ExitFacts
<1>2. /\ children[p] \in Seq(Others) /\ children[Root] \in Seq(Others)
      /\ Distinct(children[p]) /\ Distinct(children[Root])
  BY <1>0 DEF ProcTyped, ListsInv
<1>3. O \subseteq Others
  BY <1>2 DEF Members
<1>4. \A c \in Others : c \in O <=> parent[c] = p
  BY DEF ListsInv
<1>5. O \cap Members(children[Root]) = {}
  BY <1>0, <1>1, <1>3, <1>4 DEF ListsInv
<1>6. /\ Orphans(p) \in Seq(Others) /\ Members(Orphans(p)) = O /\ Distinct(Orphans(p))
  BY <1>2, OrphansFacts
<1>7. /\ Members(Orphans(p) \o children[Root]) = O \cup Members(children[Root])
      /\ Distinct(Orphans(p) \o children[Root])
  BY <1>2, <1>5, <1>6, ConcatFacts
<1>8. children' = [children EXCEPT ![Root] = Orphans(p) \o @, ![p] = <<>>]
  BY DEF Exit
<1>9. /\ children'[p] = <<>> /\ children'[Root] = Orphans(p) \o children[Root]
      /\ \A q \in Structs \ {p, Root} : children'[q] = children[q]
  BY <1>0, <1>1, <1>8 DEF ProcTyped
<1>10. \A q \in Structs : Distinct(children'[q])
  BY <1>7, <1>9, EmptyFacts DEF ListsInv
<1>11. ASSUME NEW c \in Others, NEW q \in Structs
       PROVE  parent'[c] = q <=> c \in Members(children'[q])
  <2> HIDE DEF O
  <2>1. c \in O => parent'[c] = Root /\ parent[c] = p
    BY <1>0, <1>1, <1>4
  <2>2. c \notin O => parent'[c] = parent[c] /\ parent[c] # p
    BY <1>0, <1>1, <1>4
  <2>3. parent[c] = q <=> c \in Members(children[q])
    BY DEF ListsInv
  <2>4. CASE q = p
    BY <1>1, <1>9, <2>1, <2>2, <2>4, EmptyFacts
  <2>5. CASE q = Root
    BY <1>7, <1>9, <2>1, <2>2, <2>3, <2>5
  <2>6. CASE q # p /\ q # Root
    BY <1>9, <2>1, <2>2, <2>3, <2>6
  <2> QED BY <2>4, <2>5, <2>6
<1>12. Linked' = Linked
  BY <1>0, <1>1, <1>3, <1>4 DEF Linked
<1>13. \A c \in Linked : parent'[c] = Root \/ (parent'[c] = parent[c] /\ parent[c] # p)
  BY <1>0, <1>1, <1>4 DEF Linked
<1>14. ASSUME NEW c \in Linked PROVE state'[parent'[c]] = "LIVE" /\ at'[parent'[c]] # "exited"
  <2>1. CASE parent'[c] = Root
    BY <1>0, <1>1, <2>1 DEF LifeInv, RootLives
  <2>2. CASE parent'[c] = parent[c] /\ parent[c] # p
    <3>1. parent[c] \in Structs
      <4>1. c \in Structs /\ parent[c] # NoProc
        BY <1>0 DEF Linked
      <4> QED BY <4>1 DEF ProcTyped
    <3> QED BY <1>1, <2>2, <3>1 DEF ListsInv
  <2> QED BY <1>13, <2>1, <2>2
<1>15. RootedInv'
  <2> SUFFICES ASSUME NEW S \in SUBSET Linked, S # {}
               PROVE  \E c \in S : parent'[c] \notin S
    BY <1>12 DEF RootedInv
  <2>1. PICK c \in S : parent[c] \notin S
    BY DEF RootedInv
  <2>2. Root \notin S
    BY <1>0 DEF Linked
  <2> QED BY <1>13, <2>1, <2>2
<1>16. ListsInv'
  BY <1>10, <1>11, <1>12, <1>14 DEF ListsInv
<1> QED BY <1>15, <1>16

LEMMA CollectTree ==
    ASSUME IInv, NEW p \in Structs, Collect(p)
    PROVE  ListsInv' /\ RootedInv'
<1> USE DEF IInv, family
<1>0. NoProc \notin Structs /\ Others \subseteq Structs
  BY ProcsAssumption DEF Structs
<1>1. CASE ~ \E i \in DOMAIN children[p] : state[children[p][i]] = "ZOMBIE"
  <2>1. /\ UNCHANGED <<parent, children, state>>
        /\ \A q \in Structs : at'[q] = "exited" => at[q] = "exited"
    BY <1>1 DEF Collect, ProcTyped
  <2> QED BY <2>1, SameTree
<1>2. CASE \E i \in DOMAIN children[p] : state[children[p][i]] = "ZOMBIE"
  <2> DEFINE c == FirstZombie(children[p])
             rest == Detach(children[p], c)
  <2>1. /\ c \in Others /\ c \in Structs /\ c # p /\ state[c] = "ZOMBIE"
        /\ parent[c] = p /\ \A d \in Others : parent[d] # c
        /\ children' = [children EXCEPT ![p] = rest]
        /\ Members(rest) = Members(children[p]) \ {c} /\ Distinct(rest)
    BY <1>2, CollectFacts
  <2>2. /\ \E st \in {"FREE", "ZOMBIE"} : state' = [state EXCEPT ![c] = st]
        /\ parent' = [parent EXCEPT ![c] = NoProc]
        /\ \E l \in {"panic", "run"} : at' = [at EXCEPT ![p] = l]
    BY <1>2 DEF Collect
  <2> HIDE DEF c, rest
  <2>3. \A q \in Structs : at'[q] = "exited" => at[q] = "exited"
    BY <2>2 DEF ProcTyped
  <2>4. Linked' = Linked \ {c} /\ \A d \in Linked' : parent'[d] = parent[d]
    BY <2>1, <2>2 DEF Linked, ProcTyped, Structs
  <2>5. \A q \in Structs : Distinct(children'[q])
    BY <2>1 DEF ListsInv, ProcTyped
  <2>6. ASSUME NEW d \in Others, NEW q \in Structs
        PROVE  parent'[d] = q <=> d \in Members(children'[q])
    <3>1. parent'[d] = IF d = c THEN NoProc ELSE parent[d]
      BY <1>0, <2>2 DEF ProcTyped
    <3>2. Members(children'[q]) = IF q = p THEN Members(children[p]) \ {c} ELSE Members(children[q])
      BY <2>1 DEF ProcTyped
    <3>3. parent[d] = q <=> d \in Members(children[q])
      BY DEF ListsInv
    <3> QED BY <1>0, <2>1, <3>1, <3>2, <3>3
  <2>7. ASSUME NEW d \in Linked'
        PROVE  state'[parent'[d]] = "LIVE" /\ at'[parent'[d]] # "exited"
    <3>1. d \in Linked /\ d \in Others /\ parent'[d] = parent[d] /\ parent[d] \in Structs /\ parent[d] # c
      BY <2>1, <2>4 DEF Linked, ProcTyped, Structs
    <3> QED BY <2>2, <2>3, <3>1 DEF ListsInv, ProcTyped
  <2>8. RootedInv'
    BY <2>4 DEF RootedInv
  <2>9. ListsInv'
    BY <2>5, <2>6, <2>7 DEF ListsInv
  <2> QED BY <2>8, <2>9
<1> QED BY <1>1, <1>2

LEMMA TreeStep == ASSUME IInv, NEW p \in Structs, Step(p) PROVE ListsInv' /\ RootedInv'
<1> USE DEF IInv, family, pids
<1>0. Root \in Structs /\ NoProc \notin Structs /\ Others \subseteq Structs
  BY ProcsAssumption DEF Structs
<1>1. ASSUME NEW l \in Sections \ {"init", "kill"}, Call(p, l) PROVE ListsInv' /\ RootedInv'
  <2>1. /\ UNCHANGED <<parent, children, state>>
        /\ \A q \in Structs : at'[q] = "exited" => at[q] = "exited"
    BY <1>1 DEF Call, Enter, Sections, ProcTyped
  <2> QED BY <2>1, SameTree
<1>2. ASSUME NEW c \in Others, CreateProc(p, c) PROVE ListsInv' /\ RootedInv'
  <2>1. /\ UNCHANGED <<parent, children>>
        /\ \A q \in Structs : state[q] = "LIVE" => state'[q] = "LIVE"
        /\ \A q \in Structs : at'[q] = "exited" => at[q] = "exited"
    BY <1>2 DEF CreateProc, Enter, ProcTyped
  <2> QED BY <2>1, SameTree
<1>3. CASE InitProc(p)
  <2>1. /\ obj[p] \in Structs /\ obj[p] \in Others /\ Members(children[obj[p]]) = {}
        /\ parent[obj[p]] = NoProc
    BY <1>3, ObjFacts DEF InitProc, LifeInv, MadeIsFresh, Making
  <2>2. children[obj[p]] = <<>>
    <3>1. children[obj[p]] \in Seq(Others)
      BY <2>1 DEF ProcTyped
    <3>2. DOMAIN children[obj[p]] = {}
      BY <2>1 DEF Members
    <3>3. Len(children[obj[p]]) \in Nat /\ DOMAIN children[obj[p]] = 1 .. Len(children[obj[p]])
      BY <3>1
    <3>4. Len(children[obj[p]]) = 0
      <4> SUFFICES ASSUME Len(children[obj[p]]) > 0 PROVE FALSE
        BY <3>3
      <4>1. 1 \in DOMAIN children[obj[p]]
        BY <3>3
      <4> QED BY <3>2, <4>1
    <3> QED BY <3>1, <3>4
  <2>3. UNCHANGED <<parent, children, state>>
    BY <1>3, <2>1, <2>2 DEF InitProc, ProcTyped
  <2>4. \A q \in Structs : at'[q] = "exited" => at[q] = "exited"
    BY <1>3 DEF InitProc, ProcTyped
  <2> QED BY <2>3, <2>4, SameTree
<1>4. CASE SetParentToThis(p)
  <2>1. /\ at[p] = "parent" /\ parent[obj[p]] = NoProc /\ state[p] = "LIVE" /\ Adopt(p, obj[p])
        /\ state' = state /\ at[p] # "exited" /\ at[p] \in Making
        /\ \A q \in Structs : at'[q] = "exited" => at[q] = "exited"
    BY <1>4 DEF SetParentToThis, LifeInv, MadeIsFresh, OnlyLiveRuns, ProcTyped, Making
  <2> QED BY <2>1, AdoptTree
<1>5. CASE StartProc(p)
  <2>1. /\ at[p] = "start" /\ state' = state /\ at[p] \in Making
        /\ state[Root] = "LIVE" /\ at[Root] # "exited"
        /\ \A q \in Structs : at'[q] = "exited" => at[q] = "exited"
    BY <1>5 DEF StartProc, LifeInv, RootLives, ProcTyped, Making
  <2>2. CASE parent[obj[p]] = NoProc
    <3>1. Adopt(Root, obj[p])
      BY <1>5, <2>2 DEF StartProc
    <3> QED BY <1>0, <2>1, <2>2, <3>1, AdoptTree
  <2>3. CASE parent[obj[p]] # NoProc
    <3>1. UNCHANGED <<parent, children>>
      BY <1>5, <2>3 DEF StartProc
    <3> QED BY <2>1, <3>1, SameTree
  <2> QED BY <2>2, <2>3
<1>6. CASE ActivateNew(p)
  <2>1. obj[p] \in Structs /\ UNCHANGED <<parent, children>>
    BY <1>6, ObjFacts DEF ActivateNew, Making
  <2>2. /\ \A q \in Structs : state[q] = "LIVE" => state'[q] = "LIVE"
        /\ \A q \in Structs : at'[q] = "exited" => at[q] = "exited"
    BY <1>6, <2>1 DEF ActivateNew, ProcTyped
  <2> QED BY <2>1, <2>2, SameTree
<1>7. CASE Zombie(p)
  <2>1. /\ UNCHANGED <<parent, children>> /\ at[p] = "exited"
        /\ \A q \in Structs : q # p => state'[q] = state[q] /\ at'[q] = at[q]
    BY <1>7 DEF Zombie, ProcTyped
  <2>2. \A c \in Linked : parent[c] # p /\ parent[c] \in Structs
    <3> SUFFICES ASSUME NEW c \in Linked PROVE parent[c] # p /\ parent[c] \in Structs
      OBVIOUS
    <3>1. c \in Others /\ c \in Structs /\ parent[c] # NoProc
      BY <1>0 DEF Linked
    <3>2. parent[c] \in Structs
      BY <3>1 DEF ProcTyped
    <3> QED BY <2>1, <3>1, <3>2 DEF ListsInv
  <2>3. Linked' = Linked
    BY <2>1 DEF Linked
  <2>4. RootedInv'
    BY <2>1, <2>3 DEF RootedInv
  <2>5. \A c \in Linked : state'[parent[c]] = "LIVE" /\ at'[parent[c]] # "exited"
    BY <2>1, <2>2 DEF ListsInv
  <2>6. ListsInv'
    BY <2>1, <2>3, <2>5 DEF ListsInv
  <2> QED BY <2>4, <2>6
<1>8. CASE WaitCheck(p) \/ WaitSem(p)
  <2>1. /\ UNCHANGED <<parent, children, state>>
        /\ \A q \in Structs : at'[q] = "exited" => at[q] = "exited"
    BY <1>8 DEF WaitCheck, WaitSem, ProcTyped
  <2> QED BY <2>1, SameTree
<1> QED
  BY <1>1, <1>2, <1>3, <1>4, <1>5, <1>6, <1>7, <1>8, ExitTree, CollectTree DEF Step

LEMMA PidStep == ASSUME IInv, NEW p \in Structs, Step(p) PROVE PidsAreUnique'
<1> USE DEF IInv, family, pids
<1> DEFINE Taken == {pid[q] : q \in {r \in Structs : pid[r] # -1}}
<1>1. CASE InitProc(p)
  <2> DEFINE c == obj[p]
             new == FreePid((lastPid + 1) % MaxPid)
  <2>1. c \in Structs /\ pid[c] = -1
    BY <1>1, ObjFacts DEF InitProc, LifeInv, MadeIsFresh, Making
  <2>2. new \notin pidmap
    BY FreePidFacts
  <2>3. /\ pid' = [pid EXCEPT ![c] = new]
        /\ pidmap' = IF new = -1 THEN pidmap ELSE pidmap \cup {new}
    BY <1>1 DEF InitProc
  <2> HIDE DEF c, new
  <2>4. \A q \in Structs : pid'[q] = IF q = c THEN new ELSE pid[q]
    BY <2>1, <2>3 DEF ProcTyped
  <2>5. \A q \in Structs : pid[q] # -1 => pid[q] \in pidmap
    BY DEF PidsAreUnique
  <2>6. \A x \in pidmap : \E q \in Structs : pid[q] = x /\ pid[q] # -1
    BY DEF PidsAreUnique
  <2>7. \A q, r \in Structs : pid'[q] = pid'[r] /\ pid'[q] # -1 => q = r
    BY <2>2, <2>4, <2>5 DEF PidsAreUnique
  <2>8. \A q \in Structs : pid'[q] # -1 => pid'[q] \in pidmap'
    BY <2>3, <2>4, <2>5
  <2>9. ASSUME NEW x \in pidmap' PROVE \E q \in Structs : pid'[q] = x /\ pid'[q] # -1
    <3>1. CASE x \in pidmap
      BY <2>1, <2>4, <2>6, <3>1
    <3>2. CASE x \notin pidmap
      BY <2>1, <2>3, <2>4, <3>2
    <3> QED BY <3>1, <3>2
  <2> QED BY <2>7, <2>8, <2>9 DEF PidsAreUnique
<1>2. CASE Collect(p)
  <2>1. CASE \E i \in DOMAIN children[p] : state[children[p][i]] = "ZOMBIE"
    <3> DEFINE c == FirstZombie(children[p])
    <3>1. c \in Structs
      BY <1>2, <2>1, CollectFacts
    <3>2. pidmap' = pidmap \ {pid[c]} /\ pid' = [pid EXCEPT ![c] = -1]
      BY <1>2, <2>1 DEF Collect
    <3> HIDE DEF c
    <3>3. \A q \in Structs : pid'[q] = IF q = c THEN -1 ELSE pid[q]
      BY <3>1, <3>2 DEF ProcTyped
    <3>4. \A q \in Structs : pid[q] # -1 => pid[q] \in pidmap
      BY DEF PidsAreUnique
    <3>5. \A x \in pidmap : \E q \in Structs : pid[q] = x /\ pid[q] # -1
      BY DEF PidsAreUnique
    <3>6. \A q, r \in Structs : pid[q] = pid[r] /\ pid[q] # -1 => q = r
      BY DEF PidsAreUnique
    <3>7. \A q, r \in Structs : pid'[q] = pid'[r] /\ pid'[q] # -1 => q = r
      BY <3>3, <3>6
    <3>8. \A q \in Structs : pid'[q] # -1 => pid'[q] \in pidmap'
      BY <3>1, <3>2, <3>3, <3>4, <3>6
    <3>9. \A x \in pidmap' : \E q \in Structs : pid'[q] = x /\ pid'[q] # -1
      BY <3>2, <3>3, <3>5
    <3> QED BY <3>7, <3>8, <3>9 DEF PidsAreUnique
  <2>2. CASE ~ \E i \in DOMAIN children[p] : state[children[p][i]] = "ZOMBIE"
    BY <1>2, <2>2 DEF Collect, PidsAreUnique
  <2> QED BY <2>1, <2>2
<1>3. ASSUME UNCHANGED <<pid, pidmap>> PROVE PidsAreUnique'
  BY <1>3 DEF PidsAreUnique
<1>4. CASE ~ InitProc(p) /\ ~ Collect(p)
  BY <1>3, <1>4 DEF Step, Call, CreateProc, SetParentToThis, StartProc, ActivateNew,
     Exit, Zombie, WaitCheck, WaitSem
<1> QED BY <1>1, <1>2, <1>4

-----------------------------------------------------------------------------
(* The units of childexit. *)

\* Whose units are counted, how many there are, and what they stand for.
Counted(p) == state[p] = "LIVE" /\ at[p] \notin {"panic", "exited"}
Held(p) == childexit[p] + TakenUnit(p)
Owed(p) == Cardinality(Exited(p))

CountOf(p) == Held(p) <= Owed(p) /\ (p # Root => Held(p) = Owed(p))

\* A process that init_proc has prepared starts without units.
MadeHasNoUnits == \A p \in Structs : at[p] \in Making \ {"init"} => childexit[obj[p]] = 0

CountInv == (\A p \in Structs : Counted(p) => CountOf(p)) /\ MadeHasNoUnits

LEMMA CountIsUnits == (\A p \in Structs : Counted(p) => CountOf(p)) <=> UnitsAreExits
  BY DEF Counted, CountOf, Held, Owed, UnitsAreExits

LEMMA ExitedFacts ==
    ASSUME IInv, NEW p \in Structs
    PROVE  /\ Exited(p) \subseteq Others /\ IsFiniteSet(Exited(p))
           /\ Owed(p) \in Nat /\ Held(p) \in Nat
<1>1. Exited(p) \in SUBSET Others
  BY DEF IInv, ProcTyped, Members, Exited
<1>2. IsFiniteSet(Exited(p)) /\ Owed(p) \in Nat
  BY <1>1, ProcsAssumption, FS_Subset, FS_CardinalityType DEF Owed
<1>3. Held(p) \in Nat
  BY DEF IInv, ProcTyped, Held, TakenUnit
<1> QED BY <1>1, <1>2, <1>3

\* Who has exited changes only with the lists and with exit itself.
LEMMA SameExited ==
    ASSUME IInv, NEW q \in Structs, children'[q] = children[q],
           \A c \in Others : c \in Members(children[q]) =>
               ((state'[c] = "ZOMBIE" \/ at'[c] = "exited") <=> (state[c] = "ZOMBIE" \/ at[c] = "exited"))
    PROVE  Exited(q)' = Exited(q) /\ Owed(q)' = Owed(q)
<1>1. Members(children[q]) \subseteq Others
  BY DEF IInv, ProcTyped, Members
<1>2. Exited(q)' = Exited(q)
  BY <1>1 DEF Exited
<1> QED BY <1>2 DEF Owed

\* A step that exits nobody and moves no unit.
LEMMA SameCount ==
    ASSUME IInv, CountInv, UNCHANGED <<children, childexit>>,
           \A q \in Structs : Counted(q)' => Counted(q) /\ TakenUnit(q)' = TakenUnit(q),
           \A c \in Others :
               (state'[c] = "ZOMBIE" \/ at'[c] = "exited") <=> (state[c] = "ZOMBIE" \/ at[c] = "exited")
    PROVE  \A q \in Structs : Counted(q)' => CountOf(q)'
<1> SUFFICES ASSUME NEW q \in Structs, Counted(q)' PROVE CountOf(q)'
  OBVIOUS
<1>1. Owed(q)' = Owed(q)
  BY SameExited
<1>2. Held(q)' = Held(q) /\ CountOf(q)
  BY DEF Held, CountInv
<1> QED BY <1>1, <1>2 DEF CountOf

\* MadeHasNoUnits survives a step that neither posts nor creates.
LEMMA SameMade ==
    ASSUME IInv, CountInv,
           \A q \in Structs : at'[q] \in Making \ {"init"} => at[q] \in Making \ {"init"},
           obj' = obj,
           \A q \in Structs : childexit'[q] # childexit[q] => state[q] # "UNUSED"
    PROVE  MadeHasNoUnits'
<1> SUFFICES ASSUME NEW q \in Structs, at'[q] \in Making \ {"init"} PROVE childexit'[obj'[q]] = 0
  BY DEF MadeHasNoUnits
<1>1. obj[q] \in Structs /\ state[obj[q]] = "UNUSED"
  BY ObjFacts
<1> QED BY <1>1 DEF CountInv, MadeHasNoUnits

LEMMA CallCount ==
    ASSUME IInv, CountInv, NEW p \in Structs, NEW l \in Sections \ {"init", "kill"}, Call(p, l)
    PROVE  CountInv'
<1> USE DEF IInv, family, pids
<1>1. /\ UNCHANGED <<state, children, childexit, obj>> /\ at' = [at EXCEPT ![p] = l]
      /\ at[p] = EntryOf(l)
  BY DEF Call, Enter
<1>2. \A q \in Structs : at'[q] = IF q = p THEN l ELSE at[q]
  BY <1>1 DEF ProcTyped
<1>3. /\ l \in Making => at[p] = "created"
      /\ l \notin {"none", "exited", "panic", "woken"} /\ at[p] \notin {"none", "exited", "panic", "collect"}
      /\ l = "collect" <=> at[p] = "woken"
  BY <1>1 DEF EntryOf, Sections, Making
<1>4. \A q \in Structs : Counted(q)' => Counted(q) /\ TakenUnit(q)' = TakenUnit(q)
  BY <1>1, <1>2, <1>3 DEF Counted, TakenUnit
<1>5. \A c \in Others :
        (state'[c] = "ZOMBIE" \/ at'[c] = "exited") <=> (state[c] = "ZOMBIE" \/ at[c] = "exited")
  BY <1>1, <1>2, <1>3 DEF Structs
<1>6. MadeHasNoUnits'
  BY <1>1, <1>2, <1>3, SameMade DEF Making
<1> QED BY <1>1, <1>4, <1>5, <1>6, SameCount DEF CountInv

LEMMA CreateCount ==
    ASSUME IInv, CountInv, NEW p \in Structs, NEW c \in Others, CreateProc(p, c)
    PROVE  CountInv'
<1> USE DEF IInv, family, pids
<1>1. /\ UNCHANGED <<children, childexit>> /\ at' = [at EXCEPT ![p] = "init"]
      /\ at[p] = "run" /\ state[c] = "FREE" /\ state' = [state EXCEPT ![c] = "UNUSED"]
      /\ obj' = [obj EXCEPT ![p] = c]
  BY DEF CreateProc, Enter, EntryOf
<1>2. /\ \A q \in Structs : at'[q] = IF q = p THEN "init" ELSE at[q]
      /\ \A q \in Structs : state'[q] = IF q = c THEN "UNUSED" ELSE state[q]
      /\ \A q \in Structs : obj'[q] = IF q = p THEN c ELSE obj[q]
  BY <1>1 DEF ProcTyped, Structs
<1>3. \A q \in Structs : Counted(q)' => Counted(q) /\ TakenUnit(q)' = TakenUnit(q)
  BY <1>1, <1>2 DEF Counted, TakenUnit
<1>4. \A d \in Others :
        (state'[d] = "ZOMBIE" \/ at'[d] = "exited") <=> (state[d] = "ZOMBIE" \/ at[d] = "exited")
  BY <1>1, <1>2 DEF Structs
<1>5. MadeHasNoUnits'
  BY <1>1, <1>2 DEF CountInv, MadeHasNoUnits
<1> QED BY <1>1, <1>3, <1>4, <1>5, SameCount DEF CountInv

LEMMA InitProcCount ==
    ASSUME IInv, CountInv, NEW p \in Structs, InitProc(p)
    PROVE  CountInv'
<1> USE DEF IInv, family, pids
<1>1. /\ at[p] = "init" /\ UNCHANGED <<state, obj>> /\ at' = [at EXCEPT ![p] = "created"]
      /\ childexit' = [childexit EXCEPT ![obj[p]] = 0]
      /\ children' = [children EXCEPT ![obj[p]] = <<>>]
  BY DEF InitProc
<1>2. obj[p] \in Structs /\ state[obj[p]] = "UNUSED"
  BY <1>1, ObjFacts DEF Making
<1>3. \A q \in Structs : at'[q] = IF q = p THEN "created" ELSE at[q]
  BY <1>1 DEF ProcTyped
<1>4. \A q \in Structs :
        q # obj[p] => childexit'[q] = childexit[q] /\ children'[q] = children[q]
  BY <1>1, <1>2 DEF ProcTyped
<1>5. ASSUME NEW q \in Structs, Counted(q)' PROVE CountOf(q)'
  <2>1. q # obj[p]
    BY <1>1, <1>2, <1>5 DEF Counted
  <2>2. Counted(q) /\ TakenUnit(q)' = TakenUnit(q)
    BY <1>1, <1>3, <1>5 DEF Counted, TakenUnit
  <2>3. Owed(q)' = Owed(q)
    BY <1>1, <1>3, <1>4, <2>1, SameExited DEF Structs
  <2> QED BY <1>4, <2>1, <2>2, <2>3 DEF CountInv, CountOf, Held
<1>6. MadeHasNoUnits'
  <2> SUFFICES ASSUME NEW q \in Structs, at'[q] \in Making \ {"init"} PROVE childexit'[obj'[q]] = 0
    BY DEF MadeHasNoUnits
  <2>1. CASE q = p
    BY <1>1, <1>2, <2>1 DEF ProcTyped
  <2>2. CASE q # p
    <3>1. at[q] \in Making \ {"init"} /\ at[p] \in Making
      BY <1>1, <1>3, <2>2 DEF Making
    <3>2. obj[q] \in Structs
      BY <3>1, ObjFacts
    <3>3. obj[q] # obj[p]
      BY <2>2, <3>1 DEF LifeInv, MadeByOne
    <3> QED BY <1>1, <1>4, <3>1, <3>2, <3>3 DEF CountInv, MadeHasNoUnits
  <2> QED BY <2>1, <2>2
<1> QED BY <1>5, <1>6 DEF CountInv

\* An adopted process has not exited.
LEMMA AdoptExited ==
    ASSUME IInv, NEW p \in Structs, at[p] \in Making, NEW r \in Structs, Adopt(r, obj[p]),
           state' = state, \A c \in Others : at'[c] = "exited" <=> at[c] = "exited"
    PROVE  \A q \in Structs : Owed(q)' = Owed(q)
<1> USE DEF IInv
<1> SUFFICES ASSUME NEW q \in Structs PROVE Owed(q)' = Owed(q)
  OBVIOUS
<1>1. obj[p] \in Others /\ state[obj[p]] = "UNUSED" /\ at[obj[p]] = "none"
  BY ObjFacts
<1>2. children' = [children EXCEPT ![r] = InsertHead(children[r], obj[p])]
  BY DEF Adopt
<1>3. CASE q # r
  BY <1>2, <1>3, SameExited DEF ProcTyped
<1>4. CASE q = r
  <2>1. children'[q] = InsertHead(children[q], obj[p])
    BY <1>2, <1>4 DEF ProcTyped
  <2>2. Members(children'[q]) = Members(children[q]) \cup {obj[p]}
    BY <1>1, <2>1, InsertHeadFacts DEF ProcTyped
  <2>3. Members(children[q]) \subseteq Others
    BY DEF ProcTyped, Members
  <2>4. Exited(q)' = Exited(q)
    BY <1>1, <2>2, <2>3 DEF Exited
  <2> QED BY <2>4 DEF Owed
<1> QED BY <1>3, <1>4

LEMMA AdoptCount ==
    ASSUME IInv, CountInv, NEW p \in Structs, SetParentToThis(p) \/ StartProc(p)
    PROVE  CountInv'
<1> USE DEF IInv, family, pids
<1>1. /\ at[p] \in {"parent", "start"} /\ UNCHANGED <<state, obj, childexit>>
      /\ \E l \in {"created", "activate"} : at' = [at EXCEPT ![p] = l]
  BY DEF SetParentToThis, StartProc
<1>2. PICK l \in {"created", "activate"} : at' = [at EXCEPT ![p] = l]
  BY <1>1
<1>3. \A q \in Structs : at'[q] = IF q = p THEN l ELSE at[q]
  BY <1>2 DEF ProcTyped
<1>4. \A c \in Others : at'[c] = "exited" <=> at[c] = "exited"
  BY <1>1, <1>2, <1>3 DEF Structs
<1>5. \A q \in Structs : Counted(q)' => Counted(q) /\ TakenUnit(q)' = TakenUnit(q)
  BY <1>1, <1>2, <1>3 DEF Counted, TakenUnit
<1>6. \A q \in Structs : Owed(q)' = Owed(q)
  <2>0. at[p] \in Making /\ Root \in Structs
    BY <1>1 DEF Making, Structs
  <2>1. CASE UNCHANGED children
    BY <1>1, <1>4, <2>1, SameExited
  <2>2. CASE Adopt(p, obj[p]) \/ Adopt(Root, obj[p])
    BY <1>1, <1>4, <2>0, <2>2, AdoptExited
  <2> QED BY <2>1, <2>2 DEF SetParentToThis, StartProc
<1>7. \A q \in Structs : Counted(q)' => CountOf(q)'
  BY <1>1, <1>5, <1>6 DEF CountInv, CountOf, Held
<1>8. MadeHasNoUnits'
  BY <1>1, <1>2, <1>3, SameMade DEF Making
<1> QED BY <1>7, <1>8 DEF CountInv

\* A process starts without units and without children.
LEMMA ActivateCount ==
    ASSUME IInv, CountInv, NEW p \in Structs, ActivateNew(p)
    PROVE  CountInv'
<1> USE DEF IInv, family, pids
<1>0. PICK c : c = obj[p]
  OBVIOUS
<1>1. /\ at[p] = "activate" /\ state' = [state EXCEPT ![c] = "LIVE"]
      /\ at' = [at EXCEPT ![p] = "run", ![c] = "run"]
      /\ obj' = [obj EXCEPT ![p] = NoProc] /\ UNCHANGED <<children, childexit>>
  BY <1>0 DEF ActivateNew
<1>2. /\ c \in Structs /\ c \in Others /\ c # p /\ state[c] = "UNUSED" /\ at[c] = "none"
      /\ Members(children[c]) = {} /\ state[p] = "LIVE"
  BY <1>0, <1>1, ObjFacts DEF Making
<1>3. /\ at'[p] = "run" /\ at'[c] = "run" /\ state'[c] = "LIVE"
      /\ \A q \in Structs : q # p /\ q # c => at'[q] = at[q]
      /\ \A q \in Structs : q # c => state'[q] = state[q]
      /\ \A q \in Structs : q # p => obj'[q] = obj[q]
  BY <1>1, <1>2 DEF ProcTyped
<1>4. \A d \in Others :
        (state'[d] = "ZOMBIE" \/ at'[d] = "exited") <=> (state[d] = "ZOMBIE" \/ at[d] = "exited")
  <2>1. Others \subseteq Structs
    BY DEF Structs
  <2> QED BY <1>1, <1>2, <1>3, <2>1
<1>5. ASSUME NEW q \in Structs, Counted(q)' PROVE CountOf(q)'
  <2>1. Owed(q)' = Owed(q)
    BY <1>1, <1>4, SameExited
  <2>2. CASE q # c
    <3>1. Counted(q) /\ TakenUnit(q)' = TakenUnit(q)
      BY <1>1, <1>3, <1>5, <2>2 DEF Counted, TakenUnit
    <3> QED BY <1>1, <2>1, <3>1 DEF CountInv, CountOf, Held
  <2>3. CASE q = c
    <3>1. Exited(c) = {}
      BY <1>2 DEF Exited
    <3>2. Owed(q)' = 0
      BY <2>1, <2>3, <3>1, FS_EmptySet DEF Owed
    <3>3. childexit[c] = 0 /\ at'[c] = "run"
      BY <1>0, <1>1, <1>2, <1>3 DEF CountInv, MadeHasNoUnits, Making
    <3>4. Held(q)' = 0
      BY <1>1, <2>3, <3>3 DEF Held, TakenUnit
    <3> QED BY <3>2, <3>4 DEF CountOf
  <2> QED BY <2>2, <2>3
<1>6. MadeHasNoUnits'
  BY <1>1, <1>2, <1>3 DEF CountInv, MadeHasNoUnits, Making
<1> QED BY <1>5, <1>6 DEF CountInv

LEMMA WaitCount ==
    ASSUME IInv, CountInv, NEW p \in Structs, Zombie(p) \/ WaitCheck(p) \/ WaitSem(p)
    PROVE  CountInv'
<1> USE DEF IInv, family, pids
<1>1. CASE Zombie(p) \/ WaitCheck(p)
  <2>1. PICK l \in {"none", "run", "waiting"} : at' = [at EXCEPT ![p] = l]
    BY <1>1 DEF Zombie, WaitCheck
  <2>2. \A q \in Structs : at'[q] = IF q = p THEN l ELSE at[q]
    BY <2>1 DEF ProcTyped
  <2>3. /\ UNCHANGED <<children, childexit, obj>> /\ at[p] \in {"exited", "wait"}
        /\ at[p] = "exited" => state' = [state EXCEPT ![p] = "ZOMBIE"]
        /\ at[p] = "wait" => state' = state
    BY <1>1 DEF Zombie, WaitCheck
  <2>4. \A q \in Structs : Counted(q)' => Counted(q) /\ TakenUnit(q)' = TakenUnit(q)
    BY <2>1, <2>2, <2>3 DEF Counted, TakenUnit, ProcTyped
  <2>5. \A d \in Others :
          (state'[d] = "ZOMBIE" \/ at'[d] = "exited") <=> (state[d] = "ZOMBIE" \/ at[d] = "exited")
    BY <2>1, <2>2, <2>3 DEF Structs, ProcTyped
  <2>6. MadeHasNoUnits'
    BY <2>1, <2>2, <2>3, SameMade DEF Making
  <2> QED BY <2>3, <2>4, <2>5, <2>6, SameCount DEF CountInv
<1>2. CASE WaitSem(p)
  <2>1. /\ UNCHANGED <<state, children, obj>> /\ at[p] = "waiting"
        /\ \/ /\ childexit[p] > 0 /\ childexit' = [childexit EXCEPT ![p] = @ - 1]
              /\ at' = [at EXCEPT ![p] = "woken"]
           \/ childexit' = childexit /\ at' = [at EXCEPT ![p] = "asleep"]
    BY <1>2 DEF WaitSem
  <2>2. /\ \A q \in Structs : q # p => at'[q] = at[q] /\ childexit'[q] = childexit[q]
        /\ at'[p] \in {"woken", "asleep"}
        /\ childexit'[p] = IF at'[p] = "woken" THEN childexit[p] - 1 ELSE childexit[p]
    BY <2>1 DEF ProcTyped
  <2>3. \A d \in Others :
          (state'[d] = "ZOMBIE" \/ at'[d] = "exited") <=> (state[d] = "ZOMBIE" \/ at[d] = "exited")
    BY <2>1, <2>2 DEF Structs
  <2>4. ASSUME NEW q \in Structs, Counted(q)' PROVE CountOf(q)'
    <3>1. Owed(q)' = Owed(q)
      BY <2>1, <2>3, SameExited
    <3>2. Counted(q)
      BY <2>1, <2>2, <2>4 DEF Counted
    <3>3. Held(q)' = Held(q)
      <4>1. CASE q # p
        BY <2>2, <4>1 DEF Held, TakenUnit
      <4>2. CASE q = p /\ at'[p] = "woken"
        <5>1. childexit[p] \in Nat /\ childexit'[p] = childexit[p] - 1
          BY <2>2, <4>2 DEF ProcTyped
        <5>2. TakenUnit(p) = 0 /\ TakenUnit(p)' = 1
          BY <2>1, <4>2 DEF TakenUnit
        <5> QED BY <4>2, <5>1, <5>2 DEF Held
      <4>3. CASE q = p /\ at'[p] = "asleep"
        BY <2>1, <2>2, <4>3 DEF Held, TakenUnit, ProcTyped
      <4> QED BY <2>2, <4>1, <4>2, <4>3
    <3> QED BY <3>1, <3>2, <3>3 DEF CountInv, CountOf
  <2>5. state[p] = "LIVE"
    BY <2>1 DEF LifeInv, OnlyLiveRuns
  <2>6. MadeHasNoUnits'
    BY <2>1, <2>2, <2>5, SameMade DEF Making
  <2> QED BY <2>4, <2>6 DEF CountInv
<1> QED BY <1>1, <1>2

\* wait uses the unit in hand for the zombie it removes.
LEMMA CollectCount ==
    ASSUME IInv, CountInv, NEW p \in Structs, Collect(p)
    PROVE  CountInv'
<1> USE DEF IInv, family, pids
<1>0. childexit' = childexit /\ obj' = obj /\ at[p] = "collect"
  BY DEF Collect
<1>1. PICK l \in {"panic", "run"} : at' = [at EXCEPT ![p] = l]
  BY DEF Collect
<1>2. \A q \in Structs : at'[q] = IF q = p THEN l ELSE at[q]
  BY <1>1 DEF ProcTyped
<1>3. MadeHasNoUnits'
  BY <1>0, <1>1, <1>2, SameMade DEF Making
<1>4. CASE ~ \E i \in DOMAIN children[p] : state[children[p][i]] = "ZOMBIE"
  <2>1. UNCHANGED <<state, children>> /\ at'[p] = "panic"
    BY <1>4 DEF Collect, ProcTyped
  <2>2. \A q \in Structs : Counted(q)' => Counted(q) /\ TakenUnit(q)' = TakenUnit(q)
    BY <1>0, <1>2, <2>1 DEF Counted, TakenUnit
  <2>3. \A d \in Others :
          (state'[d] = "ZOMBIE" \/ at'[d] = "exited") <=> (state[d] = "ZOMBIE" \/ at[d] = "exited")
    BY <1>0, <1>1, <1>2, <2>1 DEF Structs
  <2> QED BY <1>0, <1>3, <2>1, <2>2, <2>3, SameCount DEF CountInv
<1>5. CASE \E i \in DOMAIN children[p] : state[children[p][i]] = "ZOMBIE"
  <2>0. PICK c : c = FirstZombie(children[p])
    OBVIOUS
  <2>1. /\ c \in Others /\ c \in Structs /\ c # p /\ state[c] = "ZOMBIE" /\ at[c] = "none"
        /\ parent[c] = p /\ children' = [children EXCEPT ![p] = Detach(children[p], c)]
        /\ Members(Detach(children[p], c)) = Members(children[p]) \ {c}
    BY <1>5, <2>0, CollectFacts
  <2>2. state' = [state EXCEPT ![c] = IF pid[c] = -1 THEN "ZOMBIE" ELSE "FREE"]
    BY <1>5, <2>0 DEF Collect
  <2>3. \A d \in Others : d # c =>
          ((state'[d] = "ZOMBIE" \/ at'[d] = "exited") <=> (state[d] = "ZOMBIE" \/ at[d] = "exited"))
    BY <1>0, <1>1, <1>2, <2>2 DEF Structs, ProcTyped
  <2>4. ASSUME NEW q \in Structs, Counted(q)' PROVE CountOf(q)'
    <3>0. q # c /\ Counted(q)
      <4>1. state'[c] # "LIVE"
        BY <2>1, <2>2 DEF ProcTyped
      <4>2. q # c /\ state'[q] = state[q]
        BY <2>2, <2>4, <4>1 DEF Counted, ProcTyped
      <4> QED BY <1>0, <1>2, <2>4, <4>2 DEF Counted
    <3>1. CASE q # p
      <4>1. children'[q] = children[q] /\ c \notin Members(children[q])
        BY <2>1, <3>1 DEF ProcTyped, ListsInv
      <4>2. Owed(q)' = Owed(q)
        BY <2>3, <4>1, SameExited
      <4> QED BY <1>0, <1>2, <3>0, <3>1, <4>2 DEF CountInv, CountOf, Held, TakenUnit
    <3>2. CASE q = p
      <4>1. Members(children'[p]) = Members(children[p]) \ {c}
        BY <2>1 DEF ProcTyped
      <4>2. Members(children[p]) \subseteq Others /\ c \in Members(children[p])
        BY <2>1 DEF ProcTyped, Members, ListsInv
      <4>3. Exited(p)' = Exited(p) \ {c} /\ c \in Exited(p)
        BY <2>1, <2>3, <4>1, <4>2 DEF Exited
      <4>4. Owed(p)' = Owed(p) - 1
        BY <4>3, ExitedFacts, FS_RemoveElement DEF Owed
      <4>5. at'[p] = "run"
        BY <1>1, <1>2, <2>4, <3>2 DEF Counted
      <4>6. Held(p)' = Held(p) - 1
        BY <1>0, <4>5 DEF Held, TakenUnit, ProcTyped
      <4>7. CountOf(p)
        BY <3>0, <3>2 DEF CountInv
      <4> QED BY <3>2, <4>4, <4>6, <4>7, ExitedFacts DEF CountOf
    <3> QED BY <3>1, <3>2
  <2> QED BY <1>3, <2>4 DEF CountInv
<1> QED BY <1>4, <1>5

\* exit posts one unit for itself, and root_proc gets one for each child that
\* is a zombie already.
LEMMA ExitCount ==
    ASSUME IInv, CountInv, NEW p \in Structs, Exit(p)
    PROVE  CountInv'
<1> USE DEF IInv, family, pids
<1> DEFINE Z == {c \in Members(children[p]) : state[c] = "ZOMBIE"}
<1>0. Root \in Structs /\ Others \subseteq Structs /\ Root \notin Others
  BY ProcsAssumption DEF Structs
<1>1. /\ p # Root /\ p \in Others /\ state' = state /\ obj' = obj /\ at'[p] = "exited"
      /\ state[p] = "LIVE" /\ at[p] = "exit"
      /\ \A q \in Structs \ {p} : at'[q] # at[q] => at[q] = "asleep" /\ at'[q] = "woken"
  BY ExitFacts
<1>2. PICK n : n = Cardinality(Z)
  OBVIOUS
<1>3. Members(children[p]) \subseteq Others /\ Members(children[Root]) \subseteq Others
  BY <1>0 DEF ProcTyped, Members
<1>4. IsFiniteSet(Z) /\ n \in Nat
  BY <1>2, <1>3, ProcsAssumption, FS_Subset, FS_CardinalityType
<1>5. \A q \in Structs : Posts(p)[q] = (IF q = Root THEN n ELSE 0) + (IF q = parent[p] THEN 1 ELSE 0)
  BY <1>2 DEF Posts
<1>6. \A q \in Structs : Posts(p)[q] \in Nat
  BY <1>4, <1>5
<1>7. ASSUME NEW q \in Structs, q # p PROVE Held(q)' = Held(q) + Posts(p)[q]
  <2>1. /\ childexit'[q] = Units(q, Posts(p)[q])
        /\ at'[q] = IF Posts(p)[q] > 0 /\ at[q] = "asleep" THEN "woken" ELSE at[q]
    BY <1>7 DEF Exit
  <2>2. childexit[q] \in Nat /\ Posts(p)[q] \in Nat
    BY <1>6 DEF ProcTyped
  <2>3. CASE Posts(p)[q] > 0 /\ at[q] = "asleep"
    BY <2>1, <2>2, <2>3 DEF Held, TakenUnit, Units
  <2>4. CASE ~ (Posts(p)[q] > 0 /\ at[q] = "asleep")
    <3>1. at'[q] = at[q] /\ childexit'[q] = childexit[q] + Posts(p)[q]
      BY <2>1, <2>4 DEF Units
    <3> QED BY <2>2, <3>1 DEF Held, TakenUnit
  <2> QED BY <2>3, <2>4
<1>8. /\ \A c \in Others : at'[c] = "exited" <=> c = p \/ at[c] = "exited"
      /\ \A q \in Structs : Counted(q)' => q # p /\ Counted(q)
  BY <1>0, <1>1 DEF Counted
<1>9. \A c \in Others, q \in Structs : c \in Members(children[q]) <=> parent[c] = q
  BY DEF ListsInv
<1>10. ASSUME NEW q \in Structs, q # p, q # Root, Counted(q) PROVE CountOf(q)'
  <2>1. children'[q] = children[q] /\ Members(children[q]) \subseteq Others
    BY <1>10 DEF Exit, ProcTyped, Members
  <2>2. CountOf(q) /\ Exited(q) \subseteq Others /\ IsFiniteSet(Exited(q)) /\ Owed(q) \in Nat
    BY <1>10, ExitedFacts DEF CountInv
  <2>3. CASE q # parent[p]
    <3>1. p \notin Members(children[q])
      BY <1>1, <1>9, <2>3
    <3>2. Owed(q)' = Owed(q)
      BY <1>1, <1>8, <2>1, <3>1, SameExited
    <3>3. Posts(p)[q] = 0
      BY <1>5, <1>10, <2>3
    <3> QED BY <1>7, <1>10, <2>2, <3>2, <3>3, ExitedFacts DEF CountOf
  <2>4. CASE q = parent[p]
    <3>1. p \in Members(children[q])
      BY <1>1, <1>9, <2>4
    <3>2. Exited(q)' = Exited(q) \cup {p} /\ p \notin Exited(q)
      BY <1>1, <1>8, <2>1, <3>1 DEF Exited
    <3>3. Owed(q)' = Owed(q) + 1
      BY <2>2, <3>2, FS_AddElement DEF Owed
    <3>4. Posts(p)[q] = 1
      BY <1>5, <1>10, <2>4
    <3> QED BY <1>7, <1>10, <2>2, <3>3, <3>4, ExitedFacts DEF CountOf
  <2> QED BY <2>3, <2>4
<1>11. ASSUME Counted(Root) PROVE CountOf(Root)'
  <2>1. Members(children'[Root]) = Members(children[p]) \cup Members(children[Root])
    <3>1. /\ children[p] \in Seq(Others) /\ children[Root] \in Seq(Others)
          /\ Distinct(children[p]) /\ Distinct(children[Root])
      BY <1>0 DEF ProcTyped, ListsInv
    <3>2. Orphans(p) \in Seq(Others) /\ Members(Orphans(p)) = Members(children[p]) /\ Distinct(Orphans(p))
      BY <3>1, OrphansFacts
    <3>3. Members(children[p]) \cap Members(children[Root]) = {}
      BY <1>0, <1>1, <1>3, <1>9
    <3>4. children'[Root] = Orphans(p) \o children[Root]
      BY <1>0, <1>1 DEF Exit, ProcTyped
    <3> QED BY <3>1, <3>2, <3>3, <3>4, ConcatFacts
  <2>2. CountOf(Root) /\ IsFiniteSet(Exited(Root)) /\ Owed(Root) \in Nat /\ Held(Root) \in Nat
    BY <1>0, <1>11, ExitedFacts DEF CountInv
  <2>3. Z \cap Exited(Root) = {}
    BY <1>0, <1>1, <1>3, <1>9 DEF Exited
  <2>4. PICK A : A = Exited(Root) \cup Z
    OBVIOUS
  <2>5. IsFiniteSet(A) /\ Cardinality(A) = Owed(Root) + n
    <3>1. IsFiniteSet(A) /\ Cardinality(A) = Owed(Root) + n - Cardinality(Exited(Root) \cap Z)
      BY <1>2, <1>4, <2>2, <2>4, FS_Union DEF Owed
    <3>2. Cardinality(Exited(Root) \cap Z) = 0
      BY <2>3, FS_EmptySet
    <3> QED BY <1>4, <2>2, <3>1, <3>2
  <2>6. PICK E : E = Exited(Root)'
    OBVIOUS
  <2>7. A \subseteq E
    BY <1>1, <1>3, <1>8, <2>1, <2>4, <2>6 DEF Exited
  <2>8. E \in SUBSET Others
    BY <1>3, <2>1, <2>6 DEF Exited
  <2>9. IsFiniteSet(E) /\ Cardinality(E) \in Nat
    BY <2>8, ProcsAssumption, FS_Subset, FS_CardinalityType
  <2>10. p \notin A
    BY <1>1, <2>4 DEF Exited
  <2>11. parent[p] = Root => A \cup {p} \subseteq E
    BY <1>0, <1>1, <1>8, <1>9, <2>1, <2>6, <2>7 DEF Exited
  <2>12. Cardinality(A \cup {p}) = Cardinality(A) + 1
    BY <2>5, <2>10, FS_AddElement
  <2>13. Owed(Root) + Posts(p)[Root] <= Cardinality(E)
    <3>1. CASE parent[p] = Root
      <4>1. Cardinality(A \cup {p}) <= Cardinality(E)
        BY <2>9, <2>11, <3>1, FS_Subset
      <4>2. Posts(p)[Root] = n + 1
        BY <1>0, <1>4, <1>5, <3>1
      <4> QED BY <1>4, <2>2, <2>5, <2>9, <2>12, <4>1, <4>2
    <3>2. CASE parent[p] # Root
      <4>1. Cardinality(A) <= Cardinality(E)
        BY <2>7, <2>9, FS_Subset
      <4>2. Posts(p)[Root] = n
        BY <1>0, <1>4, <1>5, <3>2
      <4> QED BY <1>4, <2>2, <2>5, <2>9, <4>1, <4>2
    <3> QED BY <3>1, <3>2
  <2>14. Owed(Root)' = Cardinality(E)
    BY <2>6 DEF Owed
  <2>15. Held(Root)' <= Owed(Root)'
    BY <1>0, <1>1, <1>6, <1>7, <2>2, <2>9, <2>13, <2>14 DEF CountOf
  <2> QED BY <2>15 DEF CountOf
<1>12. MadeHasNoUnits'
  <2>1. ASSUME NEW q \in Structs, childexit'[q] # childexit[q] PROVE state[q] # "UNUSED"
    <3>1. Posts(p)[q] # 0
      BY <1>6, <2>1 DEF Exit, Units, ProcTyped
    <3>2. q = Root \/ q = parent[p]
      BY <1>5, <3>1
    <3> QED BY <1>0, <1>1, <3>2, ProcsAssumption DEF LifeInv, RootLives, ListsInv, Linked, Structs
  <2>2. \A q \in Structs : at'[q] \in Making => at[q] = at'[q]
    BY <1>1 DEF Making
  <2> QED BY <1>1, <2>1, <2>2, SameMade
<1> QED BY <1>8, <1>10, <1>11, <1>12 DEF CountInv

LEMMA InitCount == ProcInit => CountInv
<1> SUFFICES ASSUME ProcInit PROVE CountInv
  OBVIOUS
<1>1. IInv
  BY InitIInv
<1>2. ASSUME NEW p \in Structs PROVE CountOf(p)
  <2>1. children[p] = <<>> /\ childexit[p] = 0 /\ at[p] \in {"run", "none"}
    BY DEF ProcInit
  <2>2. Exited(p) = {}
    BY <2>1, EmptyFacts DEF Exited
  <2>3. Owed(p) = 0 /\ Held(p) = 0
    BY <2>1, <2>2, FS_EmptySet DEF Owed, Held, TakenUnit
  <2> QED BY <2>3 DEF CountOf
<1>3. MadeHasNoUnits
  BY DEF ProcInit, MadeHasNoUnits, Making
<1> QED BY <1>2, <1>3 DEF CountInv

-----------------------------------------------------------------------------
(* The theorems. *)

\* The invariant is inductive and holds in every reachable state.
THEOREM Invariance == ProcSpec => []IInv
<1>1. ProcInit => IInv
  BY InitIInv
<1>2. IInv /\ [ProcNext]_procVars => IInv'
  <2>1. ASSUME IInv, NEW p \in Structs, Step(p) PROVE IInv'
    BY <2>1, TypeStep, LifeStep, TreeStep, PidStep DEF IInv
  <2>2. ASSUME IInv, UNCHANGED procVars PROVE IInv'
    BY <2>2 DEF procVars, IInv, ProcTyped, LifeInv, OnlyLiveRuns, RootLives, MadeIsUnused, MadeByOne,
       MadeIsFresh, FreeIsUnlinked, ListsInv, RootedInv, Linked, PidsAreUnique
  <2> QED BY <2>1, <2>2 DEF ProcNext
<1> QED BY <1>1, <1>2, PTL DEF ProcSpec

\* Every field of a process and the pid bitmap keep their types.
THEOREM TypeCorrect == ProcSpec => []ProcTyped
<1>1. IInv => ProcTyped
  BY DEF IInv
<1> QED BY <1>1, Invariance, PTL

\* Parent pointers and child lists agree, lead to no process that exited or
\* was freed, and hang together under root_proc, whoever exits when.
THEOREM TheTreeIsSound == ProcSpec => []TreeIsSound
<1>1. IInv => TreeIsSound
  <2> SUFFICES ASSUME IInv PROVE TreeIsSound
    OBVIOUS
  <2>1. \A c \in Linked : state[c] # "FREE"
    BY DEF IInv, LifeInv, FreeIsUnlinked, Linked
  <2> QED BY <2>1 DEF IInv, ListsInv, RootedInv, TreeIsSound
<1> QED BY <1>1, Invariance, PTL

\* get_pid and release_pid never give one pid to two processes.
THEOREM ThePidsAreUnique == ProcSpec => []PidsAreUnique
<1>1. IInv => PidsAreUnique
  BY DEF IInv
<1> QED BY <1>1, Invariance, PTL
\* childexit is exact: however exits, reparenting and waits interleave, every
\* unit stands for one child that exited and was not collected, and, but for
\* root_proc, every such child for a unit (exit and wait of proc.c).
THEOREM TheUnitsAreExits == ProcSpec => []UnitsAreExits
<1>1. IInv /\ CountInv /\ [ProcNext]_procVars => CountInv'
  <2>1. ASSUME IInv, CountInv, NEW p \in Structs, Step(p) PROVE CountInv'
    BY <2>1, CallCount, CreateCount, InitProcCount, AdoptCount, ActivateCount, ExitCount,
       WaitCount, CollectCount DEF Step
  <2>2. ASSUME CountInv, UNCHANGED procVars PROVE CountInv'
    BY <2>2 DEF procVars, CountInv, Counted, CountOf, Held, Owed, TakenUnit, Exited, MadeHasNoUnits
  <2> QED BY <2>1, <2>2 DEF ProcNext
<1>2. CountInv => UnitsAreExits
  BY CountIsUnits DEF CountInv
<1> QED BY <1>1, <1>2, InitCount, Invariance, PTL DEF ProcSpec
=============================================================================
