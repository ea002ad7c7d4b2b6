------------------------------ MODULE ProcTree ------------------------------
(***************************************************************************)
(* The process tree (kernel/proc.c): creation, exit, wait and kill, with    *)
(* the pid bitmap.  Every critical section under treelock is entered in one *)
(* step and left in another that does its work; a process becomes a ZOMBIE  *)
(* only later, under the scheduler's lock.  childexit is used as an         *)
(* abstract semaphore (see CountingSem).                                   *)
(***************************************************************************)
EXTENDS KList, FiniteSets

CONSTANTS
    Others,    \* struct procs that kalloc can hand out
    Root,      \* root_proc
    NoProc,    \* no struct proc
    MaxPid     \* MAX_PID

ASSUME ProcsAssumption == IsFiniteSet(Others) /\ Root \notin Others /\ NoProc \notin Others /\ Root # NoProc
ASSUME PidAssumption == MaxPid \in Nat \ {0}

VARIABLES
    state,      \* UNUSED, LIVE (RUNNABLE, RUNNING or asleep), ZOMBIE; FREE memory
    pid,        \* proc->pid; -1 if there was none left
    parent,     \* proc->parent
    children,   \* proc->children
    childexit,  \* the units of proc->childexit
    pidmap,     \* the pids marked in pid_alloc.pid_map
    lastPid,    \* pid_alloc.last_pid
    locked,     \* treelock.locked
    at,         \* where each process is in proc.c
    obj         \* the process it creates or kills

procVars == <<state, pid, parent, children, childexit, pidmap, lastPid, locked, at, obj>>

Structs == Others \cup {Root}
family == <<parent, children>>
pids == <<pid, pidmap, lastPid>>

\* define_init(root_proc): the tree is root_proc alone.
ProcInit ==
    /\ state = [p \in Structs |-> IF p = Root THEN "LIVE" ELSE "FREE"]
    /\ pid = [p \in Structs |-> IF p = Root THEN 0 ELSE -1]
    /\ parent = [p \in Structs |-> IF p = Root THEN Root ELSE NoProc]
    /\ children = [p \in Structs |-> <<>>]
    /\ childexit = [p \in Structs |-> 0]
    /\ pidmap = {0}
    /\ lastPid = 0
    /\ locked = FALSE
    /\ at = [p \in Structs |-> IF p = Root THEN "run" ELSE "none"]
    /\ obj = [p \in Structs |-> NoProc]

\* The critical sections, and where each is entered from.
Sections == {"init", "parent", "start", "exit", "wait", "collect", "kill"}
EntryOf(l) == CASE l \in {"parent", "start"} -> "created"
                [] l = "collect" -> "woken"
                [] OTHER -> "run"

\* _acquire_spinlock(&treelock), by p, in order to do l.
Enter(p, l) ==
    /\ at[p] = EntryOf(l) /\ ~ locked
    /\ locked' = TRUE
    /\ at' = [at EXCEPT ![p] = l]

\* A section without inputs: root_proc does not exit, and a process that has
\* a parent is not given one again.
Call(p, l) ==
    /\ Enter(p, l)
    /\ l = "exit" => p # Root
    /\ l = "parent" => parent[obj[p]] = NoProc
    /\ UNCHANGED <<state, family, pids, childexit, obj>>

\* create_proc: kalloc finds room for c.
CreateProc(p, c) ==
    /\ Enter(p, "init")
    /\ state[c] = "FREE"
    /\ state' = [state EXCEPT ![c] = "UNUSED"]
    /\ obj' = [obj EXCEPT ![p] = c]
    /\ UNCHANGED <<family, pids, childexit>>

\* The next pid that is not in use, searched from start upwards and around;
\* -1 if there is none.
FreePid(start) ==
    LET free == (0 .. MaxPid - 1) \ pidmap
        above == {i \in free : i >= start}
        least(S) == CHOOSE i \in S : \A j \in S : i <= j
    IN  IF free = {} THEN -1 ELSE IF above # {} THEN least(above) ELSE least(free)

\* init_proc, with get_pid.
InitProc(p) ==
    LET c == obj[p]
        new == FreePid((lastPid + 1) % MaxPid)
    IN /\ at[p] = "init"
       /\ pid' = [pid EXCEPT ![c] = new]
       /\ pidmap' = IF new = -1 THEN pidmap ELSE pidmap \cup {new}
       /\ lastPid' = IF new = -1 THEN lastPid ELSE new
       /\ parent' = [parent EXCEPT ![c] = NoProc]
       /\ children' = [children EXCEPT ![c] = <<>>]
       /\ childexit' = [childexit EXCEPT ![c] = 0]
       /\ locked' = FALSE
       /\ at' = [at EXCEPT ![p] = "created"]
       /\ UNCHANGED <<state, obj>>

\* c becomes the first child of q.
Adopt(q, c) ==
    /\ parent' = [parent EXCEPT ![c] = q]
    /\ children' = [children EXCEPT ![q] = InsertHead(@, c)]

SetParentToThis(p) ==
    /\ at[p] = "parent"
    /\ Adopt(p, obj[p])
    /\ locked' = FALSE
    /\ at' = [at EXCEPT ![p] = "created"]
    /\ UNCHANGED <<state, pids, childexit, obj>>

\* start_proc: a process without parent goes to root_proc.
StartProc(p) ==
    /\ at[p] = "start"
    /\ IF parent[obj[p]] = NoProc THEN Adopt(Root, obj[p]) ELSE UNCHANGED family
    /\ locked' = FALSE
    /\ at' = [at EXCEPT ![p] = "activate"]
    /\ UNCHANGED <<state, pids, childexit, obj>>

\* start_proc: activate_proc(p).
ActivateNew(p) ==
    /\ at[p] = "activate"
    /\ state' = [state EXCEPT ![obj[p]] = "LIVE"]
    /\ at' = [at EXCEPT ![p] = "run", ![obj[p]] = "run"]
    /\ obj' = [obj EXCEPT ![p] = NoProc]
    /\ UNCHANGED <<family, pids, childexit, locked>>

-----------------------------------------------------------------------------
(* exit *)

\* n posts to childexit of q, which alone waits on it: the first wakes it.
Units(q, n) == IF n > 0 /\ at[q] = "asleep" THEN childexit[q] + n - 1 ELSE childexit[q] + n

\* The children of p, in the order in which _detach_from_list and
\* _merge_list put them before those of root_proc.
Orphans(p) ==
    LET s == children[p] IN
    IF s = <<>> THEN s ELSE <<s[Len(s)]>> \o SubSeq(s, 1, Len(s) - 1)

\* Mutant of Posts: root_proc is notified of every child it inherits.
PostsForAll(p) ==
    LET z == Cardinality(Members(children[p])) IN
    [q \in Structs |-> (IF q = Root THEN z ELSE 0) + (IF q = parent[p] THEN 1 ELSE 0)]

\* The posts that root_proc and the parent of p get when p exits: one to
\* root_proc for each child that is a zombie already, one to the parent.
Posts(p) ==
    LET z == Cardinality({c \in Members(children[p]) : state[c] = "ZOMBIE"}) IN
    [q \in Structs |-> (IF q = Root THEN z ELSE 0) + (IF q = parent[p] THEN 1 ELSE 0)]

\* Mutant of Exit: the parent pointers of the children stay.
ExitKeepsParents(p) ==
    LET posts == Posts(p) IN
    /\ at[p] = "exit"
    /\ children' = [children EXCEPT ![Root] = Orphans(p) \o @, ![p] = <<>>]
    /\ childexit' = [q \in Structs |-> Units(q, posts[q])]
    /\ at' = [q \in Structs |->
                IF q = p THEN "exited"
                ELSE IF posts[q] > 0 /\ at[q] = "asleep" THEN "woken" ELSE at[q]]
    /\ locked' = FALSE
    /\ UNCHANGED <<state, parent, pids, obj>>

\* exit, its critical section.
Exit(p) ==
    LET posts == Posts(p) IN
    /\ at[p] = "exit"
    /\ parent' = [c \in Structs |-> IF c \in Members(children[p]) THEN Root ELSE parent[c]]
    /\ children' = [children EXCEPT ![Root] = Orphans(p) \o @, ![p] = <<>>]
    /\ childexit' = [q \in Structs |-> Units(q, posts[q])]
    /\ at' = [q \in Structs |->
                IF q = p THEN "exited"
                ELSE IF posts[q] > 0 /\ at[q] = "asleep" THEN "woken" ELSE at[q]]
    /\ locked' = FALSE
    /\ UNCHANGED <<state, pids, obj>>

\* Mutant of Zombie: the pid is released before wait has cleaned up.
ZombieReleasesPid(p) ==
    /\ at[p] = "exited"
    /\ state' = [state EXCEPT ![p] = "ZOMBIE"]
    /\ pidmap' = pidmap \ {pid[p]}
    /\ at' = [at EXCEPT ![p] = "none"]
    /\ UNCHANGED <<family, pid, lastPid, childexit, locked, obj>>

\* sched(ZOMBIE).
Zombie(p) ==
    /\ at[p] = "exited"
    /\ state' = [state EXCEPT ![p] = "ZOMBIE"]
    /\ at' = [at EXCEPT ![p] = "none"]
    /\ UNCHANGED <<family, pids, childexit, locked, obj>>

-----------------------------------------------------------------------------
(* wait *)

\* The first critical section: -1 at once if there is no child.
WaitCheck(p) ==
    /\ at[p] = "wait"
    /\ at' = [at EXCEPT ![p] = IF children[p] = <<>> THEN "run" ELSE "waiting"]
    /\ locked' = FALSE
    /\ UNCHANGED <<state, family, pids, childexit, obj>>

\* wait_sem(&this->childexit) takes a unit, or sleeps.
WaitSem(p) ==
    /\ at[p] = "waiting"
    /\ IF childexit[p] > 0
       THEN /\ childexit' = [childexit EXCEPT ![p] = @ - 1]
            /\ at' = [at EXCEPT ![p] = "woken"]
       ELSE /\ at' = [at EXCEPT ![p] = "asleep"]
            /\ UNCHANGED childexit
    /\ UNCHANGED <<state, family, pids, locked, obj>>

\* The zombie that wait finds first.
FirstZombie(s) ==
    s[CHOOSE i \in DOMAIN s :
        state[s[i]] = "ZOMBIE" /\ \A j \in 1 .. i - 1 : state[s[j]] # "ZOMBIE"]

\* The second critical section: the first zombie is taken off the list and
\* cleaned up.  PANIC if there is none, and in release_pid, with treelock
\* held, if it never got a pid.
Collect(p) ==
    LET s == children[p]
        c == FirstZombie(s)
        found == \E i \in DOMAIN s : state[s[i]] = "ZOMBIE"
        noPid == pid[c] = -1
    IN /\ at[p] = "collect"
       /\ locked' = (found /\ noPid)
       /\ IF found
          THEN /\ state' = [state EXCEPT ![c] = IF noPid THEN "ZOMBIE" ELSE "FREE"]
               /\ children' = [children EXCEPT ![p] = Detach(s, c)]
               /\ parent' = [parent EXCEPT ![c] = NoProc]
               /\ pidmap' = pidmap \ {pid[c]}
               /\ pid' = [pid EXCEPT ![c] = -1]
               /\ at' = [at EXCEPT ![p] = IF noPid THEN "panic" ELSE "run"]
          ELSE /\ at' = [at EXCEPT ![p] = "panic"]
               /\ UNCHANGED <<state, family, pid, pidmap>>
       /\ UNCHANGED <<lastPid, childexit, obj>>

-----------------------------------------------------------------------------
(* kill *)

\* Who dfs_tree finds: a process linked into the tree.
Targets(n) == {c \in Others : pid[c] = n /\ parent[c] # NoProc /\ state[c] # "UNUSED"}

\* kill(n) up to dfs_tree's release of treelock, or the return of -1.  The
\* killed flag is not kept: a killed process exits when it is about to return
\* to user mode, and here every process may exit whenever it runs.
Kill(p, n) ==
    /\ at[p] = "kill"
    /\ locked' = FALSE
    /\ IF Targets(n) = {}
       THEN /\ at' = [at EXCEPT ![p] = "run"]
            /\ UNCHANGED obj
       ELSE \E c \in Targets(n) :
              /\ at' = [at EXCEPT ![p] = "alert"]
              /\ obj' = [obj EXCEPT ![p] = c]
    /\ UNCHANGED <<state, family, pids, childexit>>

\* dfs_tree: alert_proc(child) makes a wait that sleeps return.
KillAlert(p) ==
    /\ at[p] = "alert"
    /\ at' = [q \in Structs |->
                IF q = p THEN "rerelease"
                ELSE IF q = obj[p] /\ at[q] = "asleep" THEN "woken" ELSE at[q]]
    /\ UNCHANGED <<state, family, pids, childexit, locked, obj>>

\* kill releases treelock, once more, and returns 0.
KillReturn(p) ==
    /\ at[p] = "rerelease"
    /\ locked' = FALSE
    /\ at' = [at EXCEPT ![p] = "run"]
    /\ obj' = [obj EXCEPT ![p] = NoProc]
    /\ UNCHANGED <<state, family, pids, childexit>>

-----------------------------------------------------------------------------
Step(p) ==
    \/ \E l \in Sections \ {"init", "kill"} : Call(p, l)
    \/ \E c \in Others : CreateProc(p, c)
    \/ InitProc(p) \/ SetParentToThis(p) \/ StartProc(p) \/ ActivateNew(p)
    \/ Exit(p) \/ Zombie(p)
    \/ WaitCheck(p) \/ WaitSem(p) \/ Collect(p)

KillStep(p) ==
    \/ Call(p, "kill")
    \/ \E n \in 0 .. MaxPid - 1 : Kill(p, n)
    \/ KillAlert(p) \/ KillReturn(p)

\* Without kill, and with it.
ProcNext == \E p \in Structs : Step(p)
NextWithKill == \E p \in Structs : Step(p) \/ KillStep(p)

ProcSpec == ProcInit /\ [][ProcNext]_procVars
SpecWithKill == ProcInit /\ [][NextWithKill]_procVars

-----------------------------------------------------------------------------
(* Properties *)

ProcTyped ==
    /\ state \in [Structs -> {"FREE", "UNUSED", "LIVE", "ZOMBIE"}]
    /\ pid \in [Structs -> -1 .. MaxPid - 1]
    /\ parent \in [Structs -> Structs \cup {NoProc}]
    /\ children \in [Structs -> Seq(Others)]
    /\ childexit \in [Structs -> Nat]
    /\ pidmap \in SUBSET (0 .. MaxPid - 1)
    /\ lastPid \in 0 .. MaxPid - 1
    /\ locked \in BOOLEAN
    /\ at \in [Structs -> Sections \cup
                 {"none", "run", "created", "activate", "exited", "waiting",
                  "asleep", "woken", "panic", "alert", "rerelease"}]
    /\ obj \in [Structs -> Others \cup {NoProc}]

\* The processes that have a parent.
Linked == {c \in Others : parent[c] # NoProc}

\* Lists and parent pointers describe one tree: a process is on the list of
\* its parent, once, and on no other; no parent pointer or list leads to a
\* process that has exited or was freed; everybody descends from root_proc.
TreeIsSound ==
    /\ \A q \in Structs : Distinct(children[q])
    /\ \A c \in Others, q \in Structs : parent[c] = q <=> c \in Members(children[q])
    /\ \A c \in Linked : state[c] # "FREE"
    /\ \A c \in Linked : state[parent[c]] = "LIVE" /\ at[parent[c]] # "exited"
    /\ \A S \in SUBSET Linked : S # {} => \E c \in S : parent[c] \notin S

\* No two processes have the same pid, and a pid stays taken until wait has
\* cleaned up its process.
PidsAreUnique ==
    /\ \A p, q \in Structs : pid[p] = pid[q] /\ pid[p] # -1 => p = q
    /\ pidmap = {pid[p] : p \in {q \in Structs : pid[q] # -1}}

\* The children of p whose exit has notified the parent.
Exited(p) == {c \in Members(children[p]) : state[c] = "ZOMBIE" \/ at[c] = "exited"}

\* A unit of childexit that wait has taken and not used yet.
TakenUnit(p) == IF at[p] \in {"woken", "collect"} THEN 1 ELSE 0

\* Every unit of childexit, pending or in hand, stands for one child that has
\* exited and is not collected, also across reparenting; the count is exact
\* but for root_proc.
UnitsAreExits ==
    \A p \in Structs : state[p] = "LIVE" /\ at[p] \notin {"panic", "exited"} =>
        /\ childexit[p] + TakenUnit(p) <= Cardinality(Exited(p))
        /\ p # Root => childexit[p] + TakenUnit(p) = Cardinality(Exited(p))

\* wait never reaches its PANIC.
WaitFindsZombie == \A p \in Structs : at[p] # "panic"

\* treelock keeps everybody else out of the critical sections.
TreeLockExcludes ==
    \A p, q \in Structs : at[p] \in Sections /\ at[q] \in Sections => p = q
=============================================================================
