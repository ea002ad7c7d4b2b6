----------------------------- MODULE FileSystem -----------------------------
(***************************************************************************)
(* Inodes in memory, open files and the file system calls that share them   *)
(* (fs/inode.c, fs/file.c, kernel/sysfile.c).  A call runs inside one       *)
(* operation of the log and is a script of steps: locks, unlocks and puts   *)
(* of inodes, and what it does while it holds locks.  What runs under the   *)
(* spin locks of the inode list and of the file table is one step.  Of the  *)
(* contents of files only the entries of directories are kept.              *)
(*                                                                         *)
(* namex is a stub in the code, which finds nothing.  Here it may also find *)
(* what its callers are written for, the inode that an absolute path names, *)
(* and it locks nothing: create calls it while it holds a directory of the  *)
(* path.                                                                    *)
(***************************************************************************)
EXTENDS Integers, FiniteSets, SequencesExt

CONSTANTS
    Procs,     \* processes
    NInodes,   \* sblock->num_inodes
    Names,     \* the last elements of paths: names of files, and Dot
    Dot,       \* "." or "..": in this code each directory has itself as both
    Files,     \* indices of the file table, 1 .. NFILE
    Fds,       \* file descriptors of a process, 0 .. NOFILE - 1
    MaxCalls,  \* bound: how many calls are made
    NFILE,     \* the most references to a file that file_dup makes
    NULL

Inodes == 1 .. NInodes - 1
Root == 1
Types == {"invalid", "dir", "file", "dev"}
MemInode == [rc : Int, lock : Int, by : Procs \cup {NULL}, valid : BOOLEAN,
             e : [type : Types, links : Int]]

\* There is an inode besides that of the root directory.
ASSUME InodesAssumption == NInodes \in Nat /\ NInodes > 2
ASSUME TablesAssumption ==
    /\ IsFiniteSet(Procs) /\ IsFiniteSet(Fds) /\ IsFiniteSet(Files)
    /\ Fds \subseteq Nat /\ Files \subseteq Nat
    /\ NFILE \in Nat /\ NFILE >= Cardinality(Fds)
ASSUME NullAssumption == NULL \notin Procs \cup Files \cup MemInode

VARIABLES
    itab,      \* the inode blocks: type and links
    dirs,      \* what is in each directory, "." and ".." left out
    mem,       \* the in-memory inodes, NULL if not on the list; by is history:
               \* the process that has taken the lock
    files,     \* ftable.files
    ofiles,    \* per process: oftable.ofiles
    todo,      \* per process: what is left of its call
    arg,       \* per process: the arguments of its call
    calls,     \* history: how many calls were made
    spoiled,   \* history: a lock was released by one who did not hold it, or
               \* an entry was made in a directory that had been removed, or
               \* dotted
    dotted,    \* history: create met Dot
    panicked

inodes == <<itab, dirs, mem>>
tables == <<files, ofiles>>
vars == <<itab, dirs, mem, files, ofiles, todo, arg, calls, spoiled, dotted,
          panicked>>

Entry(type, links) == [type |-> type, links |-> links]
Free == Entry("invalid", 0)
Closed == [ref |-> 0, ip |-> NULL]
\* init_inode and the first reference: entry is not read yet.
NewInode == [rc |-> 1, lock |-> 1, by |-> NULL, valid |-> FALSE, e |-> Free]

NoCall == [call |-> "none"]

\* mkfs has put one file into the root directory; inodes.root refers to it.
Init ==
    \E name \in Names \ {Dot} :
        /\ itab = [i \in Inodes |-> IF i = Root THEN Entry("dir", 1)
                                    ELSE IF i = 2 THEN Entry("file", 1) ELSE Free]
        /\ dirs = [i \in Inodes |-> IF i = Root THEN {<<name, 2>>} ELSE {}]
        /\ mem = [i \in Inodes |-> IF i = Root THEN NewInode ELSE NULL]
        /\ files = [f \in Files |-> Closed]
        /\ ofiles = [p \in Procs |-> [d \in Fds |-> NULL]]
        /\ todo = [p \in Procs |-> <<>>]
        /\ arg = [p \in Procs |-> NoCall]
        /\ calls = 0
        /\ spoiled = FALSE
        /\ dotted = FALSE
        /\ panicked = FALSE

-----------------------------------------------------------------------------
(* inode_get, inode_lock, inode_unlock, inode_sync, inode_put *)

Step(op, i) == [op |-> op, i |-> i]
\* What is left of p's call is steps: with none it has returned.
Rest(p, steps) ==
    /\ todo' = [todo EXCEPT ![p] = steps]
    /\ arg' = IF steps = <<>> THEN [arg EXCEPT ![p] = NoCall] ELSE arg

\* inode_get: the inode on the list, or a new one that is not valid.
Got(m, i) ==
    IF m[i] = NULL THEN [m EXCEPT ![i] = NewInode]
    ELSE [m EXCEPT ![i].rc = @ + 1]

\* Mutant of LastPut: other references are not looked at.
LastPutAnyway(i, links) == links = 0

\* The reference is the last one to an inode without links.
LastPut(i, links) == links = 0 /\ mem[i].rc = 1

\* inode_put: the inode is cleared and freed, or loses a reference.  The
\* links of an inode that was never locked were never set.
PutInode(i) ==
    \E links \in IF mem[i].valid THEN {mem[i].e.links} ELSE {0, 1} :
        IF LastPut(i, links)
        THEN /\ itab' = [itab EXCEPT ![i] = Free]
             /\ dirs' = [dirs EXCEPT ![i] = {}]
             /\ mem' = [mem EXCEPT ![i] = NULL]
        ELSE /\ mem' = [mem EXCEPT ![i].rc = @ - 1]
             /\ UNCHANGED <<itab, dirs>>

\* The next step of process p's call is op.
At(p, op) == ~ panicked /\ todo[p] # <<>> /\ Head(todo[p]).op = op

\* inode_lock: the sleep lock, and the inode is read if it is not valid.
Lock(p) ==
    LET i == Head(todo[p]).i IN
    /\ At(p, "lock")
    /\ mem[i].lock > 0
    /\ mem' = [mem EXCEPT ![i].lock = @ - 1, ![i].by = p, ![i].valid = TRUE,
                          ![i].e = IF mem[i].valid THEN @ ELSE itab[i]]
    /\ Rest(p, Tail(todo[p]))
    /\ UNCHANGED <<itab, dirs, tables, calls, spoiled, dotted, panicked>>

\* inode_unlock.
Unlock(p) ==
    LET i == Head(todo[p]).i IN
    /\ At(p, "unlock")
    /\ mem' = [mem EXCEPT ![i].lock = @ + 1, ![i].by = NULL]
    /\ spoiled' = (spoiled \/ mem[i].by # p)
    /\ Rest(p, Tail(todo[p]))
    /\ UNCHANGED <<itab, dirs, tables, calls, dotted, panicked>>

Put(p) ==
    /\ At(p, "put")
    /\ PutInode(Head(todo[p]).i)
    /\ Rest(p, Tail(todo[p]))
    /\ UNCHANGED <<tables, calls, spoiled, dotted, panicked>>

-----------------------------------------------------------------------------
(* Calls that look a path up *)

May(p) == todo[p] = <<>> /\ calls < MaxCalls /\ ~ panicked
Directories == {i \in Inodes : itab[i].type = "dir" /\ itab[i].links > 0}
Named(d, name) == {x[2] : x \in {y \in dirs[d] : y[1] = name}}
\* What an absolute path names: the root, or what a linked directory holds.
Found == {x[2] : x \in UNION {dirs[d] : d \in Directories}} \cup {Root}

\* A call begins with begin_op and namei or nameiparent, which return a
\* reference to inode i, or NULL: then the call returns.
Begin(p, i, a, steps) ==
    /\ May(p)
    /\ \/ /\ mem' = Got(mem, i)
          /\ todo' = [todo EXCEPT ![p] = steps]
          /\ arg' = [arg EXCEPT ![p] = a]
       \/ UNCHANGED <<mem, todo, arg>>
    /\ calls' = calls + 1
    /\ UNCHANGED <<itab, dirs, tables, spoiled, dotted, panicked>>

\* nameiparent, then inode_lock of the directory.
Parent(p, call, op, type) ==
    \E d \in Directories, name \in Names :
        Begin(p, d, [call |-> call, dp |-> d, name |-> name, type |-> type],
              <<Step("lock", d), Step(op, d)>>)

\* namei, then inode_lock of what was found.
Target(p, call, op) ==
    \E i \in Found : Begin(p, i, [call |-> call], <<Step("lock", i), Step(op, i)>>)

\* openat, mkdirat, mknodat, unlinkat, chdir, newfstatat.
Openat(p) == Target(p, "openat", "open") \/ Parent(p, "openat", "find", "file")
Mkdirat(p) == Parent(p, "mkdirat", "find", "dir")
Mknodat(p) == Parent(p, "mknodat", "find", "dev")
Unlinkat(p) == Parent(p, "unlinkat", "look", "any")
Chdir(p) == Target(p, "chdir", "enter")
Newfstatat(p) == Target(p, "newfstatat", "stat")

-----------------------------------------------------------------------------
(* create, and what its callers do with the inode it returns *)

\* openat goes on; mkdirat and mknodat unlock the inode and put it.
Return(p, ip) == IF arg[p].call = "openat" THEN <<Step("open", ip)>>
                 ELSE <<Step("unlock", ip), Step("put", ip)>>

\* What namei finds where create looks: Dot is the directory itself.
Meets(d, name) == IF name = Dot THEN {d} ELSE Named(d, name)

\* create, with the directory locked: the inode that has the name, or a new
\* one from inode_alloc; PANIC if there is none.  The inode that Dot names is
\* locked already, by this call.
Find(p) ==
    LET d == arg[p].dp
        there == Meets(d, arg[p].name)
        free == {i \in Inodes : itab[i].type = "invalid"}
        new == CHOOSE i \in free : \A j \in free : i <= j
    IN /\ At(p, "find")
       /\ \/ \E i \in there :
               /\ mem' = Got(mem, i)
               /\ Rest(p, <<Step("lock", i), Step("exists", i)>>)
               /\ UNCHANGED <<itab, panicked>>
          \/ /\ there = {} /\ free # {}
             /\ itab' = [itab EXCEPT ![new] = Entry(arg[p].type, 0)]
             /\ mem' = Got(mem, new)
             /\ Rest(p, <<Step("lock", new), Step("make", new)>>)
             /\ UNCHANGED panicked
          \/ /\ there = {} /\ free = {}
             /\ panicked' = TRUE
             /\ UNCHANGED <<itab, mem, todo, arg>>
       /\ dotted' = (dotted \/ arg[p].name = Dot)
       /\ spoiled' = (spoiled \/ arg[p].name = Dot)
       /\ UNCHANGED <<dirs, tables, calls>>

\* create finds that the inode exists: NULL if one is a directory and the
\* other is not, else the inode, which is not locked any more.
Exists(p) ==
    LET ip == Head(todo[p]).i
        d == arg[p].dp
        wrong == (arg[p].type = "dir") # (mem[ip].e.type = "dir")
        out == <<Step("unlock", d), Step("unlock", ip), Step("put", d)>>
    IN /\ At(p, "exists")
       /\ Rest(p, out \o (IF wrong THEN <<Step("put", ip)>> ELSE Return(p, ip)))
       /\ UNCHANGED <<inodes, tables, calls, spoiled, dotted, panicked>>

\* Mutant of ParentLinks: ".." of a new directory is not counted.
ParentLinksKept(d, type) == mem[d].e.links

\* The links of the parent of a new inode.
ParentLinks(d, type) == mem[d].e.links + (IF type = "dir" THEN 1 ELSE 0)

\* create makes the new inode and links it into the directory.
Make(p) ==
    LET ip == Head(todo[p]).i
        d == arg[p].dp
        new == Entry(arg[p].type, 1)
        dp == [mem[d].e EXCEPT !.links = ParentLinks(d, arg[p].type)]
    IN /\ At(p, "make")
       /\ itab' = [itab EXCEPT ![ip] = new, ![d] = IF arg[p].type = "dir" THEN dp ELSE @]
       /\ mem' = [mem EXCEPT ![ip].e = new, ![d].e = dp]
       /\ dirs' = [dirs EXCEPT ![d] = @ \cup {<<arg[p].name, ip>>}]
       /\ spoiled' = (spoiled \/ mem[d].e.links = 0)
       /\ Rest(p, <<Step("unlock", d), Step("put", d)>> \o Return(p, ip))
       /\ UNCHANGED <<tables, calls, dotted, panicked>>

-----------------------------------------------------------------------------
(* unlinkat *)

\* unlinkat refuses Dot.
Removable(d, name) == IF name = Dot THEN {} ELSE Named(d, name)

\* inode_lookup in the locked directory; the inode is locked too.
Look(p) ==
    LET d == arg[p].dp
        there == Removable(d, arg[p].name)
    IN /\ At(p, "look")
       /\ \/ \E i \in there :
               /\ mem' = Got(mem, i)
               /\ Rest(p, <<Step("lock", i), Step("unlink", i)>>)
          \/ /\ there = {}
             /\ Rest(p, <<Step("unlock", d), Step("put", d)>>)
             /\ UNCHANGED mem
       /\ UNCHANGED <<itab, dirs, tables, calls, spoiled, dotted, panicked>>

\* isdirempty.
IsDirEmpty(i) == dirs[i] = {}

\* Mutant of Erased: the entry stays.
NotErased(d, name, i) == dirs

\* The entry is overwritten with zeroes.
Erased(d, name, i) == [dirs EXCEPT ![d] = @ \ {<<name, i>>}]

\* num_links--.
Fewer(e) == [e EXCEPT !.links = @ - 1]

\* Mutant of Refused: the inode stays locked.
RefusedLocked(d, i) == <<Step("put", i), Step("unlock", d), Step("put", d)>>

\* The way out with a directory that is not empty.
Refused(d, i) == <<Step("unlock", i), Step("put", i), Step("unlock", d), Step("put", d)>>

\* Both inodes are locked: PANIC if there are no links; the entry is cleared,
\* unless it is that of a directory which is not empty.
Unlink(p) ==
    LET ip == Head(todo[p]).i
        d == arg[p].dp
        isDir == mem[ip].e.type = "dir"
        dp == Fewer(mem[d].e)
    IN /\ At(p, "unlink")
       /\ panicked' = (mem[ip].e.links < 1)
       /\ \/ /\ isDir /\ ~ IsDirEmpty(ip)
             /\ Rest(p, Refused(d, ip))
             /\ UNCHANGED inodes
          \/ /\ isDir => IsDirEmpty(ip)
             /\ dirs' = Erased(d, arg[p].name, ip)
             /\ mem' = IF isDir THEN [mem EXCEPT ![d].e = dp] ELSE mem
             /\ itab' = IF isDir THEN [itab EXCEPT ![d] = dp] ELSE itab
             /\ Rest(p, <<Step("unlock", d), Step("put", d), Step("drop", ip),
                          Step("unlock", ip), Step("put", ip)>>)
       /\ UNCHANGED <<tables, calls, spoiled, dotted>>

\* inode_sync(ctx, inode, true).
Synced(i, e) == [itab EXCEPT ![i] = e]

\* The inode loses a link.
Drop(p) ==
    LET i == Head(todo[p]).i
        e == Fewer(mem[i].e)
    IN /\ At(p, "drop")
       /\ mem' = [mem EXCEPT ![i].e = e]
       /\ itab' = Synced(i, e)
       /\ Rest(p, Tail(todo[p]))
       /\ UNCHANGED <<dirs, tables, calls, spoiled, dotted, panicked>>

-----------------------------------------------------------------------------
(* Files and descriptors *)

FreeFds(p) == {d \in Fds : ofiles[p][d] = NULL}
FdAlloc(p, f) == [ofiles EXCEPT ![p][CHOOSE d \in FreeFds(p) : \A e \in FreeFds(p) : d <= e] = f]
FreeFiles == {f \in Files : files[f].ref = 0}
FileAlloc == CHOOSE f \in FreeFiles : \A g \in FreeFiles : f <= g

\* openat, with the inode found or made: file_alloc and fdalloc, or all is
\* undone.
Open(p) ==
    LET ip == Head(todo[p]).i IN
    /\ At(p, "open")
    /\ IF FreeFiles # {} /\ FreeFds(p) # {}
       THEN /\ files' = [files EXCEPT ![FileAlloc] = [ref |-> 1, ip |-> ip]]
            /\ ofiles' = FdAlloc(p, FileAlloc)
            /\ Rest(p, <<Step("unlock", ip)>>)
       ELSE /\ Rest(p, <<Step("unlock", ip), Step("put", ip)>>)
            /\ UNCHANGED <<files, ofiles>>
    /\ UNCHANGED <<inodes, calls, spoiled, dotted, panicked>>

\* newfstatat copies what it wants to know.
Stat(p) ==
    LET ip == Head(todo[p]).i IN
    /\ At(p, "stat")
    /\ Rest(p, <<Step("unlock", ip), Step("put", ip)>>)
    /\ UNCHANGED <<inodes, tables, calls, spoiled, dotted, panicked>>

\* chdir, with the inode locked: only directories are entered.
Enter(p) ==
    LET ip == Head(todo[p]).i IN
    /\ At(p, "enter")
    /\ Rest(p, <<Step("unlock", ip), Step(IF mem[ip].e.type = "dir" THEN "swap" ELSE "put", ip)>>)
    /\ UNCHANGED <<inodes, tables, calls, spoiled, dotted, panicked>>

\* chdir puts the old directory.  Nobody ever sets the first one: it is NULL,
\* and inode_put reads through it.
Swap(p) ==
    /\ At(p, "swap")
    /\ panicked' = TRUE
    /\ UNCHANGED <<inodes, tables, todo, arg, calls, spoiled, dotted>>

\* file_dup.
DupRef(f) == [files EXCEPT ![f].ref = IF @ < NFILE THEN @ + 1 ELSE @]

\* dup: fd2file, fdalloc, file_dup.
Dup(p, d) ==
    LET f == ofiles[p][d] IN
    /\ May(p) /\ f # NULL /\ FreeFds(p) # {}
    /\ ofiles' = FdAlloc(p, f)
    /\ files' = DupRef(f)
    /\ calls' = calls + 1
    /\ UNCHANGED <<inodes, todo, arg, spoiled, dotted, panicked>>

\* close: file_close puts the inode with the last reference to the file.
Close(p, d) ==
    LET f == ofiles[p][d] IN
    /\ May(p) /\ f # NULL
    /\ IF files[f].ref = 1
       THEN PutInode(files[f].ip) /\ files' = [files EXCEPT ![f] = Closed]
       ELSE files' = [files EXCEPT ![f].ref = @ - 1] /\ UNCHANGED inodes
    /\ ofiles' = [ofiles EXCEPT ![p][d] = NULL]
    /\ calls' = calls + 1
    /\ UNCHANGED <<todo, arg, spoiled, dotted, panicked>>

\* read, write, writev and fstat: file_read, file_write and file_stat hold
\* the lock of the file's inode.
Access(p, d) ==
    LET f == ofiles[p][d] IN
    /\ May(p) /\ f # NULL
    /\ Rest(p, <<Step("lock", files[f].ip), Step("unlock", files[f].ip)>>)
    /\ calls' = calls + 1
    /\ UNCHANGED <<inodes, tables, spoiled, dotted, panicked>>

-----------------------------------------------------------------------------
Next ==
    \E p \in Procs :
        \/ Openat(p) \/ Mkdirat(p) \/ Mknodat(p) \/ Unlinkat(p) \/ Chdir(p) \/ Newfstatat(p)
        \/ \E d \in Fds : Dup(p, d) \/ Close(p, d) \/ Access(p, d)
        \/ Lock(p) \/ Unlock(p) \/ Put(p)
        \/ Find(p) \/ Exists(p) \/ Make(p) \/ Look(p) \/ Unlink(p) \/ Drop(p)
        \/ Open(p) \/ Stat(p) \/ Enter(p) \/ Swap(p)

Spec == Init /\ [][Next]_vars

-----------------------------------------------------------------------------
(* Properties *)

TypeOK ==
    /\ itab \in [Inodes -> [type : Types, links : Nat]]
    /\ \A i \in Inodes : mem[i] # NULL => mem[i].rc >= 0 /\ mem[i].lock \in 0 .. 1 + MaxCalls
    /\ \A f \in Files : files[f].ref \in 0 .. Cardinality(Fds)
    /\ ofiles \in [Procs -> [Fds -> Files \cup {NULL}]]
    /\ spoiled \in BOOLEAN /\ panicked \in BOOLEAN

\* The references that what is left of p's call will put or keep.
Holds(p) ==
    LET s == todo[p]
        puts == {k \in DOMAIN s : s[k].op \in {"put", "open", "stat", "enter", "swap", "find",
                                                "look", "exists", "make", "unlink"}}
        dp == {k \in DOMAIN s : s[k].op \in {"exists", "make", "unlink"}}
    IN  {<<"step", p, k, s[k].i>> : k \in puts} \cup {<<"dp", p, k, arg[p].dp>> : k \in dp}

References(i) ==
    {x \in UNION {Holds(p) : p \in Procs} : x[4] = i}
    \cup {<<"file", f>> : f \in {g \in Files : files[g].ref > 0 /\ files[g].ip = i}}
    \cup {<<"root", x>> : x \in {Root} \cap {i}}

\* The count of references of an inode is the number of pointers to it that
\* files and running calls hold, and that of a file is the number of its
\* descriptors: on no path, failing ones included, is an inode put twice, or
\* not at all, or freed while it is in use.
RefsAreExact ==
    /\ ~ panicked => \A i \in Inodes :
          Cardinality(References(i)) = IF mem[i] = NULL THEN 0 ELSE mem[i].rc
    /\ \A f \in Files :
          files[f].ref = Cardinality({x \in Procs \X Fds : ofiles[x[1]][x[2]] = f})

AllReturned == (\A p \in Procs : todo[p] = <<>>) /\ ~ panicked

\* Between calls an inode in memory is what its inode block says, unless create
\* met Dot; its links are the entries that name it and, for a directory, its
\* subdirectories; and it is free exactly when it has no link and nobody
\* refers to it.
LinksAgree ==
    AllReturned => \A i \in Inodes :
        LET named == Cardinality({d \in Inodes : \E x \in dirs[d] : x[2] = i})
            subs == Cardinality({x \in dirs[i] : itab[x[2]].type = "dir"})
        IN /\ ~ dotted /\ mem[i] # NULL /\ mem[i].valid => mem[i].e = itab[i]
           /\ ~ spoiled =>
                /\ itab[i].links = named + subs + (IF i = Root THEN 1 ELSE 0)
                /\ (itab[i].type = "invalid") = (itab[i].links = 0 /\ References(i) = {})

\* No entry of a directory that is linked names an inode that is free, at any
\* moment of any call, nor do two entries have one name.
NoDanglingEntry ==
    ~ spoiled => \A d \in Inodes : \A x, y \in dirs[d] :
        /\ itab[x[2]].type # "invalid"
        /\ x[1] = y[1] => x = y

\* create returns the inode that exists: some call that has begun can go on.
CallsGoOn ==
    LET busy == {p \in Procs : todo[p] # <<>>} IN
    busy # {} => \E p \in busy : At(p, "lock") => mem[Head(todo[p]).i].lock > 0

\* Calls lock a directory before what is in it: but for create of Dot, which
\* locks a directory twice, they never all wait for locks of inodes.
NoDeadlock == ~ dotted => CallsGoOn
=============================================================================
