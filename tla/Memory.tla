------------------------------- MODULE Memory -------------------------------
(***************************************************************************)
(* The page allocator and kalloc (kernel/mem.c), page tables (kernel/pt.c)  *)
(* and the heap of a process with its page faults (kernel/paging.c).  Every *)
(* operation on the allocator holds page_lock or mem_lock; a page directory *)
(* is touched by its own process only.  kalloc_page with no page left       *)
(* clears address 0; the model stops before that.                           *)
(***************************************************************************)
EXTENDS Integers, FiniteSets, Sequences

CONSTANTS
    Pages,      \* the pages of the machine, 1 .. n
    Owners,     \* processes
    HeapMax,    \* bound: the number of pages of a heap
    HeapMin,    \* bound: how many pages below 0 a heap ends
    AddrPages,  \* the pages of the address space: the end of a heap is a u64
    MaxRefs,    \* bound: the references of the zero page
    Depth,      \* how many levels of tables are below the root, 3
    PSIZE,      \* PAGE_SIZE
    HDR,        \* where the blocks of a page begin, 64
    MINSIZE,    \* the least blocksize, 8
    TOPKEY,     \* the last index of memory_table, 12
    ObjSizes,   \* the sizes kalloc is asked for
    MaxObjs,    \* bound: how many objects live at once
    NoPte       \* a null pointer or an entry that is not valid

\* Page 1 is the first that the allocator gives out.
ASSUME PagesAssumption == Pages \subseteq Nat \ {0} /\ IsFiniteSet(Pages) /\ 1 \in Pages
ASSUME SpaceAssumption ==
    /\ IsFiniteSet(Owners) /\ HeapMax \in Nat /\ Depth \in Nat
    /\ HeapMin \in Nat /\ AddrPages \in Nat /\ HeapMax + HeapMin < AddrPages
    /\ NoPte \notin [page : Pages, ro : BOOLEAN]
\* The list of the largest blocks serves every size that is asked for.
ASSUME ObjectAssumption ==
    /\ PSIZE \in Nat /\ HDR \in Nat /\ MINSIZE \in Nat /\ TOPKEY \in Nat
    /\ \A size \in ObjSizes \cup {MINSIZE} : size \in Nat /\ size <= 2^TOPKEY

VARIABLES
    mem,        \* the free pages, page_refs, alloc_page_cnt
    space,      \* per process: kstack, pgdir (root, lower tables, entries), heap end
    memtable,   \* memory_table: per key the free blocks
    objs,       \* the objects that kalloc has given out
    wrapped     \* history: the end of some heap has passed address 0

memVars == <<mem, space, memtable, objs, wrapped>>

ZeroPage == 1
VAs == 0 .. HeapMax - 1
Dead == [state |-> "none", kstack |-> 0, root |-> 0, tables |-> <<>>,
         pte |-> [v \in VAs |-> NoPte], heap |-> 0]

-----------------------------------------------------------------------------
(* Pages *)

\* fetch_from_queue: the order of the queue does not matter.
NextPage(m) == CHOOSE p \in m.free : \A q \in m.free : p <= q

\* kalloc_page
AllocPage(m) == [free |-> m.free \ {NextPage(m)}, refs |-> [m.refs EXCEPT ![NextPage(m)] = 1],
                 cnt |-> m.cnt + 1]

\* ref_page
RefPage(m, p) == [m EXCEPT !.refs[p] = @ + 1]

\* kfree_page
FreePage(m, p) ==
    IF m.refs[p] = 1 /\ p # ZeroPage
    THEN [free |-> m.free \cup {p}, refs |-> [m.refs EXCEPT ![p] = 0], cnt |-> m.cnt - 1]
    ELSE [m EXCEPT !.refs[p] = @ - 1]

\* The pages of a sequence are freed in turn.
FreeAll(m, ps) ==
    LET f[i \in 0 .. Len(ps)] == IF i = 0 THEN m ELSE FreePage(f[i - 1], ps[i])
    IN  f[Len(ps)]

\* The pages that entries lo .. hi - 1 map, in order.
MappedTo(s, lo, hi) ==
    LET f[v \in lo .. hi] ==
            IF v = lo THEN <<>>
            ELSE IF s.pte[v - 1] = NoPte THEN f[v - 1] ELSE Append(f[v - 1], s.pte[v - 1].page)
    IN  f[hi]

Unmapped(s, lo, hi) == [v \in VAs |-> IF lo <= v /\ v < hi THEN NoPte ELSE s.pte[v]]

MemoryInit ==
    /\ mem = AllocPage([free |-> Pages, refs |-> [p \in Pages |-> 0], cnt |-> 0])
    /\ space = [o \in Owners |-> Dead]
    /\ memtable = [k \in 0 .. TOPKEY |-> {}]
    /\ objs = {} /\ wrapped = FALSE

-----------------------------------------------------------------------------
(* Processes *)

\* init_proc: init_pgdir and the kernel stack.
MemCreate(o) ==
    LET m1 == AllocPage(mem) IN
    /\ space[o].state = "none" /\ Cardinality(mem.free) >= 2
    /\ space' = [space EXCEPT ![o] = [Dead EXCEPT
          !.state = "live", !.root = NextPage(mem), !.kstack = NextPage(m1)]]
    /\ mem' = AllocPage(m1)
    /\ UNCHANGED <<memtable, objs, wrapped>>

\* The end of a heap that sbrk moves by d pages: unsigned.
Moved(s, d) == (s.heap + d) % AddrPages
HeapRange == 0 .. HeapMax \cup (AddrPages - HeapMin .. AddrPages - 1)

\* Up to where entries can be: the addresses of the model end at HeapMax.
InReach(end) == IF end <= HeapMax THEN end ELSE HeapMax
Lesser(a, b) == IF a < b THEN a ELSE b

\* sbrk of n pages, grown
SbrkGrow(o, n) ==
    LET s == space[o] IN
    /\ s.state = "live" /\ Moved(s, n) \in HeapRange
    /\ space' = [space EXCEPT ![o].heap = Moved(s, n)]
    /\ wrapped' = (wrapped \/ Moved(s, n) # s.heap + n)
    /\ UNCHANGED <<mem, memtable, objs>>

\* Mutant of SbrkShrink: the entries stay.
ShrinkKeepsEntries(o, n) ==
    LET s == space[o]
        hi == InReach(s.heap)
        lo == Lesser(InReach(Moved(s, -n)), hi)
    IN  /\ s.state = "live" /\ Moved(s, -n) \in HeapRange
        /\ mem' = FreeAll(mem, MappedTo(s, lo, hi))
        /\ space' = [space EXCEPT ![o].heap = Moved(s, -n)]
        /\ wrapped' = (wrapped \/ Moved(s, -n) # s.heap - n)
        /\ UNCHANGED <<memtable, objs>>

\* sbrk of - n pages.  The end is unsigned, so that the assertion holds and an
\* n above the size of the heap wraps it: no entry lies between the new end
\* and the old one, and nothing is freed.
SbrkShrink(o, n) ==
    LET s == space[o]
        hi == InReach(s.heap)
        lo == Lesser(InReach(Moved(s, -n)), hi)
    IN  /\ s.state = "live" /\ Moved(s, -n) \in HeapRange
        /\ mem' = FreeAll(mem, MappedTo(s, lo, hi))
        /\ space' = [space EXCEPT ![o].heap = Moved(s, -n), ![o].pte = Unmapped(s, lo, hi)]
        /\ wrapped' = (wrapped \/ Moved(s, -n) # s.heap - n)
        /\ UNCHANGED <<memtable, objs>>

\* get_pte that may allocate: the tables below the root that are missing; all
\* addresses of a heap lie below the same tables.
TablesFor(m, s) ==
    LET missing == Depth - Len(s.tables)
        f[i \in 0 .. missing] ==
            IF i = 0 THEN [m |-> m, ts |-> s.tables]
            ELSE [m |-> AllocPage(f[i - 1].m), ts |-> Append(f[i - 1].ts, NextPage(f[i - 1].m))]
    IN  f[missing]

\* Mutant of Remapped: the page that was copied keeps its reference.
RemappedLeaks(m, page, old) == FreePage(RefPage(m, page), page)

\* pgfault_handler after get_pte: a copied page loses its mapping, vmmap takes
\* a reference to the new one, and the one of kalloc_page is given back.
Remapped(m, page, old) ==
    FreePage(RefPage(IF old = NoPte THEN m ELSE FreePage(m, old.page), page), page)

\* pgfault_handler: an address of the heap without a page, or a write to a
\* page that is read-only.  Elsewhere it stops the kernel.
PgFault(o, v) ==
    LET s == space[o]
        t == TablesFor(AllocPage(mem), s)
        page == NextPage(mem)
    IN  /\ s.state = "live" /\ v < s.heap
        /\ s.pte[v] # NoPte => s.pte[v].ro
        /\ Cardinality(mem.free) >= 1 + Depth - Len(s.tables)
        /\ mem' = Remapped(t.m, page, s.pte[v])
        /\ space' = [space EXCEPT ![o].tables = t.ts,
                                  ![o].pte[v] = [page |-> page, ro |-> FALSE]]
        /\ UNCHANGED <<memtable, objs, wrapped>>

\* vmmap of the zero page, read-only.
MapZero(o, v) ==
    LET s == space[o]
        t == TablesFor(mem, s)
    IN  /\ s.state = "live" /\ v < s.heap /\ s.pte[v] = NoPte
        /\ Cardinality(mem.free) >= Depth - Len(s.tables) /\ mem.refs[ZeroPage] < MaxRefs
        /\ mem' = RefPage(t.m, ZeroPage)
        /\ space' = [space EXCEPT ![o].tables = t.ts,
                                  ![o].pte[v] = [page |-> ZeroPage, ro |-> TRUE]]
        /\ UNCHANGED <<memtable, objs, wrapped>>

\* exit: the kernel stack, on which the process is still running, and
\* free_pgdir: the pages of the sections, the tables from the last level up,
\* the root.  A page behind an entry above the end is not given back.
MemExit(o) ==
    LET s == space[o]
        tables == [i \in 1 .. Len(s.tables) |-> s.tables[Len(s.tables) + 1 - i]]
    IN  /\ s.state = "live"
        /\ mem' = FreeAll(mem, <<s.kstack>> \o MappedTo(s, 0, InReach(s.heap)) \o tables \o <<s.root>>)
        /\ space' = [space EXCEPT ![o] = Dead]
        /\ UNCHANGED <<memtable, objs, wrapped>>

-----------------------------------------------------------------------------
(* Objects *)

\* Mutant of LowestPow: rounded down.
LowestPowDown(size) == CHOOSE k \in 0 .. TOPKEY : 2^k <= size /\ size < 2^(k + 1)

\* get_lowest_pow
LowestPow(size) == CHOOSE k \in 0 .. TOPKEY : size <= 2^k /\ (k = 0 \/ 2^(k - 1) < size)

\* The blocks kalloc cuts a page into.
BlocksIn(p, bs) == {[page |-> p, off |-> HDR + i * bs] : i \in 0 .. (PSIZE - HDR) \div bs - 1}

\* pop_memory; the order of the list does not matter.
AnyBlock(S) ==
    CHOOSE x \in S : \A y \in S : x.page * PSIZE + x.off <= y.page * PSIZE + y.off

\* kalloc: the page is cut when there is no free block of the size.
Kalloc(size) ==
    LET k == LowestPow(IF size < MINSIZE THEN MINSIZE ELSE size)
        cut == memtable[k] = {}
        list == IF cut THEN BlocksIn(NextPage(mem), 2^k) ELSE memtable[k]
    IN  /\ Cardinality(objs) < MaxObjs
        /\ cut => mem.free # {}
        /\ list # {}
        /\ mem' = IF cut THEN AllocPage(mem) ELSE mem
        /\ memtable' = [memtable EXCEPT ![k] = list \ {AnyBlock(list)}]
        /\ objs' = objs \cup {[at |-> AnyBlock(list), asked |-> size, key |-> k]}
        /\ UNCHANGED <<space, wrapped>>

\* kfree: the key is found in the header of the page.
Kfree(x) ==
    /\ objs' = objs \ {x}
    /\ memtable' = [memtable EXCEPT ![x.key] = @ \cup {x.at}]
    /\ UNCHANGED <<mem, space, wrapped>>

MemoryNext ==
    \/ \E o \in Owners :
         \/ MemCreate(o) \/ MemExit(o)
         \/ \E n \in 1 .. HeapMax + HeapMin : SbrkGrow(o, n) \/ SbrkShrink(o, n)
         \/ \E v \in VAs : PgFault(o, v) \/ MapZero(o, v)
    \/ \E size \in ObjSizes : Kalloc(size)
    \/ \E x \in objs : Kfree(x)

MemorySpec == MemoryInit /\ [][MemoryNext]_memVars

-----------------------------------------------------------------------------
(* Properties *)

Live(o) == space[o].state = "live"
ObjPages == {x.at.page : x \in objs}
            \cup UNION {{x.page : x \in memtable[k]} : k \in 0 .. TOPKEY}

\* How often a page is in use: as a stack, as a table, by an entry, for
\* objects, or as the zero page.
Uses(p) ==
    LET as(b) == IF b THEN 1 ELSE 0
        of(o) == {v \in VAs : space[o].pte[v] # NoPte /\ space[o].pte[v].page = p}
    IN  as(p = ZeroPage) + as(p \in ObjPages)
        + Cardinality({o \in Owners : Live(o) /\ space[o].kstack = p})
        + Cardinality({o \in Owners : Live(o) /\ space[o].root = p})
        + Cardinality({x \in Owners \X (1 .. Depth) :
              x[2] \in DOMAIN space[x[1]].tables /\ space[x[1]].tables[x[2]] = p})
        + Cardinality(UNION {{<<o, v>> : v \in of(o)} : o \in Owners})

\* A page that is in use has as many references at least, so that it is not
\* given out again, a page is in the queue of free pages exactly when it has
\* none, and left_page_cnt is right.  No reference is left over, and so no page
\* lost, unless sbrk has moved the end of a heap past 0: free_sections then
\* ends below pages that are mapped.
PagesAreCounted ==
    /\ \A p \in Pages :
          /\ Uses(p) <= mem.refs[p] /\ (p \in mem.free) = (mem.refs[p] = 0)
          /\ ~ wrapped => mem.refs[p] = Uses(p)
    /\ mem.cnt = Cardinality(Pages) - Cardinality(mem.free)

\* What a process can write to is its own: a page behind an entry that allows
\* writing has no other use; the entry lies below the end of the heap, unless
\* that has passed 0.
WritesArePrivate ==
    \A o \in Owners, v \in VAs :
        space[o].pte[v] # NoPte /\ ~ space[o].pte[v].ro =>
            Uses(space[o].pte[v].page) = 1 /\ (wrapped \/ v < space[o].heap)

\* An object has the room it was asked for, inside its page and behind the
\* header, and shares no byte with another object or with a free block.
ObjectsAreDisjoint ==
    LET area == {[at |-> x.at, len |-> x.asked] : x \in objs}
                \cup UNION {{[at |-> x, len |-> 2^k] : x \in memtable[k]} : k \in 0 .. TOPKEY}
    IN  /\ \A a \in area : HDR <= a.at.off /\ a.at.off + a.len <= PSIZE
        /\ \A a, b \in area : a # b /\ a.at.page = b.at.page =>
              a.at.off + a.len <= b.at.off \/ b.at.off + b.len <= a.at.off
=============================================================================
