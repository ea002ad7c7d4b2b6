--------------------------- MODULE MemoryProofs ---------------------------
(***************************************************************************)
(* For any machine, any processes and any sizes: every page has one use or  *)
(* is free, only the zero page is shared, and objects do not overlap.       *)
(***************************************************************************)
EXTENDS Memory, KListTheorems, FiniteSetTheorems

Nonzero == Pages \ {ZeroPage}
MemRec == [free : SUBSET Pages, refs : [Pages -> Int], cnt : Int]

\* A page other than the zero page has one reference or is free, and
\* alloc_page_cnt counts the pages that are not free.
MemOk(m) ==
    /\ m \in MemRec
    /\ ZeroPage \notin m.free
    /\ \A p \in Nonzero : m.refs[p] = IF p \in m.free THEN 0 ELSE 1
    /\ m.cnt = Cardinality(Pages) - Cardinality(m.free)

Entry == [page : Pages, ro : BOOLEAN]
SpaceRec == [state : {"none", "live"}, kstack : Nat, root : Nat, tables : Seq(Pages),
             pte : [VAs -> Entry \cup {NoPte}], heap : Nat]

Private(s) == {v \in VAs : s.pte[v] # NoPte /\ s.pte[v].page # ZeroPage}
Zeros(s) == {v \in VAs : s.pte[v] # NoPte /\ s.pte[v].page = ZeroPage}
HeapPages(s) == {s.pte[v].page : v \in Private(s)}

\* The pages that a process has to itself.
Held(s) ==
    IF s.state = "live"
    THEN {s.kstack, s.root} \cup Members(s.tables) \cup HeapPages(s) ELSE {}

\* What an entry maps lies below the end of the heap.
BelowEnd(s) == \A v \in VAs : s.pte[v] # NoPte => v < s.heap

\* Only the zero page is read-only; no other page is mapped twice.
EntriesOk(s) ==
    /\ \A v \in VAs : s.pte[v] # NoPte => s.pte[v].ro = (s.pte[v].page = ZeroPage)
    /\ \A v, w \in Private(s) : s.pte[v].page = s.pte[w].page => v = w

\* The stack, the root, the lower tables and the pages of the heap differ.
PagesApart(s) ==
    /\ {s.kstack, s.root} \subseteq Nonzero /\ s.kstack # s.root
    /\ Members(s.tables) \subseteq Nonzero /\ Distinct(s.tables)
    /\ {s.kstack, s.root} \cap Members(s.tables) = {}
    /\ {s.kstack, s.root} \cap HeapPages(s) = {}
    /\ Members(s.tables) \cap HeapPages(s) = {}

SpaceOk(s) ==
    /\ s \in SpaceRec
    /\ EntriesOk(s)
    /\ s.state = "none" => s = Dead
    /\ s.state = "live" => Len(s.tables) <= Depth /\ PagesApart(s)

SpacesOk(sp) == sp \in [Owners -> SpaceRec] /\ \A o \in Owners : SpaceOk(sp[o])

\* No page is free and in use, or in use by two; P are the pages of objects.
UsesApart(m, sp, P) ==
    /\ P \subseteq Nonzero /\ P \cap m.free = {}
    /\ \A o \in Owners : Held(sp[o]) \cap m.free = {} /\ Held(sp[o]) \cap P = {}
    /\ \A o, q \in Owners : o # q => Held(sp[o]) \cap Held(sp[q]) = {}

\* No page is lost, the references of the zero page are those of its entries
\* and one more, and entries lie below the end of the heap, as long as no heap
\* has wrapped; w says that one has.
NoneLost(w, m, sp, P) ==
    w \/ \A p \in Nonzero : p \in m.free \/ p \in P \/ \E o \in Owners : p \in Held(sp[o])

ZeroUses(sp) == UNION {{o} \X Zeros(sp[o]) : o \in Owners}
ZeroCounted(w, m, sp) ==
    /\ m.refs[ZeroPage] >= 1 + Cardinality(ZeroUses(sp))
    /\ w \/ m.refs[ZeroPage] = 1 + Cardinality(ZeroUses(sp))

AllBelowEnd(w, sp) == w \/ \A o \in Owners : BelowEnd(sp[o])

PagesOk(w, m, sp, P) ==
    /\ w \in BOOLEAN
    /\ MemOk(m) /\ SpacesOk(sp) /\ UsesApart(m, sp, P)
    /\ NoneLost(w, m, sp, P) /\ ZeroCounted(w, m, sp) /\ AllBelowEnd(w, sp)

Spot == [page : Pages, off : Nat]
Object == [at : Spot, asked : ObjSizes, key : 0 .. TOPKEY]

\* The blocks of a page are cut for one key, and none is given out twice or
\* while it is free.
BlocksOk(mt, ob) ==
    /\ mt \in [0 .. TOPKEY -> SUBSET Spot] /\ ob \subseteq Object
    /\ \A k \in 0 .. TOPKEY : \A x \in mt[k] : x \in BlocksIn(x.page, 2^k)
    /\ \A x \in ob : x.at \in BlocksIn(x.at.page, 2^x.key) /\ x.asked <= 2^x.key
    /\ \A k, l \in 0 .. TOPKEY : \A x \in mt[k], y \in mt[l] : x.page = y.page => k = l
    /\ \A k \in 0 .. TOPKEY : \A x \in mt[k], y \in ob : x.page = y.at.page => k = y.key /\ x # y.at
    /\ \A x, y \in ob : x.at.page = y.at.page => x.key = y.key /\ (x.at = y.at => x = y)

PagesOfObjects(mt, ob) == {x.at.page : x \in ob} \cup UNION {{x.page : x \in mt[k]} : k \in 0 .. TOPKEY}

MemInv == PagesOk(wrapped, mem, space, ObjPages) /\ BlocksOk(memtable, objs)

-----------------------------------------------------------------------------
(* One page *)

LEMMA NextPageFact == ASSUME NEW m, m.free \subseteq Pages, m.free # {} PROVE NextPage(m) \in m.free
<1>1. m.free \subseteq Nat
  BY PagesAssumption
<1>2. \E p \in m.free : \A q \in m.free : p <= q
  BY <1>1, LeastExists
<1> QED
  BY <1>2 DEF NextPage

LEMMA FreeSetFinite ==
    ASSUME NEW S, S \subseteq Pages
    PROVE  IsFiniteSet(S) /\ Cardinality(S) \in Nat
  BY PagesAssumption, FS_Subset, FS_CardinalityType

\* kalloc_page takes a free page and leaves the others and the zero page as
\* they were.
LEMMA AllocFacts ==
    ASSUME NEW m, MemOk(m), m.free # {}
    PROVE  /\ NextPage(m) \in m.free /\ NextPage(m) \in Nonzero
           /\ MemOk(AllocPage(m))
           /\ AllocPage(m).free = m.free \ {NextPage(m)}
           /\ AllocPage(m).refs[ZeroPage] = m.refs[ZeroPage]
<1>1. m.free \in SUBSET Pages /\ m.refs \in [Pages -> Int] /\ m.cnt \in Int
  BY DEF MemOk, MemRec
<1>2. PICK p : p = NextPage(m)
  OBVIOUS
<1>3. p \in m.free /\ p \in Nonzero
  BY <1>1, <1>2, NextPageFact DEF MemOk, Nonzero
<1>4. PICK n : n = AllocPage(m)
  OBVIOUS
<1>5. n = [free |-> m.free \ {p}, refs |-> [m.refs EXCEPT ![p] = 1], cnt |-> m.cnt + 1]
  BY <1>2, <1>4 DEF AllocPage
<1>6. n.free = m.free \ {p} /\ n.refs = [m.refs EXCEPT ![p] = 1] /\ n.cnt = m.cnt + 1
  BY <1>5
<1>7. n \in MemRec
  <2>1. m.free \ {p} \in SUBSET Pages /\ [m.refs EXCEPT ![p] = 1] \in [Pages -> Int]
    BY <1>1, <1>3 DEF Nonzero
  <2> QED
    BY <1>1, <1>5, <2>1 DEF MemRec
<1>8. \A q \in Pages : n.refs[q] = IF q = p THEN 1 ELSE m.refs[q]
  BY <1>1, <1>6
<1>9. Cardinality(n.free) = Cardinality(m.free) - 1
  BY <1>1, <1>3, <1>6, FreeSetFinite, FS_RemoveElement
<1>10. \A q \in Nonzero : n.refs[q] = IF q \in n.free THEN 0 ELSE 1
  BY <1>6, <1>8 DEF MemOk, Nonzero
<1>11. n.cnt = Cardinality(Pages) - Cardinality(n.free)
  <2>1. Cardinality(Pages) \in Nat /\ Cardinality(m.free) \in Nat
    BY <1>1, FreeSetFinite
  <2>2. m.cnt = Cardinality(Pages) - Cardinality(m.free)
    BY DEF MemOk
  <2> QED
    BY <1>6, <1>9, <2>1, <2>2
<1>12. ZeroPage \notin n.free
  BY <1>6 DEF MemOk
<1>13. n.refs[ZeroPage] = m.refs[ZeroPage]
  BY <1>3, <1>8, PagesAssumption DEF ZeroPage, Nonzero
<1> QED
  BY <1>2, <1>3, <1>4, <1>6, <1>7, <1>10, <1>11, <1>12, <1>13 DEF MemOk

\* kfree_page of a page with one reference.
LEMMA FreeOneFacts ==
    ASSUME NEW m, MemOk(m), NEW p \in Nonzero, p \notin m.free
    PROVE  /\ MemOk(FreePage(m, p))
           /\ FreePage(m, p).free = m.free \cup {p}
           /\ FreePage(m, p).refs[ZeroPage] = m.refs[ZeroPage]
<1>1. m.free \in SUBSET Pages /\ m.refs \in [Pages -> Int] /\ m.cnt \in Int /\ p \in Pages
  BY DEF MemOk, MemRec, Nonzero
<1>2. m.refs[p] = 1 /\ p # ZeroPage
  BY DEF MemOk, Nonzero
<1>3. PICK n : n = FreePage(m, p)
  OBVIOUS
<1>4. n = [free |-> m.free \cup {p}, refs |-> [m.refs EXCEPT ![p] = 0], cnt |-> m.cnt - 1]
  BY <1>2, <1>3 DEF FreePage
<1>5. n.free = m.free \cup {p} /\ n.refs = [m.refs EXCEPT ![p] = 0] /\ n.cnt = m.cnt - 1
  BY <1>4
<1>6. n \in MemRec
  BY <1>1, <1>4 DEF MemRec
<1>7. \A q \in Pages : n.refs[q] = IF q = p THEN 0 ELSE m.refs[q]
  BY <1>1, <1>5
<1>8. Cardinality(n.free) = Cardinality(m.free) + 1
  BY <1>1, <1>5, FreeSetFinite, FS_AddElement
<1>9. \A q \in Nonzero : n.refs[q] = IF q \in n.free THEN 0 ELSE 1
  BY <1>5, <1>7 DEF MemOk, Nonzero
<1>10. n.cnt = Cardinality(Pages) - Cardinality(n.free)
  <2>1. Cardinality(Pages) \in Nat /\ Cardinality(m.free) \in Nat
    BY <1>1, FreeSetFinite
  <2>2. m.cnt = Cardinality(Pages) - Cardinality(m.free)
    BY DEF MemOk
  <2> QED
    BY <1>5, <1>8, <2>1, <2>2
<1>11. ZeroPage \notin n.free
  BY <1>2, <1>5 DEF MemOk
<1>12. n.refs[ZeroPage] = m.refs[ZeroPage]
  BY <1>2, <1>7, PagesAssumption DEF ZeroPage
<1> QED
  BY <1>3, <1>5, <1>6, <1>9, <1>10, <1>11, <1>12 DEF MemOk

\* Only the number of references of the zero page differs.
ZeroMoved(m, n, d) == MemOk(n) /\ n.free = m.free /\ n.refs[ZeroPage] = m.refs[ZeroPage] + d

LEMMA ZeroRefs ==
    ASSUME NEW m, MemOk(m), NEW d \in Int, NEW n,
           n = [m EXCEPT !.refs = [m.refs EXCEPT ![ZeroPage] = @ + d]]
    PROVE  ZeroMoved(m, n, d)
<1>1. m.free \in SUBSET Pages /\ m.refs \in [Pages -> Int] /\ m.cnt \in Int /\ m \in MemRec
  BY DEF MemOk, MemRec
<1>2. ZeroPage \in Pages
  BY PagesAssumption DEF ZeroPage
<1>3. n.free = m.free /\ n.cnt = m.cnt /\ n.refs = [m.refs EXCEPT ![ZeroPage] = @ + d]
  BY <1>1 DEF MemRec
<1>4. n.refs[ZeroPage] = m.refs[ZeroPage] + d
  BY <1>1, <1>2, <1>3
<1>5. \A q \in Nonzero : n.refs[q] = m.refs[q]
  BY <1>1, <1>3 DEF Nonzero
<1>6. n \in MemRec
  BY <1>1, <1>2, <1>3 DEF MemRec
<1>7. \A q \in Nonzero : n.refs[q] = IF q \in n.free THEN 0 ELSE 1
  BY <1>3, <1>5 DEF MemOk
<1>8. ZeroPage \notin n.free /\ n.cnt = Cardinality(Pages) - Cardinality(n.free)
  BY <1>3 DEF MemOk
<1> QED
  BY <1>3, <1>4, <1>6, <1>7, <1>8 DEF MemOk, ZeroMoved

\* The zero page is never freed.
LEMMA ZeroFacts ==
    ASSUME NEW m, MemOk(m)
    PROVE  ZeroMoved(m, RefPage(m, ZeroPage), 1) /\ ZeroMoved(m, FreePage(m, ZeroPage), -1)
<1>1. m.refs \in [Pages -> Int] /\ m \in MemRec /\ ZeroPage \in Pages
  BY PagesAssumption DEF MemOk, MemRec, ZeroPage
<1>2. RefPage(m, ZeroPage) = [m EXCEPT !.refs = [m.refs EXCEPT ![ZeroPage] = @ + 1]]
  BY <1>1 DEF RefPage, MemRec
<1>3. FreePage(m, ZeroPage) = [m EXCEPT !.refs = [m.refs EXCEPT ![ZeroPage] = @ - 1]]
  BY <1>1 DEF FreePage, MemRec
<1>4. [m.refs EXCEPT ![ZeroPage] = @ - 1] = [m.refs EXCEPT ![ZeroPage] = @ + -1]
  BY <1>1
<1>5. FreePage(m, ZeroPage) = [m EXCEPT !.refs = [m.refs EXCEPT ![ZeroPage] = @ + -1]]
  BY <1>3, <1>4
<1>6. -1 \in Int /\ 1 \in Int
  OBVIOUS
<1> QED
  BY <1>2, <1>5, <1>6, ZeroRefs

\* vmmap's reference to a new page and the release of that of kalloc_page.
LEMMA RefAndFree ==
    ASSUME NEW m, MemOk(m), NEW p \in Nonzero, p \notin m.free
    PROVE  FreePage(RefPage(m, p), p) = m
<1>1. m.refs \in [Pages -> Int] /\ m \in MemRec /\ p \in Pages
  BY DEF MemOk, MemRec, Nonzero
<1>2. m.refs[p] = 1
  BY DEF MemOk
<1>3. PICK r : r = RefPage(m, p)
  OBVIOUS
<1>4. r = [m EXCEPT !.refs = [m.refs EXCEPT ![p] = 2]]
  BY <1>1, <1>2, <1>3 DEF RefPage, MemRec
<1>5. r \in MemRec /\ r.free = m.free /\ r.cnt = m.cnt /\ r.refs = [m.refs EXCEPT ![p] = 2]
  BY <1>1, <1>4 DEF MemRec
<1>6. r.refs[p] = 2
  BY <1>1, <1>5
<1>7. FreePage(r, p) = [r EXCEPT !.refs = [r.refs EXCEPT ![p] = 1]]
  BY <1>5, <1>6 DEF FreePage, MemRec
<1>8. [r.refs EXCEPT ![p] = 1] = m.refs
  BY <1>1, <1>2, <1>5
<1>9. [r EXCEPT !.refs = m.refs] = m
  BY <1>1, <1>5 DEF MemRec
<1> QED
  BY <1>3, <1>7, <1>8, <1>9

-----------------------------------------------------------------------------
(* Several pages *)

\* A function defined by recursion over lo .. hi exists.
Follows(f, a, G, lo, hi) == f = [i \in lo .. hi |-> IF i = lo THEN a ELSE G[i][f[i - 1]]]

Runs(X, a, G, lo, n) == \E f \in [lo .. lo + n -> X] : Follows(f, a, G, lo, lo + n)

LEMMA Iterates ==
    ASSUME NEW X, NEW a \in X, NEW lo \in Int, NEW n \in Nat, NEW G,
           \A i \in lo + 1 .. lo + n : G[i] \in [X -> X]
    PROVE  Runs(X, a, G, lo, n)
<1> DEFINE Bad == {k \in Nat : k <= n /\ ~ Runs(X, a, G, lo, k)}
<1> SUFFICES ASSUME Bad # {} PROVE FALSE
  <2>1. n <= n
    OBVIOUS
  <2>2. ~ Runs(X, a, G, lo, n) => n \in Bad
    BY <2>1
  <2> QED
    BY <2>2
<1>1. PICK k \in Bad : \A j \in Bad : k <= j
  BY LeastExists
<1>2. k # 0
  <2>1. PICK f : f = [i \in lo .. lo + 0 |-> a]
    OBVIOUS
  <2>2. \A i \in lo .. lo + 0 : i = lo
    OBVIOUS
  <2>3. f = [i \in lo .. lo + 0 |-> IF i = lo THEN a ELSE G[i][f[i - 1]]]
    BY <2>1, <2>2
  <2>4. f \in [lo .. lo + 0 -> X]
    BY <2>1
  <2> QED
    BY <2>3, <2>4 DEF Follows, Runs
<1>3. k \in Nat /\ k - 1 \in Nat /\ k - 1 \notin Bad /\ k <= n
  BY <1>1, <1>2
<1>4. PICK f \in [lo .. lo + (k - 1) -> X] : Follows(f, a, G, lo, lo + (k - 1))
  BY <1>3 DEF Runs
<1>5. lo + k \in lo + 1 .. lo + n /\ lo + k - 1 \in lo .. lo + (k - 1)
  BY <1>3
<1>6. PICK e : e = G[lo + k][f[lo + k - 1]]
  OBVIOUS
<1>7. e \in X
  <2>1. f[lo + k - 1] \in X
    BY <1>5
  <2>2. G[lo + k] \in [X -> X]
    BY <1>5
  <2> QED
    BY <1>6, <2>1, <2>2
<1>8. PICK g : g = [i \in lo .. lo + k |-> IF i = lo + k THEN e ELSE f[i]]
  OBVIOUS
<1>9. \A i \in lo .. lo + (k - 1) : g[i] = f[i] /\ i # lo + k /\ i \in lo .. lo + k
  BY <1>3, <1>8
<1>10. \A i \in lo .. lo + k : i = lo + k \/ i \in lo .. lo + (k - 1)
  BY <1>3
<1>11. g \in [lo .. lo + k -> X]
  BY <1>7, <1>8, <1>10
<1>12. ASSUME NEW i \in lo .. lo + k PROVE g[i] = IF i = lo THEN a ELSE G[i][g[i - 1]]
  <2>1. CASE i = lo + k
    <3>1. g[i] = e /\ i # lo /\ g[i - 1] = f[i - 1]
      BY <1>3, <1>5, <1>8, <1>9, <1>2, <2>1
    <3> QED
      BY <1>6, <2>1, <3>1
  <2>2. CASE i \in lo .. lo + (k - 1)
    <3>1. f[i] = IF i = lo THEN a ELSE G[i][f[i - 1]]
      BY <1>4, <2>2 DEF Follows
    <3>2. i # lo => i - 1 \in lo .. lo + (k - 1)
      BY <1>3, <2>2
    <3> QED
      BY <1>9, <2>2, <3>1, <3>2
  <2> QED
    BY <1>10, <2>1, <2>2
<1>13. g = [i \in lo .. lo + k |-> IF i = lo THEN a ELSE G[i][g[i - 1]]]
  BY <1>11, <1>12
<1> QED
  BY <1>1, <1>11, <1>13 DEF Follows, Runs

LEMMA FreePageTyped == ASSUME NEW m \in MemRec, NEW p \in Pages PROVE FreePage(m, p) \in MemRec
<1>1. m.free \in SUBSET Pages /\ m.refs \in [Pages -> Int] /\ m.cnt \in Int
  BY DEF MemRec
<1>2. m.free \cup {p} \in SUBSET Pages /\ [m.refs EXCEPT ![p] = 0] \in [Pages -> Int] /\ m.cnt - 1 \in Int
  BY <1>1
<1>3. [free |-> m.free \cup {p}, refs |-> [m.refs EXCEPT ![p] = 0], cnt |-> m.cnt - 1] \in MemRec
  BY <1>2 DEF MemRec
<1>4. [m.refs EXCEPT ![p] = @ - 1] \in [Pages -> Int]
  BY <1>1
<1>5. [m EXCEPT !.refs = [m.refs EXCEPT ![p] = @ - 1]] \in MemRec
  BY <1>1, <1>4 DEF MemRec
<1>6. [m EXCEPT !.refs[p] = @ - 1] = [m EXCEPT !.refs = [m.refs EXCEPT ![p] = @ - 1]]
  BY <1>1 DEF MemRec
<1> QED
  BY <1>3, <1>5, <1>6 DEF FreePage

\* The states of the allocator while the pages ps are freed.
Frees(f, m, ps) ==
    f = [i \in 0 .. Len(ps) |-> IF i = 0 THEN m ELSE FreePage(f[i - 1], ps[i])]

LEMMA FreesExists ==
    ASSUME NEW m \in MemRec, NEW ps \in Seq(Pages)
    PROVE  \E f \in [0 .. Len(ps) -> MemRec] : Frees(f, m, ps)
<1>1. PICK n \in Nat : n = Len(ps)
  OBVIOUS
<1>2. PICK G : G = [i \in 1 .. n |-> [x \in MemRec |-> FreePage(x, ps[i])]]
  OBVIOUS
<1> PICK z \in Int : z = 0
  OBVIOUS
<1>3. \A i \in z + 1 .. z + n : G[i] \in [MemRec -> MemRec]
  <2> SUFFICES ASSUME NEW i \in 1 .. n PROVE G[i] \in [MemRec -> MemRec]
    OBVIOUS
  <2>1. ps[i] \in Pages
    BY <1>1
  <2> QED
    BY <1>2, <2>1, FreePageTyped
<1>4. Runs(MemRec, m, G, z, n)
  BY <1>3, Iterates
<1>5. PICK f \in [z .. z + n -> MemRec] : Follows(f, m, G, z, z + n)
  BY <1>4 DEF Runs
<1>6. f = [i \in 0 .. n |-> IF i = 0 THEN m ELSE G[i][f[i - 1]]] /\ f \in [0 .. n -> MemRec]
  BY <1>5 DEF Follows
<1>7. ASSUME NEW i \in 0 .. n, i # 0 PROVE G[i][f[i - 1]] = FreePage(f[i - 1], ps[i])
  <2>1. i \in 1 .. n /\ i - 1 \in 0 .. n
    BY <1>7
  <2>2. f[i - 1] \in MemRec
    BY <1>6, <2>1
  <2> QED
    BY <1>2, <2>1, <2>2
<1>8. f = [i \in 0 .. n |-> IF i = 0 THEN m ELSE FreePage(f[i - 1], ps[i])]
  BY <1>6, <1>7
<1> QED
  BY <1>1, <1>6, <1>8 DEF Frees

LEMMA FreeAllFrees ==
    ASSUME NEW m \in MemRec, NEW ps \in Seq(Pages)
    PROVE  \E f : Frees(f, m, ps) /\ FreeAll(m, ps) = f[Len(ps)]
<1>1. \E f : f = [i \in 0 .. Len(ps) |-> IF i = 0 THEN m ELSE FreePage(f[i - 1], ps[i])]
  BY FreesExists DEF Frees
<1>2. PICK c : c = CHOOSE f : f = [i \in 0 .. Len(ps) |-> IF i = 0 THEN m ELSE FreePage(f[i - 1], ps[i])]
  OBVIOUS
<1>3. c = [i \in 0 .. Len(ps) |-> IF i = 0 THEN m ELSE FreePage(c[i - 1], ps[i])]
  BY <1>1, <1>2
<1>4. FreeAll(m, ps) = c[Len(ps)]
  BY <1>2 DEF FreeAll
<1> QED
  BY <1>3, <1>4 DEF Frees

LEMMA FreesAt ==
    ASSUME NEW m, NEW ps, NEW f, Frees(f, m, ps), NEW i \in 0 .. Len(ps)
    PROVE  f[i] = IF i = 0 THEN m ELSE FreePage(f[i - 1], ps[i])
  BY DEF Frees

LEMMA FreesAgree ==
    ASSUME NEW m, NEW ps, NEW qs, NEW f, NEW g, Frees(f, m, ps), Frees(g, m, qs),
           Len(ps) \in Nat, Len(qs) \in Nat, NEW n \in Nat, n <= Len(ps), n <= Len(qs),
           \A i \in 1 .. n : ps[i] = qs[i]
    PROVE  f[n] = g[n]
<1> DEFINE Bad == {k \in Nat : k <= n /\ f[k] # g[k]}
<1>1. \A i \in 0 .. n : /\ f[i] = IF i = 0 THEN m ELSE FreePage(f[i - 1], ps[i])
                        /\ g[i] = IF i = 0 THEN m ELSE FreePage(g[i - 1], qs[i])
  <2> SUFFICES ASSUME NEW i \in 0 .. n
               PROVE  /\ f[i] = IF i = 0 THEN m ELSE FreePage(f[i - 1], ps[i])
                      /\ g[i] = IF i = 0 THEN m ELSE FreePage(g[i - 1], qs[i])
    OBVIOUS
  <2>1. i \in 0 .. Len(ps) /\ i \in 0 .. Len(qs)
    OBVIOUS
  <2> QED
    BY <2>1, FreesAt
<1> SUFFICES ASSUME Bad # {} PROVE FALSE
  OBVIOUS
<1>2. PICK k \in Bad : \A j \in Bad : k <= j
  BY LeastExists
<1>3. k \in 0 .. n /\ f[k] # g[k]
  OBVIOUS
<1>4. k # 0
  BY <1>1, <1>3
<1>5. f[k - 1] = g[k - 1]
  BY <1>2, <1>3, <1>4
<1>6. k \in 1 .. n
  BY <1>3, <1>4
<1> QED
  BY <1>1, <1>3, <1>4, <1>5, <1>6

LEMMA FreeAllTyped ==
    ASSUME NEW m \in MemRec, NEW ps \in Seq(Pages)
    PROVE  FreeAll(m, ps) \in MemRec
<1>1. PICK f \in [0 .. Len(ps) -> MemRec] : Frees(f, m, ps)
  BY FreesExists
<1>2. PICK c : Frees(c, m, ps) /\ FreeAll(m, ps) = c[Len(ps)]
  BY FreeAllFrees
<1>3. PICK n \in Nat : n = Len(ps)
  OBVIOUS
<1>4. c[n] = f[n]
  BY <1>1, <1>2, <1>3, FreesAgree
<1>5. f[n] \in MemRec
  BY <1>1, <1>3
<1> QED
  BY <1>2, <1>3, <1>4, <1>5

LEMMA FreeAllEmpty == ASSUME NEW m \in MemRec PROVE FreeAll(m, <<>>) = m
<1>1. <<>> \in Seq(Pages) /\ Len(<<>>) = 0
  OBVIOUS
<1>2. PICK c : Frees(c, m, <<>>) /\ FreeAll(m, <<>>) = c[Len(<<>>)]
  BY <1>1, FreeAllFrees
<1>3. c[0] = m
  BY <1>1, <1>2 DEF Frees
<1> QED
  BY <1>1, <1>2, <1>3

LEMMA FreeAllAppend ==
    ASSUME NEW m \in MemRec, NEW ps \in Seq(Pages), NEW x \in Pages
    PROVE  FreeAll(m, Append(ps, x)) = FreePage(FreeAll(m, ps), x)
<1>1. PICK qs : qs = Append(ps, x)
  OBVIOUS
<1> qs \in Seq(Pages)
  BY <1>1
<1>2. PICK n \in Nat : n = Len(ps)
  OBVIOUS
<1>3. Len(qs) = n + 1 /\ qs[n + 1] = x /\ \A i \in 1 .. n : ps[i] = qs[i]
  BY <1>1, <1>2
<1>4. PICK f : Frees(f, m, ps) /\ FreeAll(m, ps) = f[Len(ps)]
  BY FreeAllFrees
<1>5. PICK g : Frees(g, m, qs) /\ FreeAll(m, qs) = g[Len(qs)]
  BY FreeAllFrees
<1>6. f[n] = g[n]
  <2>1. n <= Len(ps) /\ n <= Len(qs) /\ Len(ps) \in Nat /\ Len(qs) \in Nat
    BY <1>2, <1>3
  <2> QED
    BY <1>3, <1>4, <1>5, <2>1, FreesAgree
<1>7. g[n + 1] = FreePage(g[n], qs[n + 1])
  <2>1. n + 1 \in 0 .. Len(qs) /\ n + 1 # 0 /\ n + 1 - 1 = n
    BY <1>3
  <2> QED
    BY <1>5, <2>1, FreesAt
<1> QED
  BY <1>1, <1>2, <1>3, <1>4, <1>5, <1>6, <1>7

LEMMA FreeAllOne ==
    ASSUME NEW m \in MemRec, NEW x \in Pages
    PROVE  FreeAll(m, <<x>>) = FreePage(m, x)
<1>1. <<>> \in Seq(Pages) /\ Append(<<>>, x) = <<x>>
  OBVIOUS
<1> QED
  BY <1>1, FreeAllAppend, FreeAllEmpty

LEMMA FreeAllConcat ==
    ASSUME NEW m \in MemRec, NEW ps \in Seq(Pages), NEW qs \in Seq(Pages)
    PROVE  FreeAll(m, ps \o qs) = FreeAll(FreeAll(m, ps), qs)
<1>1. PICK n \in Nat, l \in Nat : n = Len(ps) /\ l = Len(qs)
  OBVIOUS
<1>2. PICK rs : rs = ps \o qs
  OBVIOUS
<1> rs \in Seq(Pages)
  BY <1>2
<1>3. Len(rs) = n + l
  BY <1>1, <1>2
<1>4. \A i \in 1 .. n : ps[i] = rs[i]
  BY <1>1, <1>2
<1>5. \A i \in 1 .. l : rs[n + i] = qs[i]
  BY <1>1, <1>2
<1>6. PICK f : Frees(f, m, ps) /\ FreeAll(m, ps) = f[Len(ps)]
  BY FreeAllFrees
<1>7. PICK g : Frees(g, m, rs) /\ FreeAll(m, rs) = g[Len(rs)]
  BY FreeAllFrees
<1>8. f[n] = g[n]
  <2>1. n <= Len(ps) /\ n <= Len(rs) /\ Len(ps) \in Nat /\ Len(rs) \in Nat
    BY <1>1, <1>3
  <2> QED
    BY <1>4, <1>6, <1>7, <2>1, FreesAgree
<1>9. PICK h : h = [i \in 0 .. l |-> g[n + i]]
  OBVIOUS
<1>10. ASSUME NEW i \in 0 .. l PROVE h[i] = IF i = 0 THEN f[n] ELSE FreePage(h[i - 1], qs[i])
  <2>1. CASE i = 0
    <3>1. h[0] = g[n + 0] /\ n + 0 = n
      BY <1>9
    <3> QED
      BY <1>8, <2>1, <3>1
  <2>2. CASE i # 0
    <3>1. /\ n + i \in 0 .. Len(rs) /\ n + i # 0 /\ n + i - 1 = n + (i - 1)
          /\ i - 1 \in 0 .. l /\ i \in 1 .. l
      BY <1>3, <2>2
    <3>2. g[n + i] = FreePage(g[n + i - 1], rs[n + i])
      BY <1>7, <3>1, FreesAt
    <3>3. h[i] = g[n + i] /\ h[i - 1] = g[n + (i - 1)]
      BY <1>9, <3>1
    <3> QED
      BY <1>5, <2>2, <3>1, <3>2, <3>3
  <2> QED
    BY <2>1, <2>2
<1>11. Frees(h, f[n], qs)
  BY <1>1, <1>9, <1>10 DEF Frees
<1>12. f[n] \in MemRec
  BY <1>1, <1>6, FreeAllTyped
<1>13. PICK k : Frees(k, f[n], qs) /\ FreeAll(f[n], qs) = k[Len(qs)]
  BY <1>12, FreeAllFrees
<1>14. k[l] = h[l]
  <2>1. l <= Len(qs) /\ Len(qs) \in Nat
    BY <1>1
  <2> QED
    BY <1>11, <1>13, <2>1, FreesAgree
<1>15. h[l] = g[n + l]
  BY <1>9
<1> QED
  BY <1>1, <1>2, <1>3, <1>6, <1>7, <1>13, <1>14, <1>15

\* free_pgdir gives back the lower tables.
LEMMA FreeAllDistinct ==
    ASSUME NEW m, MemOk(m), NEW ps \in Seq(Nonzero), Distinct(ps), Members(ps) \cap m.free = {}
    PROVE  /\ MemOk(FreeAll(m, ps))
           /\ FreeAll(m, ps).free = m.free \cup Members(ps)
           /\ FreeAll(m, ps).refs[ZeroPage] = m.refs[ZeroPage]
<1>1. m \in MemRec /\ ps \in Seq(Pages)
  BY DEF MemOk, Nonzero
<1>2. PICK n \in Nat : n = Len(ps)
  OBVIOUS
<1>3. DOMAIN ps = 1 .. n /\ \A i \in 1 .. n : ps[i] \in Nonzero
  BY <1>2
<1>4. PICK f : Frees(f, m, ps) /\ FreeAll(m, ps) = f[Len(ps)]
  BY <1>1, FreeAllFrees
<1>5. \A i \in 0 .. n : f[i] = IF i = 0 THEN m ELSE FreePage(f[i - 1], ps[i])
  BY <1>2, <1>4, FreesAt
<1> DEFINE First(i) == {ps[j] : j \in 1 .. i}
           Good(i) == /\ MemOk(f[i]) /\ f[i].free = m.free \cup First(i)
                      /\ f[i].refs[ZeroPage] = m.refs[ZeroPage]
           Bad == {i \in Nat : i <= n /\ ~ Good(i)}
<1>6. Good(0)
  <2>1. f[0] = m /\ First(0) = {}
    BY <1>5
  <2> QED
    BY <2>1
<1>7. ASSUME NEW i \in 1 .. n, Good(i - 1) PROVE Good(i)
  <2>1. i \in 0 .. n /\ i # 0 /\ ps[i] \in Nonzero /\ f[i] = FreePage(f[i - 1], ps[i])
    BY <1>3, <1>5
  <2>2. ps[i] \notin First(i - 1)
    BY <1>3 DEF Distinct
  <2>3. ps[i] \notin m.free
    BY <1>3 DEF Members
  <2>4. ps[i] \notin f[i - 1].free
    BY <1>7, <2>2, <2>3
  <2>5. First(i) = First(i - 1) \cup {ps[i]}
    <3>1. \A j \in 1 .. i : j = i \/ j \in 1 .. i - 1
      OBVIOUS
    <3>2. i \in 1 .. i /\ \A j \in 1 .. i - 1 : j \in 1 .. i
      OBVIOUS
    <3> QED
      BY <3>1, <3>2
  <2> HIDE DEF First
  <2>6. /\ MemOk(f[i]) /\ f[i].free = f[i - 1].free \cup {ps[i]}
        /\ f[i].refs[ZeroPage] = f[i - 1].refs[ZeroPage]
    BY <1>7, <2>1, <2>4, FreeOneFacts
  <2> QED
    BY <1>7, <2>5, <2>6
<1>8. Bad = {}
  <2> HIDE DEF Good
  <2> SUFFICES ASSUME Bad # {} PROVE FALSE
    OBVIOUS
  <2>1. PICK i \in Bad : \A j \in Bad : i <= j
    BY LeastExists
  <2>2. i # 0
    BY <1>6
  <2>3. i \in 1 .. n /\ i - 1 \in Nat /\ i - 1 <= n /\ i - 1 \notin Bad
    BY <2>1, <2>2
  <2> QED
    BY <1>7, <2>1, <2>3
<1>9. Good(n)
  <2> HIDE DEF Good
  <2> QED
    BY <1>8
<1>10. First(n) = Members(ps)
  BY <1>3 DEF Members
<1> QED
  BY <1>2, <1>4, <1>9, <1>10

\* The pages of the entries from lo on, as MappedTo gathers them.
Gathers(f, s, lo, hi) ==
    f = [v \in lo .. hi |->
            IF v = lo THEN <<>>
            ELSE IF s.pte[v - 1] = NoPte THEN f[v - 1] ELSE Append(f[v - 1], s.pte[v - 1].page)]

LEMMA GathersExists ==
    ASSUME NEW s \in SpaceRec, NEW lo \in Nat, NEW hi \in Nat, lo <= hi, hi <= HeapMax
    PROVE  \E f \in [lo .. hi -> Seq(Pages)] : Gathers(f, s, lo, hi)
<1>1. PICK n \in Nat : hi = lo + n
  <2>1. hi - lo \in Nat /\ hi = lo + (hi - lo)
    OBVIOUS
  <2> QED
    BY <2>1
<1>2. \A v \in lo + 1 .. hi : v - 1 \in VAs
  BY SpaceAssumption DEF VAs
<1>3. PICK X : X = Seq(Pages)
  OBVIOUS
<1>4. PICK G : G = [v \in lo + 1 .. hi |->
            [x \in X |-> IF s.pte[v - 1] = NoPte THEN x ELSE Append(x, s.pte[v - 1].page)]]
  OBVIOUS
<1>5. ASSUME NEW v \in lo + 1 .. hi, NEW x \in X
      PROVE  (IF s.pte[v - 1] = NoPte THEN x ELSE Append(x, s.pte[v - 1].page)) \in X
  <2>1. s.pte[v - 1] \in Entry \cup {NoPte}
    BY <1>2 DEF SpaceRec
  <2>2. s.pte[v - 1] # NoPte => s.pte[v - 1].page \in Pages
    BY <2>1 DEF Entry
  <2> QED
    BY <1>3, <2>2
<1>6. \A v \in lo + 1 .. hi : G[v] \in [X -> X]
  BY <1>4, <1>5
<1>7. <<>> \in X
  BY <1>3
<1>8. Runs(X, <<>>, G, lo, n)
  <2>1. PICK e : e = <<>> /\ e \in X
    BY <1>7
  <2>2. lo \in Int /\ \A v \in lo + 1 .. lo + n : G[v] \in [X -> X]
    BY <1>1, <1>6
  <2>3. Runs(X, e, G, lo, n)
    BY <2>1, <2>2, Iterates
  <2> QED
    BY <2>1, <2>3
<1>9. PICK f \in [lo .. hi -> X] : Follows(f, <<>>, G, lo, hi)
  BY <1>1, <1>8 DEF Runs
<1>10. ASSUME NEW v \in lo .. hi, v # lo
       PROVE  G[v][f[v - 1]] = IF s.pte[v - 1] = NoPte THEN f[v - 1] ELSE Append(f[v - 1], s.pte[v - 1].page)
  <2>1. v \in lo + 1 .. hi /\ v - 1 \in lo .. hi
    BY <1>10
  <2>2. f[v - 1] \in X
    BY <2>1
  <2> QED
    BY <1>4, <2>1, <2>2
<1>11. f = [v \in lo .. hi |-> IF v = lo THEN <<>> ELSE G[v][f[v - 1]]]
  BY <1>9 DEF Follows
<1>12. f = [v \in lo .. hi |->
            IF v = lo THEN <<>>
            ELSE IF s.pte[v - 1] = NoPte THEN f[v - 1] ELSE Append(f[v - 1], s.pte[v - 1].page)]
  BY <1>10, <1>11
<1> QED
  BY <1>3, <1>12 DEF Gathers

LEMMA GathersAt ==
    ASSUME NEW f, NEW s, NEW lo, NEW hi, Gathers(f, s, lo, hi), NEW v \in lo .. hi
    PROVE  f[v] = IF v = lo THEN <<>>
                  ELSE IF s.pte[v - 1] = NoPte THEN f[v - 1] ELSE Append(f[v - 1], s.pte[v - 1].page)
  BY DEF Gathers

LEMMA GathersAgree ==
    ASSUME NEW s, NEW f, NEW g, NEW lo \in Nat, NEW hi \in Nat, NEW hj \in Nat,
           Gathers(f, s, lo, hi), Gathers(g, s, lo, hj),
           NEW v \in lo .. hi, v <= hj
    PROVE  f[v] = g[v]
<1> DEFINE Bad == {w \in Nat : w \in lo .. v /\ f[w] # g[w]}
<1> SUFFICES ASSUME Bad # {} PROVE FALSE
  OBVIOUS
<1>1. PICK w \in Bad : \A j \in Bad : w <= j
  BY LeastExists
<1>2. w \in lo .. hi /\ w \in lo .. hj /\ w \in lo .. v /\ f[w] # g[w]
  OBVIOUS
<1>3. /\ f[w] = IF w = lo THEN <<>>
                ELSE IF s.pte[w - 1] = NoPte THEN f[w - 1] ELSE Append(f[w - 1], s.pte[w - 1].page)
      /\ g[w] = IF w = lo THEN <<>>
                ELSE IF s.pte[w - 1] = NoPte THEN g[w - 1] ELSE Append(g[w - 1], s.pte[w - 1].page)
  BY <1>2, GathersAt
<1>4. w # lo
  BY <1>2, <1>3
<1>5. w - 1 \in Nat /\ w - 1 \in lo .. v /\ w - 1 \notin Bad
  BY <1>1, <1>2, <1>4
<1>6. f[w - 1] = g[w - 1]
  BY <1>5
<1> QED
  BY <1>2, <1>3, <1>6

\* What MappedTo gathers, entry by entry.
LEMMA MappedIs ==
    ASSUME NEW s \in SpaceRec, NEW lo \in Nat, NEW hi \in Nat, lo <= hi, hi <= HeapMax
    PROVE  \E f \in [lo .. hi -> Seq(Pages)] :
             /\ \A v \in lo .. hi : f[v] = MappedTo(s, lo, v)
             /\ Gathers(f, s, lo, hi)
<1>1. PICK f \in [lo .. hi -> Seq(Pages)] : Gathers(f, s, lo, hi)
  BY GathersExists
<1>2. ASSUME NEW v \in lo .. hi PROVE f[v] = MappedTo(s, lo, v)
  <2>1. v \in Nat /\ lo <= v /\ v <= HeapMax
    BY SpaceAssumption
  <2>2. \E g : g = [w \in lo .. v |->
            IF w = lo THEN <<>>
            ELSE IF s.pte[w - 1] = NoPte THEN g[w - 1] ELSE Append(g[w - 1], s.pte[w - 1].page)]
    <3>1. PICK h : Gathers(h, s, lo, v)
      BY <2>1, GathersExists
    <3>2. h = [w \in lo .. v |->
            IF w = lo THEN <<>>
            ELSE IF s.pte[w - 1] = NoPte THEN h[w - 1] ELSE Append(h[w - 1], s.pte[w - 1].page)]
      BY <3>1 DEF Gathers
    <3> QED
      BY <3>2
  <2>3. PICK c : c = CHOOSE g : g = [w \in lo .. v |->
            IF w = lo THEN <<>>
            ELSE IF s.pte[w - 1] = NoPte THEN g[w - 1] ELSE Append(g[w - 1], s.pte[w - 1].page)]
    OBVIOUS
  <2>4. c = [w \in lo .. v |->
            IF w = lo THEN <<>>
            ELSE IF s.pte[w - 1] = NoPte THEN c[w - 1] ELSE Append(c[w - 1], s.pte[w - 1].page)]
    BY <2>2, <2>3
  <2>5. Gathers(c, s, lo, v)
    BY <2>4 DEF Gathers
  <2>6. MappedTo(s, lo, v) = c[v]
    BY <2>3 DEF MappedTo
  <2>7. v \in lo .. v /\ v <= hi
    BY <2>1
  <2>8. c[v] = f[v]
    BY <1>1, <2>1, <2>5, <2>7, GathersAgree
  <2> QED
    BY <2>6, <2>8
<1> QED
  BY <1>1, <1>2

\* What the entries lo .. hi - 1 map.
Within(V, lo, hi) == {v \in V : lo <= v /\ v < hi}
PagesOf(s, V) == {s.pte[v].page : v \in V}

LEMMA WithinNext ==
    ASSUME NEW V, V \subseteq VAs, NEW lo \in Nat, NEW w \in VAs, lo <= w
    PROVE  /\ w \in V => Within(V, lo, w + 1) = Within(V, lo, w) \cup {w}
           /\ w \notin V => Within(V, lo, w + 1) = Within(V, lo, w)
           /\ w \notin Within(V, lo, w)
<1>1. V \subseteq Int /\ w \in Int
  BY SpaceAssumption DEF VAs
<1>2. \A v \in V : v < w + 1 <=> v < w \/ v = w
  BY <1>1
<1>3. ASSUME w \in V PROVE Within(V, lo, w + 1) = Within(V, lo, w) \cup {w}
  BY <1>1, <1>2, <1>3 DEF Within
<1>4. ASSUME w \notin V PROVE Within(V, lo, w + 1) = Within(V, lo, w)
  <2>1. \A v \in V : v # w
    BY <1>4
  <2> QED
    BY <1>2, <2>1 DEF Within
<1>5. w \notin Within(V, lo, w)
  BY <1>1 DEF Within
<1> QED
  BY <1>3, <1>4, <1>5

LEMMA FiniteVAs == ASSUME NEW V, V \subseteq VAs PROVE IsFiniteSet(V) /\ Cardinality(V) \in Nat
<1>1. IsFiniteSet(VAs)
  BY SpaceAssumption, FS_Interval DEF VAs
<1> QED
  BY <1>1, FS_Subset, FS_CardinalityType

\* vmunmap, or free_pgdir of the heap: the pages of the process are free
\* again, and the zero page has lost one reference for each of its entries.
LEMMA FreeMapped ==
    ASSUME NEW m, MemOk(m), NEW s \in SpaceRec, EntriesOk(s), HeapPages(s) \cap m.free = {},
           NEW lo \in Nat, NEW hi \in Nat, lo <= hi, hi <= HeapMax
    PROVE  /\ MappedTo(s, lo, hi) \in Seq(Pages)
           /\ MemOk(FreeAll(m, MappedTo(s, lo, hi)))
           /\ FreeAll(m, MappedTo(s, lo, hi)).free = m.free \cup PagesOf(s, Within(Private(s), lo, hi))
           /\ FreeAll(m, MappedTo(s, lo, hi)).refs[ZeroPage]
                = m.refs[ZeroPage] - Cardinality(Within(Zeros(s), lo, hi))
<1>1. PICK f \in [lo .. hi -> Seq(Pages)] : /\ \A v \in lo .. hi : f[v] = MappedTo(s, lo, v)
                                            /\ Gathers(f, s, lo, hi)
  BY MappedIs
<1>2. m \in MemRec /\ m.refs[ZeroPage] \in Int
  BY PagesAssumption DEF MemOk, MemRec, ZeroPage
<1> DEFINE Good(v) ==
               /\ MemOk(FreeAll(m, f[v]))
               /\ FreeAll(m, f[v]).free = m.free \cup PagesOf(s, Within(Private(s), lo, v))
               /\ FreeAll(m, f[v]).refs[ZeroPage]
                    = m.refs[ZeroPage] - Cardinality(Within(Zeros(s), lo, v))
           Bad == {v \in Nat : v \in lo .. hi /\ ~ Good(v)}
<1>3. Good(lo)
  <2>1. lo \in lo .. hi
    OBVIOUS
  <2>2. f[lo] = <<>>
    BY <1>1, <2>1, GathersAt
  <2>3. FreeAll(m, f[lo]) = m
    BY <1>2, <2>2, FreeAllEmpty
  <2>4. \A v \in VAs : ~ (lo <= v /\ v < lo)
    BY SpaceAssumption DEF VAs
  <2>5. Within(Private(s), lo, lo) = {} /\ Within(Zeros(s), lo, lo) = {}
    BY <2>4 DEF Within, Private, Zeros
  <2>6. Cardinality(Within(Zeros(s), lo, lo)) = 0
    BY <2>5, FS_EmptySet
  <2>7. PagesOf(s, Within(Private(s), lo, lo)) = {}
    BY <2>5 DEF PagesOf
  <2> QED
    BY <1>2, <2>3, <2>6, <2>7
<1>4. ASSUME NEW w \in lo .. hi - 1, Good(w) PROVE Good(w + 1)
  <2>1. w \in lo .. hi /\ w + 1 \in lo .. hi /\ w + 1 # lo /\ w + 1 - 1 = w /\ w \in VAs /\ lo <= w
    BY SpaceAssumption DEF VAs
  <2>2. f[w + 1] = IF s.pte[w] = NoPte THEN f[w] ELSE Append(f[w], s.pte[w].page)
    <3>1. f[w + 1] = IF w + 1 = lo THEN <<>> ELSE IF s.pte[w + 1 - 1] = NoPte THEN f[w + 1 - 1]
                     ELSE Append(f[w + 1 - 1], s.pte[w + 1 - 1].page)
      BY <1>1, <2>1, GathersAt
    <3> QED
      BY <2>1, <3>1
  <2>3. s.pte[w] \in Entry \cup {NoPte} /\ f[w] \in Seq(Pages)
    BY <2>1 DEF SpaceRec
  <2> PICK P, Z : P = Private(s) /\ Z = Zeros(s)
    OBVIOUS
  <2>4. P \subseteq VAs /\ Z \subseteq VAs
    BY DEF Private, Zeros
  <2> PICK a, b : a = FreeAll(m, f[w]) /\ b = FreeAll(m, f[w + 1])
    OBVIOUS
  <2>5. /\ MemOk(a) /\ a.free = m.free \cup PagesOf(s, Within(P, lo, w))
        /\ a.refs[ZeroPage] = m.refs[ZeroPage] - Cardinality(Within(Z, lo, w))
    BY <1>4
  <2>6. \A V \in {P, Z} :
            /\ w \in V => Within(V, lo, w + 1) = Within(V, lo, w) \cup {w}
            /\ w \notin V => Within(V, lo, w + 1) = Within(V, lo, w)
            /\ w \notin Within(V, lo, w)
    <3> SUFFICES ASSUME NEW V \in {P, Z}
                 PROVE  /\ w \in V => Within(V, lo, w + 1) = Within(V, lo, w) \cup {w}
                        /\ w \notin V => Within(V, lo, w + 1) = Within(V, lo, w)
                        /\ w \notin Within(V, lo, w)
      OBVIOUS
    <3>1. V \subseteq VAs /\ w \in VAs /\ lo <= w
      BY <2>1, <2>4
    <3> HIDE DEF Bad
    <3> QED
      BY <3>1, WithinNext, Zenon
  <2>7. SUFFICES /\ MemOk(b) /\ b.free = m.free \cup PagesOf(s, Within(P, lo, w + 1))
                  /\ b.refs[ZeroPage] = m.refs[ZeroPage] - Cardinality(Within(Z, lo, w + 1))
    OBVIOUS
  <2> HIDE DEF Good
  <2>8. CASE s.pte[w] = NoPte
    <3>1. w \notin Private(s) /\ w \notin Zeros(s)
      BY <2>8 DEF Private, Zeros
    <3>2. /\ Within(P, lo, w + 1) = Within(P, lo, w)
          /\ Within(Z, lo, w + 1) = Within(Z, lo, w)
      BY <2>6, <3>1
    <3> QED
      BY <2>5, <2>2, <2>8, <3>2
  <2>9. ASSUME s.pte[w] # NoPte
        PROVE  /\ b = FreePage(a, s.pte[w].page)
               /\ s.pte[w].page \in Pages
    <3>1. s.pte[w].page \in Pages
      BY <2>3, <2>9 DEF Entry
    <3> QED
      BY <1>2, <2>2, <2>3, <2>9, <3>1, FreeAllAppend
  <2>10. CASE s.pte[w] # NoPte /\ s.pte[w].page = ZeroPage
    <3>1. w \notin Private(s) /\ w \in Zeros(s)
      BY <2>1, <2>10 DEF Private, Zeros
    <3>2. /\ Within(P, lo, w + 1) = Within(P, lo, w)
          /\ Within(Z, lo, w + 1) = Within(Z, lo, w) \cup {w}
          /\ w \notin Within(Z, lo, w)
      BY <2>6, <3>1
    <3>3. IsFiniteSet(Within(Z, lo, w)) /\ Cardinality(Within(Z, lo, w)) \in Nat
      BY <2>4, FiniteVAs DEF Within
    <3>4. Cardinality(Within(Z, lo, w + 1)) = Cardinality(Within(Z, lo, w)) + 1
      BY <3>2, <3>3, FS_AddElement
    <3>5. ZeroMoved(a, b, -1)
      BY <2>5, <2>9, <2>10, ZeroFacts
    <3>6. MemOk(b) /\ b.free = a.free /\ b.refs[ZeroPage] = a.refs[ZeroPage] + -1
      BY <3>5 DEF ZeroMoved
    <3>7. b.refs[ZeroPage] = m.refs[ZeroPage] - Cardinality(Within(Z, lo, w + 1))
      <4>1. PICK r \in Int, c \in Nat : r = m.refs[ZeroPage] /\ c = Cardinality(Within(Z, lo, w))
        BY <1>2, <3>3
      <4>2. a.refs[ZeroPage] = r - c
        BY <2>5, <4>1
      <4>3. r - c + -1 = r - (c + 1)
        OBVIOUS
      <4> QED
        BY <3>4, <3>6, <4>1, <4>2, <4>3
    <3> QED
      BY <2>5, <3>2, <3>6, <3>7
  <2>11. CASE s.pte[w] # NoPte /\ s.pte[w].page # ZeroPage
    <3>1. w \in Private(s) /\ w \notin Zeros(s)
      BY <2>1, <2>11 DEF Private, Zeros
    <3>2. /\ Within(P, lo, w + 1) = Within(P, lo, w) \cup {w}
          /\ Within(Z, lo, w + 1) = Within(Z, lo, w)
          /\ w \notin Within(P, lo, w)
      BY <2>6, <3>1
    <3>3. PagesOf(s, Within(P, lo, w + 1)) = PagesOf(s, Within(P, lo, w)) \cup {s.pte[w].page}
      BY <3>2 DEF PagesOf
    <3>4. s.pte[w].page \notin PagesOf(s, Within(P, lo, w))
      <4>1. ASSUME NEW v \in Within(P, lo, w) PROVE s.pte[v].page # s.pte[w].page
        <5>1. v \in Private(s) /\ v # w
          BY <3>2 DEF Within
        <5> QED
          BY <3>1, <5>1 DEF EntriesOk
      <4> QED
        BY <4>1 DEF PagesOf
    <3>5. s.pte[w].page \notin m.free
      BY <3>1 DEF HeapPages
    <3>6. s.pte[w].page \notin a.free
      BY <2>5, <3>4, <3>5
    <3>7. s.pte[w].page \in Nonzero
      BY <2>9, <2>11 DEF Nonzero
    <3>8. /\ MemOk(b)
          /\ b.free = a.free \cup {s.pte[w].page}
          /\ b.refs[ZeroPage] = a.refs[ZeroPage]
      <4>1. PICK q \in Nonzero : q = s.pte[w].page
        BY <3>7
      <4>2. b = FreePage(a, q) /\ q \notin a.free /\ MemOk(a)
        BY <2>5, <2>9, <2>11, <3>6, <4>1
      <4>3. MemOk(b) /\ b.free = a.free \cup {q} /\ b.refs[ZeroPage] = a.refs[ZeroPage]
        BY <4>2, FreeOneFacts
      <4> QED
        BY <4>1, <4>3
    <3> QED
      BY <2>5, <3>2, <3>3, <3>8
  <2> QED
    BY <2>8, <2>10, <2>11
<1>5. Good(hi)
  <2> HIDE DEF Good
  <2>1. hi \in lo .. hi
    OBVIOUS
  <2> SUFFICES ASSUME Bad # {} PROVE FALSE
    BY <2>1
  <2>2. PICK v \in Bad : \A j \in Bad : v <= j
    BY LeastExists
  <2>3. v # lo
    BY <1>3
  <2>4. v - 1 \in lo .. hi - 1 /\ v - 1 \in lo .. hi /\ v - 1 \in Nat /\ v - 1 \notin Bad /\ v - 1 + 1 = v
    BY <2>2, <2>3
  <2>5. Good(v - 1)
    BY <2>4
  <2>6. Good(v - 1 + 1)
    BY <1>4, <2>4, <2>5
  <2> QED
    BY <2>2, <2>4, <2>6
<1>6. f[hi] = MappedTo(s, lo, hi) /\ f[hi] \in Seq(Pages)
  BY <1>1
<1> QED
  BY <1>5, <1>6

-----------------------------------------------------------------------------
(* The tables of get_pte *)

TableStep(x) == [m |-> AllocPage(x.m), ts |-> Append(x.ts, NextPage(x.m))]
Chain(f, a, n) == f = [i \in 0 .. n |-> IF i = 0 THEN a ELSE TableStep(f[i - 1])]
HasChain(a, n) == \E f : Chain(f, a, n)

LEMMA ChainExists == ASSUME NEW a, NEW n \in Nat PROVE HasChain(a, n)
<1> DEFINE Bad == {k \in Nat : ~ HasChain(a, k)}
<1> SUFFICES ASSUME Bad # {} PROVE FALSE
  OBVIOUS
<1>1. PICK k \in Bad : \A j \in Bad : k <= j
  BY LeastExists
<1>2. k # 0
  <2>1. PICK f : f = [i \in 0 .. 0 |-> a]
    OBVIOUS
  <2>2. f = [i \in 0 .. 0 |-> IF i = 0 THEN a ELSE TableStep(f[i - 1])]
    BY <2>1
  <2> QED
    BY <2>2 DEF Chain, HasChain
<1>3. k \in Nat /\ k - 1 \in Nat /\ k - 1 \notin Bad
  BY <1>1, <1>2
<1>4. PICK f : Chain(f, a, k - 1)
  BY <1>3 DEF HasChain
<1>5. PICK e : e = TableStep(f[k - 1])
  OBVIOUS
<1>6. PICK g : g = [i \in 0 .. k |-> IF i = k THEN e ELSE f[i]]
  OBVIOUS
<1>7. \A i \in 0 .. k - 1 : g[i] = f[i]
  BY <1>3, <1>6
<1>8. ASSUME NEW i \in 0 .. k PROVE g[i] = IF i = 0 THEN a ELSE TableStep(g[i - 1])
  <2>1. CASE i = k
    <3>1. g[i] = e /\ g[i - 1] = f[i - 1]
      BY <1>3, <1>6, <1>7, <2>1
    <3> QED
      BY <1>2, <1>5, <2>1, <3>1
  <2>2. CASE i # k
    <3>1. i \in 0 .. k - 1 /\ g[i] = f[i]
      BY <1>3, <1>6, <2>2
    <3>2. f[i] = IF i = 0 THEN a ELSE TableStep(f[i - 1])
      BY <1>4, <3>1 DEF Chain
    <3>3. i # 0 => g[i - 1] = f[i - 1]
      BY <1>3, <1>7, <3>1
    <3> QED
      BY <3>1, <3>2, <3>3
  <2> QED
    BY <2>1, <2>2
<1>9. Chain(g, a, k)
  BY <1>6, <1>8 DEF Chain
<1> QED
  BY <1>1, <1>9 DEF HasChain

\* i pages have become tables.
TablesGrown(m, ts, x, i) ==
    /\ MemOk(x.m) /\ x.m.refs[ZeroPage] = m.refs[ZeroPage]
    /\ x.ts \in Seq(Pages) /\ Len(x.ts) = Len(ts) + i /\ Distinct(x.ts)
    /\ Members(x.ts) \subseteq Nonzero /\ Members(x.ts) \cap x.m.free = {}
    /\ Members(ts) \subseteq Members(x.ts) /\ x.m.free \subseteq m.free
    /\ Members(x.ts) \cup x.m.free = Members(ts) \cup m.free
    /\ Cardinality(x.m.free) = Cardinality(m.free) - i

LEMMA TableStepFacts ==
    ASSUME NEW m, NEW ts \in Seq(Pages), m.free \subseteq Pages, NEW x, NEW i \in Nat, TablesGrown(m, ts, x, i),
           i < Cardinality(m.free)
    PROVE  TablesGrown(m, ts, TableStep(x), i + 1)
<1>1. PICK y : y = TableStep(x)
  OBVIOUS
<1>2. PICK p : p = NextPage(x.m)
  OBVIOUS
<1>3. y.m = AllocPage(x.m) /\ y.ts = Append(x.ts, p)
  BY <1>1, <1>2 DEF TableStep
<1>4. x.m.free \subseteq Pages /\ MemOk(x.m)
  BY DEF TablesGrown, MemOk, MemRec
<1>5. Cardinality(m.free) \in Nat /\ Cardinality(x.m.free) = Cardinality(m.free) - i
  BY FreeSetFinite DEF TablesGrown
<1>6. x.m.free # {}
  <2>1. Cardinality({}) = 0
    BY FS_EmptySet
  <2>2. Cardinality(x.m.free) # 0
    BY <1>5
  <2> QED
    BY <2>1, <2>2
<1>7. /\ p \in x.m.free /\ p \in Nonzero /\ MemOk(y.m)
      /\ y.m.free = x.m.free \ {p} /\ y.m.refs[ZeroPage] = x.m.refs[ZeroPage]
  BY <1>2, <1>3, <1>4, <1>6, AllocFacts
<1>8. Cardinality(y.m.free) = Cardinality(x.m.free) - 1
  <2>1. PICK S : S = x.m.free
    OBVIOUS
  <2>2. IsFiniteSet(S) /\ p \in S
    BY <1>4, <1>7, <2>1, FreeSetFinite
  <2>3. Cardinality(S \ {p}) = Cardinality(S) - 1
    BY <2>2, FS_RemoveElement
  <2> QED
    BY <1>7, <2>1, <2>3
<1>9. x.ts \in Seq(Pages) /\ Len(x.ts) = Len(ts) + i /\ Distinct(x.ts) /\ Members(x.ts) \cap x.m.free = {}
  BY DEF TablesGrown
<1>10. p \in Pages /\ p \notin Members(x.ts)
  BY <1>7, <1>9 DEF Nonzero
<1>11. /\ y.ts \in Seq(Pages) /\ Len(y.ts) = Len(x.ts) + 1 /\ Distinct(y.ts)
       /\ Members(y.ts) = Members(x.ts) \cup {p}
  <2>1. y.ts \in Seq(Pages) /\ Len(y.ts) = Len(x.ts) + 1
    BY <1>3, <1>9, <1>10
  <2> QED
    BY <1>3, <1>9, <1>10, <2>1, AppendFacts
<1>12. Len(y.ts) = Len(ts) + (i + 1) /\ Cardinality(y.m.free) = Cardinality(m.free) - (i + 1)
  <2>1. Len(ts) \in Nat
    OBVIOUS
  <2> QED
    BY <1>5, <1>8, <1>9, <1>11, <2>1
<1>13. Members(y.ts) \subseteq Nonzero /\ Members(ts) \subseteq Members(y.ts)
  BY <1>7, <1>11 DEF TablesGrown
<1>14. Members(y.ts) \cap y.m.free = {}
  BY <1>7, <1>9, <1>11
<1>15. Members(y.ts) \cup y.m.free = Members(ts) \cup m.free
  <2>1. Members(x.ts) \cup x.m.free = Members(ts) \cup m.free
    BY DEF TablesGrown
  <2> QED
    BY <1>7, <1>11, <2>1
<1>16. y.m.free \subseteq m.free /\ y.m.refs[ZeroPage] = m.refs[ZeroPage]
  BY <1>7 DEF TablesGrown
<1> QED
  BY <1>1, <1>7, <1>11, <1>12, <1>13, <1>14, <1>15, <1>16 DEF TablesGrown

\* get_pte fills the levels that are missing with free pages.
LEMMA TablesForFacts ==
    ASSUME NEW m, MemOk(m), NEW s \in SpaceRec, Len(s.tables) <= Depth,
           Distinct(s.tables), Members(s.tables) \subseteq Nonzero,
           Members(s.tables) \cap m.free = {},
           Cardinality(m.free) >= Depth - Len(s.tables)
    PROVE  TablesGrown(m, s.tables, TablesFor(m, s), Depth - Len(s.tables))
<1>1. PICK n : n = Depth - Len(s.tables)
  OBVIOUS
<1>2. s.tables \in Seq(Pages) /\ Len(s.tables) \in Nat /\ n \in Nat
  BY <1>1, SpaceAssumption DEF SpaceRec
<1>3. PICK a : a = [m |-> m, ts |-> s.tables]
  OBVIOUS
<1>4. PICK h : Chain(h, a, n)
  BY <1>2, ChainExists DEF HasChain
<1>5. h = [i \in 0 .. n |-> IF i = 0 THEN [m |-> m, ts |-> s.tables]
             ELSE [m |-> AllocPage(h[i - 1].m), ts |-> Append(h[i - 1].ts, NextPage(h[i - 1].m))]]
  BY <1>3, <1>4 DEF Chain, TableStep
<1>6. PICK f : f = CHOOSE g : g = [i \in 0 .. n |-> IF i = 0 THEN [m |-> m, ts |-> s.tables]
             ELSE [m |-> AllocPage(g[i - 1].m), ts |-> Append(g[i - 1].ts, NextPage(g[i - 1].m))]]
  OBVIOUS
<1>7. f = [i \in 0 .. n |-> IF i = 0 THEN [m |-> m, ts |-> s.tables]
             ELSE [m |-> AllocPage(f[i - 1].m), ts |-> Append(f[i - 1].ts, NextPage(f[i - 1].m))]]
  BY <1>5, <1>6
<1>8. TablesFor(m, s) = f[n]
  BY <1>1, <1>6 DEF TablesFor
<1>9. f = [i \in 0 .. n |-> IF i = 0 THEN a ELSE TableStep(f[i - 1])]
  BY <1>3, <1>7 DEF TableStep
<1>10. \A i \in 0 .. n : f[i] = IF i = 0 THEN a ELSE TableStep(f[i - 1])
  BY <1>9
<1>11. m.free \subseteq Pages /\ Cardinality(m.free) \in Nat
  BY FreeSetFinite DEF MemOk, MemRec
<1> DEFINE Good(i) == TablesGrown(m, s.tables, f[i], i)
           Bad == {i \in Nat : i <= n /\ ~ Good(i)}
<1>12. Good(0)
  <2>1. f[0] = a
    BY <1>2, <1>10
  <2>2. a.m = m /\ a.ts = s.tables
    BY <1>3
  <2>3. Len(s.tables) = Len(s.tables) + 0 /\ Cardinality(m.free) = Cardinality(m.free) - 0
    BY <1>2, <1>11
  <2> QED
    BY <1>2, <2>1, <2>2, <2>3 DEF TablesGrown
<1>13. ASSUME NEW i \in 1 .. n, Good(i - 1) PROVE Good(i)
  <2>1. f[i] = TableStep(f[i - 1]) /\ i - 1 \in Nat /\ i - 1 + 1 = i
    BY <1>10
  <2>2. i - 1 < Cardinality(m.free)
    BY <1>1, <1>2, <1>11
  <2>3. TablesGrown(m, s.tables, TableStep(f[i - 1]), i - 1 + 1)
    BY <1>2, <1>11, <1>13, <2>1, <2>2, TableStepFacts
  <2> QED
    BY <2>1, <2>3
<1> HIDE DEF Good
<1>14. Good(n)
  <2> SUFFICES ASSUME Bad # {} PROVE FALSE
    BY <1>2
  <2>1. PICK i \in Bad : \A j \in Bad : i <= j
    BY LeastExists
  <2>2. i # 0
    BY <1>12
  <2>3. i \in 1 .. n /\ i - 1 \in Nat /\ i - 1 <= n /\ i - 1 \notin Bad
    BY <1>2, <2>1, <2>2
  <2> QED
    BY <1>13, <2>1, <2>3
<1> QED
  BY <1>1, <1>8, <1>14 DEF Good

-----------------------------------------------------------------------------
(* The pages of one process change *)

ZerosElsewhere(sp, o) == UNION {{q} \X Zeros(sp[q]) : q \in Owners \ {o}}

LEMMA ZerosFinite ==
    ASSUME NEW V, V \subseteq VAs, NEW o \in Owners
    PROVE  IsFiniteSet({o} \X V) /\ Cardinality({o} \X V) = Cardinality(V)
<1>1. IsFiniteSet(V) /\ Cardinality(V) \in Nat
  BY FiniteVAs
<1>2. IsFiniteSet({o}) /\ Cardinality({o}) = 1
  BY FS_Singleton
<1>3. PICK O : O = {o}
  OBVIOUS
<1>4. IsFiniteSet(O \X V) /\ Cardinality(O \X V) = Cardinality(O) * Cardinality(V)
  BY <1>1, <1>2, <1>3, FS_Product
<1>5. Cardinality(O) * Cardinality(V) = Cardinality(V)
  BY <1>1, <1>2, <1>3
<1> QED
  BY <1>3, <1>4, <1>5

LEMMA ZeroUsesSplit ==
    ASSUME NEW sp, NEW o \in Owners
    PROVE  /\ ZeroUses(sp) = ZerosElsewhere(sp, o) \cup ({o} \X Zeros(sp[o]))
           /\ ZerosElsewhere(sp, o) \cap ({o} \X Zeros(sp[o])) = {}
           /\ IsFiniteSet(ZerosElsewhere(sp, o))
           /\ Cardinality(ZeroUses(sp)) = Cardinality(ZerosElsewhere(sp, o)) + Cardinality(Zeros(sp[o]))
<1>1. ZeroUses(sp) = ZerosElsewhere(sp, o) \cup ({o} \X Zeros(sp[o]))
  BY DEF ZeroUses, ZerosElsewhere
<1>2. ZerosElsewhere(sp, o) \cap ({o} \X Zeros(sp[o])) = {}
  BY DEF ZerosElsewhere
<1>3. ZerosElsewhere(sp, o) \subseteq Owners \X VAs
  BY DEF ZerosElsewhere, Zeros
<1>4. IsFiniteSet(Owners \X VAs)
  <2>1. IsFiniteSet(VAs)
    BY FiniteVAs
  <2> QED
    BY <2>1, SpaceAssumption, FS_Product
<1>5. IsFiniteSet(ZerosElsewhere(sp, o))
  BY <1>3, <1>4, FS_Subset
<1>6. PICK R, T : R = ZerosElsewhere(sp, o) /\ T = {o} \X Zeros(sp[o])
  OBVIOUS
<1>7. IsFiniteSet(T) /\ Cardinality(T) = Cardinality(Zeros(sp[o]))
  BY <1>6, ZerosFinite DEF Zeros
<1>8. Cardinality(R \cup T) = Cardinality(R) + Cardinality(T) - Cardinality(R \cap T)
  BY <1>5, <1>6, <1>7, FS_Union
<1>9. Cardinality(R \cap T) = 0
  BY <1>2, <1>6, FS_EmptySet
<1>10. Cardinality(R) \in Nat /\ Cardinality(T) \in Nat
  BY <1>5, <1>6, <1>7, FS_CardinalityType
<1>11. Cardinality(R \cup T) = Cardinality(R) + Cardinality(T)
  BY <1>8, <1>9, <1>10
<1> QED
  BY <1>1, <1>2, <1>5, <1>6, <1>7, <1>11

\* The pages that a process gains were free or its own, those that it loses
\* are free, and the zero page has as many references more as entries; some
\* may be lost when a heap has wrapped.
LEMMA OwnerChanges ==
    ASSUME NEW w, NEW m, NEW sp, NEW P, PagesOk(w, m, sp, P), NEW o \in Owners, NEW n, NEW s,
           NEW x \in BOOLEAN, w => x,
           MemOk(n), SpaceOk(s), Held(s) \cap n.free = {}, x \/ BelowEnd(s),
           \/ Held(s) \cup n.free = Held(sp[o]) \cup m.free
           \/ x /\ Held(s) \cup n.free \subseteq Held(sp[o]) \cup m.free,
           \/ n.refs[ZeroPage] + Cardinality(Zeros(sp[o])) = m.refs[ZeroPage] + Cardinality(Zeros(s))
           \/ x /\ n.refs[ZeroPage] + Cardinality(Zeros(sp[o])) >= m.refs[ZeroPage] + Cardinality(Zeros(s))
    PROVE  PagesOk(x, n, [sp EXCEPT ![o] = s], P)
<1>1. PICK sq : sq = [sp EXCEPT ![o] = s]
  OBVIOUS
<1>2. sp \in [Owners -> SpaceRec] /\ s \in SpaceRec
  BY DEF PagesOk, SpacesOk, SpaceOk
<1>3. sq[o] = s /\ \A q \in Owners : q # o => sq[q] = sp[q]
  BY <1>1, <1>2
<1>4. SpacesOk(sq)
  <2>1. sq \in [Owners -> SpaceRec]
    BY <1>1, <1>2
  <2>2. \A q \in Owners : SpaceOk(sq[q])
    BY <1>3 DEF PagesOk, SpacesOk
  <2> QED
    BY <2>1, <2>2 DEF SpacesOk
<1>5. /\ UsesApart(m, sp, P) /\ NoneLost(w, m, sp, P) /\ ZeroCounted(w, m, sp) /\ SpacesOk(sp)
      /\ MemOk(m) /\ AllBelowEnd(w, sp) /\ w \in BOOLEAN
  BY DEF PagesOk
<1>6. PICK A, B, F, E : A = Held(sp[o]) /\ B = Held(s) /\ F = m.free /\ E = n.free
  OBVIOUS
<1>7. B \cup E \subseteq A \cup F /\ B \cap E = {} /\ A \cap F = {} /\ A \cap P = {} /\ P \cap F = {}
  BY <1>5, <1>6 DEF UsesApart
<1>8. UsesApart(n, sq, P)
  <2>1. P \subseteq Nonzero /\ P \cap E = {} /\ B \cap P = {}
    BY <1>5, <1>7 DEF UsesApart
  <2>2. ASSUME NEW q \in Owners, q # o
        PROVE  /\ Held(sp[q]) \cap E = {} /\ Held(sp[q]) \cap P = {} /\ Held(sp[q]) \cap B = {}
    <3>1. Held(sp[q]) \cap A = {} /\ Held(sp[q]) \cap F = {} /\ Held(sp[q]) \cap P = {}
      BY <1>5, <1>6, <2>2 DEF UsesApart
    <3> QED
      BY <1>7, <3>1
  <2>3. \A q \in Owners : Held(sq[q]) \cap n.free = {} /\ Held(sq[q]) \cap P = {}
    BY <1>3, <1>6, <1>7, <2>1, <2>2
  <2>4. ASSUME NEW q \in Owners, NEW r \in Owners, q # r PROVE Held(sq[q]) \cap Held(sq[r]) = {}
    <3>1. CASE q = o
      <4>1. Held(sp[r]) \cap B = {} /\ sq[r] = sp[r]
        BY <1>3, <2>2, <2>4, <3>1
      <4> QED
        BY <1>3, <1>6, <3>1, <4>1
    <3>2. CASE r = o
      <4>1. Held(sp[q]) \cap B = {} /\ sq[q] = sp[q]
        BY <1>3, <2>2, <2>4, <3>2
      <4> QED
        BY <1>3, <1>6, <3>2, <4>1
    <3>3. CASE q # o /\ r # o
      BY <1>3, <1>5, <2>4, <3>3 DEF UsesApart
    <3> QED
      BY <3>1, <3>2, <3>3
  <2> QED
    BY <1>6, <2>1, <2>3, <2>4 DEF UsesApart
<1>9. NoneLost(x, n, sq, P)
  <2> SUFFICES ASSUME ~ x, NEW p \in Nonzero
               PROVE  p \in n.free \/ p \in P \/ \E q \in Owners : p \in Held(sq[q])
    BY DEF NoneLost
  <2>1. p \in F \/ p \in P \/ \E q \in Owners : p \in Held(sp[q])
    BY <1>5, <1>6 DEF NoneLost
  <2>4. B \cup E = A \cup F
    BY <1>6
  <2>2. CASE p \in F \/ p \in A
    BY <1>3, <1>6, <2>4, <2>2
  <2>3. CASE \E q \in Owners : p \in Held(sp[q]) /\ q # o
    BY <1>3, <2>3
  <2> QED
    BY <1>6, <2>1, <2>2, <2>3
<1>10. ZeroCounted(x, n, sq)
  <2>1. ZerosElsewhere(sq, o) = ZerosElsewhere(sp, o)
    BY <1>3 DEF ZerosElsewhere
  <2>2. PICK R, c, d : /\ R = Cardinality(ZerosElsewhere(sp, o)) /\ c = Cardinality(Zeros(sp[o]))
                       /\ d = Cardinality(Zeros(s))
    OBVIOUS
  <2>3. R \in Nat /\ c \in Nat /\ d \in Nat
    <3>1. c \in Nat /\ d \in Nat
      BY <2>2, FiniteVAs DEF Zeros
    <3>2. R \in Nat
      BY <2>2, ZeroUsesSplit, FS_CardinalityType
    <3> QED
      BY <3>1, <3>2
  <2>4. Cardinality(ZeroUses(sp)) = R + c /\ Cardinality(ZeroUses(sq)) = R + d
    BY <1>3, <2>1, <2>2, ZeroUsesSplit
  <2>5. PICK k, l : k = m.refs[ZeroPage] /\ l = n.refs[ZeroPage]
    OBVIOUS
  <2>6. k \in Int /\ l \in Int
    BY <1>5, <2>5, PagesAssumption DEF MemOk, MemRec, ZeroPage
  <2>7. k >= 1 + (R + c) /\ (w \/ k = 1 + (R + c))
    BY <1>5, <2>4, <2>5 DEF ZeroCounted
  <2>8. l + c = k + d \/ (x /\ l + c >= k + d)
    BY <2>2, <2>5
  <2>9. l >= 1 + (R + d)
    BY <2>3, <2>6, <2>7, <2>8
  <2>10. x \/ l = 1 + (R + d)
    <3>1. CASE ~ x
      <4>1. k = 1 + (R + c) /\ l + c = k + d
        BY <2>7, <2>8, <3>1
      <4> QED
        BY <2>3, <2>6, <4>1
    <3> QED
      BY <3>1
  <2> QED
    BY <2>4, <2>5, <2>9, <2>10 DEF ZeroCounted
<1>11. AllBelowEnd(x, sq)
  BY <1>3, <1>5 DEF AllBelowEnd
<1> QED
  BY <1>1, <1>4, <1>8, <1>9, <1>10, <1>11 DEF PagesOk

LEMMA OwnerKeeps ==
    ASSUME NEW w, NEW m, NEW sp, NEW P, PagesOk(w, m, sp, P), NEW o \in Owners, NEW n, NEW s,
           MemOk(n), SpaceOk(s), Held(s) \cap n.free = {}, w \/ BelowEnd(s),
           Held(s) \cup n.free = Held(sp[o]) \cup m.free,
           n.refs[ZeroPage] + Cardinality(Zeros(sp[o])) = m.refs[ZeroPage] + Cardinality(Zeros(s))
    PROVE  PagesOk(w, n, [sp EXCEPT ![o] = s], P)
<1>1. PICK x \in BOOLEAN : x = w
  BY DEF PagesOk
<1>2. w => x
  BY <1>1
<1>3. x \/ BelowEnd(s)
  BY <1>1
<1>4. PagesOk(x, n, [sp EXCEPT ![o] = s], P)
  BY <1>2, <1>3, OwnerChanges
<1> QED
  BY <1>1, <1>4

-----------------------------------------------------------------------------
(* The operations of a process *)

LEMMA DeadFacts ==
    /\ SpaceOk(Dead) /\ Held(Dead) = {} /\ Zeros(Dead) = {} /\ Cardinality(Zeros(Dead)) = 0
    /\ Private(Dead) = {} /\ Dead.tables = <<>> /\ BelowEnd(Dead)
<1>1. Dead.pte = [v \in VAs |-> NoPte] /\ Dead.state = "none" /\ Dead.tables = <<>>
  BY DEF Dead
<1>2. Private(Dead) = {} /\ Zeros(Dead) = {}
  BY <1>1 DEF Private, Zeros
<1>3. Held(Dead) = {}
  BY <1>1 DEF Held
<1>4. Dead \in SpaceRec
  <2>1. [v \in VAs |-> NoPte] \in [VAs -> Entry \cup {NoPte}] /\ <<>> \in Seq(Pages) /\ 0 \in Nat
    BY SpaceAssumption
  <2> QED
    BY <2>1 DEF Dead, SpaceRec
<1>5. EntriesOk(Dead)
  BY <1>1, <1>2 DEF EntriesOk
<1>6. Cardinality(Zeros(Dead)) = 0
  BY <1>2, FS_EmptySet
<1> QED
  BY <1>1, <1>2, <1>3, <1>4, <1>5, <1>6 DEF SpaceOk, BelowEnd

LEMMA CreateStep ==
    ASSUME NEW P, PagesOk(wrapped, mem, space, P), NEW o \in Owners, MemCreate(o)
    PROVE  PagesOk(wrapped', mem', space', P)
<1>1. PICK m, m1, m2 : m = mem /\ m1 = AllocPage(m) /\ m2 = AllocPage(m1)
  OBVIOUS
<1>2. PICK r, k : r = NextPage(m) /\ k = NextPage(m1)
  OBVIOUS
<1>3. PICK s : s = [Dead EXCEPT !.state = "live", !.root = r, !.kstack = k]
  OBVIOUS
<1>4. mem' = m2 /\ space' = [space EXCEPT ![o] = s] /\ Cardinality(m.free) >= 2 /\ space[o].state = "none"
  BY <1>1, <1>2, <1>3 DEF MemCreate
<1>5. MemOk(m) /\ m.free \subseteq Pages
  BY <1>1 DEF PagesOk, MemOk, MemRec
<1>6. m.free # {}
  <2>1. Cardinality({}) = 0
    BY FS_EmptySet
  <2> QED
    BY <1>4, <2>1
<1>7. /\ r \in m.free /\ r \in Nonzero /\ MemOk(m1) /\ m1.free = m.free \ {r}
      /\ m1.refs[ZeroPage] = m.refs[ZeroPage]
  BY <1>1, <1>2, <1>5, <1>6, AllocFacts
<1>8. m1.free # {}
  <2>1. Cardinality({}) = 0
    BY FS_EmptySet
  <2>2. PICK S : S = m.free
    OBVIOUS
  <2>3. IsFiniteSet(S) /\ Cardinality(S) \in Nat
    BY <1>5, <2>2, FreeSetFinite
  <2>4. Cardinality(S \ {r}) = Cardinality(S) - 1
    BY <1>7, <2>2, <2>3, FS_RemoveElement
  <2>5. Cardinality(S) - 1 # 0
    BY <1>4, <2>2, <2>3
  <2>6. m1.free = S \ {r}
    BY <1>7, <2>2
  <2> QED
    BY <2>1, <2>4, <2>5, <2>6
<1>9. /\ k \in m1.free /\ k \in Nonzero /\ MemOk(m2) /\ m2.free = m1.free \ {k}
      /\ m2.refs[ZeroPage] = m1.refs[ZeroPage]
  BY <1>1, <1>2, <1>7, <1>8, AllocFacts
<1>10. /\ s.state = "live" /\ s.root = r /\ s.kstack = k /\ s.tables = <<>>
       /\ s.pte = Dead.pte /\ s.heap = Dead.heap
  BY <1>3 DEF Dead
<1>11. Private(s) = {} /\ Zeros(s) = {} /\ HeapPages(s) = {} /\ Members(s.tables) = {} /\ Distinct(s.tables)
  <2>1. Private(s) = {} /\ Zeros(s) = {}
    BY <1>10, DeadFacts DEF Private, Zeros
  <2> QED
    BY <1>10, <2>1, EmptyFacts DEF HeapPages
<1>12. SpaceOk(s)
  <2>1. s \in SpaceRec
    <3>1. r \in Nat /\ k \in Nat
      BY <1>7, <1>9, PagesAssumption DEF Nonzero
    <3>2. Dead \in SpaceRec
      BY DeadFacts DEF SpaceOk
    <3> QED
      BY <1>3, <3>1, <3>2 DEF SpaceRec
  <2>2. EntriesOk(s)
    BY <1>10, <1>11, DeadFacts DEF SpaceOk, EntriesOk
  <2>3. Len(s.tables) = 0 /\ 0 <= Depth
    BY <1>10, SpaceAssumption
  <2>4. r # k
    BY <1>7, <1>9
  <2>5. PagesApart(s)
    BY <1>7, <1>9, <1>10, <1>11, <2>4 DEF PagesApart
  <2> QED
    BY <1>10, <2>1, <2>2, <2>3, <2>5 DEF SpaceOk
<1>13. Held(s) = {k, r}
  BY <1>10, <1>11 DEF Held
<1>14. space[o] = Dead
  BY <1>4 DEF PagesOk, SpacesOk, SpaceOk
<1>15. Held(space[o]) = {} /\ Cardinality(Zeros(space[o])) = 0 /\ Cardinality(Zeros(s)) = 0
  BY <1>11, <1>14, DeadFacts, FS_EmptySet
<1>16. Held(s) \cup m2.free = Held(space[o]) \cup m.free /\ Held(s) \cap m2.free = {}
  BY <1>7, <1>9, <1>13, <1>15
<1>17. m2.refs[ZeroPage] + 0 = m.refs[ZeroPage] + 0
  BY <1>7, <1>9
<1>18. PICK sp, w : sp = space /\ w = wrapped
  OBVIOUS
<1>20. BelowEnd(s) /\ wrapped' = w /\ w \in BOOLEAN
  BY <1>10, <1>18, DeadFacts DEF BelowEnd, MemCreate, PagesOk
<1>19. PagesOk(w, m2, [sp EXCEPT ![o] = s], P)
  BY <1>1, <1>9, <1>12, <1>15, <1>16, <1>17, <1>18, <1>20, OwnerChanges
<1> QED
  BY <1>4, <1>18, <1>19, <1>20

LEMMA HeapRangeNat == ASSUME NEW end \in HeapRange PROVE end \in Nat
  BY SpaceAssumption DEF HeapRange

LEMMA GrowStep ==
    ASSUME NEW P, PagesOk(wrapped, mem, space, P), NEW o \in Owners, NEW d \in Nat, SbrkGrow(o, d)
    PROVE  PagesOk(wrapped', mem', space', P)
<1>1. PICK m, sp, t, w, x : m = mem /\ sp = space /\ t = space[o] /\ w = wrapped /\ x = wrapped'
  OBVIOUS
<1>2. PICK end : end = Moved(t, d)
  OBVIOUS
<1>3. PICK s : s = [t EXCEPT !.heap = end]
  OBVIOUS
<1>4. SpaceOk(t) /\ t \in SpaceRec /\ space \in [Owners -> SpaceRec] /\ t.heap \in Nat
  BY <1>1 DEF PagesOk, SpacesOk, SpaceOk, SpaceRec
<1>5. mem' = m /\ space' = [sp EXCEPT ![o] = s] /\ t.state = "live" /\ end \in HeapRange
  BY <1>1, <1>2, <1>3, <1>4 DEF SbrkGrow
<1>6. w \in BOOLEAN /\ x \in BOOLEAN /\ (w => x) /\ (x \/ end = t.heap + d)
  BY <1>1, <1>2 DEF SbrkGrow, PagesOk
<1>7. /\ s.state = t.state /\ s.kstack = t.kstack /\ s.root = t.root /\ s.tables = t.tables
      /\ s.pte = t.pte /\ s.heap = end /\ s \in SpaceRec
  <2>1. end \in Nat
    BY <1>5, HeapRangeNat
  <2> QED
    BY <1>3, <1>4, <2>1 DEF SpaceRec
<1>8. Private(s) = Private(t) /\ Zeros(s) = Zeros(t)
  BY <1>7 DEF Private, Zeros
<1>9. HeapPages(s) = HeapPages(t)
  BY <1>7, <1>8 DEF HeapPages
<1>10. Held(s) = Held(t) /\ (PagesApart(t) => PagesApart(s))
  BY <1>7, <1>9 DEF Held, PagesApart
<1>11. EntriesOk(s)
  BY <1>4, <1>7, <1>8 DEF SpaceOk, EntriesOk
<1>12. SpaceOk(s)
  BY <1>4, <1>5, <1>7, <1>10, <1>11 DEF SpaceOk
<1>13. MemOk(m) /\ Held(t) \cap m.free = {} /\ PagesOk(w, m, sp, P) /\ t = sp[o]
  BY <1>1 DEF PagesOk, UsesApart
<1>14. x \/ BelowEnd(s)
  <2> SUFFICES ASSUME ~ x PROVE BelowEnd(s)
    OBVIOUS
  <2>1. BelowEnd(t)
    BY <1>6, <1>13 DEF PagesOk, AllBelowEnd
  <2>2. end = t.heap + d /\ VAs \subseteq Int
    BY <1>6, SpaceAssumption DEF VAs
  <2>3. \A v \in VAs : v < t.heap => v < end
    BY <1>4, <2>2
  <2> QED
    BY <1>7, <2>1, <2>3 DEF BelowEnd
<1>15. /\ Held(s) \cup m.free = Held(sp[o]) \cup m.free /\ Held(s) \cap m.free = {}
       /\ m.refs[ZeroPage] + Cardinality(Zeros(sp[o])) = m.refs[ZeroPage] + Cardinality(Zeros(s))
  BY <1>8, <1>10, <1>13
<1>16. PagesOk(x, m, [sp EXCEPT ![o] = s], P)
  BY <1>6, <1>12, <1>13, <1>14, <1>15, OwnerChanges
<1> QED
  BY <1>1, <1>5, <1>16

\* The entries from lo to hi go; end is where the heap ends from now on.
Shrunk(s, lo, hi, end) == [s EXCEPT !.heap = end, !.pte = Unmapped(s, lo, hi)]

IsShrunk(s, lo, hi, end, u) ==
    /\ u \in SpaceRec /\ EntriesOk(u) /\ u.state = s.state /\ u.kstack = s.kstack
    /\ u.root = s.root /\ u.tables = s.tables /\ u.heap = end
    /\ Private(u) = Private(s) \ Within(Private(s), lo, hi)
    /\ Zeros(u) = Zeros(s) \ Within(Zeros(s), lo, hi)
    /\ HeapPages(u) = HeapPages(s) \ PagesOf(s, Within(Private(s), lo, hi))
    /\ \A v \in VAs : u.pte[v] # NoPte => s.pte[v] # NoPte /\ ~ (lo <= v /\ v < hi)

LEMMA UnmappedFacts ==
    ASSUME NEW s \in SpaceRec, EntriesOk(s), NEW lo \in Nat, NEW hi \in Nat, NEW end \in Nat
    PROVE  IsShrunk(s, lo, hi, end, Shrunk(s, lo, hi, end))
<1>0. PICK u : u = Shrunk(s, lo, hi, end)
  OBVIOUS
<1>1. s.pte \in [VAs -> Entry \cup {NoPte}]
  BY DEF SpaceRec
<1>2. PICK q : q = Unmapped(s, lo, hi)
  OBVIOUS
<1>3. \A v \in VAs : q[v] = IF lo <= v /\ v < hi THEN NoPte ELSE s.pte[v]
  BY <1>2 DEF Unmapped
<1>4. q \in [VAs -> Entry \cup {NoPte}]
  BY <1>1, <1>2 DEF Unmapped
<1>6. /\ u \in SpaceRec /\ u.state = s.state /\ u.kstack = s.kstack
      /\ u.root = s.root /\ u.tables = s.tables /\ u.heap = end /\ u.pte = q
  BY <1>0, <1>2, <1>4 DEF SpaceRec, Shrunk
<1>9. \A v \in VAs : u.pte[v] # NoPte =>
         ~ (lo <= v /\ v < hi) /\ u.pte[v] = s.pte[v] /\ s.pte[v] # NoPte
  BY <1>3, <1>6
<1>10. \A v \in VAs : s.pte[v] # NoPte /\ ~ (lo <= v /\ v < hi) => u.pte[v] = s.pte[v]
  BY <1>3, <1>6
<1>12. Private(u) = Private(s) \ Within(Private(s), lo, hi)
  BY <1>9, <1>10 DEF Private, Within
<1>13. Zeros(u) = Zeros(s) \ Within(Zeros(s), lo, hi)
  BY <1>9, <1>10 DEF Zeros, Within
<1>14. EntriesOk(u)
  <2>1. \A v \in VAs : u.pte[v] # NoPte => u.pte[v].ro = (u.pte[v].page = ZeroPage)
    BY <1>6, <1>9 DEF EntriesOk
  <2>2. \A v \in Private(u) : v \in Private(s) /\ u.pte[v] = s.pte[v]
    BY <1>9 DEF Private
  <2> QED
    BY <2>1, <2>2 DEF EntriesOk
<1>15. HeapPages(u) = HeapPages(s) \ PagesOf(s, Within(Private(s), lo, hi))
  <2>1. \A v \in Private(u) : v \in Private(s) /\ u.pte[v] = s.pte[v]
    BY <1>9 DEF Private
  <2>2. PICK W : W = Within(Private(s), lo, hi)
    OBVIOUS
  <2>3. Private(u) = Private(s) \ W /\ W \subseteq Private(s)
    BY <1>12, <2>2 DEF Within
  <2>4. \A v, w \in Private(s) : s.pte[v].page = s.pte[w].page => v = w
    BY DEF EntriesOk
  <2>5. HeapPages(u) = {s.pte[v].page : v \in Private(s) \ W}
    BY <2>1, <2>3 DEF HeapPages
  <2>6. {s.pte[v].page : v \in Private(s) \ W} = HeapPages(s) \ PagesOf(s, W)
    BY <2>3, <2>4 DEF HeapPages, PagesOf
  <2> QED
    BY <2>2, <2>5, <2>6
<1> QED
  BY <1>0, <1>6, <1>9, <1>12, <1>13, <1>14, <1>15 DEF IsShrunk

LEMMA CardinalityWithout ==
    ASSUME NEW V, V \subseteq VAs, NEW W, W \subseteq V
    PROVE  Cardinality(V \ W) = Cardinality(V) - Cardinality(W)
<1>1. IsFiniteSet(V)
  BY FiniteVAs
<1>2. V \cap W = W
  OBVIOUS
<1> QED
  BY <1>1, <1>2, FS_Difference

LEMMA InReachFacts ==
    ASSUME NEW end \in Nat
    PROVE  InReach(end) \in Nat /\ InReach(end) <= HeapMax /\ InReach(end) <= end
  BY SpaceAssumption DEF InReach

LEMMA ShrinkStep ==
    ASSUME NEW P, PagesOk(wrapped, mem, space, P), NEW o \in Owners, NEW d \in Nat, SbrkShrink(o, d)
    PROVE  PagesOk(wrapped', mem', space', P)
<1>1. PICK m, sp, t, w, x : m = mem /\ sp = space /\ t = space[o] /\ w = wrapped /\ x = wrapped'
  OBVIOUS
<1>2. SpaceOk(t) /\ t \in SpaceRec /\ EntriesOk(t) /\ sp \in [Owners -> SpaceRec] /\ MemOk(m)
  BY <1>1 DEF PagesOk, SpacesOk, SpaceOk
<1>3. PICK end : end = Moved(t, -d)
  OBVIOUS
<1>4. t.state = "live" /\ end \in Nat /\ t.heap \in Nat
  BY <1>1, <1>2, <1>3, HeapRangeNat DEF SbrkShrink, SpaceRec
<1>5. PICK hi, lo : hi = InReach(t.heap) /\ lo = Lesser(InReach(end), hi)
  OBVIOUS
<1>6. lo \in Nat /\ hi \in Nat /\ lo <= hi /\ hi <= HeapMax
  BY <1>4, <1>5, InReachFacts DEF Lesser
<1>7. PICK s : s = Shrunk(t, lo, hi, end)
  OBVIOUS
<1>8. PICK f : f = FreeAll(m, MappedTo(t, lo, hi))
  OBVIOUS
<1>9. mem' = f /\ space' = [sp EXCEPT ![o] = s]
  <2>1. mem' = f
    BY <1>1, <1>3, <1>5, <1>8 DEF SbrkShrink
  <2>2. space' = [space EXCEPT ![o].heap = end, ![o].pte = Unmapped(t, lo, hi)]
    BY <1>1, <1>3, <1>5 DEF SbrkShrink
  <2>3. space' = [sp EXCEPT ![o] = [t EXCEPT !.heap = end, !.pte = Unmapped(t, lo, hi)]]
    BY <1>1, <1>2, <2>2 DEF SpaceRec
  <2> QED
    BY <1>7, <2>1, <2>3 DEF Shrunk
<1>10. PICK W, Z : W = PagesOf(t, Within(Private(t), lo, hi)) /\ Z = Within(Zeros(t), lo, hi)
  OBVIOUS
<1>24. IsShrunk(t, lo, hi, end, s)
  BY <1>2, <1>4, <1>6, <1>7, UnmappedFacts
<1>11. /\ s \in SpaceRec /\ EntriesOk(s) /\ s.state = t.state /\ s.kstack = t.kstack
       /\ s.root = t.root /\ s.tables = t.tables
       /\ Zeros(s) = Zeros(t) \ Z /\ HeapPages(s) = HeapPages(t) \ W
  BY <1>10, <1>24 DEF IsShrunk
<1>12. Held(t) \cap m.free = {} /\ HeapPages(t) \subseteq Held(t)
  BY <1>1, <1>4 DEF PagesOk, UsesApart, Held
<1>13. MemOk(f) /\ f.free = m.free \cup W /\ f.refs[ZeroPage] = m.refs[ZeroPage] - Cardinality(Z)
  BY <1>2, <1>6, <1>8, <1>10, <1>12, FreeMapped
<1>14. W \subseteq HeapPages(t) /\ Z \subseteq Zeros(t) /\ Zeros(t) \subseteq VAs
  BY <1>10 DEF PagesOf, HeapPages, Within, Zeros
<1>15. PagesApart(t) /\ Len(t.tables) <= Depth
  BY <1>2, <1>4 DEF SpaceOk
<1>16. PagesApart(s)
  BY <1>11, <1>15 DEF PagesApart
<1>17. SpaceOk(s)
  BY <1>4, <1>11, <1>15, <1>16 DEF SpaceOk
<1>18. Held(s) = Held(t) \ W
  <2>1. W \cap ({t.kstack, t.root} \cup Members(t.tables)) = {}
    BY <1>14, <1>15 DEF PagesApart
  <2> QED
    BY <1>4, <1>11, <1>14, <2>1 DEF Held
<1>19. Held(s) \cup f.free = Held(t) \cup m.free /\ Held(s) \cap f.free = {}
  BY <1>12, <1>13, <1>14, <1>18
<1>20. f.refs[ZeroPage] + Cardinality(Zeros(t)) = m.refs[ZeroPage] + Cardinality(Zeros(s))
  <2>1. Cardinality(Zeros(s)) = Cardinality(Zeros(t)) - Cardinality(Z)
    BY <1>11, <1>14, CardinalityWithout
  <2>2. Cardinality(Zeros(t)) \in Nat /\ Cardinality(Z) \in Nat
    BY <1>14, FiniteVAs
  <2>3. m.refs[ZeroPage] \in Int
    BY <1>2, PagesAssumption DEF MemOk, MemRec, ZeroPage
  <2> QED
    BY <1>13, <2>1, <2>2, <2>3
<1>22. w \in BOOLEAN /\ x \in BOOLEAN /\ (w => x) /\ (x \/ end = t.heap - d)
  BY <1>1, <1>3 DEF SbrkShrink, PagesOk
<1>23. x \/ BelowEnd(s)
  <2> SUFFICES ASSUME ~ x, NEW v \in VAs, s.pte[v] # NoPte PROVE v < end
    BY <1>4, <1>7 DEF BelowEnd, Shrunk, SpaceRec
  <2>1. t.pte[v] # NoPte /\ ~ (lo <= v /\ v < hi)
    BY <1>24 DEF IsShrunk
  <2>2. v < t.heap
    BY <1>1, <1>22, <2>1 DEF PagesOk, AllBelowEnd, BelowEnd
  <2>3. end = t.heap - d /\ v \in Int /\ v < HeapMax
    BY <1>22, SpaceAssumption DEF VAs
  <2>4. v < hi
    BY <1>4, <1>5, <2>2, <2>3, SpaceAssumption DEF InReach
  <2>5. v < lo
    BY <1>6, <2>1, <2>3, <2>4
  <2>6. lo <= end
    <3>1. InReach(end) <= end /\ InReach(end) \in Nat
      BY <1>4, InReachFacts
    <3>2. lo <= InReach(end)
      BY <1>5, <1>6, <3>1 DEF Lesser
    <3> QED
      BY <1>4, <1>6, <3>1, <3>2
  <2> QED
    BY <1>4, <1>6, <2>3, <2>5, <2>6
<1>21. PagesOk(x, f, [sp EXCEPT ![o] = s], P)
  <2>1. PagesOk(w, m, sp, P) /\ t = sp[o]
    BY <1>1
  <2> QED
    BY <1>13, <1>17, <1>19, <1>20, <1>22, <1>23, <2>1, OwnerChanges
<1> QED
  BY <1>1, <1>9, <1>21

\* An entry that a process did not map, or maps read-only, gets a page.
Entered(t, ts, v, e) == [t EXCEPT !.tables = ts, !.pte = [t.pte EXCEPT ![v] = e]]

LEMMA EntryFacts ==
    ASSUME NEW t \in SpaceRec, SpaceOk(t), t.state = "live",
           NEW v \in VAs, t.pte[v] # NoPte => t.pte[v].page = ZeroPage,
           NEW ts \in Seq(Pages), NEW e \in Entry, e.ro = (e.page = ZeroPage),
           e.page \notin HeapPages(t), NEW u,
           u = Entered(t, ts, v, e)
    PROVE  /\ u \in SpaceRec /\ EntriesOk(u) /\ u.state = t.state /\ u.kstack = t.kstack
           /\ u.root = t.root /\ u.tables = ts /\ u.heap = t.heap
           /\ HeapPages(u) = HeapPages(t) \cup ({e.page} \ {ZeroPage})
           /\ Zeros(u) = IF e.page = ZeroPage THEN Zeros(t) \cup {v} ELSE Zeros(t) \ {v}
<1>1. t.pte \in [VAs -> Entry \cup {NoPte}] /\ EntriesOk(t)
  BY DEF SpaceRec, SpaceOk
<1>2. PICK q : q = [t.pte EXCEPT ![v] = e]
  OBVIOUS
<1>3. q \in [VAs -> Entry \cup {NoPte}] /\ q[v] = e /\ \A w \in VAs : w # v => q[w] = t.pte[w]
  BY <1>1, <1>2
<1>4. /\ u \in SpaceRec /\ u.state = t.state /\ u.kstack = t.kstack
      /\ u.root = t.root /\ u.tables = ts /\ u.heap = t.heap /\ u.pte = q
  BY <1>2, <1>3 DEF SpaceRec, Entered
<1>5. e # NoPte
  BY SpaceAssumption DEF Entry
<1>6. v \notin Private(t)
  BY DEF Private
<1>7. Zeros(u) = IF e.page = ZeroPage THEN Zeros(t) \cup {v} ELSE Zeros(t) \ {v}
  <2>1. \A w \in VAs : w # v => (w \in Zeros(u) <=> w \in Zeros(t))
    BY <1>3, <1>4 DEF Zeros
  <2>2. v \in Zeros(u) <=> e.page = ZeroPage
    BY <1>3, <1>4, <1>5 DEF Zeros
  <2>3. Zeros(u) \subseteq VAs /\ Zeros(t) \subseteq VAs
    BY DEF Zeros
  <2>4. CASE e.page = ZeroPage
    BY <2>1, <2>2, <2>3, <2>4
  <2>5. CASE e.page # ZeroPage
    BY <2>1, <2>2, <2>3, <2>5
  <2> QED
    BY <2>4, <2>5
<1>8. \A w \in Private(u) : (w = v /\ u.pte[w] = e /\ e.page # ZeroPage) \/ (w \in Private(t) /\ u.pte[w] = t.pte[w])
  BY <1>3, <1>4 DEF Private
<1>9. \A w \in Private(t) : w \in Private(u) /\ u.pte[w] = t.pte[w]
  BY <1>3, <1>4, <1>6 DEF Private
<1>10. e.page # ZeroPage => v \in Private(u) /\ u.pte[v] = e
  BY <1>3, <1>4, <1>5 DEF Private
<1>11. HeapPages(u) = HeapPages(t) \cup ({e.page} \ {ZeroPage})
  <2>1. HeapPages(u) \subseteq HeapPages(t) \cup ({e.page} \ {ZeroPage})
    BY <1>8 DEF HeapPages
  <2>2. HeapPages(t) \subseteq HeapPages(u)
    BY <1>9 DEF HeapPages
  <2>3. {e.page} \ {ZeroPage} \subseteq HeapPages(u)
    BY <1>10 DEF HeapPages
  <2> QED
    BY <2>1, <2>2, <2>3
<1>12. EntriesOk(u)
  <2>1. ASSUME NEW w \in VAs, u.pte[w] # NoPte
        PROVE  u.pte[w].ro = (u.pte[w].page = ZeroPage)
    <3>1. CASE w = v
      BY <1>3, <1>4, <3>1
    <3>2. CASE w # v
      BY <1>1, <1>3, <1>4, <2>1, <3>2 DEF EntriesOk
    <3> QED
      BY <3>1, <3>2
  <2>2. ASSUME NEW w \in Private(u), NEW x \in Private(u), u.pte[w].page = u.pte[x].page PROVE w = x
    <3>1. \A y \in Private(t) : t.pte[y].page # e.page
      BY DEF HeapPages
    <3>2. \A y, z \in Private(t) : t.pte[y].page = t.pte[z].page => y = z
      BY <1>1 DEF EntriesOk
    <3> QED
      BY <1>8, <2>2, <3>1, <3>2
  <2> QED
    BY <2>1, <2>2 DEF EntriesOk
<1> QED
  BY <1>4, <1>7, <1>11, <1>12

\* A process whose tables have grown and that has a new entry.
CanEnter(t, m, x, v, e) ==
    /\ SpaceOk(t) /\ t.state = "live" /\ MemOk(m) /\ Held(t) \cap m.free = {}
    /\ x.m.free \subseteq Pages /\ TablesGrown(m, t.tables, x, Depth - Len(t.tables))
    /\ v \in VAs /\ (t.pte[v] # NoPte => t.pte[v].page = ZeroPage)
    /\ e \in Entry /\ e.ro = (e.page = ZeroPage) /\ e.page \notin Held(t) /\ e.page \notin m.free

IsEntered(t, x, v, e, u) ==
    /\ SpaceOk(u)
    /\ Held(u) = Held(t) \cup Members(x.ts) \cup ({e.page} \ {ZeroPage})
    /\ Held(u) \cap x.m.free = {}
    /\ Zeros(u) = IF e.page = ZeroPage THEN Zeros(t) \cup {v} ELSE Zeros(t) \ {v}

LEMMA EntryMade ==
    ASSUME NEW t, NEW m, NEW x, NEW v, NEW e, CanEnter(t, m, x, v, e)
    PROVE  IsEntered(t, x, v, e, Entered(t, x.ts, v, e))
<1> PICK u : u = Entered(t, x.ts, v, e)
  OBVIOUS
<1> SUFFICES IsEntered(t, x, v, e, u)
  OBVIOUS
<1> USE DEF CanEnter
<1>1. t \in SpaceRec /\ PagesApart(t) /\ Len(t.tables) <= Depth /\ Len(t.tables) \in Nat
  BY DEF SpaceOk, SpaceRec
<1>2. PICK T, F, X : T = Members(t.tables) /\ F = m.free /\ X = x.m.free
  OBVIOUS
<1>3. PICK M : M = Members(x.ts)
  OBVIOUS
<1>4. /\ x.ts \in Seq(Pages) /\ Distinct(x.ts) /\ M \subseteq Nonzero /\ M \cap X = {}
      /\ T \subseteq M /\ M \cup X = T \cup F /\ X \subseteq F
      /\ Len(x.ts) = Len(t.tables) + (Depth - Len(t.tables))
  BY <1>2, <1>3 DEF TablesGrown
<1>5. Len(x.ts) <= Depth
  BY <1>1, <1>4, SpaceAssumption
<1>6. HeapPages(t) \subseteq Held(t) /\ t.kstack \in Held(t) /\ t.root \in Held(t) /\ T \subseteq Held(t)
  BY <1>2 DEF Held
<1>7. e.page \notin HeapPages(t)
  BY <1>6
<1>8. /\ u \in SpaceRec /\ EntriesOk(u) /\ u.state = t.state /\ u.kstack = t.kstack
      /\ u.root = t.root /\ u.tables = x.ts /\ u.heap = t.heap
      /\ HeapPages(u) = HeapPages(t) \cup ({e.page} \ {ZeroPage})
      /\ Zeros(u) = IF e.page = ZeroPage THEN Zeros(t) \cup {v} ELSE Zeros(t) \ {v}
  <2>1. PICK ts \in Seq(Pages) : ts = x.ts
    BY <1>4
  <2>2. u = Entered(t, ts, v, e)
    BY <2>1
  <2>3. /\ u \in SpaceRec /\ EntriesOk(u) /\ u.state = t.state /\ u.kstack = t.kstack
        /\ u.root = t.root /\ u.tables = ts /\ u.heap = t.heap
        /\ HeapPages(u) = HeapPages(t) \cup ({e.page} \ {ZeroPage})
        /\ Zeros(u) = IF e.page = ZeroPage THEN Zeros(t) \cup {v} ELSE Zeros(t) \ {v}
    BY <1>1, <1>7, <2>2, EntryFacts
  <2> QED
    BY <2>1, <2>3
<1>9. PICK H, G, k, r : H = HeapPages(t) /\ G = HeapPages(u) /\ k = t.kstack /\ r = t.root
  OBVIOUS
<1>10. PICK E : E = {e.page} \ {ZeroPage}
  OBVIOUS
<1>11. G = H \cup E /\ E \cap (H \cup F \cup T \cup {k, r}) = {}
  BY <1>2, <1>6, <1>8, <1>9, <1>10
<1>12. /\ {k, r} \subseteq Nonzero /\ k # r /\ {k, r} \cap T = {} /\ {k, r} \cap H = {} /\ T \cap H = {}
  BY <1>1, <1>2, <1>9 DEF PagesApart
<1>13. (H \cup {k, r} \cup T) \cap F = {}
  BY <1>2, <1>6, <1>9
<1>14. M \subseteq T \cup F
  BY <1>4
<1>15. {k, r} \cap M = {} /\ {k, r} \cap G = {} /\ M \cap G = {}
  BY <1>11, <1>12, <1>13, <1>14
<1>16. PagesApart(u)
  BY <1>3, <1>4, <1>8, <1>9, <1>12, <1>15 DEF PagesApart
<1>17. SpaceOk(u)
  BY <1>5, <1>8, <1>16 DEF SpaceOk
<1>18. Held(t) = {k, r} \cup T \cup H /\ Held(u) = {k, r} \cup M \cup G
  BY <1>2, <1>3, <1>8, <1>9 DEF Held
<1>19. Held(u) = Held(t) \cup M \cup E
  BY <1>4, <1>11, <1>18
<1>20. Held(u) \cap X = {}
  BY <1>4, <1>11, <1>13, <1>18
<1> QED
  BY <1>2, <1>3, <1>8, <1>10, <1>17, <1>19, <1>20 DEF IsEntered

LEMMA HeldNonzero == ASSUME NEW t, SpaceOk(t) PROVE Held(t) \subseteq Nonzero
<1>1. t.pte \in [VAs -> Entry \cup {NoPte}]
  BY DEF SpaceOk, SpaceRec
<1>2. HeapPages(t) \subseteq Nonzero
  BY <1>1 DEF HeapPages, Private, Nonzero, Entry
<1>3. t.state = "live" => {t.kstack, t.root} \subseteq Nonzero /\ Members(t.tables) \subseteq Nonzero
  BY DEF SpaceOk, PagesApart
<1> QED
  BY <1>2, <1>3 DEF Held

LEMMA RemappedFacts ==
    ASSUME NEW m, MemOk(m), NEW page \in Nonzero, page \notin m.free, NEW old,
           old # NoPte => old.page = ZeroPage
    PROVE  ZeroMoved(m, Remapped(m, page, old), IF old = NoPte THEN 0 ELSE -1)
<1>1. CASE old = NoPte
  <2>1. Remapped(m, page, old) = m
    BY <1>1, RefAndFree DEF Remapped
  <2>2. m.refs[ZeroPage] = m.refs[ZeroPage] + 0
    BY PagesAssumption DEF MemOk, MemRec, ZeroPage
  <2> QED
    BY <1>1, <2>1, <2>2 DEF ZeroMoved
<1>2. CASE old # NoPte
  <2>1. PICK y : y = FreePage(m, ZeroPage)
    OBVIOUS
  <2>2. ZeroMoved(m, y, -1)
    BY <2>1, ZeroFacts
  <2>3. MemOk(y) /\ page \notin y.free
    BY <2>2 DEF ZeroMoved
  <2>4. FreePage(RefPage(y, page), page) = y
    BY <2>3, RefAndFree
  <2>5. Remapped(m, page, old) = y
    BY <1>2, <2>1, <2>4 DEF Remapped
  <2> QED
    BY <1>2, <2>2, <2>5
<1> QED
  BY <1>1, <1>2

LEMMA PgFaultStep ==
    ASSUME NEW P, PagesOk(wrapped, mem, space, P), NEW o \in Owners, NEW v \in VAs, PgFault(o, v)
    PROVE  PagesOk(wrapped', mem', space', P)
<1>1. PICK m, sp, t, w : m = mem /\ sp = space /\ t = space[o] /\ w = wrapped
  OBVIOUS
<1>2. PagesOk(w, m, sp, P) /\ t = sp[o] /\ w \in BOOLEAN
  BY <1>1 DEF PagesOk
<1>3. /\ SpaceOk(t) /\ t \in SpaceRec /\ EntriesOk(t) /\ sp \in [Owners -> SpaceRec] /\ MemOk(m)
      /\ Held(t) \cap m.free = {}
  BY <1>2 DEF PagesOk, SpacesOk, SpaceOk, UsesApart
<1>4. PICK page, m1, e : page = NextPage(m) /\ m1 = AllocPage(m) /\ e = [page |-> page, ro |-> FALSE]
  OBVIOUS
<1>5. PICK x : x = TablesFor(m1, t)
  OBVIOUS
<1>6. PICK n, u : n = Remapped(x.m, page, t.pte[v]) /\ u = Entered(t, x.ts, v, e)
  OBVIOUS
<1>7. /\ t.state = "live" /\ v < t.heap /\ (t.pte[v] # NoPte => t.pte[v].ro)
      /\ Cardinality(m.free) >= 1 + Depth - Len(t.tables) /\ mem' = n
  BY <1>1, <1>4, <1>5, <1>6 DEF PgFault
<1>8. space' = [sp EXCEPT ![o] = u]
  <2>1. space' = [space EXCEPT ![o].tables = x.ts, ![o].pte[v] = e]
    BY <1>1, <1>4, <1>5 DEF PgFault
  <2>2. space' = [sp EXCEPT ![o] = [t EXCEPT !.tables = x.ts, !.pte = [t.pte EXCEPT ![v] = e]]]
    BY <1>1, <1>3, <2>1 DEF SpaceRec
  <2> QED
    BY <1>6, <2>2 DEF Entered
<1>9. t.tables \in Seq(Pages) /\ Len(t.tables) <= Depth /\ PagesApart(t) /\ m.free \subseteq Pages
  BY <1>3, <1>7 DEF SpaceOk, SpaceRec, MemOk, MemRec
<1>10. PICK d \in Nat : d = Depth - Len(t.tables)
  <2>1. Len(t.tables) \in Nat
    BY <1>9
  <2>2. Depth - Len(t.tables) \in Nat
    BY <1>9, <2>1, SpaceAssumption
  <2> QED
    BY <2>2
<1>11. Cardinality(m.free) >= 1 + d /\ Cardinality(m.free) \in Nat
  BY <1>7, <1>9, <1>10, SpaceAssumption, FreeSetFinite
<1>12. m.free # {}
  <2>1. Cardinality({}) = 0
    BY FS_EmptySet
  <2>2. Cardinality(m.free) # 0
    BY <1>11
  <2> QED
    BY <2>1, <2>2
<1>13. /\ page \in m.free /\ page \in Nonzero /\ MemOk(m1) /\ m1.free = m.free \ {page}
       /\ m1.refs[ZeroPage] = m.refs[ZeroPage]
  BY <1>3, <1>4, <1>12, AllocFacts
<1>14. Cardinality(m1.free) >= d
  <2>1. PICK S : S = m.free
    OBVIOUS
  <2>2. IsFiniteSet(S) /\ page \in S
    BY <1>9, <1>13, <2>1, FreeSetFinite
  <2>3. Cardinality(S \ {page}) = Cardinality(S) - 1
    BY <2>2, FS_RemoveElement
  <2> QED
    BY <1>11, <1>13, <2>1, <2>3
<1>15. Held(t) \cap m1.free = {} /\ Members(t.tables) \cap m1.free = {}
  BY <1>3, <1>7, <1>13 DEF Held
<1>16. Members(t.tables) \subseteq Nonzero /\ Distinct(t.tables)
  BY <1>9 DEF PagesApart
<1>17. TablesGrown(m1, t.tables, x, Depth - Len(t.tables))
  BY <1>3, <1>5, <1>9, <1>10, <1>13, <1>14, <1>15, <1>16, TablesForFacts
<1>18. MemOk(x.m) /\ x.m.free \subseteq m1.free /\ x.m.refs[ZeroPage] = m1.refs[ZeroPage]
       /\ Members(x.ts) \cup x.m.free = Members(t.tables) \cup m1.free
  BY <1>17 DEF TablesGrown
<1>19. e \in Entry /\ e.page = page /\ e.page # ZeroPage /\ e.ro = (e.page = ZeroPage)
  BY <1>4, <1>13 DEF Entry, Nonzero
<1>20. t.pte[v] # NoPte => t.pte[v].page = ZeroPage
  BY <1>3, <1>7 DEF EntriesOk
<1>21. e.page \notin Held(t) /\ e.page \notin m1.free /\ x.m.free \subseteq Pages
  BY <1>3, <1>9, <1>13, <1>18, <1>19
<1>22. /\ SpaceOk(u) /\ Held(u) = Held(t) \cup Members(x.ts) \cup ({e.page} \ {ZeroPage})
       /\ Held(u) \cap x.m.free = {}
       /\ Zeros(u) = IF e.page = ZeroPage THEN Zeros(t) \cup {v} ELSE Zeros(t) \ {v}
  <2>1. CanEnter(t, m1, x, v, e)
    BY <1>3, <1>7, <1>13, <1>15, <1>17, <1>19, <1>20, <1>21 DEF CanEnter
  <2>2. IsEntered(t, x, v, e, Entered(t, x.ts, v, e))
    BY <2>1, EntryMade
  <2> QED
    BY <1>6, <2>2 DEF IsEntered
<1>23. ZeroMoved(x.m, n, IF t.pte[v] = NoPte THEN 0 ELSE -1)
  BY <1>6, <1>13, <1>18, <1>20, RemappedFacts
<1>24. Held(u) \cup n.free = Held(t) \cup m.free /\ Held(u) \cap n.free = {}
  <2>1. Held(u) = Held(t) \cup Members(x.ts) \cup {page}
    BY <1>19, <1>22
  <2>2. n.free = x.m.free
    BY <1>23 DEF ZeroMoved
  <2>3. Members(t.tables) \subseteq Held(t)
    BY <1>7 DEF Held
  <2> QED
    BY <1>13, <1>18, <1>22, <2>1, <2>2, <2>3
<1>25. n.refs[ZeroPage] + Cardinality(Zeros(t)) = m.refs[ZeroPage] + Cardinality(Zeros(u))
  <2>1. PICK Z : Z = Zeros(t)
    OBVIOUS
  <2>2. IsFiniteSet(Z) /\ Cardinality(Z) \in Nat
    BY <2>1, FiniteVAs DEF Zeros
  <2>3. Zeros(u) = Z \ {v}
    BY <1>19, <1>22, <2>1
  <2>4. Cardinality(Z \ {v}) = IF v \in Z THEN Cardinality(Z) - 1 ELSE Cardinality(Z)
    BY <2>2, FS_RemoveElement
  <2>5. v \in Z <=> t.pte[v] # NoPte
    BY <1>20, <2>1 DEF Zeros
  <2>6. n.refs[ZeroPage] = m.refs[ZeroPage] + (IF t.pte[v] = NoPte THEN 0 ELSE -1)
    BY <1>13, <1>18, <1>23 DEF ZeroMoved
  <2>7. m.refs[ZeroPage] \in Int
    BY <1>3, PagesAssumption DEF MemOk, MemRec, ZeroPage
  <2>8. CASE t.pte[v] = NoPte
    BY <2>1, <2>2, <2>3, <2>4, <2>5, <2>6, <2>7, <2>8
  <2>9. CASE t.pte[v] # NoPte
    BY <2>1, <2>2, <2>3, <2>4, <2>5, <2>6, <2>7, <2>9
  <2> QED
    BY <2>8, <2>9
<1>26. MemOk(n)
  BY <1>23 DEF ZeroMoved
<1>28. wrapped' = w /\ (w \/ BelowEnd(u))
  <2>1. wrapped' = w /\ v < t.heap
    BY <1>1 DEF PgFault
  <2>2. w \/ BelowEnd(t)
    BY <1>2 DEF PagesOk, AllBelowEnd
  <2>3. u.heap = t.heap /\ \A y \in VAs : y # v => u.pte[y] = t.pte[y]
    BY <1>3, <1>6 DEF Entered, SpaceRec
  <2>4. BelowEnd(t) => BelowEnd(u)
    BY <2>1, <2>3 DEF BelowEnd
  <2> QED
    BY <2>1, <2>2, <2>4
<1>27. PagesOk(w, n, [sp EXCEPT ![o] = u], P)
  BY <1>2, <1>22, <1>24, <1>25, <1>26, <1>28, OwnerKeeps
<1> QED
  BY <1>7, <1>8, <1>27, <1>28

LEMMA MapZeroStep ==
    ASSUME NEW P, PagesOk(wrapped, mem, space, P), NEW o \in Owners, NEW v \in VAs, MapZero(o, v)
    PROVE  PagesOk(wrapped', mem', space', P)
<1>1. PICK m, sp, t, w : m = mem /\ sp = space /\ t = space[o] /\ w = wrapped
  OBVIOUS
<1>2. PagesOk(w, m, sp, P) /\ t = sp[o] /\ w \in BOOLEAN
  BY <1>1 DEF PagesOk
<1>3. /\ SpaceOk(t) /\ t \in SpaceRec /\ EntriesOk(t) /\ sp \in [Owners -> SpaceRec] /\ MemOk(m)
      /\ Held(t) \cap m.free = {}
  BY <1>2 DEF PagesOk, SpacesOk, SpaceOk, UsesApart
<1>4. PICK x, e : x = TablesFor(m, t) /\ e = [page |-> ZeroPage, ro |-> TRUE]
  OBVIOUS
<1>5. PICK n, u : n = RefPage(x.m, ZeroPage) /\ u = Entered(t, x.ts, v, e)
  OBVIOUS
<1>6. /\ t.state = "live" /\ v < t.heap /\ t.pte[v] = NoPte
      /\ Cardinality(m.free) >= Depth - Len(t.tables) /\ mem' = n
  BY <1>1, <1>4, <1>5 DEF MapZero
<1>7. space' = [sp EXCEPT ![o] = u]
  <2>1. space' = [space EXCEPT ![o].tables = x.ts, ![o].pte[v] = e]
    BY <1>1, <1>4 DEF MapZero
  <2>2. space' = [sp EXCEPT ![o] = [t EXCEPT !.tables = x.ts, !.pte = [t.pte EXCEPT ![v] = e]]]
    BY <1>1, <1>3, <2>1 DEF SpaceRec
  <2> QED
    BY <1>5, <2>2 DEF Entered
<1>8. /\ Len(t.tables) <= Depth /\ PagesApart(t) /\ m.free \subseteq Pages /\ ZeroPage \notin m.free
      /\ ZeroPage \in Pages
  BY <1>3, <1>6, PagesAssumption DEF SpaceOk, SpaceRec, MemOk, MemRec, ZeroPage
<1>9. Members(t.tables) \cap m.free = {} /\ Members(t.tables) \subseteq Held(t)
  BY <1>3, <1>6 DEF Held
<1>10. Members(t.tables) \subseteq Nonzero /\ Distinct(t.tables)
  BY <1>8 DEF PagesApart
<1>11. TablesGrown(m, t.tables, x, Depth - Len(t.tables))
  BY <1>3, <1>4, <1>6, <1>8, <1>9, <1>10, TablesForFacts
<1>12. MemOk(x.m) /\ x.m.free \subseteq m.free /\ x.m.refs[ZeroPage] = m.refs[ZeroPage]
       /\ Members(x.ts) \cup x.m.free = Members(t.tables) \cup m.free
  BY <1>11 DEF TablesGrown
<1>13. e \in Entry /\ e.page = ZeroPage /\ e.ro = (e.page = ZeroPage)
  BY <1>4, <1>8 DEF Entry
<1>14. e.page \notin Held(t) /\ e.page \notin m.free /\ x.m.free \subseteq Pages
  BY <1>3, <1>8, <1>12, <1>13, HeldNonzero DEF Nonzero
<1>15. t.pte[v] # NoPte => t.pte[v].page = ZeroPage
  BY <1>6
<1>16. /\ SpaceOk(u) /\ Held(u) = Held(t) \cup Members(x.ts) \cup ({e.page} \ {ZeroPage})
       /\ Held(u) \cap x.m.free = {}
       /\ Zeros(u) = IF e.page = ZeroPage THEN Zeros(t) \cup {v} ELSE Zeros(t) \ {v}
  <2>1. CanEnter(t, m, x, v, e)
    BY <1>3, <1>6, <1>11, <1>13, <1>14, <1>15 DEF CanEnter
  <2>2. IsEntered(t, x, v, e, Entered(t, x.ts, v, e))
    BY <2>1, EntryMade
  <2> QED
    BY <1>5, <2>2 DEF IsEntered
<1>17. MemOk(n) /\ n.free = x.m.free /\ n.refs[ZeroPage] = x.m.refs[ZeroPage] + 1
  BY <1>5, <1>12, ZeroFacts DEF ZeroMoved
<1>18. Held(u) \cup n.free = Held(t) \cup m.free /\ Held(u) \cap n.free = {}
  <2>1. Held(u) = Held(t) \cup Members(x.ts)
    BY <1>13, <1>16
  <2> QED
    BY <1>9, <1>12, <1>16, <1>17, <2>1
<1>19. n.refs[ZeroPage] + Cardinality(Zeros(t)) = m.refs[ZeroPage] + Cardinality(Zeros(u))
  <2>1. PICK Z : Z = Zeros(t)
    OBVIOUS
  <2>2. IsFiniteSet(Z) /\ Cardinality(Z) \in Nat /\ v \notin Z
    BY <1>6, <2>1, FiniteVAs DEF Zeros
  <2>3. Zeros(u) = Z \cup {v}
    BY <1>13, <1>16, <2>1
  <2>4. Cardinality(Z \cup {v}) = Cardinality(Z) + 1
    BY <2>2, FS_AddElement
  <2>5. m.refs[ZeroPage] \in Int
    BY <1>3, PagesAssumption DEF MemOk, MemRec, ZeroPage
  <2> QED
    BY <1>12, <1>17, <2>1, <2>2, <2>3, <2>4, <2>5
<1>21. wrapped' = w /\ (w \/ BelowEnd(u))
  <2>1. wrapped' = w /\ v < t.heap
    BY <1>1 DEF MapZero
  <2>2. w \/ BelowEnd(t)
    BY <1>2 DEF PagesOk, AllBelowEnd
  <2>3. u.heap = t.heap /\ \A y \in VAs : y # v => u.pte[y] = t.pte[y]
    BY <1>3, <1>5 DEF Entered, SpaceRec
  <2>4. BelowEnd(t) => BelowEnd(u)
    BY <2>1, <2>3 DEF BelowEnd
  <2> QED
    BY <2>1, <2>2, <2>4
<1>20. PagesOk(w, n, [sp EXCEPT ![o] = u], P)
  BY <1>2, <1>16, <1>17, <1>18, <1>19, <1>21, OwnerKeeps
<1> QED
  BY <1>6, <1>7, <1>20, <1>21

Reversed(ts) == [i \in 1 .. Len(ts) |-> ts[Len(ts) + 1 - i]]

LEMMA ReversedFacts ==
    ASSUME NEW ts \in Seq(Pages), Distinct(ts), Members(ts) \subseteq Nonzero
    PROVE  Reversed(ts) \in Seq(Nonzero) /\ Distinct(Reversed(ts)) /\ Members(Reversed(ts)) = Members(ts)
<1>1. PICK n \in Nat : n = Len(ts)
  OBVIOUS
<1>2. DOMAIN ts = 1 .. n /\ \A i \in 1 .. n : ts[i] \in Nonzero
  BY <1>1 DEF Members
<1>3. PICK r : r = Reversed(ts)
  OBVIOUS
<1>4. r = [i \in 1 .. n |-> ts[n + 1 - i]]
  BY <1>1, <1>3 DEF Reversed
<1>5. \A i \in 1 .. n : n + 1 - i \in 1 .. n /\ n + 1 - (n + 1 - i) = i
  OBVIOUS
<1>6. \A i \in 1 .. n : r[i] = ts[n + 1 - i]
  BY <1>4
<1>7. r \in [1 .. n -> Nonzero]
  BY <1>2, <1>4, <1>5
<1>8. r \in Seq(Nonzero) /\ DOMAIN r = 1 .. n
  BY <1>7
<1>9. Distinct(r)
  <2> SUFFICES ASSUME NEW i \in 1 .. n, NEW j \in 1 .. n, r[i] = r[j] PROVE i = j
    BY <1>8 DEF Distinct
  <2>1. n + 1 - i = n + 1 - j
    BY <1>2, <1>5, <1>6 DEF Distinct
  <2> QED
    BY <2>1
<1>10. Members(r) \subseteq Members(ts)
  BY <1>2, <1>5, <1>6, <1>8 DEF Members
<1>11. Members(ts) \subseteq Members(r)
  <2> SUFFICES ASSUME NEW i \in 1 .. n PROVE ts[i] \in Members(r)
    BY <1>2 DEF Members
  <2>1. r[n + 1 - i] = ts[i] /\ n + 1 - i \in 1 .. n
    BY <1>5, <1>6
  <2> QED
    BY <1>8, <2>1 DEF Members
<1> QED
  BY <1>3, <1>8, <1>9, <1>10, <1>11

\* exit gives back every page of the process, once; those behind entries above
\* the end of the heap, if there are any, it does not.
LEMMA ExitFrees ==
    ASSUME NEW m, MemOk(m), NEW s, SpaceOk(s), s.state = "live", Held(s) \cap m.free = {}, NEW f,
           f = FreeAll(m, <<s.kstack>> \o MappedTo(s, 0, InReach(s.heap)) \o Reversed(s.tables) \o <<s.root>>)
    PROVE  /\ MemOk(f) /\ f.free \subseteq m.free \cup Held(s)
           /\ f.refs[ZeroPage] >= m.refs[ZeroPage] - Cardinality(Zeros(s))
           /\ BelowEnd(s) => /\ f.free = m.free \cup Held(s)
                             /\ f.refs[ZeroPage] = m.refs[ZeroPage] - Cardinality(Zeros(s))
<1>1. /\ s \in SpaceRec /\ EntriesOk(s) /\ PagesApart(s) /\ s.tables \in Seq(Pages)
      /\ s.heap \in Nat /\ m \in MemRec
  BY DEF SpaceOk, SpaceRec, MemOk
<1>2. PICK T, H, k, r : T = Members(s.tables) /\ H = HeapPages(s) /\ k = s.kstack /\ r = s.root
  OBVIOUS
<1>3. Held(s) = {k, r} \cup T \cup H
  BY <1>2 DEF Held
<1>4. /\ k \in Nonzero /\ r \in Nonzero /\ k # r /\ {k, r} \cap T = {} /\ {k, r} \cap H = {} /\ T \cap H = {}
      /\ T \subseteq Nonzero /\ Distinct(s.tables) /\ k \in Pages /\ r \in Pages
  BY <1>1, <1>2 DEF PagesApart, Nonzero
<1>5. ({k, r} \cup T \cup H) \cap m.free = {}
  BY <1>3
<1>6. PICK ks, rs : ks = <<k>> /\ rs = <<r>>
  OBVIOUS
<1>7. PICK ms, ts : ms = MappedTo(s, 0, InReach(s.heap)) /\ ts = Reversed(s.tables)
  OBVIOUS
<1>8. ks \in Seq(Pages) /\ rs \in Seq(Pages)
  BY <1>4, <1>6
<1>9. ts \in Seq(Nonzero) /\ Distinct(ts) /\ Members(ts) = T
  BY <1>1, <1>2, <1>4, <1>7, ReversedFacts
<1>10. ts \in Seq(Pages)
  BY <1>9 DEF Nonzero
<1>11. PICK m1, m2, m3, m4 : /\ m1 = FreeAll(m, ks) /\ m2 = FreeAll(m1, ms)
                             /\ m3 = FreeAll(m2, ts) /\ m4 = FreeAll(m3, rs)
  OBVIOUS
<1>12. MemOk(m1) /\ m1.free = m.free \cup {k} /\ m1.refs[ZeroPage] = m.refs[ZeroPage]
  <2>1. m1 = FreePage(m, k)
    BY <1>1, <1>4, <1>6, <1>11, FreeAllOne
  <2> QED
    BY <1>4, <1>5, <2>1, FreeOneFacts
<1>13. PICK hi \in Nat : hi = InReach(s.heap) /\ hi <= HeapMax
  BY <1>1, InReachFacts
<1>20. PICK G, Y : G = PagesOf(s, Within(Private(s), 0, hi)) /\ Y = Within(Zeros(s), 0, hi)
  OBVIOUS
<1>21. G \subseteq H /\ Y \subseteq Zeros(s) /\ Zeros(s) \subseteq VAs
  BY <1>2, <1>20 DEF PagesOf, HeapPages, Within, Zeros
<1>22. BelowEnd(s) => G = H /\ Y = Zeros(s)
  <2> SUFFICES ASSUME BelowEnd(s) PROVE G = H /\ Y = Zeros(s)
    OBVIOUS
  <2>1. \A v \in VAs : v \in Int /\ 0 <= v /\ v < HeapMax
    BY SpaceAssumption DEF VAs
  <2>2. \A v \in VAs : v < s.heap => v < hi
    BY <1>1, <1>13, <2>1, SpaceAssumption DEF InReach
  <2>3. \A v \in VAs : s.pte[v] # NoPte => 0 <= v /\ v < hi
    BY <2>1, <2>2 DEF BelowEnd
  <2>4. Within(Private(s), 0, hi) = Private(s) /\ Within(Zeros(s), 0, hi) = Zeros(s)
    BY <2>3 DEF Within, Private, Zeros
  <2> QED
    BY <1>2, <1>20, <2>4 DEF PagesOf, HeapPages
<1>14. /\ ms \in Seq(Pages) /\ MemOk(m2) /\ m2.free = m1.free \cup G
       /\ m2.refs[ZeroPage] = m1.refs[ZeroPage] - Cardinality(Y)
  <2>1. H \cap m1.free = {}
    BY <1>4, <1>5, <1>12
  <2>2. PICK lo \in Nat : lo = 0 /\ lo <= hi
    OBVIOUS
  <2>4. /\ MappedTo(s, lo, hi) \in Seq(Pages)
        /\ MemOk(FreeAll(m1, MappedTo(s, lo, hi)))
        /\ FreeAll(m1, MappedTo(s, lo, hi)).free = m1.free \cup PagesOf(s, Within(Private(s), lo, hi))
        /\ FreeAll(m1, MappedTo(s, lo, hi)).refs[ZeroPage]
             = m1.refs[ZeroPage] - Cardinality(Within(Zeros(s), lo, hi))
    BY <1>1, <1>2, <1>12, <1>13, <2>1, <2>2, FreeMapped
  <2> QED
    BY <1>7, <1>11, <1>13, <1>20, <2>2, <2>4
<1>15. MemOk(m3) /\ m3.free = m2.free \cup T /\ m3.refs[ZeroPage] = m2.refs[ZeroPage]
  <2>1. T \cap m2.free = {}
    BY <1>4, <1>5, <1>12, <1>14, <1>21
  <2> QED
    BY <1>9, <1>11, <1>14, <2>1, FreeAllDistinct
<1>16. MemOk(m4) /\ m4.free = m3.free \cup {r} /\ m4.refs[ZeroPage] = m3.refs[ZeroPage]
  <2>1. m4 = FreePage(m3, r)
    BY <1>4, <1>6, <1>11, <1>15, FreeAllOne DEF MemOk
  <2>2. r \notin m3.free
    BY <1>4, <1>5, <1>12, <1>14, <1>15, <1>21
  <2> QED
    BY <1>4, <1>15, <2>1, <2>2, FreeOneFacts
<1>17. f = m4
  <2>1. PICK as, bs : as = ks \o ms /\ bs = as \o ts
    OBVIOUS
  <2>2. as \in Seq(Pages)
    BY <1>8, <1>14, <2>1
  <2>3. bs \in Seq(Pages)
    BY <1>10, <2>1, <2>2
  <2>4. FreeAll(m, as) = m2
    BY <1>1, <1>8, <1>11, <1>14, <2>1, FreeAllConcat
  <2>5. FreeAll(m, bs) = m3
    <3>1. FreeAll(m, as \o ts) = FreeAll(FreeAll(m, as), ts)
      BY <1>1, <1>10, <2>2, FreeAllConcat
    <3> QED
      BY <1>11, <2>1, <2>4, <3>1
  <2>6. FreeAll(m, bs \o rs) = m4
    BY <1>1, <1>8, <1>11, <2>3, <2>5, FreeAllConcat
  <2>7. bs \o rs = <<s.kstack>> \o MappedTo(s, 0, InReach(s.heap)) \o Reversed(s.tables) \o <<s.root>>
    BY <1>2, <1>6, <1>7, <2>1
  <2> QED
    BY <2>6, <2>7
<1>18. f.free = m.free \cup {k, r} \cup T \cup G
  BY <1>12, <1>14, <1>15, <1>16, <1>17
<1>19. f.refs[ZeroPage] = m.refs[ZeroPage] - Cardinality(Y)
  BY <1>12, <1>14, <1>15, <1>16, <1>17
<1>23. f.free \subseteq m.free \cup Held(s) /\ (BelowEnd(s) => f.free = m.free \cup Held(s))
  BY <1>3, <1>18, <1>21, <1>22
<1>24. f.refs[ZeroPage] >= m.refs[ZeroPage] - Cardinality(Zeros(s))
  <2>1. IsFiniteSet(Zeros(s)) /\ Cardinality(Zeros(s)) \in Nat /\ Cardinality(Y) \in Nat
    BY <1>21, FiniteVAs
  <2>2. Cardinality(Y) <= Cardinality(Zeros(s))
    BY <1>21, <2>1, FS_Subset
  <2>3. m.refs[ZeroPage] \in Int
    BY PagesAssumption DEF MemOk, MemRec, ZeroPage
  <2> QED
    BY <1>19, <2>1, <2>2, <2>3
<1> QED
  BY <1>16, <1>17, <1>19, <1>22, <1>23, <1>24

LEMMA ExitStep ==
    ASSUME NEW P, PagesOk(wrapped, mem, space, P), NEW o \in Owners, MemExit(o)
    PROVE  PagesOk(wrapped', mem', space', P)
<1>1. PICK m, sp, t, w : m = mem /\ sp = space /\ t = space[o] /\ w = wrapped
  OBVIOUS
<1>2. PagesOk(w, m, sp, P) /\ t = sp[o] /\ w \in BOOLEAN
  BY <1>1 DEF PagesOk
<1>3. SpaceOk(t) /\ MemOk(m) /\ Held(t) \cap m.free = {}
  BY <1>2 DEF PagesOk, SpacesOk, UsesApart
<1>4. PICK f : f = FreeAll(m, <<t.kstack>> \o MappedTo(t, 0, InReach(t.heap)) \o Reversed(t.tables) \o <<t.root>>)
  OBVIOUS
<1>5. t.state = "live" /\ mem' = f /\ space' = [sp EXCEPT ![o] = Dead]
  BY <1>1, <1>4 DEF MemExit, Reversed
<1>6. /\ MemOk(f) /\ f.free \subseteq m.free \cup Held(t)
      /\ f.refs[ZeroPage] >= m.refs[ZeroPage] - Cardinality(Zeros(t))
      /\ BelowEnd(t) => /\ f.free = m.free \cup Held(t)
                        /\ f.refs[ZeroPage] = m.refs[ZeroPage] - Cardinality(Zeros(t))
  BY <1>3, <1>4, <1>5, ExitFrees
<1>7. PICK s : s = Dead
  OBVIOUS
<1>8. SpaceOk(s) /\ Held(s) = {} /\ Cardinality(Zeros(s)) = 0
  BY <1>7, DeadFacts
<1>9. Held(s) \cap f.free = {} /\ wrapped' = w /\ (w \/ BelowEnd(t)) /\ (w \/ BelowEnd(s))
  BY <1>1, <1>2, <1>7, <1>8, DeadFacts DEF PagesOk, AllBelowEnd, MemExit
<1>12. \/ Held(s) \cup f.free = Held(t) \cup m.free
       \/ w /\ Held(s) \cup f.free \subseteq Held(t) \cup m.free
  BY <1>6, <1>8, <1>9
<1>10. \/ f.refs[ZeroPage] + Cardinality(Zeros(t)) = m.refs[ZeroPage] + Cardinality(Zeros(s))
       \/ w /\ f.refs[ZeroPage] + Cardinality(Zeros(t)) >= m.refs[ZeroPage] + Cardinality(Zeros(s))
  <2>1. Cardinality(Zeros(t)) \in Nat
    BY FiniteVAs DEF Zeros
  <2>2. m.refs[ZeroPage] \in Int /\ f.refs[ZeroPage] \in Int
    BY <1>3, <1>6, PagesAssumption DEF MemOk, MemRec, ZeroPage
  <2>3. f.refs[ZeroPage] + Cardinality(Zeros(t)) >= m.refs[ZeroPage] + Cardinality(Zeros(s))
    BY <1>6, <1>8, <2>1, <2>2
  <2>4. BelowEnd(t) => f.refs[ZeroPage] + Cardinality(Zeros(t)) = m.refs[ZeroPage] + Cardinality(Zeros(s))
    BY <1>6, <1>8, <2>1, <2>2
  <2> QED
    BY <1>9, <2>3, <2>4
<1>11. PagesOk(w, f, [sp EXCEPT ![o] = s], P)
  BY <1>2, <1>6, <1>8, <1>9, <1>10, <1>12, OwnerChanges
<1> QED
  BY <1>5, <1>7, <1>9, <1>11

-----------------------------------------------------------------------------
(* Objects *)

\* A power of two, as the number of the subsets of a set.
LEMMA PowerFacts == ASSUME NEW k \in Nat PROVE 2^k \in Nat /\ 2^k > 0
<1>1. PICK S : S = 1 .. k
  OBVIOUS
<1>2. IsFiniteSet(S) /\ Cardinality(S) = k
  BY <1>1, FS_Interval
<1>3. IsFiniteSet(SUBSET S) /\ Cardinality(SUBSET S) = 2^k
  BY <1>2, FS_SUBSET
<1>4. Cardinality(SUBSET S) \in Nat
  BY <1>3, FS_CardinalityType
<1>5. SUBSET S # {}
  OBVIOUS
<1>6. Cardinality(SUBSET S) # 0
  BY <1>3, <1>5, FS_EmptySet
<1> QED
  BY <1>3, <1>4, <1>6

\* get_lowest_pow finds a list whose blocks have room for the size.
LEMMA LowestPowFacts ==
    ASSUME NEW size \in Nat, size <= 2^TOPKEY
    PROVE  LowestPow(size) \in 0 .. TOPKEY /\ size <= 2^LowestPow(size)
<1> DEFINE K == {k \in 0 .. TOPKEY : size <= 2^k}
<1>1. TOPKEY \in K /\ K \subseteq Nat
  BY ObjectAssumption
<1>2. PICK k \in K : \A j \in K : k <= j
  BY <1>1, LeastExists
<1>3. k \in 0 .. TOPKEY /\ size <= 2^k
  OBVIOUS
<1>4. ASSUME k # 0 PROVE 2^(k - 1) < size
  <2>1. k - 1 \in 0 .. TOPKEY /\ k - 1 \in Nat /\ ~ (k <= k - 1)
    BY <1>3, <1>4, ObjectAssumption
  <2>2. k - 1 \notin K
    BY <1>2, <2>1
  <2>3. ~ (size <= 2^(k - 1)) /\ 2^(k - 1) \in Nat
    BY <2>1, <2>2, PowerFacts
  <2> QED
    BY <2>3
<1>5. \E l \in 0 .. TOPKEY : size <= 2^l /\ (l = 0 \/ 2^(l - 1) < size)
  BY <1>3, <1>4
<1> QED
  BY <1>5 DEF LowestPow

\* pop_memory takes a block of the list.
LEMMA AnyBlockFacts ==
    ASSUME NEW S, S \subseteq Spot, S # {}
    PROVE  AnyBlock(S) \in S
<1> DEFINE at(x) == x.page * PSIZE + x.off
           N == {at(x) : x \in S}
<1>1. \A x \in S : at(x) \in Nat
  <2> SUFFICES ASSUME NEW x \in S PROVE at(x) \in Nat
    OBVIOUS
  <2>1. x.page \in Nat /\ x.off \in Nat /\ PSIZE \in Nat
    BY PagesAssumption, ObjectAssumption DEF Spot
  <2> QED
    BY <2>1
<1> HIDE DEF at
<1>2. N \subseteq Nat /\ N # {}
  BY <1>1
<1>3. PICK n \in N : \A j \in N : n <= j
  BY <1>2, LeastExists
<1>4. PICK x \in S : n = at(x)
  OBVIOUS
<1>5. \A y \in S : at(x) <= at(y)
  BY <1>3, <1>4
<1>6. \E z \in S : \A y \in S : z.page * PSIZE + z.off <= y.page * PSIZE + y.off
  BY <1>5 DEF at
<1> QED
  BY <1>6 DEF AnyBlock

\* The blocks of a page lie one behind the other, between its header and its end.
LEMMA BlocksFacts ==
    ASSUME NEW p \in Pages, NEW bs \in Nat, bs > 0, NEW x \in BlocksIn(p, bs)
    PROVE  /\ x \in Spot /\ x.page = p /\ HDR <= x.off /\ x.off + bs <= PSIZE
           /\ \A y \in BlocksIn(p, bs) : y # x => x.off + bs <= y.off \/ y.off + bs <= x.off
<1>1. HDR \in Nat /\ PSIZE \in Nat
  BY ObjectAssumption
<1>2. PICK n : n = (PSIZE - HDR) \div bs
  OBVIOUS
<1>3. n \in Int /\ n * bs <= PSIZE - HDR
  BY <1>1, <1>2
<1>4. PICK i \in 0 .. n - 1 : x = [page |-> p, off |-> HDR + i * bs]
  BY <1>2 DEF BlocksIn
<1>5. i \in Nat /\ i + 1 <= n
  BY <1>3
<1>6. \A a, b \in Int : a <= b => a * bs <= b * bs
  OBVIOUS
<1>7. \A a \in Int : (a + 1) * bs = a * bs + bs /\ a * bs \in Int
  OBVIOUS
<1>8. (i + 1) * bs <= n * bs
  BY <1>3, <1>5, <1>6
<1>9. i * bs \in Nat
  BY <1>5
<1>10. x \in Spot /\ x.page = p /\ x.off = HDR + i * bs
  BY <1>1, <1>4, <1>9 DEF Spot
<1>11. HDR <= x.off /\ x.off + bs <= PSIZE
  <2>1. PICK c \in Nat, d \in Int : c = i * bs /\ d = n * bs
    BY <1>3, <1>9
  <2>2. (i + 1) * bs = c + bs
    BY <1>5, <1>7, <2>1
  <2>3. c + bs <= d /\ d <= PSIZE - HDR /\ x.off = HDR + c
    BY <1>3, <1>8, <1>10, <2>1, <2>2
  <2> QED
    BY <1>1, <2>3
<1>12. ASSUME NEW y \in BlocksIn(p, bs), y # x PROVE x.off + bs <= y.off \/ y.off + bs <= x.off
  <2>1. PICK j \in 0 .. n - 1 : y = [page |-> p, off |-> HDR + j * bs]
    BY <1>2 DEF BlocksIn
  <2>2. j \in Nat /\ y.off = HDR + j * bs /\ i # j /\ j * bs \in Nat
    BY <1>3, <1>4, <1>12, <2>1
  <2>3. PICK c \in Nat, d \in Nat : c = i * bs /\ d = j * bs
    BY <1>9, <2>2
  <2>4. CASE i < j
    <3>1. (i + 1) * bs <= j * bs /\ (i + 1) * bs = i * bs + bs
      BY <1>5, <1>6, <1>7, <2>2, <2>4
    <3> QED
      BY <1>1, <1>10, <2>2, <2>3, <3>1
  <2>5. CASE j < i
    <3>1. (j + 1) * bs <= i * bs /\ (j + 1) * bs = j * bs + bs
      BY <1>5, <1>6, <1>7, <2>2, <2>5
    <3> QED
      BY <1>1, <1>10, <2>2, <2>3, <3>1
  <2> QED
    BY <1>5, <2>2, <2>4, <2>5
<1> QED
  BY <1>10, <1>11, <1>12

\* A free block becomes an object.
BlockTaken(mt, k, a) == [mt EXCEPT ![k] = mt[k] \ {a}]
WithObject(ob, k, a, size) == ob \cup {[at |-> a, asked |-> size, key |-> k]}
Keeps(mt, ob, mu, oc) == BlocksOk(mu, oc) /\ PagesOfObjects(mu, oc) = PagesOfObjects(mt, ob)

LEMMA GiveOut ==
    ASSUME NEW mt, NEW ob, BlocksOk(mt, ob), NEW k \in 0 .. TOPKEY, NEW a \in mt[k],
           NEW size \in ObjSizes, size <= 2^k
    PROVE  Keeps(mt, ob, BlockTaken(mt, k, a), WithObject(ob, k, a, size))
<1> PICK mu, oc : mu = [mt EXCEPT ![k] = mt[k] \ {a}]
                  /\ oc = ob \cup {[at |-> a, asked |-> size, key |-> k]}
  OBVIOUS
<1> SUFFICES Keeps(mt, ob, mu, oc)
  BY DEF BlockTaken, WithObject
<1>1. PICK z : z = [at |-> a, asked |-> size, key |-> k]
  OBVIOUS
<1>2. z.at = a /\ z.asked = size /\ z.key = k /\ oc = ob \cup {z}
  BY <1>1
<1>3. mt \in [0 .. TOPKEY -> SUBSET Spot] /\ ob \subseteq Object /\ a \in Spot
  BY DEF BlocksOk
<1>4. z \in Object
  BY <1>1, <1>3 DEF Object
<1>5. /\ mu \in [0 .. TOPKEY -> SUBSET Spot]
      /\ \A l \in 0 .. TOPKEY : mu[l] = IF l = k THEN mt[l] \ {a} ELSE mt[l]
  BY <1>3
<1>6. \A l \in 0 .. TOPKEY : mu[l] \subseteq mt[l]
  BY <1>5
<1>7. \A l \in 0 .. TOPKEY : \A x \in mu[l] : x # a
  <2> SUFFICES ASSUME NEW l \in 0 .. TOPKEY, NEW x \in mu[l], x = a PROVE FALSE
    OBVIOUS
  <2>1. l # k
    BY <1>5
  <2>2. x \in mt[l] /\ a \in mt[k] /\ x.page = a.page
    BY <1>6
  <2> QED
    BY <2>1, <2>2 DEF BlocksOk
<1>8. \A l \in 0 .. TOPKEY : \A x \in mu[l] : x \in BlocksIn(x.page, 2^l)
  BY <1>6 DEF BlocksOk
<1>9. \A x \in oc : x.at \in BlocksIn(x.at.page, 2^x.key) /\ x.asked <= 2^x.key
  BY <1>2 DEF BlocksOk
<1>10. \A l, j \in 0 .. TOPKEY : \A x \in mu[l], y \in mu[j] : x.page = y.page => l = j
  BY <1>6 DEF BlocksOk
<1>11. \A l \in 0 .. TOPKEY : \A x \in mu[l], y \in oc : x.page = y.at.page => l = y.key /\ x # y.at
  BY <1>2, <1>6, <1>7 DEF BlocksOk
<1>12. \A x, y \in oc : x.at.page = y.at.page => x.key = y.key /\ (x.at = y.at => x = y)
  <2>1. \A y \in ob : y.at.page = a.page => y.key = k /\ y.at # a
    BY DEF BlocksOk
  <2>2. \A x, y \in ob : x.at.page = y.at.page => x.key = y.key /\ (x.at = y.at => x = y)
    BY DEF BlocksOk
  <2> QED
    BY <1>2, <2>1, <2>2
<1>13. BlocksOk(mu, oc)
  BY <1>2, <1>3, <1>4, <1>5, <1>8, <1>9, <1>10, <1>11, <1>12 DEF BlocksOk
<1>14. PagesOfObjects(mu, oc) \subseteq PagesOfObjects(mt, ob)
  BY <1>2, <1>6 DEF PagesOfObjects
<1>15. PagesOfObjects(mt, ob) \subseteq PagesOfObjects(mu, oc)
  <2>1. \A x \in ob : x.at.page \in PagesOfObjects(mu, oc)
    BY <1>2 DEF PagesOfObjects
  <2>2. a.page \in PagesOfObjects(mu, oc)
    BY <1>2 DEF PagesOfObjects
  <2>3. ASSUME NEW l \in 0 .. TOPKEY, NEW x \in mt[l] PROVE x.page \in PagesOfObjects(mu, oc)
    <3>1. CASE x = a
      BY <2>2, <3>1
    <3>2. CASE x # a
      <4>1. x \in mu[l]
        BY <1>5, <3>2
      <4> QED
        BY <4>1 DEF PagesOfObjects
    <3> QED
      BY <3>1, <3>2
  <2> QED
    BY <2>1, <2>3 DEF PagesOfObjects
<1> QED
  BY <1>13, <1>14, <1>15 DEF Keeps

\* A page that no object lies on is cut into blocks.
PageBlocks(mt, k, p) == [mt EXCEPT ![k] = BlocksIn(p, 2^k)]
Gains(mt, ob, mu, p) == BlocksOk(mu, ob) /\ PagesOfObjects(mu, ob) = PagesOfObjects(mt, ob) \cup {p}

LEMMA CutPage ==
    ASSUME NEW mt, NEW ob, BlocksOk(mt, ob), NEW k \in 0 .. TOPKEY, mt[k] = {},
           NEW p \in Pages, p \notin PagesOfObjects(mt, ob), BlocksIn(p, 2^k) # {}
    PROVE  Gains(mt, ob, PageBlocks(mt, k, p), p)
<1> PICK mu : mu = [mt EXCEPT ![k] = BlocksIn(p, 2^k)]
  OBVIOUS
<1> SUFFICES Gains(mt, ob, mu, p)
  BY DEF PageBlocks
<1>1. mt \in [0 .. TOPKEY -> SUBSET Spot] /\ ob \subseteq Object
  BY DEF BlocksOk
<1>2. PICK B : B = BlocksIn(p, 2^k)
  OBVIOUS
<1>3. k \in Nat /\ 2^k \in Nat /\ 2^k > 0
  BY ObjectAssumption, PowerFacts
<1>4. B \subseteq Spot /\ \A x \in B : x.page = p
  <2>1. PICK bs \in Nat : bs = 2^k
    BY <1>3
  <2>2. bs > 0 /\ B = BlocksIn(p, bs)
    BY <1>2, <1>3, <2>1
  <2> QED
    BY <2>2, BlocksFacts
<1>5. /\ mu \in [0 .. TOPKEY -> SUBSET Spot]
      /\ \A l \in 0 .. TOPKEY : mu[l] = IF l = k THEN B ELSE mt[l]
  BY <1>1, <1>2, <1>4
<1>6. \A x \in ob : x.at.page # p
  BY DEF PagesOfObjects
<1>7. \A l \in 0 .. TOPKEY : \A x \in mt[l] : x.page # p
  BY DEF PagesOfObjects
<1>8. \A l \in 0 .. TOPKEY : \A x \in mu[l] : x \in BlocksIn(x.page, 2^l)
  BY <1>2, <1>4, <1>5 DEF BlocksOk
<1>9. \A l, j \in 0 .. TOPKEY : \A x \in mu[l], y \in mu[j] : x.page = y.page => l = j
  <2> SUFFICES ASSUME NEW l \in 0 .. TOPKEY, NEW j \in 0 .. TOPKEY, NEW x \in mu[l], NEW y \in mu[j],
                      x.page = y.page
               PROVE  l = j
    OBVIOUS
  <2>1. CASE l = k /\ j # k
    BY <1>4, <1>5, <1>7, <2>1
  <2>2. CASE l # k /\ j = k
    BY <1>4, <1>5, <1>7, <2>2
  <2>3. CASE l # k /\ j # k
    BY <1>5, <2>3 DEF BlocksOk
  <2> QED
    BY <2>1, <2>2, <2>3
<1>10. \A l \in 0 .. TOPKEY : \A x \in mu[l], y \in ob : x.page = y.at.page => l = y.key /\ x # y.at
  BY <1>4, <1>5, <1>6 DEF BlocksOk
<1>11. BlocksOk(mu, ob)
  <2>1. /\ \A x \in ob : x.at \in BlocksIn(x.at.page, 2^x.key) /\ x.asked <= 2^x.key
        /\ \A x, y \in ob : x.at.page = y.at.page => x.key = y.key /\ (x.at = y.at => x = y)
    BY DEF BlocksOk
  <2> QED
    BY <1>1, <1>5, <1>8, <1>9, <1>10, <2>1 DEF BlocksOk
<1>12. PagesOfObjects(mu, ob) \subseteq PagesOfObjects(mt, ob) \cup {p}
  <2>1. \A x \in ob : x.at.page \in PagesOfObjects(mt, ob)
    BY DEF PagesOfObjects
  <2>2. ASSUME NEW l \in 0 .. TOPKEY, NEW x \in mu[l] PROVE x.page \in PagesOfObjects(mt, ob) \cup {p}
    <3>1. CASE l = k
      BY <1>4, <1>5, <3>1
    <3>2. CASE l # k
      BY <1>5, <3>2 DEF PagesOfObjects
    <3> QED
      BY <3>1, <3>2
  <2> QED
    BY <2>1, <2>2 DEF PagesOfObjects
<1>13. PagesOfObjects(mt, ob) \subseteq PagesOfObjects(mu, ob)
  <2>1. \A x \in ob : x.at.page \in PagesOfObjects(mu, ob)
    BY DEF PagesOfObjects
  <2>2. ASSUME NEW l \in 0 .. TOPKEY, NEW x \in mt[l] PROVE x.page \in PagesOfObjects(mu, ob)
    BY <1>5 DEF PagesOfObjects
  <2> QED
    BY <2>1, <2>2 DEF PagesOfObjects
<1>14. p \in PagesOfObjects(mu, ob)
  <2>1. PICK x \in B : TRUE
    BY <1>2
  <2>2. x \in mu[k] /\ x.page = p
    BY <1>4, <1>5
  <2> QED
    BY <2>2 DEF PagesOfObjects
<1> QED
  BY <1>11, <1>12, <1>13, <1>14 DEF Gains

\* An object becomes a free block.
BlockBack(mt, z) == [mt EXCEPT ![z.key] = @ \cup {z.at}]

LEMMA TakeBack ==
    ASSUME NEW mt, NEW ob, BlocksOk(mt, ob), NEW z \in ob
    PROVE  Keeps(mt, ob, BlockBack(mt, z), ob \ {z})
<1> PICK mu, oc : mu = [mt EXCEPT ![z.key] = @ \cup {z.at}] /\ oc = ob \ {z}
  OBVIOUS
<1> SUFFICES Keeps(mt, ob, mu, oc)
  BY DEF BlockBack
<1>1. mt \in [0 .. TOPKEY -> SUBSET Spot] /\ ob \subseteq Object /\ oc \subseteq ob
  BY DEF BlocksOk
<1>2. PICK a, k : a = z.at /\ k = z.key
  OBVIOUS
<1>3. a \in Spot /\ k \in 0 .. TOPKEY
  BY <1>1, <1>2 DEF Object
<1>4. /\ mu \in [0 .. TOPKEY -> SUBSET Spot]
      /\ \A l \in 0 .. TOPKEY : mu[l] = IF l = k THEN mt[l] \cup {a} ELSE mt[l]
  BY <1>1, <1>2, <1>3
<1>5. \A l \in 0 .. TOPKEY : \A x \in mu[l] : (x = a /\ l = k) \/ x \in mt[l]
  BY <1>4
<1>6. a \in BlocksIn(a.page, 2^k)
  BY <1>2 DEF BlocksOk
<1>7. \A l \in 0 .. TOPKEY : \A x \in mt[l] : x.page = a.page => l = k
  BY <1>2 DEF BlocksOk
<1>8. \A y \in oc : y.at.page = a.page => y.key = k /\ y.at # a
  BY <1>2 DEF BlocksOk
<1>9. \A l \in 0 .. TOPKEY : \A x \in mu[l] : x \in BlocksIn(x.page, 2^l)
  BY <1>5, <1>6 DEF BlocksOk
<1>10. \A l, j \in 0 .. TOPKEY : \A x \in mu[l], y \in mu[j] : x.page = y.page => l = j
  <2> SUFFICES ASSUME NEW l \in 0 .. TOPKEY, NEW j \in 0 .. TOPKEY, NEW x \in mu[l], NEW y \in mu[j],
                      x.page = y.page
               PROVE  l = j
    OBVIOUS
  <2>1. CASE x = a /\ l = k
    BY <1>5, <1>7, <2>1
  <2>2. CASE y = a /\ j = k
    BY <1>5, <1>7, <2>2
  <2>3. CASE x \in mt[l] /\ y \in mt[j]
    BY <2>3 DEF BlocksOk
  <2> QED
    BY <1>5, <2>1, <2>2, <2>3
<1>11. \A l \in 0 .. TOPKEY : \A x \in mu[l], y \in oc : x.page = y.at.page => l = y.key /\ x # y.at
  <2> SUFFICES ASSUME NEW l \in 0 .. TOPKEY, NEW x \in mu[l], NEW y \in oc, x.page = y.at.page
               PROVE  l = y.key /\ x # y.at
    OBVIOUS
  <2>1. CASE x = a /\ l = k
    BY <1>8, <2>1
  <2>2. CASE x \in mt[l]
    BY <1>1, <2>2 DEF BlocksOk
  <2> QED
    BY <1>5, <2>1, <2>2
<1>12. BlocksOk(mu, oc)
  <2>1. /\ \A x \in oc : x.at \in BlocksIn(x.at.page, 2^x.key) /\ x.asked <= 2^x.key
        /\ \A x, y \in oc : x.at.page = y.at.page => x.key = y.key /\ (x.at = y.at => x = y)
    BY <1>1 DEF BlocksOk
  <2> QED
    BY <1>1, <1>4, <1>9, <1>10, <1>11, <2>1 DEF BlocksOk
<1>13. PagesOfObjects(mu, oc) \subseteq PagesOfObjects(mt, ob)
  <2>1. \A x \in oc : x.at.page \in PagesOfObjects(mt, ob)
    BY <1>1 DEF PagesOfObjects
  <2>2. a.page \in PagesOfObjects(mt, ob)
    BY <1>2 DEF PagesOfObjects
  <2>3. ASSUME NEW l \in 0 .. TOPKEY, NEW x \in mt[l] PROVE x.page \in PagesOfObjects(mt, ob)
    BY DEF PagesOfObjects
  <2>4. ASSUME NEW l \in 0 .. TOPKEY, NEW x \in mu[l] PROVE x.page \in PagesOfObjects(mt, ob)
    BY <1>5, <2>2, <2>3
  <2> QED
    BY <2>1, <2>4 DEF PagesOfObjects
<1>14. PagesOfObjects(mt, ob) \subseteq PagesOfObjects(mu, oc)
  <2>1. a.page \in PagesOfObjects(mu, oc)
    <3>1. a \in mu[k]
      BY <1>3, <1>4
    <3> QED
      BY <1>3, <3>1 DEF PagesOfObjects
  <2>2. \A x \in ob : x.at.page \in PagesOfObjects(mu, oc)
    BY <1>2, <2>1 DEF PagesOfObjects
  <2>3. ASSUME NEW l \in 0 .. TOPKEY, NEW x \in mt[l] PROVE x.page \in PagesOfObjects(mu, oc)
    BY <1>4 DEF PagesOfObjects
  <2> QED
    BY <2>2, <2>3 DEF PagesOfObjects
<1> QED
  BY <1>12, <1>13, <1>14 DEF Keeps

\* A page for objects leaves the free pages.
LEMMA PageCut ==
    ASSUME NEW w, NEW m, NEW sp, NEW P, PagesOk(w, m, sp, P), m.free # {}
    PROVE  PagesOk(w, AllocPage(m), sp, P \cup {NextPage(m)})
<1>1. PICK n, p : n = AllocPage(m) /\ p = NextPage(m)
  OBVIOUS
<1>2. MemOk(m) /\ SpacesOk(sp) /\ UsesApart(m, sp, P) /\ NoneLost(w, m, sp, P) /\ ZeroCounted(w, m, sp)
  BY DEF PagesOk
<1>3. /\ p \in m.free /\ p \in Nonzero /\ MemOk(n) /\ n.free = m.free \ {p}
      /\ n.refs[ZeroPage] = m.refs[ZeroPage]
  BY <1>1, <1>2, AllocFacts
<1>4. UsesApart(n, sp, P \cup {p})
  <2>1. P \cup {p} \subseteq Nonzero /\ (P \cup {p}) \cap n.free = {}
    BY <1>2, <1>3 DEF UsesApart
  <2>2. \A o \in Owners : Held(sp[o]) \cap n.free = {} /\ Held(sp[o]) \cap (P \cup {p}) = {}
    BY <1>2, <1>3 DEF UsesApart
  <2> QED
    BY <1>2, <2>1, <2>2 DEF UsesApart
<1>5. NoneLost(w, n, sp, P \cup {p})
  BY <1>2, <1>3 DEF NoneLost
<1>6. ZeroCounted(w, n, sp)
  BY <1>2, <1>3 DEF ZeroCounted
<1> QED
  BY <1>1, <1>2, <1>3, <1>4, <1>5, <1>6 DEF PagesOk

LEMMA ObjPagesAre == ObjPages = PagesOfObjects(memtable, objs)
  BY DEF ObjPages, PagesOfObjects

LEMMA KallocStep ==
    ASSUME MemInv, NEW size \in ObjSizes, Kalloc(size)
    PROVE  MemInv'
<1>1. PICK m, sp, mt, ob, w : m = mem /\ sp = space /\ mt = memtable /\ ob = objs /\ w = wrapped
  OBVIOUS
<1>2. PICK P : P = PagesOfObjects(mt, ob)
  OBVIOUS
<1>3. PagesOk(w, m, sp, P) /\ BlocksOk(mt, ob)
  BY <1>1, <1>2, ObjPagesAre DEF MemInv
<1>4. PICK k : k = LowestPow(IF size < MINSIZE THEN MINSIZE ELSE size)
  OBVIOUS
<1>5. k \in 0 .. TOPKEY /\ size <= 2^k
  <2>1. size \in Nat /\ size <= 2^TOPKEY /\ MINSIZE \in Nat /\ MINSIZE <= 2^TOPKEY
    BY ObjectAssumption
  <2>2. CASE size < MINSIZE
    <3>1. k \in 0 .. TOPKEY /\ MINSIZE <= 2^k
      BY <1>4, <2>1, <2>2, LowestPowFacts
    <3>2. 2^k \in Nat
      BY <3>1, ObjectAssumption, PowerFacts
    <3> QED
      BY <2>1, <2>2, <3>1, <3>2
  <2>3. CASE ~ (size < MINSIZE)
    BY <1>4, <2>1, <2>3, LowestPowFacts
  <2> QED
    BY <2>2, <2>3
<1>6. mt \in [0 .. TOPKEY -> SUBSET Spot]
  BY <1>3 DEF BlocksOk
<1>7. PICK p, B : p = NextPage(m) /\ B = BlocksIn(p, 2^k)
  OBVIOUS
<1>8. CASE mt[k] # {}
  <2>1. PICK a : a = AnyBlock(mt[k])
    OBVIOUS
  <2>2. a \in mt[k]
    BY <1>5, <1>6, <1>8, <2>1, AnyBlockFacts
  <2>3. /\ mem' = m /\ space' = sp /\ wrapped' = w
        /\ memtable' = [mt EXCEPT ![k] = mt[k] \ {a}]
        /\ objs' = ob \cup {[at |-> a, asked |-> size, key |-> k]}
    BY <1>1, <1>4, <1>8, <2>1 DEF Kalloc
  <2>4. BlocksOk(memtable', objs') /\ PagesOfObjects(memtable', objs') = P
    <3>1. Keeps(mt, ob, BlockTaken(mt, k, a), WithObject(ob, k, a, size))
      BY <1>3, <1>5, <2>2, GiveOut
    <3>2. memtable' = BlockTaken(mt, k, a) /\ objs' = WithObject(ob, k, a, size)
      BY <2>3 DEF BlockTaken, WithObject
    <3> QED
      BY <1>2, <3>1, <3>2 DEF Keeps
  <2>5. ObjPages' = PagesOfObjects(memtable', objs')
    BY DEF ObjPages, PagesOfObjects
  <2> QED
    BY <1>3, <2>3, <2>4, <2>5 DEF MemInv
<1>9. CASE mt[k] = {}
  <2>1. PICK a : a = AnyBlock(B)
    OBVIOUS
  <2>2. /\ m.free # {} /\ B # {} /\ mem' = AllocPage(m) /\ space' = sp /\ wrapped' = w
        /\ memtable' = [mt EXCEPT ![k] = B \ {a}]
        /\ objs' = ob \cup {[at |-> a, asked |-> size, key |-> k]}
    BY <1>1, <1>4, <1>7, <1>9, <2>1 DEF Kalloc
  <2>3. MemOk(m) /\ P \cap m.free = {}
    BY <1>3 DEF PagesOk, UsesApart
  <2>4. p \in Pages /\ p \notin P
    BY <1>7, <2>2, <2>3, AllocFacts DEF Nonzero
  <2>5. PICK mu : mu = [mt EXCEPT ![k] = B]
    OBVIOUS
  <2>6. BlocksOk(mu, ob) /\ PagesOfObjects(mu, ob) = P \cup {p}
    <3>1. Gains(mt, ob, PageBlocks(mt, k, p), p)
      BY <1>2, <1>3, <1>5, <1>7, <1>9, <2>2, <2>4, CutPage
    <3>2. mu = PageBlocks(mt, k, p)
      BY <1>7, <2>5 DEF PageBlocks
    <3> QED
      BY <1>2, <3>1, <3>2 DEF Gains
  <2>7. mu[k] = B /\ B \subseteq Spot
    BY <1>5, <1>6, <2>5, <2>6 DEF BlocksOk
  <2>8. a \in mu[k]
    BY <2>1, <2>2, <2>7, AnyBlockFacts
  <2>9. memtable' = [mu EXCEPT ![k] = mu[k] \ {a}]
    BY <1>6, <2>2, <2>5, <2>7
  <2>10. BlocksOk(memtable', objs') /\ PagesOfObjects(memtable', objs') = P \cup {p}
    <3>1. Keeps(mu, ob, BlockTaken(mu, k, a), WithObject(ob, k, a, size))
      BY <1>5, <2>6, <2>8, GiveOut
    <3>2. memtable' = BlockTaken(mu, k, a) /\ objs' = WithObject(ob, k, a, size)
      BY <2>2, <2>9 DEF BlockTaken, WithObject
    <3> QED
      BY <2>6, <3>1, <3>2 DEF Keeps
  <2>11. ObjPages' = PagesOfObjects(memtable', objs')
    BY DEF ObjPages, PagesOfObjects
  <2>12. PagesOk(w, AllocPage(m), sp, P \cup {p})
    BY <1>3, <1>7, <2>2, PageCut
  <2> QED
    BY <2>2, <2>10, <2>11, <2>12 DEF MemInv
<1> QED
  BY <1>8, <1>9

LEMMA KfreeStep == ASSUME MemInv, NEW x \in objs, Kfree(x) PROVE MemInv'
<1>1. PICK mt, ob, z : mt = memtable /\ ob = objs /\ z = x
  OBVIOUS
<1>2. BlocksOk(mt, ob) /\ z \in ob /\ PagesOk(wrapped, mem, space, PagesOfObjects(mt, ob))
  BY <1>1, ObjPagesAre DEF MemInv
<1>3. /\ mem' = mem /\ space' = space /\ wrapped' = wrapped /\ objs' = ob \ {z}
      /\ memtable' = [mt EXCEPT ![z.key] = @ \cup {z.at}]
  BY <1>1 DEF Kfree
<1>4. Keeps(mt, ob, BlockBack(mt, z), ob \ {z})
  BY <1>2, TakeBack
<1>5. BlocksOk(memtable', objs') /\ PagesOfObjects(memtable', objs') = PagesOfObjects(mt, ob)
  BY <1>3, <1>4 DEF Keeps, BlockBack
<1>6. ObjPages' = PagesOfObjects(memtable', objs')
  BY DEF ObjPages, PagesOfObjects
<1> QED
  BY <1>2, <1>3, <1>5, <1>6 DEF MemInv

-----------------------------------------------------------------------------
(* The invariant *)

LEMMA MemInvInit == MemoryInit => MemInv
<1> SUFFICES ASSUME MemoryInit PROVE MemInv
  OBVIOUS
<1>1. PICK a : a = [free |-> Pages, refs |-> [p \in Pages |-> 0], cnt |-> 0]
  OBVIOUS
<1>2. a.free = Pages /\ a.refs = [p \in Pages |-> 0] /\ a.cnt = 0
  BY <1>1
<1>3. NextPage(a) = ZeroPage
  <2>1. \E p \in Pages : \A q \in Pages : p <= q
    BY PagesAssumption, LeastExists
  <2>2. NextPage(a) \in Pages /\ \A q \in Pages : NextPage(a) <= q
    BY <1>2, <2>1 DEF NextPage
  <2>3. NextPage(a) \in Nat /\ NextPage(a) # 0 /\ NextPage(a) <= 1
    BY <2>2, PagesAssumption
  <2> QED
    BY <2>3 DEF ZeroPage
<1>4. mem = [free |-> Pages \ {ZeroPage}, refs |-> [a.refs EXCEPT ![ZeroPage] = 1], cnt |-> 1]
  <2>1. mem = AllocPage(a)
    BY <1>1 DEF MemoryInit
  <2>2. a.cnt + 1 = 1
    BY <1>2
  <2> QED
    BY <1>2, <1>3, <2>1, <2>2 DEF AllocPage
<1>5. /\ mem.free = Nonzero /\ mem.refs \in [Pages -> Int] /\ mem.refs[ZeroPage] = 1 /\ mem.cnt = 1
      /\ \A p \in Nonzero : mem.refs[p] = 0
  BY <1>2, <1>4, PagesAssumption DEF Nonzero, ZeroPage
<1>6. MemOk(mem)
  <2>1. Cardinality(Nonzero) = Cardinality(Pages) - 1 /\ Cardinality(Pages) \in Nat
    BY PagesAssumption, FS_RemoveElement, FS_CardinalityType DEF Nonzero, ZeroPage
  <2>2. mem.cnt = Cardinality(Pages) - Cardinality(mem.free)
    BY <1>5, <2>1
  <2>3. mem \in MemRec
    BY <1>4, <1>5 DEF MemRec
  <2>4. \A p \in Nonzero : mem.refs[p] = IF p \in mem.free THEN 0 ELSE 1
    BY <1>5
  <2> QED
    BY <1>5, <2>2, <2>3, <2>4 DEF MemOk, Nonzero
<1>7. space = [o \in Owners |-> Dead] /\ memtable = [k \in 0 .. TOPKEY |-> {}] /\ objs = {}
  BY DEF MemoryInit
<1>8. SpacesOk(space) /\ \A o \in Owners : space[o] = Dead
  BY <1>7, DeadFacts DEF SpacesOk, SpaceOk
<1>9. ObjPages = {}
  BY <1>7 DEF ObjPages
<1>10. UsesApart(mem, space, ObjPages) /\ NoneLost(wrapped, mem, space, ObjPages)
  BY <1>5, <1>8, <1>9, DeadFacts DEF UsesApart, NoneLost
<1>11. ZeroCounted(wrapped, mem, space)
  <2>1. ZeroUses(space) = {}
    BY <1>8, DeadFacts DEF ZeroUses
  <2> QED
    BY <1>5, <2>1, FS_EmptySet DEF ZeroCounted
<1>12. BlocksOk(memtable, objs)
  BY <1>7 DEF BlocksOk
<1>13. wrapped \in BOOLEAN /\ AllBelowEnd(wrapped, space)
  BY <1>8, DeadFacts DEF MemoryInit, AllBelowEnd
<1> QED
  BY <1>6, <1>8, <1>10, <1>11, <1>12, <1>13 DEF MemInv, PagesOk

LEMMA MemInvNext == MemInv /\ [MemoryNext]_memVars => MemInv'
<1> SUFFICES ASSUME MemInv, [MemoryNext]_memVars PROVE MemInv'
  OBVIOUS
<1>1. PICK P : P = ObjPages
  OBVIOUS
<1>2. PagesOk(wrapped, mem, space, P) /\ BlocksOk(memtable, objs)
  BY <1>1 DEF MemInv
<1>3. ASSUME UNCHANGED <<memtable, objs>>, PagesOk(wrapped', mem', space', P) PROVE MemInv'
  <2>1. ObjPages' = P
    BY <1>1, <1>3 DEF ObjPages
  <2> QED
    BY <1>2, <1>3, <2>1 DEF MemInv
<1>4. CASE UNCHANGED memVars
  BY <1>2, <1>3, <1>4 DEF memVars
<1>5. ASSUME NEW o \in Owners, MemCreate(o) PROVE MemInv'
  <2>1. PagesOk(wrapped', mem', space', P)
    BY <1>2, <1>5, CreateStep
  <2>2. UNCHANGED <<memtable, objs>>
    BY <1>5 DEF MemCreate
  <2> QED
    BY <1>3, <2>1, <2>2
<1>6. ASSUME NEW o \in Owners, MemExit(o) PROVE MemInv'
  <2>1. PagesOk(wrapped', mem', space', P)
    BY <1>2, <1>6, ExitStep
  <2>2. UNCHANGED <<memtable, objs>>
    BY <1>6 DEF MemExit
  <2> QED
    BY <1>3, <2>1, <2>2
<1>7. ASSUME NEW o \in Owners, NEW n \in 1 .. HeapMax + HeapMin, SbrkGrow(o, n) PROVE MemInv'
  <2>1. PagesOk(wrapped', mem', space', P)
    BY <1>2, <1>7, SpaceAssumption, GrowStep
  <2>2. UNCHANGED <<memtable, objs>>
    BY <1>7 DEF SbrkGrow
  <2> QED
    BY <1>3, <2>1, <2>2
<1>8. ASSUME NEW o \in Owners, NEW n \in 1 .. HeapMax + HeapMin, SbrkShrink(o, n) PROVE MemInv'
  <2>1. PagesOk(wrapped', mem', space', P)
    BY <1>2, <1>8, SpaceAssumption, ShrinkStep
  <2>2. UNCHANGED <<memtable, objs>>
    BY <1>8 DEF SbrkShrink
  <2> QED
    BY <1>3, <2>1, <2>2
<1>9. ASSUME NEW o \in Owners, NEW v \in VAs, PgFault(o, v) PROVE MemInv'
  <2>1. PagesOk(wrapped', mem', space', P)
    BY <1>2, <1>9, PgFaultStep
  <2>2. UNCHANGED <<memtable, objs>>
    BY <1>9 DEF PgFault
  <2> QED
    BY <1>3, <2>1, <2>2
<1>10. ASSUME NEW o \in Owners, NEW v \in VAs, MapZero(o, v) PROVE MemInv'
  <2>1. PagesOk(wrapped', mem', space', P)
    BY <1>2, <1>10, MapZeroStep
  <2>2. UNCHANGED <<memtable, objs>>
    BY <1>10 DEF MapZero
  <2> QED
    BY <1>3, <2>1, <2>2
<1>11. ASSUME NEW size \in ObjSizes, Kalloc(size) PROVE MemInv'
  BY <1>11, KallocStep
<1>12. ASSUME NEW x \in objs, Kfree(x) PROVE MemInv'
  BY <1>12, KfreeStep
<1> QED
  BY <1>4, <1>5, <1>6, <1>7, <1>8, <1>9, <1>10, <1>11, <1>12 DEF MemoryNext

\* Every page has one use or is free, only the zero page is shared, no page is
\* lost, and the blocks of a page lie apart: kalloc_page, kfree_page, kalloc,
\* kfree, the page faults, sbrk and exit keep this up.
THEOREM MemorySound == MemorySpec => []MemInv
<1>1. MemoryInit => MemInv
  BY MemInvInit
<1>2. MemInv /\ [MemoryNext]_memVars => MemInv'
  BY MemInvNext
<1> QED
  BY <1>1, <1>2, PTL DEF MemorySpec

-----------------------------------------------------------------------------
(* What the invariant says of the uses of a page *)

StackUses(p) == {o \in Owners : Live(o) /\ space[o].kstack = p}
RootUses(p) == {o \in Owners : Live(o) /\ space[o].root = p}
TableUses(p) == {x \in Owners \X (1 .. Depth) :
                    x[2] \in DOMAIN space[x[1]].tables /\ space[x[1]].tables[x[2]] = p}
Mapping(o, p) == {v \in VAs : space[o].pte[v] # NoPte /\ space[o].pte[v].page = p}
EntryUses(p) == UNION {{<<o, v>> : v \in Mapping(o, p)} : o \in Owners}

UsesSum(p) == Cardinality(StackUses(p)) + Cardinality(RootUses(p))
              + Cardinality(TableUses(p)) + Cardinality(EntryUses(p))

LEMMA UsesFinite ==
    ASSUME NEW p
    PROVE  /\ Cardinality(StackUses(p)) \in Nat /\ Cardinality(RootUses(p)) \in Nat
           /\ Cardinality(TableUses(p)) \in Nat /\ Cardinality(EntryUses(p)) \in Nat
<1>1. StackUses(p) \subseteq Owners /\ RootUses(p) \subseteq Owners
  BY DEF StackUses, RootUses
<1>2. TableUses(p) \subseteq Owners \X (1 .. Depth)
  BY DEF TableUses
<1>3. EntryUses(p) \subseteq Owners \X VAs
  BY DEF EntryUses, Mapping
<1>4. IsFiniteSet(Owners) /\ IsFiniteSet(1 .. Depth) /\ IsFiniteSet(VAs)
  BY SpaceAssumption, FS_Interval, FiniteVAs
<1>5. IsFiniteSet(Owners \X (1 .. Depth)) /\ IsFiniteSet(Owners \X VAs)
  BY <1>4, FS_Product
<1> QED
  BY <1>1, <1>2, <1>3, <1>4, <1>5, FS_Subset, FS_CardinalityType

LEMMA UsesAre ==
    ASSUME NEW p
    PROVE  Uses(p) = (IF p = ZeroPage THEN 1 ELSE 0) + (IF p \in ObjPages THEN 1 ELSE 0) + UsesSum(p)
<1>1. PICK k, r, t, e : /\ k = Cardinality(StackUses(p)) /\ r = Cardinality(RootUses(p))
                        /\ t = Cardinality(TableUses(p)) /\ e = Cardinality(EntryUses(p))
  OBVIOUS
<1>2. PICK a, b : a = (IF p = ZeroPage THEN 1 ELSE 0) /\ b = (IF p \in ObjPages THEN 1 ELSE 0)
  OBVIOUS
<1>3. Uses(p) = a + b + k + r + t + e
  BY <1>1, <1>2 DEF Uses, StackUses, RootUses, TableUses, EntryUses, Mapping
<1>4. k \in Nat /\ r \in Nat /\ t \in Nat /\ e \in Nat /\ a \in Nat /\ b \in Nat
  BY <1>1, <1>2, UsesFinite
<1>5. UsesSum(p) = k + r + t + e
  BY <1>1 DEF UsesSum
<1> QED
  BY <1>2, <1>3, <1>4, <1>5

\* A process that does not hold the page does not use it.
LEMMA NotHeld ==
    ASSUME NEW o \in Owners, SpaceOk(space[o]), NEW p \in Pages, p \notin Held(space[o])
    PROVE  /\ o \notin StackUses(p) /\ o \notin RootUses(p)
           /\ \A i \in DOMAIN space[o].tables : space[o].tables[i] # p
           /\ p # ZeroPage => Mapping(o, p) = {}
<1>1. PICK s : s = space[o]
  OBVIOUS
<1>2. CASE s.state = "live"
  <2>1. p # s.kstack /\ p # s.root /\ p \notin Members(s.tables) /\ p \notin HeapPages(s)
    BY <1>1, <1>2 DEF Held
  <2> QED
    BY <1>1, <2>1 DEF StackUses, RootUses, Members, HeapPages, Private, Mapping
<1>3. CASE s.state # "live"
  <2>1. s = Dead
    BY <1>1, <1>3 DEF SpaceOk, SpaceRec
  <2>2. s.tables = <<>> /\ s.pte = [v \in VAs |-> NoPte]
    BY <2>1 DEF Dead
  <2>3. Mapping(o, p) = {}
    BY <1>1, <2>2 DEF Mapping
  <2>4. o \notin StackUses(p) /\ o \notin RootUses(p)
    BY <1>1, <1>3 DEF StackUses, RootUses, Live
  <2> QED
    BY <1>1, <2>2, <2>3, <2>4
<1> QED
  BY <1>2, <1>3

LEMMA NoUse ==
    ASSUME NEW p \in Pages, p # ZeroPage, \A o \in Owners : SpaceOk(space[o]) /\ p \notin Held(space[o])
    PROVE  UsesSum(p) = 0
<1>1. StackUses(p) = {} /\ RootUses(p) = {}
  BY NotHeld DEF StackUses, RootUses
<1>2. TableUses(p) = {}
  BY NotHeld DEF TableUses
<1>3. EntryUses(p) = {}
  BY NotHeld DEF EntryUses
<1> QED
  BY <1>1, <1>2, <1>3, FS_EmptySet DEF UsesSum

\* A page that a process holds has one use.
LEMMA OneUse ==
    ASSUME NEW p \in Nonzero, NEW o \in Owners, p \in Held(space[o]),
           \A q \in Owners : SpaceOk(space[q]) /\ (q # o => p \notin Held(space[q]))
    PROVE  UsesSum(p) = 1
<1>1. PICK s : s = space[o]
  OBVIOUS
<1>2. /\ s.state = "live" /\ p \in {s.kstack, s.root} \cup Members(s.tables) \cup HeapPages(s)
      /\ SpaceOk(s) /\ PagesApart(s) /\ EntriesOk(s) /\ p \in Pages /\ p # ZeroPage
  BY <1>1 DEF Held, SpaceOk, Nonzero
<1>3. \A q \in Owners : q # o => /\ q \notin StackUses(p) /\ q \notin RootUses(p)
                                 /\ \A i \in DOMAIN space[q].tables : space[q].tables[i] # p
                                 /\ Mapping(q, p) = {}
  BY <1>2, NotHeld
<1>4. StackUses(p) = IF s.kstack = p THEN {o} ELSE {}
  BY <1>1, <1>2, <1>3 DEF StackUses, Live
<1>5. RootUses(p) = IF s.root = p THEN {o} ELSE {}
  BY <1>1, <1>2, <1>3 DEF RootUses, Live
<1>6. \A x \in TableUses(p) : x = <<o, x[2]>> /\ x[2] \in DOMAIN s.tables /\ s.tables[x[2]] = p
  BY <1>1, <1>3 DEF TableUses
<1>7. EntryUses(p) = {<<o, v>> : v \in Mapping(o, p)}
  BY <1>3 DEF EntryUses
<1>8. Cardinality({}) = 0 /\ \A x : Cardinality({x}) = 1
  BY FS_EmptySet, FS_Singleton
<1>9. p \notin Members(s.tables) => TableUses(p) = {}
  BY <1>6 DEF Members
<1>10. p \notin HeapPages(s) => EntryUses(p) = {}
  <2>1. p \notin HeapPages(s) => Mapping(o, p) = {}
    BY <1>1, <1>2 DEF HeapPages, Mapping, Private
  <2> QED
    BY <1>7, <2>1
<1>11. CASE p = s.kstack
  <2>1. p # s.root /\ p \notin Members(s.tables) /\ p \notin HeapPages(s)
    BY <1>2, <1>11 DEF PagesApart
  <2>2. StackUses(p) = {o} /\ RootUses(p) = {} /\ TableUses(p) = {} /\ EntryUses(p) = {}
    BY <1>4, <1>5, <1>9, <1>10, <1>11, <2>1
  <2>3. /\ Cardinality(StackUses(p)) = 1 /\ Cardinality(RootUses(p)) = 0
        /\ Cardinality(TableUses(p)) = 0 /\ Cardinality(EntryUses(p)) = 0
    BY <1>8, <2>2
  <2> QED
    BY <2>3 DEF UsesSum
<1>12. CASE p = s.root
  <2>1. p # s.kstack /\ p \notin Members(s.tables) /\ p \notin HeapPages(s)
    BY <1>2, <1>12 DEF PagesApart
  <2>2. StackUses(p) = {} /\ RootUses(p) = {o} /\ TableUses(p) = {} /\ EntryUses(p) = {}
    BY <1>4, <1>5, <1>9, <1>10, <1>12, <2>1
  <2>3. /\ Cardinality(StackUses(p)) = 0 /\ Cardinality(RootUses(p)) = 1
        /\ Cardinality(TableUses(p)) = 0 /\ Cardinality(EntryUses(p)) = 0
    BY <1>8, <2>2
  <2> QED
    BY <2>3 DEF UsesSum
<1>13. CASE p \in Members(s.tables)
  <2>1. p # s.kstack /\ p # s.root /\ p \notin HeapPages(s)
    BY <1>2, <1>13 DEF PagesApart
  <2>2. PICK i \in DOMAIN s.tables : s.tables[i] = p
    BY <1>13 DEF Members
  <2>3. Distinct(s.tables) /\ Len(s.tables) <= Depth /\ s.tables \in Seq(Pages)
    BY <1>2 DEF SpaceOk, PagesApart, SpaceRec
  <2>4. i \in 1 .. Depth
    BY <2>3, SpaceAssumption
  <2>5. \A x \in TableUses(p) : x = <<o, i>>
    BY <1>6, <2>2, <2>3 DEF Distinct
  <2>6. <<o, i>> \in TableUses(p)
    BY <1>1, <2>2, <2>4 DEF TableUses
  <2>7. TableUses(p) = {<<o, i>>}
    BY <2>5, <2>6
  <2>8. StackUses(p) = {} /\ RootUses(p) = {} /\ EntryUses(p) = {}
    BY <1>4, <1>5, <1>10, <2>1
  <2>9. /\ Cardinality(StackUses(p)) = 0 /\ Cardinality(RootUses(p)) = 0
        /\ Cardinality(TableUses(p)) = 1 /\ Cardinality(EntryUses(p)) = 0
    BY <1>8, <2>7, <2>8
  <2> QED
    BY <2>9 DEF UsesSum
<1>14. CASE p \in HeapPages(s)
  <2>1. p # s.kstack /\ p # s.root /\ p \notin Members(s.tables)
    BY <1>2, <1>14 DEF PagesApart
  <2>2. PICK v \in Private(s) : s.pte[v].page = p
    BY <1>14 DEF HeapPages
  <2>3. Mapping(o, p) = {v}
    <3>1. \A w \in Mapping(o, p) : w \in Private(s) /\ s.pte[w].page = p
      BY <1>1, <1>2 DEF Mapping, Private
    <3>2. v \in Mapping(o, p)
      BY <1>1, <2>2 DEF Mapping, Private
    <3> QED
      BY <1>2, <2>2, <3>1, <3>2 DEF EntriesOk
  <2>4. EntryUses(p) = {<<o, v>>}
    BY <1>7, <2>3
  <2>5. StackUses(p) = {} /\ RootUses(p) = {} /\ TableUses(p) = {}
    BY <1>4, <1>5, <1>9, <2>1
  <2>6. /\ Cardinality(StackUses(p)) = 0 /\ Cardinality(RootUses(p)) = 0
        /\ Cardinality(TableUses(p)) = 0 /\ Cardinality(EntryUses(p)) = 1
    BY <1>8, <2>4, <2>5
  <2> QED
    BY <2>6 DEF UsesSum
<1> QED
  BY <1>2, <1>11, <1>12, <1>13, <1>14

LEMMA UsesCounted ==
    ASSUME MemInv
    PROVE  /\ \A p \in Pages :
                 /\ Uses(p) <= mem.refs[p] /\ (p \in mem.free) = (mem.refs[p] = 0)
                 /\ ~ wrapped => mem.refs[p] = Uses(p)
           /\ \A o \in Owners : \A p \in HeapPages(space[o]) : Live(o) => Uses(p) = 1
<1>1. /\ MemOk(mem) /\ SpacesOk(space) /\ UsesApart(mem, space, ObjPages)
      /\ NoneLost(wrapped, mem, space, ObjPages) /\ ZeroCounted(wrapped, mem, space)
  BY DEF MemInv, PagesOk
<1>2. \A o \in Owners : SpaceOk(space[o])
  BY <1>1 DEF SpacesOk
<1>3. ASSUME NEW p \in Nonzero
      PROVE  Uses(p) = (IF p \in ObjPages THEN 1 ELSE 0) + UsesSum(p) /\ p \in Pages /\ p # ZeroPage
  BY <1>3, UsesAre DEF Nonzero, UsesSum
<1>4. ASSUME NEW p \in Nonzero, p \in mem.free PROVE Uses(p) = 0
  <2>1. p \notin ObjPages /\ \A o \in Owners : p \notin Held(space[o])
    BY <1>1, <1>4 DEF UsesApart
  <2>2. UsesSum(p) = 0
    BY <1>2, <1>3, <2>1, NoUse
  <2> QED
    BY <1>3, <2>1, <2>2
<1>5. ASSUME NEW p \in Nonzero, p \in ObjPages PROVE Uses(p) = 1
  <2>1. \A o \in Owners : p \notin Held(space[o])
    BY <1>1, <1>5 DEF UsesApart
  <2>2. UsesSum(p) = 0
    BY <1>2, <1>3, <2>1, NoUse
  <2> QED
    BY <1>3, <1>5, <2>2
<1>6. ASSUME NEW p \in Nonzero, NEW o \in Owners, p \in Held(space[o]) PROVE Uses(p) = 1
  <2>1. p \notin ObjPages /\ \A q \in Owners : q # o => p \notin Held(space[q])
    BY <1>1, <1>6 DEF UsesApart
  <2>2. UsesSum(p) = 1
    BY <1>2, <1>6, <2>1, OneUse
  <2> QED
    BY <1>3, <2>1, <2>2
<1>7. /\ Uses(ZeroPage) <= mem.refs[ZeroPage] /\ mem.refs[ZeroPage] # 0 /\ ZeroPage \notin mem.free
      /\ ~ wrapped => mem.refs[ZeroPage] = Uses(ZeroPage)
  <2>1. ZeroPage \in Pages /\ ZeroPage \notin Nonzero
    BY PagesAssumption DEF ZeroPage, Nonzero
  <2>2. ZeroPage \notin ObjPages /\ \A o \in Owners : ZeroPage \notin Held(space[o])
    BY <1>1, <1>2, <2>1, HeldNonzero DEF UsesApart
  <2>3. StackUses(ZeroPage) = {} /\ RootUses(ZeroPage) = {}
    BY <1>2, <2>1, <2>2, NotHeld DEF StackUses, RootUses
  <2>4. TableUses(ZeroPage) = {}
    BY <1>2, <2>1, <2>2, NotHeld DEF TableUses
  <2>5. EntryUses(ZeroPage) = ZeroUses(space)
    BY DEF EntryUses, ZeroUses, Mapping, Zeros
  <2>6. Cardinality(EntryUses(ZeroPage)) \in Nat /\ Cardinality({}) = 0
    BY UsesFinite, FS_EmptySet
  <2>7. UsesSum(ZeroPage) = Cardinality(ZeroUses(space))
    BY <2>3, <2>4, <2>5, <2>6 DEF UsesSum
  <2>8. Uses(ZeroPage) = 1 + 0 + UsesSum(ZeroPage)
    BY <2>2, UsesAre
  <2>9. /\ mem.refs[ZeroPage] >= 1 + Cardinality(ZeroUses(space)) /\ ZeroPage \notin mem.free
        /\ ~ wrapped => mem.refs[ZeroPage] = 1 + Cardinality(ZeroUses(space))
        /\ mem.refs[ZeroPage] \in Int
    BY <1>1, <2>1 DEF ZeroCounted, MemOk, MemRec
  <2> QED
    BY <2>5, <2>6, <2>7, <2>8, <2>9
<1>8. ASSUME NEW p \in Nonzero
      PROVE  /\ Uses(p) <= mem.refs[p] /\ (p \in mem.free) = (mem.refs[p] = 0)
             /\ ~ wrapped => mem.refs[p] = Uses(p)
  <2>1. mem.refs[p] = IF p \in mem.free THEN 0 ELSE 1
    BY <1>1 DEF MemOk
  <2>2. CASE p \in mem.free
    BY <1>4, <2>1, <2>2
  <2>3. CASE p \notin mem.free
    <3>1. CASE p \in ObjPages \/ \E o \in Owners : p \in Held(space[o])
      <4>1. Uses(p) = 1
        BY <1>5, <1>6, <3>1
      <4> QED
        BY <2>1, <2>3, <4>1
    <3>2. CASE ~ (p \in ObjPages \/ \E o \in Owners : p \in Held(space[o]))
      <4>1. wrapped
        BY <1>1, <2>3, <3>2 DEF NoneLost
      <4>2. UsesSum(p) = 0
        BY <1>2, <1>3, <3>2, NoUse
      <4>3. Uses(p) = 0
        BY <1>3, <3>2, <4>2
      <4> QED
        BY <2>1, <2>3, <4>1, <4>3
    <3> QED
      BY <3>1, <3>2
  <2> QED
    BY <2>2, <2>3
<1>9. ASSUME NEW o \in Owners, NEW p \in HeapPages(space[o]), Live(o) PROVE Uses(p) = 1
  <2>1. p \in Held(space[o])
    BY <1>9 DEF Held, Live
  <2>2. p \in Nonzero
    BY <1>2, <2>1, HeldNonzero
  <2> QED
    BY <1>6, <2>1, <2>2
<1>10. \A p \in Pages : p = ZeroPage \/ p \in Nonzero
  BY DEF Nonzero
<1> QED
  BY <1>7, <1>8, <1>9, <1>10

\* A page that is in use has as many references at least and is not in the
\* queue of free pages; as long as no heap has wrapped, no reference is left
\* over and no page is lost.
THEOREM PagesCounted == MemorySpec => []PagesAreCounted
<1>1. MemInv => PagesAreCounted
  <2> SUFFICES ASSUME MemInv PROVE PagesAreCounted
    OBVIOUS
  <2>1. mem.cnt = Cardinality(Pages) - Cardinality(mem.free)
    BY DEF MemInv, PagesOk, MemOk
  <2> QED
    BY <2>1, UsesCounted DEF PagesAreCounted
<1> QED
  BY <1>1, MemorySound, PTL

\* The page behind an entry that allows writing has no other use: a write of
\* one process changes no other memory, and not the zero page.
THEOREM WritesPrivate == MemorySpec => []WritesArePrivate
<1>1. MemInv => WritesArePrivate
  <2> SUFFICES ASSUME MemInv, NEW o \in Owners, NEW v \in VAs,
                      space[o].pte[v] # NoPte, ~ space[o].pte[v].ro
               PROVE  Uses(space[o].pte[v].page) = 1 /\ (wrapped \/ v < space[o].heap)
    BY DEF WritesArePrivate
  <2>1. SpaceOk(space[o]) /\ EntriesOk(space[o])
    BY DEF MemInv, PagesOk, SpacesOk, SpaceOk
  <2>2. (wrapped \/ v < space[o].heap) /\ v \in Private(space[o])
    <3>1. wrapped \/ v < space[o].heap
      BY DEF MemInv, PagesOk, AllBelowEnd, BelowEnd
    <3> QED
      BY <2>1, <3>1 DEF EntriesOk, Private
  <2>3. Live(o)
    <3>1. space[o].state \in {"none", "live"} /\ (space[o].state = "none" => space[o] = Dead)
      BY <2>1 DEF SpaceOk, SpaceRec
    <3>2. Private(space[o]) # {}
      BY <2>2
    <3> QED
      BY <3>1, <3>2, DeadFacts DEF Live
  <2>4. space[o].pte[v].page \in HeapPages(space[o])
    BY <2>2 DEF HeapPages
  <2> QED
    BY <2>2, <2>3, <2>4, UsesCounted
<1> QED
  BY <1>1, MemorySound, PTL

\* No byte belongs to two objects, or to an object and a free block.
THEOREM ObjectsDisjoint == MemorySpec => []ObjectsAreDisjoint
<1>1. MemInv => ObjectsAreDisjoint
  <2> SUFFICES ASSUME MemInv PROVE ObjectsAreDisjoint
    OBVIOUS
  <2> DEFINE A == {[at |-> x.at, len |-> x.asked] : x \in objs}
             B == UNION {{[at |-> x, len |-> 2^k] : x \in memtable[k]} : k \in 0 .. TOPKEY}
             Of(a, k) == /\ k \in 0 .. TOPKEY /\ a.at \in BlocksIn(a.at.page, 2^k) /\ a.at.page \in Pages
                         /\ a.len \in Nat /\ a.len <= 2^k
  <2>1. BlocksOk(memtable, objs)
    BY DEF MemInv
  <2>2. \A k \in 0 .. TOPKEY : 2^k \in Nat /\ 2^k > 0
    BY PowerFacts, ObjectAssumption
  <2>3. ASSUME NEW x \in objs, NEW a, a = [at |-> x.at, len |-> x.asked] PROVE Of(a, x.key)
    <3>1. x \in Object /\ x.at \in BlocksIn(x.at.page, 2^x.key) /\ x.asked <= 2^x.key
      BY <2>1 DEF BlocksOk
    <3>2. x.at.page \in Pages /\ x.key \in 0 .. TOPKEY /\ x.asked \in Nat
      BY <3>1, ObjectAssumption DEF Object, Spot
    <3> QED
      BY <2>3, <3>1, <3>2
  <2>4. ASSUME NEW k \in 0 .. TOPKEY, NEW x \in memtable[k], NEW a, a = [at |-> x, len |-> 2^k]
        PROVE  Of(a, k)
    <3>1. x \in Spot /\ x \in BlocksIn(x.page, 2^k)
      BY <2>1 DEF BlocksOk
    <3>2. x.page \in Pages
      BY <3>1 DEF Spot
    <3> QED
      BY <2>2, <2>4, <3>1, <3>2
  <2>5. ASSUME NEW a \in A \cup B PROVE HDR <= a.at.off /\ a.at.off + a.len <= PSIZE
    <3>1. \E k : Of(a, k)
      BY <2>3, <2>4
    <3>2. PICK k : Of(a, k)
      BY <3>1
    <3>3. /\ a.at \in Spot /\ HDR <= a.at.off /\ a.at.off + 2^k <= PSIZE
      <4>1. PICK bs \in Nat, p \in Pages, y \in {a.at} : bs = 2^k /\ p = a.at.page
        BY <2>2, <3>2
      <4>2. y \in BlocksIn(p, bs) /\ bs > 0
        BY <2>2, <3>2, <4>1
      <4>3. y \in Spot /\ HDR <= y.off /\ y.off + bs <= PSIZE
        BY <4>2, BlocksFacts
      <4> QED
        BY <4>1, <4>3
    <3>4. a.at.off \in Nat
      BY <3>3 DEF Spot
    <3> QED
      BY <2>2, <3>2, <3>3, <3>4, ObjectAssumption
  <2>6. ASSUME NEW a, NEW b, NEW k, Of(a, k), Of(b, k), a.at.page = b.at.page, a.at # b.at
        PROVE  a.at.off + a.len <= b.at.off \/ b.at.off + b.len <= a.at.off
    <3>1. PICK bs \in Nat, p \in Pages, y \in {a.at}, z \in {b.at} : bs = 2^k /\ p = a.at.page
      BY <2>2, <2>6
    <3>2. y \in BlocksIn(p, bs) /\ z \in BlocksIn(p, bs) /\ bs > 0 /\ y # z
      BY <2>2, <2>6, <3>1
    <3>3. y \in Spot /\ z \in Spot /\ (y.off + bs <= z.off \/ z.off + bs <= y.off)
      BY <3>2, BlocksFacts
    <3>4. y.off \in Nat /\ z.off \in Nat
      BY <3>3 DEF Spot
    <3>5. a.len \in Nat /\ b.len \in Nat /\ a.len <= bs /\ b.len <= bs
      BY <2>6, <3>1
    <3>6. y.off + a.len <= z.off \/ z.off + b.len <= y.off
      BY <3>3, <3>4, <3>5
    <3> QED
      BY <3>1, <3>6
  <2> HIDE DEF Of
  <2>7. ASSUME NEW a \in A \cup B, NEW b \in A \cup B, a # b, a.at.page = b.at.page
        PROVE  a.at # b.at /\ \E k : Of(a, k) /\ Of(b, k)
    <3>1. CASE a \in A /\ b \in A
      <4>1. PICK x \in objs, y \in objs : /\ a = [at |-> x.at, len |-> x.asked]
                                          /\ b = [at |-> y.at, len |-> y.asked]
        BY <3>1
      <4>2. x # y /\ x.at.page = y.at.page
        BY <2>7, <4>1
      <4>3. x.key = y.key /\ x.at # y.at
        BY <2>1, <4>2 DEF BlocksOk
      <4> QED
        BY <2>3, <4>1, <4>3
    <3>2. CASE a \in A /\ b \in B
      <4>0. PICK x \in objs : a = [at |-> x.at, len |-> x.asked]
        BY <3>2
      <4>1. PICK l \in 0 .. TOPKEY : \E y \in memtable[l] : b = [at |-> y, len |-> 2^l]
        BY <3>2
      <4>2. PICK y \in memtable[l] : b = [at |-> y, len |-> 2^l]
        BY <4>1
      <4>3. x.at.page = y.page
        BY <2>7, <4>0, <4>2
      <4>4. l = x.key /\ y # x.at
        BY <2>1, <4>3 DEF BlocksOk
      <4> QED
        BY <2>3, <2>4, <4>0, <4>2, <4>4
    <3>3. CASE a \in B /\ b \in A
      <4>0. PICK x \in objs : b = [at |-> x.at, len |-> x.asked]
        BY <3>3
      <4>1. PICK l \in 0 .. TOPKEY : \E y \in memtable[l] : a = [at |-> y, len |-> 2^l]
        BY <3>3
      <4>2. PICK y \in memtable[l] : a = [at |-> y, len |-> 2^l]
        BY <4>1
      <4>3. x.at.page = y.page
        BY <2>7, <4>0, <4>2
      <4>4. l = x.key /\ y # x.at
        BY <2>1, <4>3 DEF BlocksOk
      <4> QED
        BY <2>3, <2>4, <4>0, <4>2, <4>4
    <3>4. CASE a \in B /\ b \in B
      <4>1. PICK k \in 0 .. TOPKEY : \E x \in memtable[k] : a = [at |-> x, len |-> 2^k]
        BY <3>4
      <4>2. PICK x \in memtable[k] : a = [at |-> x, len |-> 2^k]
        BY <4>1
      <4>3. PICK l \in 0 .. TOPKEY : \E y \in memtable[l] : b = [at |-> y, len |-> 2^l]
        BY <3>4
      <4>4. PICK y \in memtable[l] : b = [at |-> y, len |-> 2^l]
        BY <4>3
      <4>5. x.page = y.page
        BY <2>7, <4>2, <4>4
      <4>6. k = l
        BY <2>1, <4>5 DEF BlocksOk
      <4>7. x # y
        BY <2>7, <4>2, <4>4, <4>6
      <4> QED
        BY <2>4, <4>2, <4>4, <4>6, <4>7
    <3> QED
      BY <3>1, <3>2, <3>3, <3>4
  <2> HIDE DEF A, B
  <2>8. \A a, b \in A \cup B : a # b /\ a.at.page = b.at.page =>
           a.at.off + a.len <= b.at.off \/ b.at.off + b.len <= a.at.off
    BY <2>6, <2>7
  <2>9. /\ \A a \in A \cup B : HDR <= a.at.off /\ a.at.off + a.len <= PSIZE
        /\ \A a, b \in A \cup B : a # b /\ a.at.page = b.at.page =>
              a.at.off + a.len <= b.at.off \/ b.at.off + b.len <= a.at.off
    BY <2>5, <2>8
  <2> QED
    BY <2>9 DEF ObjectsAreDisjoint, A, B
<1> QED
  BY <1>1, MemorySound, PTL

=============================================================================
