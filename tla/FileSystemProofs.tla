------------------------- MODULE FileSystemProofs -------------------------
(***************************************************************************)
(* For any processes, inodes, files and descriptors: references are counted *)
(* exactly on every path of every call, running calls never all wait for    *)
(* locks, entries name inodes in use, and the links of an inode are the     *)
(* entries that name it.                                                    *)
(***************************************************************************)
EXTENDS FileSystem, FiniteSetTheorems, SequenceTheorems, WellFoundedInduction, TLAPS

\* What ends a script, what works on a parent directory, which of these also
\* keep the reference to it, and the steps that put or keep a reference.
LastOps == {"find", "look", "exists", "make", "unlink", "open", "stat", "enter", "swap"}
ParentOps == {"find", "look", "exists", "make", "unlink"}
DpOps == {"exists", "make", "unlink"}
HoldOps == LastOps \cup {"put"}
Ops == HoldOps \cup {"lock", "unlock", "drop"}

StepRec == [op : Ops, i : Inodes]
ParentArg == [call : {"openat", "mkdirat", "mknodat", "unlinkat"}, dp : Inodes, name : Names,
              type : {"file", "dir", "dev", "any"}]

ScriptOk(s, a) ==
    /\ s \in Seq(StepRec)
    /\ \A k \in 1 .. Len(s) : s[k].op \in LastOps => k = Len(s)
    /\ \A k \in 1 .. Len(s) : s[k].op \in ParentOps =>
          /\ a \in ParentArg
          /\ s[k].op \in {"find", "look"} => s[k].i = a.dp
          /\ s[k].op \in {"find", "exists", "make"} => a.type # "any"

\* Step l of the script s keeps a reference to i.
Keeps(s, a, l, i) ==
    (s[l].op \in HoldOps /\ s[l].i = i) \/ (s[l].op \in DpOps /\ a.dp = i)

\* The inodes of p's open files.
OpenBy(p) == {i \in Inodes : \E d \in Fds : ofiles[p][d] # NULL /\ files[ofiles[p][d]].ip = i}

\* An inode that is about to be locked, unlocked or synced is kept by a later
\* step or by an open file, one of O.
Backed(s, a, O) ==
    \A k \in 1 .. Len(s) : s[k].op \notin HoldOps =>
        s[k].i \in O \/ \E l \in k + 1 .. Len(s) : Keeps(s, a, l, s[k].i)

CallOk(s, a, O) == ScriptOk(s, a) /\ Backed(s, a, O)

TypesOk ==
    /\ itab \in [Inodes -> [type : Types, links : Int]]
    /\ dirs \in [Inodes -> SUBSET (Names \X Inodes)]
    /\ mem \in [Inodes -> MemInode \cup {NULL}]
    /\ todo \in [Procs -> Seq(StepRec)]
    /\ DOMAIN arg = Procs

Leading(f) == {x \in Procs \X Fds : ofiles[x[1]][x[2]] = f}

\* A file is open in one process.
OneOwner(of) ==
    \A p, q \in Procs, d, e \in Fds : of[p][d] # NULL /\ of[p][d] = of[q][e] => p = q

TablesOk ==
    /\ files \in [Files -> [ref : Nat, ip : Inodes \cup {NULL}]]
    /\ ofiles \in [Procs -> [Fds -> Files \cup {NULL}]]
    /\ \A f \in Files : files[f].ref > 0 => files[f].ip \in Inodes
    /\ \A f \in Files : files[f].ref = Cardinality(Leading(f))
    /\ OneOwner(ofiles)

Exact ==
    \A i \in Inodes : Cardinality(References(i)) = IF mem[i] = NULL THEN 0 ELSE mem[i].rc

RefInv ==
    /\ TablesOk
    /\ ~ panicked => /\ TypesOk /\ Exact
                     /\ \A p \in Procs : CallOk(todo[p], arg[p], OpenBy(p))

-----------------------------------------------------------------------------
(* Counting references *)

\* The positions of the script that keep i, and the parent.
StepsOn(s, i) == {k \in 1 .. Len(s) : s[k].op \in HoldOps /\ s[k].i = i}
ParentOn(s, a, i) == {k \in 1 .. Len(s) : s[k].op \in DpOps /\ a.dp = i}
Cnt(s, a, i) == Cardinality(StepsOn(s, i)) + Cardinality(ParentOn(s, a, i))
One(x, a, i) == (IF x.op \in HoldOps /\ x.i = i THEN 1 ELSE 0)
                + (IF x.op \in DpOps /\ a.dp = i THEN 1 ELSE 0)

LEMMA CntNat ==
    ASSUME NEW s \in Seq(StepRec), NEW a, NEW i
    PROVE  /\ IsFiniteSet(StepsOn(s, i)) /\ IsFiniteSet(ParentOn(s, a, i))
           /\ Cardinality(StepsOn(s, i)) \in Nat /\ Cardinality(ParentOn(s, a, i)) \in Nat
           /\ Cnt(s, a, i) \in Nat
<1>1. IsFiniteSet(1 .. Len(s))
  BY FS_Interval
<1>2. StepsOn(s, i) \subseteq 1 .. Len(s) /\ ParentOn(s, a, i) \subseteq 1 .. Len(s)
  BY DEF StepsOn, ParentOn
<1>3. IsFiniteSet(StepsOn(s, i)) /\ IsFiniteSet(ParentOn(s, a, i))
  BY <1>1, <1>2, FS_Subset
<1> QED
  BY <1>3, FS_CardinalityType DEF Cnt

\* The places of a sequence that satisfy P, shifted by one.
LEMMA Shifted ==
    ASSUME NEW S \in SUBSET Nat, IsFiniteSet(S), NEW R, R = {k + 1 : k \in S}
    PROVE  IsFiniteSet(R) /\ Cardinality(R) = Cardinality(S)
<1> DEFINE f == [k \in S |-> k + 1]
<1>1. f \in Bijection(S, R)
  <2>1. f \in Surjection(S, R)
    BY DEF Surjection
  <2>2. f \in Injection(S, R)
    BY DEF Injection, IsInjective
  <2> QED
    BY <2>1, <2>2 DEF Bijection
<1>2. ExistsBijection(S, R)
  BY <1>1 DEF ExistsBijection
<1> QED
  BY <1>2, FS_Bijection

LEMMA WithFirst ==
    ASSUME NEW S \in SUBSET (Nat \ {0}), IsFiniteSet(S), NEW c \in BOOLEAN, NEW R,
           R = (IF c THEN {1} ELSE {}) \cup {k + 1 : k \in S}
    PROVE  Cardinality(R) = (IF c THEN 1 ELSE 0) + Cardinality(S)
<1>1. PICK T : T = {k + 1 : k \in S}
  OBVIOUS
<1>2. IsFiniteSet(T) /\ Cardinality(T) = Cardinality(S)
  BY <1>1, Shifted
<1>3. 1 \notin T
  BY <1>1
<1>4. Cardinality(T) \in Nat
  BY <1>2, FS_CardinalityType
<1>5. CASE c
  <2>1. R = T \cup {1}
    BY <1>1, <1>5
  <2>2. Cardinality(R) = Cardinality(T) + 1
    BY <1>2, <1>3, <2>1, FS_AddElement
  <2> QED
    BY <1>2, <1>4, <1>5, <2>2
<1>6. CASE ~ c
  BY <1>1, <1>2, <1>4, <1>6
<1> QED
  BY <1>5, <1>6

LEMMA CntTail ==
    ASSUME NEW s \in Seq(StepRec), s # <<>>, NEW a, NEW i
    PROVE  Cnt(s, a, i) = One(s[1], a, i) + Cnt(Tail(s), a, i)
<1>1. PICK t \in Seq(StepRec) : t = Tail(s)
  BY HeadTailProperties
<1>2. Len(t) = Len(s) - 1 /\ Len(s) \in Nat /\ Len(t) \in Nat /\ Len(s) > 0
  BY <1>1
<1>3. \A k \in 1 .. Len(t) : t[k] = s[k + 1]
  BY <1>1, <1>2
<1>4. \A k \in 1 .. Len(s) : k = 1 \/ (k - 1 \in 1 .. Len(t) /\ k = (k - 1) + 1 /\ s[k] = t[k - 1])
  BY <1>2, <1>3
<1>5. StepsOn(s, i) = (IF s[1].op \in HoldOps /\ s[1].i = i THEN {1} ELSE {})
                      \cup {k + 1 : k \in StepsOn(t, i)}
  <2>1. ASSUME NEW x \in StepsOn(s, i), x # 1 PROVE x \in {k + 1 : k \in StepsOn(t, i)}
    <3>1. x - 1 \in StepsOn(t, i) /\ x = (x - 1) + 1
      BY <1>4, <2>1 DEF StepsOn
    <3> QED
      BY <3>1
  <2>2. ASSUME NEW k \in StepsOn(t, i) PROVE k + 1 \in StepsOn(s, i)
    BY <1>2, <1>3 DEF StepsOn
  <2>3. 1 \in StepsOn(s, i) <=> s[1].op \in HoldOps /\ s[1].i = i
    BY <1>2 DEF StepsOn
  <2> QED
    BY <2>1, <2>2, <2>3
<1>6. ParentOn(s, a, i) = (IF s[1].op \in DpOps /\ a.dp = i THEN {1} ELSE {})
                          \cup {k + 1 : k \in ParentOn(t, a, i)}
  <2>1. ASSUME NEW x \in ParentOn(s, a, i), x # 1 PROVE x \in {k + 1 : k \in ParentOn(t, a, i)}
    <3>1. x - 1 \in ParentOn(t, a, i) /\ x = (x - 1) + 1
      BY <1>4, <2>1 DEF ParentOn
    <3> QED
      BY <3>1
  <2>2. ASSUME NEW k \in ParentOn(t, a, i) PROVE k + 1 \in ParentOn(s, a, i)
    BY <1>2, <1>3 DEF ParentOn
  <2>3. 1 \in ParentOn(s, a, i) <=> s[1].op \in DpOps /\ a.dp = i
    BY <1>2 DEF ParentOn
  <2> QED
    BY <2>1, <2>2, <2>3
<1>7. StepsOn(t, i) \in SUBSET (Nat \ {0}) /\ ParentOn(t, a, i) \in SUBSET (Nat \ {0})
  BY DEF StepsOn, ParentOn
<1>8. PICK c \in BOOLEAN, e \in BOOLEAN : /\ c = (s[1].op \in HoldOps /\ s[1].i = i)
                                          /\ e = (s[1].op \in DpOps /\ a.dp = i)
  OBVIOUS
<1>9. Cardinality(StepsOn(s, i)) = (IF c THEN 1 ELSE 0) + Cardinality(StepsOn(t, i))
  BY <1>5, <1>7, <1>8, CntNat, WithFirst
<1>10. Cardinality(ParentOn(s, a, i)) = (IF e THEN 1 ELSE 0) + Cardinality(ParentOn(t, a, i))
  BY <1>6, <1>7, <1>8, CntNat, WithFirst
<1>11. PICK u \in Nat, v \in Nat : u = Cardinality(StepsOn(t, i)) /\ v = Cardinality(ParentOn(t, a, i))
  BY CntNat
<1>12. Cnt(s, a, i) = ((IF c THEN 1 ELSE 0) + u) + ((IF e THEN 1 ELSE 0) + v) /\ Cnt(t, a, i) = u + v
  BY <1>9, <1>10, <1>11 DEF Cnt
<1>13. One(s[1], a, i) = (IF c THEN 1 ELSE 0) + (IF e THEN 1 ELSE 0)
  BY <1>8 DEF One
<1> QED
  BY <1>1, <1>11, <1>12, <1>13, SMTT(20)

LEMMA CntEmpty == ASSUME NEW a, NEW i PROVE Cnt(<<>>, a, i) = 0
<1>1. StepsOn(<<>>, i) = {} /\ ParentOn(<<>>, a, i) = {}
  BY DEF StepsOn, ParentOn
<1> QED
  BY <1>1, FS_EmptySet DEF Cnt

\* The counts of the scripts that the calls use.
LEMMA CntFirst ==
    ASSUME NEW a, NEW i, NEW s \in Seq(StepRec), NEW u, NEW t, s # <<>>, s[1] = u, Tail(s) = t
    PROVE  Cnt(s, a, i) = One(u, a, i) + Cnt(t, a, i)
  BY CntTail

LEMMA CntShort ==
    ASSUME NEW a, NEW i, NEW u \in StepRec, NEW v \in StepRec
    PROVE  /\ Cnt(<<u>>, a, i) = One(u, a, i)
           /\ Cnt(<<u, v>>, a, i) = One(u, a, i) + One(v, a, i)
<1>1. One(u, a, i) \in Nat /\ One(v, a, i) \in Nat
  BY DEF One
<1>2. PICK r, s, t, e : r = <<u>> /\ s = <<v>> /\ t = <<u, v>> /\ e = <<>>
  OBVIOUS
<1>3. r \in Seq(StepRec) /\ r # <<>> /\ r[1] = u /\ Tail(r) = e
  BY <1>2
<1>4. s \in Seq(StepRec) /\ s # <<>> /\ s[1] = v /\ Tail(s) = e
  BY <1>2
<1>5. t \in Seq(StepRec) /\ t # <<>> /\ t[1] = u /\ Tail(t) = s
  BY <1>2
<1>6. Cnt(r, a, i) = One(u, a, i) + Cnt(e, a, i)
  BY <1>3, CntFirst
<1>7. Cnt(s, a, i) = One(v, a, i) + Cnt(e, a, i)
  BY <1>4, CntFirst
<1>8. Cnt(t, a, i) = One(u, a, i) + Cnt(s, a, i)
  BY <1>5, CntFirst
<1> QED
  BY <1>1, <1>2, <1>6, <1>7, <1>8, CntEmpty

LEMMA CntMiddle ==
    ASSUME NEW a, NEW i, NEW u \in StepRec, NEW v \in StepRec, NEW w \in StepRec, NEW x \in StepRec
    PROVE  /\ Cnt(<<u, v, w>>, a, i) = One(u, a, i) + One(v, a, i) + One(w, a, i)
           /\ Cnt(<<u, v, w, x>>, a, i) = One(u, a, i) + One(v, a, i) + One(w, a, i) + One(x, a, i)
<1>1. One(u, a, i) \in Nat /\ One(v, a, i) \in Nat /\ One(w, a, i) \in Nat /\ One(x, a, i) \in Nat
  BY DEF One
<1>2. PICK r, s, t, y, z : /\ r = <<u, v, w>> /\ s = <<v, w, x>> /\ t = <<u, v, w, x>>
                           /\ y = <<v, w>> /\ z = <<w, x>>
  OBVIOUS
<1>3. r \in Seq(StepRec) /\ r # <<>> /\ r[1] = u /\ Tail(r) = y
  BY <1>2
<1>4. s \in Seq(StepRec) /\ s # <<>> /\ s[1] = v /\ Tail(s) = z
  BY <1>2
<1>5. t \in Seq(StepRec) /\ t # <<>> /\ t[1] = u /\ Tail(t) = s
  BY <1>2
<1>6. Cnt(r, a, i) = One(u, a, i) + Cnt(y, a, i)
  BY <1>3, CntFirst
<1>7. Cnt(s, a, i) = One(v, a, i) + Cnt(z, a, i)
  BY <1>4, CntFirst
<1>8. Cnt(t, a, i) = One(u, a, i) + Cnt(s, a, i)
  BY <1>5, CntFirst
<1>9. Cnt(<<v, w>>, a, i) = One(v, a, i) + One(w, a, i)
  BY CntShort
<1>10. Cnt(<<w, x>>, a, i) = One(w, a, i) + One(x, a, i)
  BY CntShort
<1> QED
  BY <1>1, <1>2, <1>6, <1>7, <1>8, <1>9, <1>10

LEMMA CntLong ==
    ASSUME NEW a, NEW i, NEW u \in StepRec, NEW v \in StepRec, NEW w \in StepRec, NEW x \in StepRec,
           NEW y \in StepRec
    PROVE  Cnt(<<u, v, w, x, y>>, a, i) = One(u, a, i) + One(v, a, i) + One(w, a, i)
                                          + One(x, a, i) + One(y, a, i)
<1>1. /\ One(u, a, i) \in Nat /\ One(v, a, i) \in Nat /\ One(w, a, i) \in Nat /\ One(x, a, i) \in Nat
      /\ One(y, a, i) \in Nat
  BY DEF One
<1>2. PICK s, t : s = <<u, v, w, x, y>> /\ t = <<v, w, x, y>>
  OBVIOUS
<1>3. s \in Seq(StepRec) /\ s # <<>> /\ s[1] = u /\ Tail(s) = t
  BY <1>2
<1>4. Cnt(s, a, i) = One(u, a, i) + Cnt(t, a, i)
  BY <1>3, CntFirst
<1>5. /\ Cnt(<<v, w, x>>, a, i) = One(v, a, i) + One(w, a, i) + One(x, a, i)
      /\ Cnt(<<v, w, x, y>>, a, i) = One(v, a, i) + One(w, a, i) + One(x, a, i) + One(y, a, i)
  BY CntMiddle
<1> QED
  BY <1>1, <1>2, <1>4, <1>5

-----------------------------------------------------------------------------
(* The references to an inode: of one process, of the others, of files *)

\* What Holds and References are of, given the scripts, arguments and files.
HoldsIn(s, a, p) ==
    {<<"step", p, k, s[k].i>> : k \in {l \in 1 .. Len(s) : s[l].op \in HoldOps}}
    \cup {<<"dp", p, k, a.dp>> : k \in {l \in 1 .. Len(s) : s[l].op \in DpOps}}
HeldBy(s, a, p, i) == {x \in HoldsIn(s, a, p) : x[4] = i}
HeldElsewhere(td, ag, p, i) ==
    {x \in UNION {HoldsIn(td[q], ag[q], q) : q \in Procs \ {p}} : x[4] = i}
FilesOn(fl, i) == {f \in Files : fl[f].ref > 0 /\ fl[f].ip = i}
RefsIn(td, ag, fl, i) ==
    {x \in UNION {HoldsIn(td[q], ag[q], q) : q \in Procs} : x[4] = i}
    \cup {<<"file", f>> : f \in FilesOn(fl, i)} \cup {<<"root", x>> : x \in {Root} \cap {i}}
OfRoot(i) == IF i = Root THEN 1 ELSE 0

LEMMA HoldsIs ==
    ASSUME NEW q, todo[q] \in Seq(StepRec)
    PROVE  Holds(q) = HoldsIn(todo[q], arg[q], q)
<1>1. DOMAIN todo[q] = 1 .. Len(todo[q])
  OBVIOUS
<1>2. {l \in DOMAIN todo[q] : todo[q][l].op \in {"put", "open", "stat", "enter", "swap", "find",
                                                 "look", "exists", "make", "unlink"}}
      = {l \in 1 .. Len(todo[q]) : todo[q][l].op \in HoldOps}
  BY <1>1 DEF HoldOps, LastOps
<1>3. {l \in DOMAIN todo[q] : todo[q][l].op \in {"exists", "make", "unlink"}}
      = {l \in 1 .. Len(todo[q]) : todo[q][l].op \in DpOps}
  BY <1>1 DEF DpOps
<1> QED
  BY <1>2, <1>3, Zenon DEF Holds, HoldsIn

LEMMA ReferencesAre ==
    ASSUME \A q \in Procs : todo[q] \in Seq(StepRec), NEW i
    PROVE  References(i) = RefsIn(todo, arg, files, i)
<1>1. {Holds(q) : q \in Procs} = {HoldsIn(todo[q], arg[q], q) : q \in Procs}
  BY HoldsIs
<1> QED
  BY <1>1 DEF References, RefsIn, FilesOn

LEMMA ReferencesAreNext ==
    ASSUME \A q \in Procs : todo'[q] \in Seq(StepRec), NEW i
    PROVE  References(i)' = RefsIn(todo', arg', files', i)
<1>0. ASSUME NEW q \in Procs PROVE Holds(q)' = HoldsIn(todo'[q], arg'[q], q)
  <2>1. DOMAIN todo'[q] = 1 .. Len(todo'[q])
    OBVIOUS
  <2>2. {l \in DOMAIN todo'[q] : todo'[q][l].op \in {"put", "open", "stat", "enter", "swap", "find",
                                                     "look", "exists", "make", "unlink"}}
        = {l \in 1 .. Len(todo'[q]) : todo'[q][l].op \in HoldOps}
    BY <2>1 DEF HoldOps, LastOps
  <2>3. {l \in DOMAIN todo'[q] : todo'[q][l].op \in {"exists", "make", "unlink"}}
        = {l \in 1 .. Len(todo'[q]) : todo'[q][l].op \in DpOps}
    BY <2>1 DEF DpOps
  <2> QED
    BY <2>2, <2>3, Zenon DEF Holds, HoldsIn
<1>1. {Holds(q)' : q \in Procs} = {HoldsIn(todo'[q], arg'[q], q) : q \in Procs}
  BY <1>0
<1> QED
  BY <1>1 DEF References, RefsIn, FilesOn

\* A set of positions, each with a tag.
Tag(t, p, i, S) == {<<t, p, k, i>> : k \in S}

LEMMA Tagged ==
    ASSUME NEW S, IsFiniteSet(S), NEW t, NEW p, NEW i
    PROVE  IsFiniteSet(Tag(t, p, i, S)) /\ Cardinality(Tag(t, p, i, S)) = Cardinality(S)
<1>0. PICK R : R = {<<t, p, k, i>> : k \in S}
  OBVIOUS
<1> DEFINE f == [k \in S |-> <<t, p, k, i>>]
<1>1. f \in Bijection(S, R)
  <2>1. f \in Surjection(S, R)
    BY <1>0 DEF Surjection
  <2>2. f \in Injection(S, R)
    BY <1>0 DEF Injection, IsInjective
  <2> QED
    BY <2>1, <2>2 DEF Bijection
<1>2. ExistsBijection(S, R)
  BY <1>1 DEF ExistsBijection
<1> QED
  BY <1>0, <1>2, FS_Bijection DEF Tag

\* A disjoint union of two finite sets.
LEMMA Disjoint2 ==
    ASSUME NEW A, NEW B, IsFiniteSet(A), IsFiniteSet(B), A \cap B = {}
    PROVE  IsFiniteSet(A \cup B) /\ Cardinality(A \cup B) = Cardinality(A) + Cardinality(B)
<1>1. Cardinality(A) \in Nat /\ Cardinality(B) \in Nat /\ Cardinality({}) = 0
  BY FS_CardinalityType, FS_EmptySet
<1>0. Cardinality(A \cap B) = 0
  BY FS_EmptySet
<1>2. IsFiniteSet(A \cup B) /\ Cardinality(A \cup B) = Cardinality(A) + Cardinality(B) - Cardinality(A \cap B)
  BY FS_Union
<1> QED
  BY <1>0, <1>1, <1>2

LEMMA HeldCount ==
    ASSUME NEW q, NEW s \in Seq(StepRec), NEW a, NEW i
    PROVE  IsFiniteSet(HeldBy(s, a, q, i)) /\ Cardinality(HeldBy(s, a, q, i)) = Cnt(s, a, i)
<1>2. PICK A, B : /\ A = {<<"step", q, k, i>> : k \in StepsOn(s, i)}
                  /\ B = {<<"dp", q, k, i>> : k \in ParentOn(s, a, i)}
  OBVIOUS
<1>3. HeldBy(s, a, q, i) = A \cup B
  <2>1. HoldsIn(s, a, q) = {<<"step", q, k, s[k].i>> : k \in {l \in 1 .. Len(s) : s[l].op \in HoldOps}}
                   \cup {<<"dp", q, k, a.dp>> : k \in {l \in 1 .. Len(s) : s[l].op \in DpOps}}
    BY DEF HoldsIn
  <2>2. \A x \in A : x \in HoldsIn(s, a, q) /\ x[4] = i
    BY <1>2, <2>1 DEF StepsOn
  <2>3. \A x \in B : x \in HoldsIn(s, a, q) /\ x[4] = i
    BY <1>2, <2>1 DEF ParentOn
  <2>4. ASSUME NEW x \in HoldsIn(s, a, q), x[4] = i PROVE x \in A \cup B
    <3>1. CASE \E k \in {l \in 1 .. Len(s) : s[l].op \in HoldOps} : x = <<"step", q, k, s[k].i>>
      BY <1>2, <2>4, <3>1 DEF StepsOn
    <3>2. CASE \E k \in {l \in 1 .. Len(s) : s[l].op \in DpOps} : x = <<"dp", q, k, a.dp>>
      BY <1>2, <2>4, <3>2 DEF ParentOn
    <3> QED
      BY <2>1, <2>4, <3>1, <3>2
  <2> QED
    BY <2>2, <2>3, <2>4 DEF HeldBy
<1>0. PICK S, T : S = StepsOn(s, i) /\ T = ParentOn(s, a, i)
  OBVIOUS
<1>9. A = Tag("step", q, i, S) /\ B = Tag("dp", q, i, T)
  BY <1>0, <1>2, Zenon DEF Tag
<1>8. IsFiniteSet(S) /\ IsFiniteSet(T)
  BY <1>0, CntNat
<1>4. IsFiniteSet(A) /\ Cardinality(A) = Cardinality(StepsOn(s, i))
  BY <1>0, <1>8, <1>9, Tagged
<1>5. IsFiniteSet(B) /\ Cardinality(B) = Cardinality(ParentOn(s, a, i))
  BY <1>0, <1>8, <1>9, Tagged
<1>6. A \cap B = {}
  BY <1>2
<1>7. IsFiniteSet(A \cup B) /\ Cardinality(A \cup B) = Cardinality(A) + Cardinality(B)
  BY <1>4, <1>5, <1>6, Disjoint2
<1> QED
  BY <1>0, <1>3, <1>4, <1>5, <1>7 DEF Cnt

LEMMA SecondIs ==
    ASSUME NEW s, NEW a, NEW q, NEW x \in HoldsIn(s, a, q)
    PROVE  x[2] = q /\ x[1] \in {"step", "dp"}
  BY DEF HoldsIn

\* What a file contributes is tagged differently and has two components.
LEMMA FileTags ==
    ASSUME NEW fl, NEW i
    PROVE  /\ IsFiniteSet({<<"file", f>> : f \in FilesOn(fl, i)})
           /\ Cardinality({<<"file", f>> : f \in FilesOn(fl, i)}) = Cardinality(FilesOn(fl, i))
           /\ Cardinality(FilesOn(fl, i)) \in Nat /\ IsFiniteSet(FilesOn(fl, i))
<1>1. IsFiniteSet(FilesOn(fl, i))
  BY TablesAssumption, FS_Subset DEF FilesOn
<1> DEFINE S == FilesOn(fl, i)
           R == {<<"file", f>> : f \in S}
           g == [f \in S |-> <<"file", f>>]
<1>2. g \in Bijection(S, R)
  <2>1. g \in Surjection(S, R)
    BY DEF Surjection
  <2>2. g \in Injection(S, R)
    BY DEF Injection, IsInjective
  <2> QED
    BY <2>1, <2>2 DEF Bijection
<1>3. ExistsBijection(S, R)
  BY <1>2 DEF ExistsBijection
<1> QED
  BY <1>1, <1>3, FS_Bijection, FS_CardinalityType

LEMMA ElsewhereFinite ==
    ASSUME NEW td, NEW ag, \A q \in Procs : td[q] \in Seq(StepRec), NEW p, NEW i
    PROVE  IsFiniteSet(HeldElsewhere(td, ag, p, i)) /\ Cardinality(HeldElsewhere(td, ag, p, i)) \in Nat
<1>1. PICK F : F = {HeldBy(td[q], ag[q], q, i) : q \in Procs \ {p}}
  OBVIOUS
<1>2. IsFiniteSet(F)
  <2>1. IsFiniteSet(Procs \ {p})
    BY TablesAssumption, FS_Subset
  <2> DEFINE f == [q \in Procs \ {p} |-> HeldBy(td[q], ag[q], q, i)]
  <2>2. f \in Surjection(Procs \ {p}, F)
    BY <1>1 DEF Surjection
  <2> QED
    BY <2>1, <2>2, FS_Surjection
<1>3. \A S \in F : IsFiniteSet(S)
  BY <1>1, HeldCount
<1>4. IsFiniteSet(UNION F)
  BY <1>2, <1>3, FS_UNION
<1>5. HeldElsewhere(td, ag, p, i) = UNION F
  BY <1>1 DEF HeldElsewhere, HeldBy
<1> QED
  BY <1>4, <1>5, FS_CardinalityType

LEMMA ReferencesCount ==
    ASSUME NEW td, NEW ag, NEW fl, \A q \in Procs : td[q] \in Seq(StepRec), NEW p \in Procs, NEW i
    PROVE  Cardinality(RefsIn(td, ag, fl, i)) = Cardinality(HeldElsewhere(td, ag, p, i)) + Cnt(td[p], ag[p], i)
                                        + Cardinality(FilesOn(fl, i)) + OfRoot(i)
<1>1. PICK A, B, C, D : /\ A = HeldElsewhere(td, ag, p, i) /\ B = HeldBy(td[p], ag[p], p, i)
                        /\ C = {<<"file", f>> : f \in FilesOn(fl, i)}
                        /\ D = {<<"root", x>> : x \in {Root} \cap {i}}
  OBVIOUS
<1>2. \A x \in A : x[2] # p /\ x[1] \in {"step", "dp"}
  BY <1>1, SecondIs DEF HeldElsewhere
<1>3. \A x \in B : x[2] = p /\ x[1] \in {"step", "dp"}
  BY <1>1, SecondIs DEF HeldBy
<1>4. (\A x \in C : x[1] = "file") /\ (\A x \in D : x[1] = "root")
  BY <1>1
<1>5. A \cap B = {}
  BY <1>2, <1>3
<1>6. (A \cup B) \cap C = {}
  BY <1>2, <1>3, <1>4
<1>7. (A \cup B \cup C) \cap D = {}
  BY <1>2, <1>3, <1>4
<1>8. RefsIn(td, ag, fl, i) = A \cup B \cup C \cup D
  BY <1>1 DEF RefsIn, HeldElsewhere, HeldBy, FilesOn
<1>9. IsFiniteSet(D) /\ Cardinality(D) = OfRoot(i)
  <2>1. CASE i = Root
    <3>1. D = {<<"root", Root>>}
      BY <1>1, <2>1
    <3> QED
      BY <2>1, <3>1, FS_Singleton DEF OfRoot
  <2>2. CASE i # Root
    <3>1. D = {}
      BY <1>1, <2>2
    <3> QED
      BY <2>2, <3>1, FS_EmptySet DEF OfRoot
  <2> QED
    BY <2>1, <2>2
<1>10. IsFiniteSet(A) /\ IsFiniteSet(B) /\ IsFiniteSet(C)
  BY <1>1, ElsewhereFinite, HeldCount, FileTags
<1>11. IsFiniteSet(A \cup B) /\ Cardinality(A \cup B) = Cardinality(A) + Cardinality(B)
  BY <1>5, <1>10, Disjoint2
<1>12. IsFiniteSet(A \cup B \cup C) /\ Cardinality(A \cup B \cup C) = Cardinality(A \cup B) + Cardinality(C)
  BY <1>6, <1>10, <1>11, Disjoint2
<1>13. Cardinality(A \cup B \cup C \cup D) = Cardinality(A \cup B \cup C) + Cardinality(D)
  BY <1>7, <1>9, <1>12, Disjoint2
<1>14. Cardinality(B) = Cnt(td[p], ag[p], i) /\ Cardinality(C) = Cardinality(FilesOn(fl, i))
  BY <1>1, HeldCount, FileTags
<1> QED
  BY <1>1, <1>8, <1>9, <1>11, <1>12, <1>13, <1>14

-----------------------------------------------------------------------------
(* The scripts of the calls *)

LEMMA CallEmpty == ASSUME NEW a, NEW O PROVE CallOk(<<>>, a, O)
<1>1. <<>> \in Seq(StepRec) /\ 1 .. Len(<<>>) = {}
  OBVIOUS
<1> QED
  BY <1>1 DEF CallOk, ScriptOk, Backed

\* The first step is done.
LEMMA CallTail ==
    ASSUME NEW s, NEW a, NEW O, CallOk(s, a, O), s # <<>>
    PROVE  CallOk(Tail(s), a, O)
<1>1. s \in Seq(StepRec)
  BY DEF CallOk, ScriptOk
<1>2. PICK t \in Seq(StepRec) : t = Tail(s)
  BY <1>1, HeadTailProperties
<1>3. Len(t) = Len(s) - 1 /\ Len(s) \in Nat /\ Len(t) \in Nat /\ Len(s) > 0
  BY <1>1, <1>2
<1>4. \A k \in 1 .. Len(t) : t[k] = s[k + 1] /\ k + 1 \in 1 .. Len(s)
  BY <1>1, <1>2, <1>3
<1>5. ScriptOk(t, a)
  BY <1>3, <1>4 DEF CallOk, ScriptOk
<1>6. ASSUME NEW k \in 1 .. Len(t), t[k].op \notin HoldOps, t[k].i \notin O
      PROVE  \E l \in k + 1 .. Len(t) : Keeps(t, a, l, t[k].i)
  <2>1. PICK l \in (k + 1) + 1 .. Len(s) : Keeps(s, a, l, s[k + 1].i)
    BY <1>4, <1>6 DEF CallOk, Backed
  <2>2. l - 1 \in k + 1 .. Len(t) /\ l - 1 \in 1 .. Len(t) /\ (l - 1) + 1 = l
    BY <1>3, <2>1
  <2>3. t[l - 1] = s[l]
    BY <1>4, <2>2
  <2> QED
    BY <1>4, <2>1, <2>2, <2>3 DEF Keeps
<1> QED
  BY <1>2, <1>5, <1>6 DEF CallOk, Backed

LEMMA CallMore ==
    ASSUME NEW s, NEW a, NEW O, CallOk(s, a, O), NEW P, O \subseteq P
    PROVE  CallOk(s, a, P)
  BY DEF CallOk, Backed

LEMMA StepIs ==
    ASSUME NEW op \in Ops, NEW i \in Inodes
    PROVE  Step(op, i) \in StepRec /\ Step(op, i).op = op /\ Step(op, i).i = i
  BY DEF Step, StepRec

Is(i, j) == IF i = j THEN 1 ELSE 0

LEMMA OneIs ==
    ASSUME NEW i, NEW j, NEW a
    PROVE  /\ \A op \in {"lock", "unlock", "drop"} : One(Step(op, i), a, j) = 0
           /\ \A op \in {"put", "find", "look", "open", "stat", "enter", "swap"} :
                 One(Step(op, i), a, j) = Is(i, j)
           /\ \A op \in DpOps : One(Step(op, i), a, j) = Is(i, j) + Is(a.dp, j)
           /\ Is(i, j) \in Nat
  BY DEF One, Step, HoldOps, LastOps, DpOps, Is

\* Lock what namei found.
LEMMA WaitTarget ==
    ASSUME NEW a, NEW O, NEW i \in Inodes,
           NEW op \in {"open", "stat", "enter"},
           NEW s, s = <<Step("lock", i), Step(op, i)>>
    PROVE  CallOk(s, a, O) /\ \A j : Cnt(s, a, j) = Is(i, j)
<1>1. s \in Seq(StepRec) /\ Len(s) = 2
  BY DEF Step, StepRec, Ops, HoldOps, LastOps, DpOps
<1>2. /\ s[1].op = "lock" /\ s[1].i = i
      /\ s[2].op = op /\ s[2].i = i
  BY DEF Step
<1>3. \A k \in 1 .. 2 : k = 1 \/ k = 2
  OBVIOUS
<1>4. ScriptOk(s, a)
  BY <1>1, <1>2, <1>3 DEF ScriptOk, LastOps, ParentOps, DpOps
<1>5. Backed(s, a, O)
  BY <1>1, <1>2, <1>3 DEF Backed, Keeps, HoldOps, LastOps, DpOps
<1>6. ASSUME NEW j PROVE Cnt(s, a, j) = Is(i, j)
  <2>1. PICK u \in StepRec, v \in StepRec : u = Step("lock", i) /\ v = Step(op, i)
    BY StepIs DEF Ops, HoldOps, LastOps, DpOps
  <2>2. Cnt(<<u, v>>, a, j) = One(u, a, j) + One(v, a, j)
    BY CntShort
  <2>3. /\ One(u, a, j) = 0
        /\ One(v, a, j) = Is(i, j)
    BY <2>1, OneIs
  <2>4. s = <<u, v>>
    BY <2>1
  <2>5. Is(i, j) \in Nat
    BY OneIs
  <2> QED
    BY <2>2, <2>3, <2>4, <2>5
<1> QED
  BY <1>4, <1>5, <1>6 DEF CallOk

\* Lock the parent directory.
LEMMA WaitParent ==
    ASSUME NEW a, NEW O, NEW d \in Inodes,
           NEW op \in {"find", "look"},
           a \in ParentArg,
           a.dp = d,
           op = "find" => a.type # "any",
           NEW s, s = <<Step("lock", d), Step(op, d)>>
    PROVE  CallOk(s, a, O) /\ \A j : Cnt(s, a, j) = Is(d, j)
<1>1. s \in Seq(StepRec) /\ Len(s) = 2
  BY DEF Step, StepRec, Ops, HoldOps, LastOps, DpOps
<1>2. /\ s[1].op = "lock" /\ s[1].i = d
      /\ s[2].op = op /\ s[2].i = d
  BY DEF Step
<1>3. \A k \in 1 .. 2 : k = 1 \/ k = 2
  OBVIOUS
<1>4. ScriptOk(s, a)
  BY <1>1, <1>2, <1>3 DEF ScriptOk, LastOps, ParentOps, DpOps
<1>5. Backed(s, a, O)
  BY <1>1, <1>2, <1>3 DEF Backed, Keeps, HoldOps, LastOps, DpOps
<1>6. ASSUME NEW j PROVE Cnt(s, a, j) = Is(d, j)
  <2>1. PICK u \in StepRec, v \in StepRec : u = Step("lock", d) /\ v = Step(op, d)
    BY StepIs DEF Ops, HoldOps, LastOps, DpOps
  <2>2. Cnt(<<u, v>>, a, j) = One(u, a, j) + One(v, a, j)
    BY CntShort
  <2>3. /\ One(u, a, j) = 0
        /\ One(v, a, j) = Is(d, j)
    BY <2>1, OneIs
  <2>4. s = <<u, v>>
    BY <2>1
  <2>5. Is(d, j) \in Nat
    BY OneIs
  <2> QED
    BY <2>2, <2>3, <2>4, <2>5
<1> QED
  BY <1>4, <1>5, <1>6 DEF CallOk

\* Lock what is, or will be, in the directory.
LEMMA WaitChild ==
    ASSUME NEW a, NEW O, NEW i \in Inodes,
           NEW op \in DpOps,
           a \in ParentArg,
           op \in {"exists", "make"} => a.type # "any",
           NEW s, s = <<Step("lock", i), Step(op, i)>>
    PROVE  CallOk(s, a, O) /\ \A j : Cnt(s, a, j) = Is(i, j) + Is(a.dp, j)
<1>1. s \in Seq(StepRec) /\ Len(s) = 2
  BY DEF Step, StepRec, Ops, HoldOps, LastOps, DpOps
<1>2. /\ s[1].op = "lock" /\ s[1].i = i
      /\ s[2].op = op /\ s[2].i = i
  BY DEF Step
<1>3. \A k \in 1 .. 2 : k = 1 \/ k = 2
  OBVIOUS
<1>4. ScriptOk(s, a)
  BY <1>1, <1>2, <1>3 DEF ScriptOk, LastOps, ParentOps, DpOps
<1>5. Backed(s, a, O)
  BY <1>1, <1>2, <1>3 DEF Backed, Keeps, HoldOps, LastOps, DpOps
<1>6. ASSUME NEW j PROVE Cnt(s, a, j) = Is(i, j) + Is(a.dp, j)
  <2>1. PICK u \in StepRec, v \in StepRec : u = Step("lock", i) /\ v = Step(op, i)
    BY StepIs DEF Ops, HoldOps, LastOps, DpOps
  <2>2. Cnt(<<u, v>>, a, j) = One(u, a, j) + One(v, a, j)
    BY CntShort
  <2>3. /\ One(u, a, j) = 0
        /\ One(v, a, j) = Is(i, j) + Is(a.dp, j)
    BY <2>1, OneIs
  <2>4. s = <<u, v>>
    BY <2>1
  <2>5. Is(i, j) \in Nat /\ Is(a.dp, j) \in Nat
    BY OneIs
  <2> QED
    BY <2>2, <2>3, <2>4, <2>5
<1> QED
  BY <1>4, <1>5, <1>6 DEF CallOk

\* create found the inode, which is of another type.
LEMMA FoundWrong ==
    ASSUME NEW a, NEW O, NEW d \in Inodes, NEW i \in Inodes,
           NEW s, s = <<Step("unlock", d), Step("unlock", i), Step("put", d), Step("put", i)>>
    PROVE  CallOk(s, a, O) /\ \A j : Cnt(s, a, j) = Is(d, j) + Is(i, j)
<1>1. s \in Seq(StepRec) /\ Len(s) = 4
  BY DEF Step, StepRec, Ops, HoldOps, LastOps, DpOps
<1>2. /\ s[1].op = "unlock" /\ s[1].i = d
      /\ s[2].op = "unlock" /\ s[2].i = i
      /\ s[3].op = "put" /\ s[3].i = d
      /\ s[4].op = "put" /\ s[4].i = i
  BY DEF Step
<1>3. \A k \in 1 .. 4 : k = 1 \/ k = 2 \/ k = 3 \/ k = 4
  OBVIOUS
<1>4. ScriptOk(s, a)
  BY <1>1, <1>2, <1>3 DEF ScriptOk, LastOps, ParentOps, DpOps
<1>5. Backed(s, a, O)
  BY <1>1, <1>2, <1>3 DEF Backed, Keeps, HoldOps, LastOps, DpOps
<1>6. ASSUME NEW j PROVE Cnt(s, a, j) = Is(d, j) + Is(i, j)
  <2>1. PICK u \in StepRec, v \in StepRec, w \in StepRec, x \in StepRec : u = Step("unlock", d) /\ v = Step("unlock", i) /\ w = Step("put", d) /\ x = Step("put", i)
    BY StepIs DEF Ops, HoldOps, LastOps, DpOps
  <2>2. /\ Cnt(<<u, v, w>>, a, j) = One(u, a, j) + One(v, a, j) + One(w, a, j)
        /\ Cnt(<<u, v, w, x>>, a, j) = One(u, a, j) + One(v, a, j) + One(w, a, j) + One(x, a, j)
    BY CntMiddle
  <2>3. /\ One(u, a, j) = 0
        /\ One(v, a, j) = 0
        /\ One(w, a, j) = Is(d, j)
        /\ One(x, a, j) = Is(i, j)
    BY <2>1, OneIs
  <2>4. s = <<u, v, w, x>>
    BY <2>1
  <2>5. Is(d, j) \in Nat /\ Is(i, j) \in Nat
    BY OneIs
  <2> QED
    BY <2>2, <2>3, <2>4, <2>5
<1> QED
  BY <1>4, <1>5, <1>6 DEF CallOk

\* create found the inode, for openat.
LEMMA FoundOpen ==
    ASSUME NEW a, NEW O, NEW d \in Inodes, NEW i \in Inodes,
           NEW s, s = <<Step("unlock", d), Step("unlock", i), Step("put", d), Step("open", i)>>
    PROVE  CallOk(s, a, O) /\ \A j : Cnt(s, a, j) = Is(d, j) + Is(i, j)
<1>1. s \in Seq(StepRec) /\ Len(s) = 4
  BY DEF Step, StepRec, Ops, HoldOps, LastOps, DpOps
<1>2. /\ s[1].op = "unlock" /\ s[1].i = d
      /\ s[2].op = "unlock" /\ s[2].i = i
      /\ s[3].op = "put" /\ s[3].i = d
      /\ s[4].op = "open" /\ s[4].i = i
  BY DEF Step
<1>3. \A k \in 1 .. 4 : k = 1 \/ k = 2 \/ k = 3 \/ k = 4
  OBVIOUS
<1>4. ScriptOk(s, a)
  BY <1>1, <1>2, <1>3 DEF ScriptOk, LastOps, ParentOps, DpOps
<1>5. Backed(s, a, O)
  BY <1>1, <1>2, <1>3 DEF Backed, Keeps, HoldOps, LastOps, DpOps
<1>6. ASSUME NEW j PROVE Cnt(s, a, j) = Is(d, j) + Is(i, j)
  <2>1. PICK u \in StepRec, v \in StepRec, w \in StepRec, x \in StepRec : u = Step("unlock", d) /\ v = Step("unlock", i) /\ w = Step("put", d) /\ x = Step("open", i)
    BY StepIs DEF Ops, HoldOps, LastOps, DpOps
  <2>2. /\ Cnt(<<u, v, w>>, a, j) = One(u, a, j) + One(v, a, j) + One(w, a, j)
        /\ Cnt(<<u, v, w, x>>, a, j) = One(u, a, j) + One(v, a, j) + One(w, a, j) + One(x, a, j)
    BY CntMiddle
  <2>3. /\ One(u, a, j) = 0
        /\ One(v, a, j) = 0
        /\ One(w, a, j) = Is(d, j)
        /\ One(x, a, j) = Is(i, j)
    BY <2>1, OneIs
  <2>4. s = <<u, v, w, x>>
    BY <2>1
  <2>5. Is(d, j) \in Nat /\ Is(i, j) \in Nat
    BY OneIs
  <2> QED
    BY <2>2, <2>3, <2>4, <2>5
<1> QED
  BY <1>4, <1>5, <1>6 DEF CallOk

\* create found the inode, for mkdirat or mknodat.
LEMMA FoundDone ==
    ASSUME NEW a, NEW O, NEW d \in Inodes, NEW i \in Inodes,
           NEW s, s = <<Step("unlock", d), Step("unlock", i), Step("put", d), Step("unlock", i),
                    Step("put", i)>>
    PROVE  CallOk(s, a, O) /\ \A j : Cnt(s, a, j) = Is(d, j) + Is(i, j)
<1>1. s \in Seq(StepRec) /\ Len(s) = 5
  BY DEF Step, StepRec, Ops, HoldOps, LastOps, DpOps
<1>2. /\ s[1].op = "unlock" /\ s[1].i = d
      /\ s[2].op = "unlock" /\ s[2].i = i
      /\ s[3].op = "put" /\ s[3].i = d
      /\ s[4].op = "unlock" /\ s[4].i = i
      /\ s[5].op = "put" /\ s[5].i = i
  BY DEF Step
<1>3. \A k \in 1 .. 5 : k = 1 \/ k = 2 \/ k = 3 \/ k = 4 \/ k = 5
  OBVIOUS
<1>4. ScriptOk(s, a)
  BY <1>1, <1>2, <1>3 DEF ScriptOk, LastOps, ParentOps, DpOps
<1>5. Backed(s, a, O)
  BY <1>1, <1>2, <1>3 DEF Backed, Keeps, HoldOps, LastOps, DpOps
<1>6. ASSUME NEW j PROVE Cnt(s, a, j) = Is(d, j) + Is(i, j)
  <2>1. PICK u \in StepRec, v \in StepRec, w \in StepRec, x \in StepRec, y \in StepRec : u = Step("unlock", d) /\ v = Step("unlock", i) /\ w = Step("put", d) /\ x = Step("unlock", i) /\ y = Step("put", i)
    BY StepIs DEF Ops, HoldOps, LastOps, DpOps
  <2>2. Cnt(<<u, v, w, x, y>>, a, j) = One(u, a, j) + One(v, a, j) + One(w, a, j) + One(x, a, j) + One(y, a, j)
    BY CntLong
  <2>3. /\ One(u, a, j) = 0
        /\ One(v, a, j) = 0
        /\ One(w, a, j) = Is(d, j)
        /\ One(x, a, j) = 0
        /\ One(y, a, j) = Is(i, j)
    BY <2>1, OneIs
  <2>4. s = <<u, v, w, x, y>>
    BY <2>1
  <2>5. Is(d, j) \in Nat /\ Is(i, j) \in Nat
    BY OneIs
  <2> QED
    BY <2>2, <2>3, <2>4, <2>5
<1> QED
  BY <1>4, <1>5, <1>6 DEF CallOk

\* create made the inode, for openat.
LEMMA MadeOpen ==
    ASSUME NEW a, NEW O, NEW d \in Inodes, NEW i \in Inodes,
           NEW s, s = <<Step("unlock", d), Step("put", d), Step("open", i)>>
    PROVE  CallOk(s, a, O) /\ \A j : Cnt(s, a, j) = Is(d, j) + Is(i, j)
<1>1. s \in Seq(StepRec) /\ Len(s) = 3
  BY DEF Step, StepRec, Ops, HoldOps, LastOps, DpOps
<1>2. /\ s[1].op = "unlock" /\ s[1].i = d
      /\ s[2].op = "put" /\ s[2].i = d
      /\ s[3].op = "open" /\ s[3].i = i
  BY DEF Step
<1>3. \A k \in 1 .. 3 : k = 1 \/ k = 2 \/ k = 3
  OBVIOUS
<1>4. ScriptOk(s, a)
  BY <1>1, <1>2, <1>3 DEF ScriptOk, LastOps, ParentOps, DpOps
<1>5. Backed(s, a, O)
  BY <1>1, <1>2, <1>3 DEF Backed, Keeps, HoldOps, LastOps, DpOps
<1>6. ASSUME NEW j PROVE Cnt(s, a, j) = Is(d, j) + Is(i, j)
  <2>1. PICK u \in StepRec, v \in StepRec, w \in StepRec : u = Step("unlock", d) /\ v = Step("put", d) /\ w = Step("open", i)
    BY StepIs DEF Ops, HoldOps, LastOps, DpOps
  <2>2. /\ Cnt(<<u, v, w>>, a, j) = One(u, a, j) + One(v, a, j) + One(w, a, j)
        /\ Cnt(<<u, v, w, w>>, a, j) = One(u, a, j) + One(v, a, j) + One(w, a, j) + One(w, a, j)
    BY CntMiddle
  <2>3. /\ One(u, a, j) = 0
        /\ One(v, a, j) = Is(d, j)
        /\ One(w, a, j) = Is(i, j)
    BY <2>1, OneIs
  <2>4. s = <<u, v, w>>
    BY <2>1
  <2>5. Is(d, j) \in Nat /\ Is(i, j) \in Nat
    BY OneIs
  <2> QED
    BY <2>2, <2>3, <2>4, <2>5
<1> QED
  BY <1>4, <1>5, <1>6 DEF CallOk

\* create made the inode, for mkdirat or mknodat; or unlinkat refuses.
LEMMA MadeDone ==
    ASSUME NEW a, NEW O, NEW d \in Inodes, NEW i \in Inodes,
           NEW s, s = <<Step("unlock", d), Step("put", d), Step("unlock", i), Step("put", i)>>
    PROVE  CallOk(s, a, O) /\ \A j : Cnt(s, a, j) = Is(d, j) + Is(i, j)
<1>1. s \in Seq(StepRec) /\ Len(s) = 4
  BY DEF Step, StepRec, Ops, HoldOps, LastOps, DpOps
<1>2. /\ s[1].op = "unlock" /\ s[1].i = d
      /\ s[2].op = "put" /\ s[2].i = d
      /\ s[3].op = "unlock" /\ s[3].i = i
      /\ s[4].op = "put" /\ s[4].i = i
  BY DEF Step
<1>3. \A k \in 1 .. 4 : k = 1 \/ k = 2 \/ k = 3 \/ k = 4
  OBVIOUS
<1>4. ScriptOk(s, a)
  BY <1>1, <1>2, <1>3 DEF ScriptOk, LastOps, ParentOps, DpOps
<1>5. Backed(s, a, O)
  BY <1>1, <1>2, <1>3 DEF Backed, Keeps, HoldOps, LastOps, DpOps
<1>6. ASSUME NEW j PROVE Cnt(s, a, j) = Is(d, j) + Is(i, j)
  <2>1. PICK u \in StepRec, v \in StepRec, w \in StepRec, x \in StepRec : u = Step("unlock", d) /\ v = Step("put", d) /\ w = Step("unlock", i) /\ x = Step("put", i)
    BY StepIs DEF Ops, HoldOps, LastOps, DpOps
  <2>2. /\ Cnt(<<u, v, w>>, a, j) = One(u, a, j) + One(v, a, j) + One(w, a, j)
        /\ Cnt(<<u, v, w, x>>, a, j) = One(u, a, j) + One(v, a, j) + One(w, a, j) + One(x, a, j)
    BY CntMiddle
  <2>3. /\ One(u, a, j) = 0
        /\ One(v, a, j) = Is(d, j)
        /\ One(w, a, j) = 0
        /\ One(x, a, j) = Is(i, j)
    BY <2>1, OneIs
  <2>4. s = <<u, v, w, x>>
    BY <2>1
  <2>5. Is(d, j) \in Nat /\ Is(i, j) \in Nat
    BY OneIs
  <2> QED
    BY <2>2, <2>3, <2>4, <2>5
<1> QED
  BY <1>4, <1>5, <1>6 DEF CallOk

\* An inode is unlocked and put.
LEMMA Leaving ==
    ASSUME NEW a, NEW O, NEW i \in Inodes,
           NEW s, s = <<Step("unlock", i), Step("put", i)>>
    PROVE  CallOk(s, a, O) /\ \A j : Cnt(s, a, j) = Is(i, j)
<1>1. s \in Seq(StepRec) /\ Len(s) = 2
  BY DEF Step, StepRec, Ops, HoldOps, LastOps, DpOps
<1>2. /\ s[1].op = "unlock" /\ s[1].i = i
      /\ s[2].op = "put" /\ s[2].i = i
  BY DEF Step
<1>3. \A k \in 1 .. 2 : k = 1 \/ k = 2
  OBVIOUS
<1>4. ScriptOk(s, a)
  BY <1>1, <1>2, <1>3 DEF ScriptOk, LastOps, ParentOps, DpOps
<1>5. Backed(s, a, O)
  BY <1>1, <1>2, <1>3 DEF Backed, Keeps, HoldOps, LastOps, DpOps
<1>6. ASSUME NEW j PROVE Cnt(s, a, j) = Is(i, j)
  <2>1. PICK u \in StepRec, v \in StepRec : u = Step("unlock", i) /\ v = Step("put", i)
    BY StepIs DEF Ops, HoldOps, LastOps, DpOps
  <2>2. Cnt(<<u, v>>, a, j) = One(u, a, j) + One(v, a, j)
    BY CntShort
  <2>3. /\ One(u, a, j) = 0
        /\ One(v, a, j) = Is(i, j)
    BY <2>1, OneIs
  <2>4. s = <<u, v>>
    BY <2>1
  <2>5. Is(i, j) \in Nat
    BY OneIs
  <2> QED
    BY <2>2, <2>3, <2>4, <2>5
<1> QED
  BY <1>4, <1>5, <1>6 DEF CallOk

\* unlinkat has cleared the entry.
LEMMA Removing ==
    ASSUME NEW a, NEW O, NEW d \in Inodes, NEW i \in Inodes,
           NEW s, s = <<Step("unlock", d), Step("put", d), Step("drop", i), Step("unlock", i),
                    Step("put", i)>>
    PROVE  CallOk(s, a, O) /\ \A j : Cnt(s, a, j) = Is(d, j) + Is(i, j)
<1>1. s \in Seq(StepRec) /\ Len(s) = 5
  BY DEF Step, StepRec, Ops, HoldOps, LastOps, DpOps
<1>2. /\ s[1].op = "unlock" /\ s[1].i = d
      /\ s[2].op = "put" /\ s[2].i = d
      /\ s[3].op = "drop" /\ s[3].i = i
      /\ s[4].op = "unlock" /\ s[4].i = i
      /\ s[5].op = "put" /\ s[5].i = i
  BY DEF Step
<1>3. \A k \in 1 .. 5 : k = 1 \/ k = 2 \/ k = 3 \/ k = 4 \/ k = 5
  OBVIOUS
<1>4. ScriptOk(s, a)
  BY <1>1, <1>2, <1>3 DEF ScriptOk, LastOps, ParentOps, DpOps
<1>5. Backed(s, a, O)
  BY <1>1, <1>2, <1>3 DEF Backed, Keeps, HoldOps, LastOps, DpOps
<1>6. ASSUME NEW j PROVE Cnt(s, a, j) = Is(d, j) + Is(i, j)
  <2>1. PICK u \in StepRec, v \in StepRec, w \in StepRec, x \in StepRec, y \in StepRec : u = Step("unlock", d) /\ v = Step("put", d) /\ w = Step("drop", i) /\ x = Step("unlock", i) /\ y = Step("put", i)
    BY StepIs DEF Ops, HoldOps, LastOps, DpOps
  <2>2. Cnt(<<u, v, w, x, y>>, a, j) = One(u, a, j) + One(v, a, j) + One(w, a, j) + One(x, a, j) + One(y, a, j)
    BY CntLong
  <2>3. /\ One(u, a, j) = 0
        /\ One(v, a, j) = Is(d, j)
        /\ One(w, a, j) = 0
        /\ One(x, a, j) = 0
        /\ One(y, a, j) = Is(i, j)
    BY <2>1, OneIs
  <2>4. s = <<u, v, w, x, y>>
    BY <2>1
  <2>5. Is(d, j) \in Nat /\ Is(i, j) \in Nat
    BY OneIs
  <2> QED
    BY <2>2, <2>3, <2>4, <2>5
<1> QED
  BY <1>4, <1>5, <1>6 DEF CallOk

\* openat has opened the file.
LEMMA Opened ==
    ASSUME NEW a, NEW O, NEW i \in Inodes,
           i \in O,
           NEW s, s = <<Step("unlock", i)>>
    PROVE  CallOk(s, a, O) /\ \A j : Cnt(s, a, j) = 0
<1>1. s \in Seq(StepRec) /\ Len(s) = 1
  BY DEF Step, StepRec, Ops, HoldOps, LastOps, DpOps
<1>2. /\ s[1].op = "unlock" /\ s[1].i = i
  BY DEF Step
<1>3. \A k \in 1 .. 1 : k = 1
  OBVIOUS
<1>4. ScriptOk(s, a)
  BY <1>1, <1>2, <1>3 DEF ScriptOk, LastOps, ParentOps, DpOps
<1>5. Backed(s, a, O)
  BY <1>1, <1>2, <1>3 DEF Backed, Keeps, HoldOps, LastOps, DpOps
<1>6. ASSUME NEW j PROVE Cnt(s, a, j) = 0
  <2>1. PICK u \in StepRec : u = Step("unlock", i)
    BY StepIs DEF Ops, HoldOps, LastOps, DpOps
  <2>2. Cnt(<<u>>, a, j) = One(u, a, j)
    BY CntShort
  <2>3. /\ One(u, a, j) = 0
    BY <2>1, OneIs
  <2>4. s = <<u>>
    BY <2>1
  <2>5. Is(i, j) \in Nat
    BY OneIs
  <2> QED
    BY <2>2, <2>3, <2>4, <2>5
<1> QED
  BY <1>4, <1>5, <1>6 DEF CallOk

\* chdir has found a directory.
LEMMA Swapping ==
    ASSUME NEW a, NEW O, NEW i \in Inodes,
           NEW s, s = <<Step("unlock", i), Step("swap", i)>>
    PROVE  CallOk(s, a, O) /\ \A j : Cnt(s, a, j) = Is(i, j)
<1>1. s \in Seq(StepRec) /\ Len(s) = 2
  BY DEF Step, StepRec, Ops, HoldOps, LastOps, DpOps
<1>2. /\ s[1].op = "unlock" /\ s[1].i = i
      /\ s[2].op = "swap" /\ s[2].i = i
  BY DEF Step
<1>3. \A k \in 1 .. 2 : k = 1 \/ k = 2
  OBVIOUS
<1>4. ScriptOk(s, a)
  BY <1>1, <1>2, <1>3 DEF ScriptOk, LastOps, ParentOps, DpOps
<1>5. Backed(s, a, O)
  BY <1>1, <1>2, <1>3 DEF Backed, Keeps, HoldOps, LastOps, DpOps
<1>6. ASSUME NEW j PROVE Cnt(s, a, j) = Is(i, j)
  <2>1. PICK u \in StepRec, v \in StepRec : u = Step("unlock", i) /\ v = Step("swap", i)
    BY StepIs DEF Ops, HoldOps, LastOps, DpOps
  <2>2. Cnt(<<u, v>>, a, j) = One(u, a, j) + One(v, a, j)
    BY CntShort
  <2>3. /\ One(u, a, j) = 0
        /\ One(v, a, j) = Is(i, j)
    BY <2>1, OneIs
  <2>4. s = <<u, v>>
    BY <2>1
  <2>5. Is(i, j) \in Nat
    BY OneIs
  <2> QED
    BY <2>2, <2>3, <2>4, <2>5
<1> QED
  BY <1>4, <1>5, <1>6 DEF CallOk

\* read, write and fstat.
LEMMA Accessing ==
    ASSUME NEW a, NEW O, NEW i \in Inodes,
           i \in O,
           NEW s, s = <<Step("lock", i), Step("unlock", i)>>
    PROVE  CallOk(s, a, O) /\ \A j : Cnt(s, a, j) = 0
<1>1. s \in Seq(StepRec) /\ Len(s) = 2
  BY DEF Step, StepRec, Ops, HoldOps, LastOps, DpOps
<1>2. /\ s[1].op = "lock" /\ s[1].i = i
      /\ s[2].op = "unlock" /\ s[2].i = i
  BY DEF Step
<1>3. \A k \in 1 .. 2 : k = 1 \/ k = 2
  OBVIOUS
<1>4. ScriptOk(s, a)
  BY <1>1, <1>2, <1>3 DEF ScriptOk, LastOps, ParentOps, DpOps
<1>5. Backed(s, a, O)
  BY <1>1, <1>2, <1>3 DEF Backed, Keeps, HoldOps, LastOps, DpOps
<1>6. ASSUME NEW j PROVE Cnt(s, a, j) = 0
  <2>1. PICK u \in StepRec, v \in StepRec : u = Step("lock", i) /\ v = Step("unlock", i)
    BY StepIs DEF Ops, HoldOps, LastOps, DpOps
  <2>2. Cnt(<<u, v>>, a, j) = One(u, a, j) + One(v, a, j)
    BY CntShort
  <2>3. /\ One(u, a, j) = 0
        /\ One(v, a, j) = 0
    BY <2>1, OneIs
  <2>4. s = <<u, v>>
    BY <2>1
  <2>5. Is(i, j) \in Nat
    BY OneIs
  <2> QED
    BY <2>2, <2>3, <2>4, <2>5
<1> QED
  BY <1>4, <1>5, <1>6 DEF CallOk

-----------------------------------------------------------------------------
(* One process goes on *)

OnlyMoves(td, ag, td2, ag2, p) ==
    /\ p \in Procs
    /\ \A q \in Procs : td[q] \in Seq(StepRec) /\ td2[q] \in Seq(StepRec)
    /\ \A q \in Procs \ {p} : td2[q] = td[q] /\ ag2[q] = ag[q]

LEMMA MovedRefs ==
    ASSUME NEW td, NEW ag, NEW fl, NEW td2, NEW ag2, NEW fl2, NEW p, OnlyMoves(td, ag, td2, ag2, p), NEW i
    PROVE  Cardinality(RefsIn(td2, ag2, fl2, i)) =
              Cardinality(RefsIn(td, ag, fl, i)) + (Cnt(td2[p], ag2[p], i) - Cnt(td[p], ag[p], i))
              + (Cardinality(FilesOn(fl2, i)) - Cardinality(FilesOn(fl, i)))
<1>0. /\ p \in Procs
      /\ \A q \in Procs : td[q] \in Seq(StepRec) /\ td2[q] \in Seq(StepRec)
      /\ \A q \in Procs \ {p} : td2[q] = td[q] /\ ag2[q] = ag[q]
  BY DEF OnlyMoves
<1>1. HeldElsewhere(td2, ag2, p, i) = HeldElsewhere(td, ag, p, i)
  <2>1. {HoldsIn(td2[q], ag2[q], q) : q \in Procs \ {p}} = {HoldsIn(td[q], ag[q], q) : q \in Procs \ {p}}
    BY <1>0
  <2> QED
    BY <2>1 DEF HeldElsewhere
<1>2. PICK c \in Nat : c = Cardinality(HeldElsewhere(td, ag, p, i))
  BY <1>0, ElsewhereFinite
<1>3. PICK f \in Nat, f2 \in Nat : f = Cardinality(FilesOn(fl, i)) /\ f2 = Cardinality(FilesOn(fl2, i))
  BY FileTags
<1>4. PICK n \in Nat, n2 \in Nat : n = Cnt(td[p], ag[p], i) /\ n2 = Cnt(td2[p], ag2[p], i)
  BY <1>0, CntNat
<1>5. PICK o \in Nat : o = OfRoot(i)
  BY DEF OfRoot
<1>6. Cardinality(RefsIn(td, ag, fl, i)) = c + n + f + o
  BY <1>0, <1>2, <1>3, <1>4, <1>5, ReferencesCount
<1>7. Cardinality(RefsIn(td2, ag2, fl2, i)) = c + n2 + f2 + o
  BY <1>0, <1>1, <1>2, <1>3, <1>4, <1>5, ReferencesCount
<1>8. c + n2 + f2 + o = (c + n + f + o) + (n2 - n) + (f2 - f)
  OBVIOUS
<1> QED
  BY <1>3, <1>4, <1>6, <1>7, <1>8

Rc(m, i) == IF m[i] = NULL THEN 0 ELSE m[i].rc
MemTable == [Inodes -> MemInode \cup {NULL}]

LEMMA RcInt == ASSUME NEW m \in MemTable, NEW i \in Inodes PROVE Rc(m, i) \in Int
<1>1. m[i] \in MemInode \cup {NULL}
  BY DEF MemTable
<1> QED
  BY <1>1 DEF Rc, MemInode

\* The count changes as the script, and the files, say.
LEMMA Stepped ==
    ASSUME RefInv, ~ panicked, NEW p \in Procs, NEW s, CallOk(s, arg'[p], OpenBy(p)'),
           todo' = [todo EXCEPT ![p] = s], DOMAIN arg' = Procs,
           \A q \in Procs \ {p} : arg'[q] = arg[q] /\ OpenBy(q) \subseteq OpenBy(q)',
           TablesOk', itab' \in [Inodes -> [type : Types, links : Int]],
           dirs' \in [Inodes -> SUBSET (Names \X Inodes)], mem' \in MemTable,
           \A i \in Inodes : Rc(mem', i) = Rc(mem, i) + (Cnt(s, arg'[p], i) - Cnt(todo[p], arg[p], i))
               + (Cardinality(FilesOn(files', i)) - Cardinality(FilesOn(files, i)))
    PROVE  RefInv'
<1>1. TypesOk /\ Exact /\ \A q \in Procs : CallOk(todo[q], arg[q], OpenBy(q))
  BY DEF RefInv
<1>2. s \in Seq(StepRec)
  BY DEF CallOk, ScriptOk
<1>3. todo \in [Procs -> Seq(StepRec)] /\ todo' \in [Procs -> Seq(StepRec)]
  BY <1>1, <1>2 DEF TypesOk
<1>4. TypesOk'
  BY <1>3 DEF TypesOk, MemTable
<1>5. todo'[p] = s /\ \A q \in Procs \ {p} : todo'[q] = todo[q]
  BY <1>3
<1>6. ASSUME NEW i \in Inodes PROVE Cardinality(References(i)') = Rc(mem', i)
  <2>1. References(i) = RefsIn(todo, arg, files, i)
    BY <1>3, ReferencesAre
  <2>2. References(i)' = RefsIn(todo', arg', files', i)
    BY <1>3, ReferencesAreNext
  <2>3. Cardinality(References(i)) = Rc(mem, i)
    BY <1>1 DEF Exact, Rc
  <2>4. PICK td, ag, fl, td2, ag2, fl2 : /\ td = todo /\ ag = arg /\ fl = files
                                         /\ td2 = todo' /\ ag2 = arg' /\ fl2 = files'
    OBVIOUS
  <2>5. OnlyMoves(td, ag, td2, ag2, p)
    BY <1>3, <1>5, <2>4 DEF OnlyMoves
  <2>6. Cardinality(RefsIn(td2, ag2, fl2, i)) =
           Cardinality(RefsIn(td, ag, fl, i)) + (Cnt(td2[p], ag2[p], i) - Cnt(td[p], ag[p], i))
           + (Cardinality(FilesOn(fl2, i)) - Cardinality(FilesOn(fl, i)))
    BY <2>5, MovedRefs
  <2> QED
    BY <1>5, <2>1, <2>2, <2>3, <2>4, <2>6
<1>7. Exact'
  BY <1>6 DEF Exact, Rc
<1>8. \A q \in Procs : CallOk(todo'[q], arg'[q], OpenBy(q)')
  <2> TAKE q \in Procs
  <2>1. CASE q = p
    BY <1>5, <2>1
  <2>2. CASE q # p
    BY <1>1, <1>5, <2>2, CallMore
  <2> QED
    BY <2>1, <2>2
<1> QED
  BY <1>4, <1>7, <1>8 DEF RefInv

LEMMA SteppedPlain ==
    ASSUME RefInv, ~ panicked, NEW p \in Procs, NEW s, CallOk(s, arg'[p], OpenBy(p)),
           todo' = [todo EXCEPT ![p] = s], DOMAIN arg' = Procs,
           \A q \in Procs \ {p} : arg'[q] = arg[q], UNCHANGED tables,
           itab' \in [Inodes -> [type : Types, links : Int]],
           dirs' \in [Inodes -> SUBSET (Names \X Inodes)], mem' \in MemTable,
           \A i \in Inodes : Rc(mem', i) = Rc(mem, i) + (Cnt(s, arg'[p], i) - Cnt(todo[p], arg[p], i))
    PROVE  RefInv'
<1>1. files' = files /\ ofiles' = ofiles
  BY DEF tables
<1>2. \A q \in Procs : OpenBy(q)' = OpenBy(q)
  BY <1>1 DEF OpenBy
<1>3. TablesOk'
  BY <1>1 DEF RefInv, TablesOk, Leading
<1>4. s \in Seq(StepRec) /\ todo[p] \in Seq(StepRec) /\ mem \in MemTable
  BY DEF CallOk, ScriptOk, RefInv, TypesOk, MemTable
<1>5. ASSUME NEW i \in Inodes
      PROVE  Rc(mem', i) = Rc(mem, i) + (Cnt(s, arg'[p], i) - Cnt(todo[p], arg[p], i))
                + (Cardinality(FilesOn(files', i)) - Cardinality(FilesOn(files, i)))
  <2>1. PICK f \in Nat : f = Cardinality(FilesOn(files, i)) /\ f = Cardinality(FilesOn(files', i))
    BY <1>1, FileTags
  <2>2. PICK n \in Nat, n2 \in Nat : n = Cnt(todo[p], arg[p], i) /\ n2 = Cnt(s, arg'[p], i)
    BY <1>4, CntNat
  <2>3. Rc(mem, i) \in Int
    BY <1>4, RcInt
  <2> QED
    BY <2>1, <2>2, <2>3
<1> QED
  BY <1>2, <1>3, <1>5, Stepped

\* Whoever keeps a reference finds the inode in memory.
LEMMA Referenced ==
    ASSUME RefInv, ~ panicked, NEW p \in Procs, NEW i \in Inodes,
           i \in OpenBy(p) \/ \E l \in 1 .. Len(todo[p]) : Keeps(todo[p], arg[p], l, i)
    PROVE  mem[i] # NULL /\ mem[i] \in MemInode /\ mem[i].rc \in Nat /\ mem[i].rc > 0
<1>1. TypesOk /\ Exact /\ TablesOk
  BY DEF RefInv
<1>2. \A q \in Procs : todo[q] \in Seq(StepRec)
  BY <1>1 DEF TypesOk
<1>3. PICK c \in Nat : c = Cardinality(HeldElsewhere(todo, arg, p, i))
  BY <1>2, ElsewhereFinite
<1>4. PICK f \in Nat : f = Cardinality(FilesOn(files, i))
  BY FileTags
<1>5. PICK a \in Nat, b \in Nat : a = Cardinality(StepsOn(todo[p], i)) /\ b = Cardinality(ParentOn(todo[p], arg[p], i))
  BY <1>2, CntNat
<1>6. Cardinality(References(i)) = c + (a + b) + f + OfRoot(i)
  BY <1>2, <1>3, <1>4, <1>5, ReferencesAre, ReferencesCount DEF Cnt
<1>7. a > 0 \/ b > 0 \/ f > 0
  <2>1. CASE i \in OpenBy(p)
    <3>1. PICK d \in Fds : ofiles[p][d] # NULL /\ files[ofiles[p][d]].ip = i
      BY <2>1 DEF OpenBy
    <3>2. ofiles[p][d] \in Files /\ <<p, d>> \in Leading(ofiles[p][d])
      BY <1>1, <3>1 DEF TablesOk, Leading
    <3>3. IsFiniteSet(Leading(ofiles[p][d]))
      <4>1. IsFiniteSet(Procs \X Fds)
        BY TablesAssumption, FS_Product
      <4> QED
        BY <4>1, FS_Subset DEF Leading
    <3>4. files[ofiles[p][d]].ref \in Nat /\ files[ofiles[p][d]].ref # 0
      BY <1>1, <3>2, <3>3, FS_EmptySet, FS_CardinalityType DEF TablesOk
    <3>5. ofiles[p][d] \in FilesOn(files, i)
      BY <3>1, <3>2, <3>4 DEF FilesOn
    <3>6. f # 0
      BY <1>4, <3>5, FileTags, FS_EmptySet
    <3> QED
      BY <3>6
  <2>2. CASE \E l \in 1 .. Len(todo[p]) : Keeps(todo[p], arg[p], l, i)
    <3>1. StepsOn(todo[p], i) # {} \/ ParentOn(todo[p], arg[p], i) # {}
      BY <2>2 DEF Keeps, StepsOn, ParentOn
    <3>2. a # 0 \/ b # 0
      BY <1>2, <1>5, <3>1, CntNat, FS_EmptySet
    <3> QED
      BY <3>2
  <2> QED
    BY <2>1, <2>2
<1>8. OfRoot(i) \in Nat
  BY DEF OfRoot
<1>9. Cardinality(References(i)) \in Nat /\ Cardinality(References(i)) > 0
  BY <1>6, <1>7, <1>8
<1>10. mem[i] \in MemInode \cup {NULL}
  BY <1>1 DEF TypesOk
<1> QED
  BY <1>1, <1>9, <1>10 DEF Exact

\* inode_get and inode_put.
LEMMA GotCount ==
    ASSUME NEW m \in MemTable, NEW i \in Inodes
    PROVE  Got(m, i) \in MemTable /\ \A j \in Inodes : Rc(Got(m, i), j) = Rc(m, j) + Is(i, j)
<1>1. NULL \notin MemInode
  BY NullAssumption
<1>2. CASE m[i] = NULL
  <2>1. NewInode \in MemInode /\ NewInode.rc = 1
    BY DEF NewInode, MemInode, Free, Entry, Types
  <2>2. Got(m, i) = [m EXCEPT ![i] = NewInode]
    BY <1>2 DEF Got
  <2>3. Got(m, i) \in MemTable
    BY <2>1, <2>2 DEF MemTable
  <2>4. \A j \in Inodes : Rc(Got(m, i), j) = Rc(m, j) + Is(i, j)
    BY <1>1, <1>2, <2>1, <2>2, RcInt DEF Rc, Is, MemTable
  <2> QED
    BY <2>3, <2>4
<1>3. CASE m[i] # NULL
  <2>1. m[i] \in MemInode /\ m[i].rc \in Int
    BY <1>3 DEF MemTable, MemInode
  <2>2. PICK x : x = [m[i] EXCEPT !.rc = @ + 1]
    OBVIOUS
  <2>3. x \in MemInode /\ x.rc = m[i].rc + 1
    BY <2>1, <2>2 DEF MemInode
  <2>4. Got(m, i) = [m EXCEPT ![i] = x]
    BY <1>3, <2>2 DEF Got
  <2>5. Got(m, i) \in MemTable
    BY <2>3, <2>4 DEF MemTable
  <2>6. \A j \in Inodes : Rc(Got(m, i), j) = Rc(m, j) + Is(i, j)
    BY <1>1, <1>3, <2>1, <2>3, <2>4, RcInt DEF Rc, Is, MemTable
  <2> QED
    BY <2>5, <2>6
<1> QED
  BY <1>2, <1>3

LEMMA PutCount ==
    ASSUME TypesOk, NEW i \in Inodes, mem[i] # NULL, PutInode(i)
    PROVE  /\ mem' \in MemTable /\ \A j \in Inodes : Rc(mem', j) = Rc(mem, j) - Is(i, j)
           /\ itab' \in [Inodes -> [type : Types, links : Int]]
           /\ dirs' \in [Inodes -> SUBSET (Names \X Inodes)]
<1>1. NULL \notin MemInode /\ mem \in MemTable
  BY NullAssumption DEF TypesOk, MemTable
<1>2. mem[i] \in MemInode /\ mem[i].rc \in Int
  BY <1>1 DEF MemTable, MemInode
<1>3. PICK links : IF LastPut(i, links)
                   THEN /\ itab' = [itab EXCEPT ![i] = Free]
                        /\ dirs' = [dirs EXCEPT ![i] = {}]
                        /\ mem' = [mem EXCEPT ![i] = NULL]
                   ELSE /\ mem' = [mem EXCEPT ![i].rc = @ - 1]
                        /\ UNCHANGED <<itab, dirs>>
  BY DEF PutInode
<1>4. CASE LastPut(i, links)
  <2>1. mem[i].rc = 1 /\ mem' = [mem EXCEPT ![i] = NULL]
    BY <1>3, <1>4 DEF LastPut
  <2>2. mem' \in MemTable
    BY <1>1, <2>1 DEF MemTable
  <2>3. \A j \in Inodes : Rc(mem', j) = Rc(mem, j) - Is(i, j)
    BY <1>1, <1>2, <2>1, RcInt DEF Rc, Is, MemTable
  <2>4. Free \in [type : Types, links : Int]
    BY DEF Free, Entry, Types
  <2> QED
    BY <1>3, <1>4, <2>2, <2>3, <2>4 DEF TypesOk
<1>5. CASE ~ LastPut(i, links)
  <2>1. PICK x : x = [mem[i] EXCEPT !.rc = @ - 1]
    OBVIOUS
  <2>2. x \in MemInode /\ x.rc = mem[i].rc - 1
    BY <1>2, <2>1 DEF MemInode
  <2>3. mem' = [mem EXCEPT ![i] = x]
    BY <1>3, <1>5, <2>1
  <2>4. mem' \in MemTable
    BY <1>1, <2>2, <2>3 DEF MemTable
  <2>5. \A j \in Inodes : Rc(mem', j) = Rc(mem, j) - Is(i, j)
    BY <1>1, <1>2, <2>2, <2>3, RcInt DEF Rc, Is, MemTable
  <2> QED
    BY <1>3, <1>5, <2>4, <2>5 DEF TypesOk
<1> QED
  BY <1>4, <1>5

\* Nothing that matters changes.
LEMMA SameRefs ==
    ASSUME RefInv, itab' = itab, dirs' = dirs, mem' = mem, files' = files, ofiles' = ofiles,
           todo' = todo, arg' = arg, panicked' = panicked
    PROVE  RefInv'
<1>1. \A q \in Procs : OpenBy(q)' = OpenBy(q)
  BY DEF OpenBy
<1>2. TablesOk'
  BY DEF RefInv, TablesOk, Leading
<1>3. \A q \in Procs : Holds(q)' = Holds(q)
  BY DEF Holds
<1>4. \A i : References(i)' = References(i)
  BY <1>3 DEF References
<1> QED
  BY <1>1, <1>2, <1>4 DEF RefInv, TypesOk, Exact

LEMMA RestStep ==
    ASSUME RefInv, ~ panicked, NEW p \in Procs, NEW s, CallOk(s, arg[p], OpenBy(p)), Rest(p, s),
           UNCHANGED tables, itab' \in [Inodes -> [type : Types, links : Int]],
           dirs' \in [Inodes -> SUBSET (Names \X Inodes)], mem' \in MemTable,
           \A i \in Inodes : Rc(mem', i) = Rc(mem, i) + (Cnt(s, arg[p], i) - Cnt(todo[p], arg[p], i))
    PROVE  RefInv'
<1>1. DOMAIN arg = Procs
  BY DEF RefInv, TypesOk
<1>2. todo' = [todo EXCEPT ![p] = s] /\ arg' = IF s = <<>> THEN [arg EXCEPT ![p] = NoCall] ELSE arg
  BY DEF Rest
<1>3. DOMAIN arg' = Procs /\ (\A q \in Procs \ {p} : arg'[q] = arg[q]) /\ (s # <<>> => arg'[p] = arg[p])
  BY <1>1, <1>2
<1>4. CallOk(s, arg'[p], OpenBy(p))
  BY <1>3, CallEmpty
<1>5. \A i : Cnt(s, arg'[p], i) = Cnt(s, arg[p], i)
  BY <1>3, CntEmpty
<1> QED
  BY <1>2, <1>3, <1>4, <1>5, SteppedPlain, ZenonT(40)

\* A process at a step that ends its script.
LEMMA AtLast ==
    ASSUME RefInv, ~ panicked, NEW p \in Procs, NEW op \in LastOps, At(p, op), NEW i, i = Head(todo[p]).i
    PROVE  /\ i \in Inodes /\ todo[p] = <<Step(op, i)>>
           /\ \A j : op \notin DpOps => Cnt(todo[p], arg[p], j) = Is(i, j)
           /\ \A j : op \in DpOps => Cnt(todo[p], arg[p], j) = Is(i, j) + Is(arg[p].dp, j)
           /\ mem[i] # NULL /\ mem[i] \in MemInode
           /\ op \in ParentOps => /\ arg[p] \in ParentArg /\ arg[p].dp \in Inodes
                                  /\ op \in {"find", "look"} => arg[p].dp = i
                                  /\ op \in {"find", "exists", "make"} => arg[p].type # "any"
           /\ op \in DpOps => mem[arg[p].dp] # NULL /\ mem[arg[p].dp] \in MemInode
<1>1. CallOk(todo[p], arg[p], OpenBy(p)) /\ todo[p] \in Seq(StepRec) /\ todo[p] # <<>> /\ Head(todo[p]).op = op
  BY DEF RefInv, TypesOk, At
<1>2. PICK s \in Seq(StepRec) : s = todo[p]
  BY <1>1
<1>3. Len(s) \in Nat /\ Len(s) > 0 /\ Head(s) = s[1] /\ s[1] \in StepRec
  BY <1>1, <1>2
<1>4. Len(s) = 1
  <2>1. 1 \in 1 .. Len(s) /\ s[1].op \in LastOps
    BY <1>1, <1>2, <1>3
  <2>2. \A k \in 1 .. Len(s) : s[k].op \in LastOps => k = Len(s)
    BY <1>1, <1>2 DEF CallOk, ScriptOk
  <2> QED
    BY <2>1, <2>2
<1>5. s = <<s[1]>>
  BY <1>3, <1>4
<1>6. s[1] = Step(op, i) /\ i \in Inodes
  BY <1>1, <1>2, <1>3 DEF StepRec, Step
<1>7. todo[p] = <<Step(op, i)>>
  BY <1>2, <1>5, <1>6
<1>8. op \in ParentOps => /\ arg[p] \in ParentArg /\ arg[p].dp \in Inodes
                          /\ op \in {"find", "look"} => arg[p].dp = i
                          /\ op \in {"find", "exists", "make"} => arg[p].type # "any"
  <2>1. 1 \in 1 .. Len(s) /\ s[1].op = op /\ s[1].i = i
    BY <1>1, <1>2, <1>3, <1>4
  <2> QED
    BY <1>1, <1>2, <2>1 DEF CallOk, ScriptOk, ParentArg
<1>9. ASSUME NEW j
      PROVE  /\ op \notin DpOps => Cnt(todo[p], arg[p], j) = Is(i, j)
             /\ op \in DpOps => Cnt(todo[p], arg[p], j) = Is(i, j) + Is(arg[p].dp, j)
  <2>1. PICK u \in StepRec : u = Step(op, i)
    BY <1>3, <1>6
  <2>2. Cnt(<<u>>, arg[p], j) = One(u, arg[p], j)
    BY CntShort
  <2>3. (op \notin DpOps => One(u, arg[p], j) = Is(i, j)) /\ (op \in DpOps => One(u, arg[p], j) = Is(i, j) + Is(arg[p].dp, j))
    BY <2>1, OneIs DEF LastOps, DpOps
  <2> QED
    BY <1>7, <2>1, <2>2, <2>3
<1>10. 1 \in 1 .. Len(todo[p]) /\ todo[p][1].op = op /\ todo[p][1].i = i
  BY <1>2, <1>4, <1>6 DEF Step
<1>11. Keeps(todo[p], arg[p], 1, i) /\ (op \in DpOps => Keeps(todo[p], arg[p], 1, arg[p].dp))
  BY <1>10 DEF Keeps, HoldOps
<1>12. mem[i] # NULL /\ mem[i] \in MemInode
  BY <1>6, <1>10, <1>11, Referenced
<1>13. op \in DpOps => mem[arg[p].dp] # NULL /\ mem[arg[p].dp] \in MemInode
  <2>1. op \in DpOps => arg[p].dp \in Inodes
    BY <1>8 DEF DpOps, ParentOps
  <2> QED
    BY <1>10, <1>11, <2>1, Referenced
<1> QED
  BY <1>6, <1>7, <1>8, <1>9, <1>12, <1>13

\* An inode in memory changes, but not its count.
SameButFor(m, i, x, m2) ==
    m \in MemTable /\ i \in Inodes /\ m[i] # NULL /\ x \in MemInode /\ x.rc = m[i].rc /\ m2 = [m EXCEPT ![i] = x]

LEMMA SameCount ==
    ASSUME NEW m, NEW i, NEW x, NEW m2, SameButFor(m, i, x, m2)
    PROVE  m2 \in MemTable /\ \A j \in Inodes : Rc(m2, j) = Rc(m, j)
<1>1. NULL \notin MemInode
  BY NullAssumption
<1> QED
  BY <1>1 DEF MemTable, Rc, SameButFor

\* A step in the middle of a script that keeps no reference.
LEMMA PassStep ==
    ASSUME RefInv, ~ panicked, NEW p \in Procs, NEW op \in {"lock", "unlock", "drop"}, At(p, op)
    PROVE  /\ Head(todo[p]).i \in Inodes
           /\ mem[Head(todo[p]).i] # NULL /\ mem[Head(todo[p]).i] \in MemInode
           /\ CallOk(Tail(todo[p]), arg[p], OpenBy(p))
           /\ \A i : /\ Cnt(Tail(todo[p]), arg[p], i) = Cnt(todo[p], arg[p], i)
                     /\ Cnt(todo[p], arg[p], i) \in Nat
<1>1. CallOk(todo[p], arg[p], OpenBy(p)) /\ todo[p] \in Seq(StepRec) /\ todo[p] # <<>> /\ Head(todo[p]).op = op
  BY DEF RefInv, TypesOk, At
<1>2. PICK s \in Seq(StepRec) : s = todo[p]
  BY <1>1
<1>3. Len(s) \in Nat /\ Len(s) > 0 /\ Head(s) = s[1] /\ s[1] \in StepRec
  BY <1>1, <1>2
<1>4. s[1].op = op /\ s[1].op \notin HoldOps /\ s[1].op \notin DpOps /\ s[1].i \in Inodes /\ 1 \in 1 .. Len(s)
  BY <1>1, <1>2, <1>3 DEF HoldOps, LastOps, DpOps, StepRec
<1>5. s[1].i \in OpenBy(p) \/ \E l \in 1 + 1 .. Len(s) : Keeps(s, arg[p], l, s[1].i)
  BY <1>1, <1>2, <1>4 DEF CallOk, Backed
<1>6. \A l \in 1 + 1 .. Len(s) : l \in 1 .. Len(s)
  BY <1>3
<1>7. mem[s[1].i] # NULL /\ mem[s[1].i] \in MemInode
  BY <1>2, <1>4, <1>5, <1>6, Referenced
<1>8. ASSUME NEW i PROVE Cnt(Tail(s), arg[p], i) = Cnt(s, arg[p], i) /\ Cnt(s, arg[p], i) \in Nat
  <2>1. Cnt(s, arg[p], i) = One(s[1], arg[p], i) + Cnt(Tail(s), arg[p], i)
    BY <1>1, <1>2, CntTail
  <2>2. One(s[1], arg[p], i) = 0
    BY <1>4 DEF One
  <2>3. Tail(s) \in Seq(StepRec)
    BY <1>1, <1>2, HeadTailProperties
  <2>4. Cnt(s, arg[p], i) \in Nat /\ Cnt(Tail(s), arg[p], i) \in Nat
    BY <2>3, CntNat
  <2> QED
    BY <2>1, <2>2, <2>4
<1> QED
  BY <1>1, <1>2, <1>3, <1>4, <1>7, <1>8, CallTail

LEMMA PassRefs ==
    ASSUME RefInv, ~ panicked, NEW p \in Procs, NEW op \in {"lock", "unlock", "drop"}, At(p, op),
           NEW i, i = Head(todo[p]).i, NEW x \in MemInode, x.rc = mem[i].rc,
           mem' = [mem EXCEPT ![i] = x], Rest(p, Tail(todo[p])), UNCHANGED <<dirs, tables>>,
           itab' \in [Inodes -> [type : Types, links : Int]]
    PROVE  RefInv'
<1>3. /\ i \in Inodes /\ mem[i] # NULL /\ mem[i] \in MemInode
      /\ CallOk(Tail(todo[p]), arg[p], OpenBy(p))
      /\ \A j : /\ Cnt(Tail(todo[p]), arg[p], j) = Cnt(todo[p], arg[p], j)
                /\ Cnt(todo[p], arg[p], j) \in Nat
  BY PassStep
<1>4. mem \in MemTable
  BY DEF RefInv, TypesOk, MemTable
<1>5. PICK m, m0 : m = [mem EXCEPT ![i] = x] /\ m0 = mem
  OBVIOUS
<1>12. SameButFor(m0, i, x, m)
  BY <1>3, <1>4, <1>5 DEF SameButFor
<1>6. m \in MemTable /\ \A j \in Inodes : Rc(m, j) = Rc(m0, j)
  BY <1>12, SameCount
<1>7. \A j \in Inodes : Rc(mem, j) \in Int
  BY <1>4, RcInt
<1>8. mem' \in MemTable /\ \A j \in Inodes : Rc(mem', j) = Rc(mem, j)
  BY <1>5, <1>6
<1>9. dirs' = dirs /\ UNCHANGED tables
  OBVIOUS
<1>10. dirs' \in [Inodes -> SUBSET (Names \X Inodes)]
  BY <1>9 DEF RefInv, TypesOk
<1>11. \A j \in Inodes : Rc(mem', j) = Rc(mem, j) + (Cnt(Tail(todo[p]), arg[p], j) - Cnt(todo[p], arg[p], j))
  <2> TAKE j \in Inodes
  <2>1. PICK n \in Nat : n = Cnt(todo[p], arg[p], j) /\ n = Cnt(Tail(todo[p]), arg[p], j)
    BY <1>3
  <2>2. PICK r \in Int : r = Rc(mem, j) /\ r = Rc(mem', j)
    BY <1>7, <1>8
  <2> QED
    BY <2>1, <2>2
<1> QED
  BY <1>3, <1>8, <1>9, <1>10, <1>11, RestStep

\* An inode in memory that is locked, and unlocked.
LEMMA LockedInode ==
    ASSUME NEW y \in MemInode, NEW e, NEW p, NEW x,
           x = [y EXCEPT !.lock = @ - 1, !.by = p, !.valid = TRUE, !.e = e]
    PROVE  x = [rc |-> y.rc, lock |-> y.lock - 1, by |-> p, valid |-> TRUE, e |-> e]
<1>1. PICK a, b, c, d, f : y = [rc |-> a, lock |-> b, by |-> c, valid |-> d, e |-> f]
  BY DEF MemInode
<1>2. x = [rc |-> a, lock |-> b - 1, by |-> p, valid |-> TRUE, e |-> e]
  BY <1>1
<1>3. y.rc = a /\ y.lock = b
  BY <1>1
<1> QED
  BY <1>2, <1>3

LEMMA UnlockedInode ==
    ASSUME NEW y \in MemInode, NEW x, x = [y EXCEPT !.lock = @ + 1, !.by = NULL]
    PROVE  x = [rc |-> y.rc, lock |-> y.lock + 1, by |-> NULL, valid |-> y.valid, e |-> y.e]
<1>1. PICK a, b, c, d, f : y = [rc |-> a, lock |-> b, by |-> c, valid |-> d, e |-> f]
  BY DEF MemInode
<1>2. x = [rc |-> a, lock |-> b + 1, by |-> NULL, valid |-> d, e |-> f]
  BY <1>1
<1>3. y.rc = a /\ y.lock = b /\ y.valid = d /\ y.e = f
  BY <1>1
<1> QED
  BY <1>2, <1>3

LEMMA InodeIs ==
    ASSUME NEW y \in MemInode, NEW c \in Procs \cup {NULL}, NEW n \in Int, NEW v \in BOOLEAN,
           NEW e \in [type : Types, links : Int],
           NEW x, x = [rc |-> y.rc, lock |-> n, by |-> c, valid |-> v, e |-> e]
    PROVE  x \in MemInode /\ x.rc = y.rc
  BY DEF MemInode

LEMMA LockRefs == ASSUME RefInv, NEW p \in Procs, Lock(p) PROVE RefInv'
<1>1. At(p, "lock") /\ ~ panicked
  BY Zenon DEF Lock, At
<1>2. PICK i : i = Head(todo[p]).i
  OBVIOUS
<1>3. i \in Inodes /\ mem[i] # NULL /\ mem[i] \in MemInode
  BY <1>1, <1>2, PassStep
<1>4. mem \in MemTable /\ itab[i] \in [type : Types, links : Int]
  BY <1>1, <1>3 DEF RefInv, TypesOk, MemTable
<1>5. PICK e, y : e = (IF mem[i].valid THEN mem[i].e ELSE itab[i]) /\ y = mem[i]
  OBVIOUS
<1>6. e \in [type : Types, links : Int] /\ y \in MemInode /\ y.lock - 1 \in Int
  BY <1>3, <1>4, <1>5 DEF MemInode
<1>7. PICK x : x = [y EXCEPT !.lock = @ - 1, !.by = p, !.valid = TRUE, !.e = e]
  OBVIOUS
<1>8. x = [rc |-> y.rc, lock |-> y.lock - 1, by |-> p, valid |-> TRUE, e |-> e]
  BY <1>6, <1>7, LockedInode, Zenon
<1>9. mem' = [mem EXCEPT ![i] = x]
  BY <1>2, <1>3, <1>4, <1>5, <1>7, Zenon DEF Lock, MemTable
<1>10. UNCHANGED <<dirs, tables>> /\ Rest(p, Tail(todo[p]))
  BY Zenon DEF Lock, tables
<1>11. itab' \in [Inodes -> [type : Types, links : Int]]
  BY <1>1 DEF Lock, RefInv, TypesOk
<1>12. x \in MemInode /\ x.rc = mem[i].rc
  <2>1. PICK v \in BOOLEAN : v = TRUE
    OBVIOUS
  <2>2. x = [rc |-> y.rc, lock |-> y.lock - 1, by |-> p, valid |-> v, e |-> e]
    BY <1>8, <2>1
  <2>3. p \in Procs \cup {NULL}
    OBVIOUS
  <2>4. PICK n \in Int : n = y.lock - 1
    BY <1>6
  <2>5. x \in MemInode /\ x.rc = y.rc
    BY <1>6, <2>2, <2>3, <2>4, InodeIs
  <2> QED
    BY <1>5, <2>5
<1> QED
  BY <1>1, <1>2, <1>9, <1>10, <1>11, <1>12, PassRefs, Zenon

LEMMA UnlockRefs == ASSUME RefInv, NEW p \in Procs, Unlock(p) PROVE RefInv'
<1>1. At(p, "unlock") /\ ~ panicked
  BY DEF Unlock, At
<1>2. PICK i : i = Head(todo[p]).i
  OBVIOUS
<1>3. i \in Inodes /\ mem[i] # NULL /\ mem[i] \in MemInode
  BY <1>1, <1>2, PassStep
<1>4. mem \in MemTable
  BY <1>1 DEF RefInv, TypesOk, MemTable
<1>5. PICK y : y = mem[i]
  OBVIOUS
<1>6. /\ y.e \in [type : Types, links : Int] /\ y \in MemInode /\ y.lock + 1 \in Int
      /\ y.valid \in BOOLEAN
  BY <1>3, <1>5 DEF MemInode
<1>7. PICK x : x = [y EXCEPT !.lock = @ + 1, !.by = NULL]
  OBVIOUS
<1>8. x = [rc |-> y.rc, lock |-> y.lock + 1, by |-> NULL, valid |-> y.valid, e |-> y.e]
  BY <1>6, <1>7, UnlockedInode, Zenon
<1>9. mem' = [mem EXCEPT ![i] = x]
  BY <1>2, <1>3, <1>4, <1>5, <1>7 DEF Unlock, MemTable
<1>10. UNCHANGED <<dirs, tables>> /\ Rest(p, Tail(todo[p]))
  BY DEF Unlock, tables
<1>11. itab' \in [Inodes -> [type : Types, links : Int]]
  BY <1>1 DEF Unlock, RefInv, TypesOk
<1>12. x \in MemInode /\ x.rc = mem[i].rc
  BY <1>5, <1>6, <1>8, InodeIs
<1> QED
  BY <1>1, <1>2, <1>9, <1>10, <1>11, <1>12, PassRefs

LEMMA FewerIs ==
    ASSUME NEW e \in [type : Types, links : Int]
    PROVE  Fewer(e) \in [type : Types, links : Int] /\ Fewer(e) = [type |-> e.type, links |-> e.links - 1]
  BY DEF Fewer

LEMMA DropRefs == ASSUME RefInv, NEW p \in Procs, Drop(p) PROVE RefInv'
<1>1. At(p, "drop") /\ ~ panicked
  BY DEF Drop, At
<1>2. PICK i : i = Head(todo[p]).i
  OBVIOUS
<1>3. i \in Inodes /\ mem[i] # NULL /\ mem[i] \in MemInode
  BY <1>1, <1>2, PassStep
<1>4. mem \in MemTable
  BY <1>1 DEF RefInv, TypesOk, MemTable
<1>5. PICK e : e = Fewer(mem[i].e)
  OBVIOUS
<1>6. e \in [type : Types, links : Int]
  <2>1. mem[i].e \in [type : Types, links : Int]
    BY <1>3 DEF MemInode
  <2> QED
    BY <1>5, <2>1, FewerIs
<1>7. PICK x : x = [rc |-> mem[i].rc, lock |-> mem[i].lock, by |-> mem[i].by, valid |-> mem[i].valid,
                    e |-> e]
  OBVIOUS
<1>8. x \in MemInode /\ x.rc = mem[i].rc
  BY <1>3, <1>6, <1>7 DEF MemInode
<1>9. mem' = [mem EXCEPT ![i] = x]
  <2>1. mem' = [mem EXCEPT ![i] = [mem[i] EXCEPT !.e = e]]
    BY <1>2, <1>3, <1>4, <1>5 DEF Drop, MemTable
  <2>2. x = [mem[i] EXCEPT !.e = e]
    BY <1>3, <1>7 DEF MemInode
  <2> QED
    BY <2>1, <2>2
<1>10. UNCHANGED <<dirs, tables>> /\ Rest(p, Tail(todo[p]))
  BY DEF Drop, tables
<1>11. itab' \in [Inodes -> [type : Types, links : Int]]
  BY <1>1, <1>2, <1>5, <1>6 DEF Drop, RefInv, TypesOk, Synced
<1> QED
  BY <1>1, <1>2, <1>8, <1>9, <1>10, <1>11, PassRefs

LEMMA PutRefs == ASSUME RefInv, NEW p \in Procs, Put(p) PROVE RefInv'
<1>1. At(p, "put") /\ ~ panicked /\ PutInode(Head(todo[p]).i) /\ Rest(p, Tail(todo[p])) /\ UNCHANGED tables
  BY DEF Put, At, tables
<1>2. CallOk(todo[p], arg[p], OpenBy(p)) /\ todo[p] \in Seq(StepRec) /\ todo[p] # <<>> /\ Head(todo[p]).op = "put"
  BY <1>1 DEF RefInv, TypesOk, At
<1>3. PICK s \in Seq(StepRec) : s = todo[p]
  BY <1>2
<1>4. PICK i : i = s[1].i
  OBVIOUS
<1>5. Len(s) \in Nat /\ Len(s) > 0 /\ Head(s) = s[1] /\ s[1] \in StepRec /\ s[1].op = "put"
  BY <1>2, <1>3
<1>6. i \in Inodes /\ 1 \in 1 .. Len(s) /\ Keeps(s, arg[p], 1, i)
  BY <1>4, <1>5 DEF StepRec, Keeps, HoldOps
<1>7. mem[i] # NULL
  BY <1>1, <1>3, <1>6, Referenced
<1>8. TypesOk /\ PutInode(i)
  BY <1>1, <1>3, <1>4, <1>5 DEF RefInv
<1>9. /\ mem' \in MemTable /\ \A j \in Inodes : Rc(mem', j) = Rc(mem, j) - Is(i, j)
      /\ itab' \in [Inodes -> [type : Types, links : Int]]
      /\ dirs' \in [Inodes -> SUBSET (Names \X Inodes)]
  BY <1>6, <1>7, <1>8, PutCount
<1>10. CallOk(Tail(s), arg[p], OpenBy(p)) /\ Tail(s) \in Seq(StepRec)
  BY <1>2, <1>3, CallTail DEF CallOk, ScriptOk
<1>11. ASSUME NEW j \in Inodes
       PROVE  Rc(mem', j) = Rc(mem, j) + (Cnt(Tail(s), arg[p], j) - Cnt(s, arg[p], j))
  <2>1. Cnt(s, arg[p], j) = One(s[1], arg[p], j) + Cnt(Tail(s), arg[p], j)
    BY <1>2, <1>3, CntTail
  <2>2. One(s[1], arg[p], j) = Is(i, j)
    BY <1>4, <1>5 DEF One, HoldOps, DpOps, Is
  <2>3. PICK n \in Nat, m \in Nat : n = Cnt(Tail(s), arg[p], j) /\ m = Is(i, j)
    BY <1>10, CntNat DEF Is
  <2>4. PICK r \in Int : r = Rc(mem, j)
    BY <1>8, RcInt DEF TypesOk, MemTable
  <2>5. Rc(mem', j) = r - m /\ Cnt(s, arg[p], j) = m + n
    BY <1>9, <2>1, <2>2, <2>3, <2>4
  <2> QED
    BY <2>3, <2>4, <2>5
<1> QED
  BY <1>1, <1>3, <1>9, <1>10, <1>11, RestStep

\* The script changes, but not what it keeps.
LEMMA SameRest ==
    ASSUME RefInv, ~ panicked, NEW p \in Procs, NEW s, CallOk(s, arg[p], OpenBy(p)), Rest(p, s),
           UNCHANGED tables, itab' \in [Inodes -> [type : Types, links : Int]],
           dirs' \in [Inodes -> SUBSET (Names \X Inodes)], mem' \in MemTable,
           \A j \in Inodes : Rc(mem', j) = Rc(mem, j),
           \A j \in Inodes : Cnt(s, arg[p], j) = Cnt(todo[p], arg[p], j)
    PROVE  RefInv'
<1>1. mem \in MemTable /\ s \in Seq(StepRec)
  BY DEF RefInv, TypesOk, MemTable, CallOk, ScriptOk
<1>2. ASSUME NEW j \in Inodes
      PROVE  Rc(mem', j) = Rc(mem, j) + (Cnt(s, arg[p], j) - Cnt(todo[p], arg[p], j))
  <2>1. PICK r \in Int : r = Rc(mem, j)
    BY <1>1, RcInt
  <2>2. PICK n \in Nat : n = Cnt(s, arg[p], j)
    BY <1>1, CntNat
  <2>3. Rc(mem', j) = r /\ n = Cnt(todo[p], arg[p], j)
    BY <2>1, <2>2
  <2> QED
    BY <2>1, <2>2, <2>3
<1> QED
  BY <1>2, RestStep

\* The call has got one more inode.
LEMMA GotRest ==
    ASSUME RefInv, ~ panicked, NEW p \in Procs, NEW s, CallOk(s, arg[p], OpenBy(p)), Rest(p, s),
           UNCHANGED tables, itab' \in [Inodes -> [type : Types, links : Int]],
           dirs' \in [Inodes -> SUBSET (Names \X Inodes)], NEW i \in Inodes, mem' = Got(mem, i),
           \A j \in Inodes : Cnt(s, arg[p], j) = Is(i, j) + Cnt(todo[p], arg[p], j)
    PROVE  RefInv'
<1>1. mem \in MemTable /\ todo[p] \in Seq(StepRec)
  BY DEF RefInv, TypesOk, MemTable
<1>2. mem' \in MemTable /\ \A j \in Inodes : Rc(mem', j) = Rc(mem, j) + Is(i, j)
  BY <1>1, GotCount
<1>3. ASSUME NEW j \in Inodes
      PROVE  Rc(mem', j) = Rc(mem, j) + (Cnt(s, arg[p], j) - Cnt(todo[p], arg[p], j))
  <2>1. PICK r \in Int : r = Rc(mem, j)
    BY <1>1, RcInt
  <2>2. PICK n \in Nat, m \in Nat : n = Cnt(todo[p], arg[p], j) /\ m = Is(i, j)
    BY <1>1, CntNat DEF Is
  <2>3. Rc(mem', j) = r + m /\ Cnt(s, arg[p], j) = m + n
    BY <1>2, <2>1, <2>2
  <2> QED
    BY <2>1, <2>2, <2>3
<1> QED
  BY <1>2, <1>3, RestStep

LEMMA BeginRefs ==
    ASSUME RefInv, NEW p \in Procs, NEW i \in Inodes, NEW a, NEW s, Begin(p, i, a, s),
           CallOk(s, a, OpenBy(p)), \A j : Cnt(s, a, j) = Is(i, j)
    PROVE  RefInv'
<1>1. todo[p] = <<>> /\ ~ panicked /\ panicked' = panicked /\ itab' = itab /\ dirs' = dirs /\ UNCHANGED tables
  BY DEF Begin, May, tables
<1>2. TypesOk /\ mem \in MemTable
  BY <1>1 DEF RefInv, TypesOk, MemTable
<1>3. CASE mem' = Got(mem, i) /\ todo' = [todo EXCEPT ![p] = s] /\ arg' = [arg EXCEPT ![p] = a]
  <2>1. arg'[p] = a /\ DOMAIN arg' = Procs /\ \A q \in Procs \ {p} : arg'[q] = arg[q]
    BY <1>2, <1>3 DEF TypesOk
  <2>2. mem' \in MemTable /\ \A j \in Inodes : Rc(mem', j) = Rc(mem, j) + Is(i, j)
    BY <1>2, <1>3, GotCount
  <2>3. ASSUME NEW j \in Inodes
        PROVE  Rc(mem', j) = Rc(mem, j) + (Cnt(s, arg'[p], j) - Cnt(todo[p], arg[p], j))
    <3>1. PICK r \in Int : r = Rc(mem, j)
      BY <1>2, RcInt
    <3>2. PICK m \in Nat : m = Is(i, j)
      BY DEF Is
    <3>3. Rc(mem', j) = r + m /\ Cnt(s, arg'[p], j) = m /\ Cnt(todo[p], arg[p], j) = 0
      BY <1>1, <2>1, <2>2, <3>1, <3>2, CntEmpty
    <3> QED
      BY <3>1, <3>2, <3>3
  <2>4. itab' \in [Inodes -> [type : Types, links : Int]] /\ dirs' \in [Inodes -> SUBSET (Names \X Inodes)]
    BY <1>1, <1>2 DEF TypesOk
  <2>5. CallOk(s, arg'[p], OpenBy(p))
    BY <2>1
  <2> QED
    BY <1>1, <1>3, <2>1, <2>2, <2>3, <2>4, <2>5, SteppedPlain, ZenonT(40)
<1>4. CASE UNCHANGED <<mem, todo, arg>>
  <2>1. /\ itab' = itab /\ dirs' = dirs /\ files' = files /\ ofiles' = ofiles /\ panicked' = panicked
        /\ mem' = mem /\ todo' = todo /\ arg' = arg
    BY <1>1, <1>4 DEF tables
  <2> QED
    BY <2>1, SameRefs
<1> QED
  BY <1>3, <1>4 DEF Begin

\* CHOOSE finds the least of a set of numbers.
LEMMA LeastNat == ASSUME NEW S \in SUBSET Nat, S # {} PROVE \E i \in S : \A j \in S : i <= j
<1>1. \E i \in S : \A j \in S : ~ (<<j, i>> \in OpToRel(<, Nat))
  BY NatLessThanWellFounded, WFMin
<1>2. PICK i \in S : \A j \in S : ~ (<<j, i>> \in OpToRel(<, Nat))
  BY <1>1
<1>3. ASSUME NEW j \in S PROVE i <= j
  <2>1. i \in Nat /\ j \in Nat /\ ~ (<<j, i>> \in OpToRel(<, Nat))
    BY <1>2
  <2> QED
    BY <2>1 DEF OpToRel
<1> QED
  BY <1>3

LEMMA DirectoryIs == Directories \subseteq Inodes /\ Root \in Inodes
  BY InodesAssumption DEF Directories, Root, Inodes

LEMMA NamedIs ==
    ASSUME TypesOk, NEW d \in Inodes, NEW name
    PROVE  Named(d, name) \subseteq Inodes
<1>1. dirs[d] \subseteq Names \X Inodes
  BY DEF TypesOk
<1> QED
  BY <1>1 DEF Named

\* What create meets, and what unlinkat may remove.
LEMMA MeetsIs ==
    ASSUME TypesOk, NEW d \in Inodes, NEW name
    PROVE  /\ Meets(d, name) \subseteq Inodes
           /\ name # Dot => Meets(d, name) = Named(d, name)
  BY NamedIs DEF Meets

LEMMA RemovableIs == ASSUME NEW d, NEW name PROVE Removable(d, name) \subseteq Named(d, name)
  BY DEF Removable

LEMMA ParentRefs ==
    ASSUME RefInv, NEW p \in Procs, NEW call \in {"openat", "mkdirat", "mknodat", "unlinkat"},
           NEW op \in {"find", "look"}, NEW type \in {"file", "dir", "dev", "any"},
           op = "find" => type # "any", Parent(p, call, op, type)
    PROVE  RefInv'
<1>1. PICK d \in Directories, name \in Names :
         Begin(p, d, [call |-> call, dp |-> d, name |-> name, type |-> type],
               <<Step("lock", d), Step(op, d)>>)
  BY DEF Parent
<1>2. PICK a, s : /\ a = [call |-> call, dp |-> d, name |-> name, type |-> type]
                  /\ s = <<Step("lock", d), Step(op, d)>>
  OBVIOUS
<1>3. d \in Inodes
  BY DirectoryIs
<1>4. a \in ParentArg /\ a.dp = d /\ (op = "find" => a.type # "any")
  BY <1>2, <1>3 DEF ParentArg
<1>5. CallOk(s, a, OpenBy(p)) /\ \A j : Cnt(s, a, j) = Is(d, j)
  BY <1>2, <1>3, <1>4, WaitParent
<1>6. Begin(p, d, a, s)
  BY <1>1, <1>2
<1> QED
  BY <1>3, <1>5, <1>6, BeginRefs

LEMMA FoundIs == ASSUME TypesOk, NEW i, i \in Found PROVE i \in Inodes
<1>1. \A d \in Directories : dirs[d] \subseteq Names \X Inodes
  BY DirectoryIs DEF TypesOk
<1>2. PICK D : D = UNION {dirs[d] : d \in Directories}
  OBVIOUS
<1>3. D \subseteq Names \X Inodes
  BY <1>1, <1>2
<1>4. i = Root \/ \E x \in D : i = x[2]
  BY <1>2 DEF Found
<1> QED
  BY <1>3, <1>4, DirectoryIs

LEMMA TargetRefs ==
    ASSUME RefInv, NEW p \in Procs, NEW call, NEW op \in {"open", "stat", "enter"}, Target(p, call, op)
    PROVE  RefInv'
<1>1. PICK i \in Found : Begin(p, i, [call |-> call], <<Step("lock", i), Step(op, i)>>)
  BY DEF Target, Found
<1>2. PICK a, s : a = [call |-> call] /\ s = <<Step("lock", i), Step(op, i)>>
  OBVIOUS
<1>3. TypesOk
  BY <1>1 DEF RefInv, Begin, May
<1>4. i \in Inodes
  BY <1>1, <1>3, FoundIs
<1>5. CallOk(s, a, OpenBy(p)) /\ \A j : Cnt(s, a, j) = Is(i, j)
  BY <1>2, <1>4, WaitTarget
<1>6. Begin(p, i, a, s)
  BY <1>1, <1>2
<1> QED
  BY <1>4, <1>5, <1>6, BeginRefs

LEMMA CallsRefs ==
    ASSUME RefInv, NEW p \in Procs,
           Openat(p) \/ Mkdirat(p) \/ Mknodat(p) \/ Unlinkat(p) \/ Chdir(p) \/ Newfstatat(p)
    PROVE  RefInv'
<1>1. CASE Openat(p)
  <2>1. CASE Target(p, "openat", "open")
    BY <2>1, TargetRefs
  <2>2. CASE Parent(p, "openat", "find", "file")
    BY <2>2, ParentRefs
  <2> QED
    BY <1>1, <2>1, <2>2 DEF Openat
<1>2. CASE Mkdirat(p)
  BY <1>2, ParentRefs DEF Mkdirat
<1>3. CASE Mknodat(p)
  BY <1>3, ParentRefs DEF Mknodat
<1>4. CASE Unlinkat(p)
  BY <1>4, ParentRefs DEF Unlinkat
<1>5. CASE Chdir(p)
  BY <1>5, TargetRefs DEF Chdir
<1>6. CASE Newfstatat(p)
  BY <1>6, TargetRefs DEF Newfstatat
<1> QED
  BY <1>1, <1>2, <1>3, <1>4, <1>5, <1>6

LEMMA PanicRefs == ASSUME RefInv, panicked', UNCHANGED tables PROVE RefInv'
<1>1. files' = files /\ ofiles' = ofiles
  BY DEF tables
<1>2. TablesOk'
  BY <1>1 DEF RefInv, TablesOk, Leading
<1> QED
  BY <1>2 DEF RefInv

LEMMA FindRefs == ASSUME RefInv, NEW p \in Procs, Find(p) PROVE RefInv'
<1>1. At(p, "find") /\ ~ panicked /\ dirs' = dirs /\ UNCHANGED tables
  BY DEF Find, At, tables
<1>2. PICK d, a : d = Head(todo[p]).i /\ a = arg[p]
  OBVIOUS
<1>3. /\ d \in Inodes /\ a \in ParentArg /\ a.dp = d /\ a.type # "any"
      /\ \A j : Cnt(todo[p], a, j) = Is(d, j)
  <2>1. "find" \in LastOps /\ "find" \notin DpOps /\ "find" \in ParentOps
    BY DEF LastOps, DpOps, ParentOps
  <2> QED
    BY <1>1, <1>2, <2>1, AtLast
<1>4. TypesOk
  BY <1>1 DEF RefInv
<1>5. dirs' \in [Inodes -> SUBSET (Names \X Inodes)] /\ a.type \in Types
  BY <1>1, <1>3, <1>4 DEF TypesOk, ParentArg, Types
<1>6. ASSUME NEW i \in Meets(d, a.name), mem' = Got(mem, i),
             Rest(p, <<Step("lock", i), Step("exists", i)>>), itab' = itab
      PROVE  RefInv'
  <2>1. i \in Inodes
    BY <1>3, <1>4, MeetsIs
  <2>2. PICK s : s = <<Step("lock", i), Step("exists", i)>>
    OBVIOUS
  <2>3. CallOk(s, a, OpenBy(p)) /\ \A j : Cnt(s, a, j) = Is(i, j) + Is(a.dp, j)
    BY <1>3, <2>1, <2>2, WaitChild DEF DpOps
  <2>4. \A j \in Inodes : Cnt(s, a, j) = Is(i, j) + Cnt(todo[p], a, j)
    BY <1>3, <2>3
  <2>5. itab' \in [Inodes -> [type : Types, links : Int]]
    BY <1>4, <1>6 DEF TypesOk
  <2> QED
    BY <1>1, <1>2, <1>5, <1>6, <2>1, <2>2, <2>3, <2>4, <2>5, GotRest
<1>7. ASSUME NEW i \in Inodes, mem' = Got(mem, i), itab' = [itab EXCEPT ![i] = Entry(a.type, 0)],
             Rest(p, <<Step("lock", i), Step("make", i)>>)
      PROVE  RefInv'
  <2>2. PICK s : s = <<Step("lock", i), Step("make", i)>>
    OBVIOUS
  <2>3. CallOk(s, a, OpenBy(p)) /\ \A j : Cnt(s, a, j) = Is(i, j) + Is(a.dp, j)
    BY <1>3, <1>7, <2>2, WaitChild DEF DpOps
  <2>4. \A j \in Inodes : Cnt(s, a, j) = Is(i, j) + Cnt(todo[p], a, j)
    BY <1>3, <2>3
  <2>5. itab' \in [Inodes -> [type : Types, links : Int]]
    BY <1>4, <1>5, <1>7 DEF TypesOk, Entry
  <2> QED
    BY <1>1, <1>2, <1>5, <1>7, <2>2, <2>3, <2>4, <2>5, GotRest
<1>8. CASE panicked'
  BY <1>1, <1>8, PanicRefs
<1>9. CASE ~ panicked'
  <2>1. CASE \E i \in Meets(d, a.name) : /\ mem' = Got(mem, i) /\ itab' = itab
                                        /\ Rest(p, <<Step("lock", i), Step("exists", i)>>)
    BY <1>6, <2>1
  <2> DEFINE free == {i \in Inodes : itab[i].type = "invalid"}
             new == CHOOSE i \in free : \A j \in free : i <= j
  <2>2. CASE /\ free # {}
             /\ itab' = [itab EXCEPT ![new] = Entry(a.type, 0)]
             /\ mem' = Got(mem, new)
             /\ Rest(p, <<Step("lock", new), Step("make", new)>>)
    <3>1. new \in free
      <4>1. free \subseteq Nat
        BY InodesAssumption DEF Inodes
      <4>2. PICK F \in SUBSET Nat : F = free /\ F # {}
        BY <2>2, <4>1
      <4>3. \E i \in F : \A j \in F : i <= j
        BY <4>2, LeastNat
      <4> QED
        BY <4>2, <4>3
    <3>2. PICK i \in Inodes : i = new
      BY <3>1
    <3> QED
      BY <1>7, <2>2, <3>2
  <2> QED
    BY <1>2, <1>3, <1>9, <2>1, <2>2 DEF Find
<1> QED
  BY <1>8, <1>9

\* The inode that create returns.
LEMMA ReturnIs ==
    ASSUME NEW p \in Procs, NEW i
    PROVE  Return(p, i) = <<Step("open", i)>> \/ Return(p, i) = <<Step("unlock", i), Step("put", i)>>
  BY DEF Return

LEMMA ConcatIs ==
    ASSUME NEW s \in Seq(StepRec), NEW t \in Seq(StepRec), NEW r \in Seq(StepRec), Len(r) = Len(s) + Len(t),
           \A k \in 1 .. Len(r) : r[k] = IF k <= Len(s) THEN s[k] ELSE t[k - Len(s)]
    PROVE  s \o t = r
<1>1. PICK q : q = s \o t
  OBVIOUS
<1>2. q \in Seq(StepRec) /\ Len(q) = Len(s) + Len(t)
  BY <1>1, ConcatProperties
<1>3. \A k \in 1 .. Len(q) : q[k] = r[k]
  BY <1>1, <1>2, ConcatProperties
<1> QED
  BY <1>1, <1>2, <1>3, SeqEqual

Joins(u, v, w, x, y) ==
    /\ <<u, v, w>> \o <<x>> = <<u, v, w, x>> /\ <<u, v, w>> \o <<x, y>> = <<u, v, w, x, y>>
    /\ <<u, v>> \o <<x>> = <<u, v, x>> /\ <<u, v>> \o <<x, y>> = <<u, v, x, y>>

LEMMA Joined ==
    ASSUME NEW u \in StepRec, NEW v \in StepRec, NEW w \in StepRec, NEW x \in StepRec, NEW y \in StepRec
    PROVE  Joins(u, v, w, x, y)
<1>1. PICK a, b, c, d : a = <<u, v, w>> /\ b = <<u, v>> /\ c = <<x>> /\ d = <<x, y>>
  OBVIOUS
<1>2. /\ a \in Seq(StepRec) /\ b \in Seq(StepRec) /\ c \in Seq(StepRec) /\ d \in Seq(StepRec)
      /\ Len(a) = 3 /\ Len(b) = 2 /\ Len(c) = 1 /\ Len(d) = 2
  BY <1>1
<1>3. PICK e, f, g, h : e = <<u, v, w, x>> /\ f = <<u, v, w, x, y>> /\ g = <<u, v, x>> /\ h = <<u, v, x, y>>
  OBVIOUS
<1>4. /\ e \in Seq(StepRec) /\ f \in Seq(StepRec) /\ g \in Seq(StepRec) /\ h \in Seq(StepRec)
      /\ Len(e) = 4 /\ Len(f) = 5 /\ Len(g) = 3 /\ Len(h) = 4
  BY <1>3
<1>5. a \o c = e
  <2>1. \A k \in 1 .. 4 : k = 1 \/ k = 2 \/ k = 3 \/ k = 4
    OBVIOUS
  <2>2. \A k \in 1 .. Len(e) : e[k] = IF k <= Len(a) THEN a[k] ELSE c[k - Len(a)]
    BY <1>1, <1>2, <1>3, <1>4, <2>1
  <2>3. Len(e) = Len(a) + Len(c)
    BY <1>2, <1>4
  <2> QED
    BY <1>2, <1>4, <2>2, <2>3, ConcatIs
<1>6. a \o d = f
  <2>1. \A k \in 1 .. 5 : k = 1 \/ k = 2 \/ k = 3 \/ k = 4 \/ k = 5
    OBVIOUS
  <2>2. \A k \in 1 .. Len(f) : f[k] = IF k <= Len(a) THEN a[k] ELSE d[k - Len(a)]
    BY <1>1, <1>2, <1>3, <1>4, <2>1
  <2>3. Len(f) = Len(a) + Len(d)
    BY <1>2, <1>4
  <2> QED
    BY <1>2, <1>4, <2>2, <2>3, ConcatIs
<1>7. b \o c = g
  <2>1. \A k \in 1 .. 3 : k = 1 \/ k = 2 \/ k = 3
    OBVIOUS
  <2>2. \A k \in 1 .. Len(g) : g[k] = IF k <= Len(b) THEN b[k] ELSE c[k - Len(b)]
    BY <1>1, <1>2, <1>3, <1>4, <2>1
  <2>3. Len(g) = Len(b) + Len(c)
    BY <1>2, <1>4
  <2> QED
    BY <1>2, <1>4, <2>2, <2>3, ConcatIs
<1>8. b \o d = h
  <2>1. \A k \in 1 .. 4 : k = 1 \/ k = 2 \/ k = 3 \/ k = 4
    OBVIOUS
  <2>2. \A k \in 1 .. Len(h) : h[k] = IF k <= Len(b) THEN b[k] ELSE d[k - Len(b)]
    BY <1>1, <1>2, <1>3, <1>4, <2>1
  <2>3. Len(h) = Len(b) + Len(d)
    BY <1>2, <1>4
  <2> QED
    BY <1>2, <1>4, <2>2, <2>3, ConcatIs
<1> QED
  BY <1>1, <1>3, <1>5, <1>6, <1>7, <1>8 DEF Joins

\* How create goes on.
LEMMA ExistsScript ==
    ASSUME NEW p \in Procs, Exists(p), NEW i \in Inodes, i = Head(todo[p]).i, NEW d \in Inodes, d = arg[p].dp
    PROVE  \E s : /\ Rest(p, s)
                  /\ \/ s = <<Step("unlock", d), Step("unlock", i), Step("put", d), Step("put", i)>>
                     \/ s = <<Step("unlock", d), Step("unlock", i), Step("put", d), Step("open", i)>>
                     \/ s = <<Step("unlock", d), Step("unlock", i), Step("put", d), Step("unlock", i),
                              Step("put", i)>>
<1>1. PICK t : /\ Rest(p, <<Step("unlock", d), Step("unlock", i), Step("put", d)>> \o t)
               /\ t = <<Step("put", i)>> \/ t = Return(p, i)
  BY DEF Exists
<1>2. t = <<Step("put", i)>> \/ t = <<Step("open", i)>> \/ t = <<Step("unlock", i), Step("put", i)>>
  BY <1>1, ReturnIs
<1>3. PICK u \in StepRec, v \in StepRec, w \in StepRec, x \in StepRec, y \in StepRec :
         /\ u = Step("unlock", d) /\ v = Step("unlock", i) /\ w = Step("put", d)
         /\ x = Step("put", i) /\ y = Step("open", i)
  BY StepIs DEF Ops, HoldOps, LastOps
<1>4. /\ <<u, v, w>> \o <<x>> = <<u, v, w, x>> /\ <<u, v, w>> \o <<y>> = <<u, v, w, y>>
      /\ <<u, v, w>> \o <<v, x>> = <<u, v, w, v, x>>
  <2>1. Joins(u, v, w, x, x) /\ Joins(u, v, w, y, y) /\ Joins(u, v, w, v, x)
    BY Joined
  <2> QED
    BY <2>1 DEF Joins
<1> QED
  BY <1>1, <1>2, <1>3, <1>4

LEMMA MakeScript ==
    ASSUME NEW p \in Procs, Make(p), NEW i \in Inodes, i = Head(todo[p]).i, NEW d \in Inodes, d = arg[p].dp
    PROVE  \E s : /\ Rest(p, s)
                  /\ \/ s = <<Step("unlock", d), Step("put", d), Step("open", i)>>
                     \/ s = <<Step("unlock", d), Step("put", d), Step("unlock", i), Step("put", i)>>
<1>1. PICK t : Rest(p, <<Step("unlock", d), Step("put", d)>> \o t) /\ t = Return(p, i)
  BY DEF Make
<1>2. t = <<Step("open", i)>> \/ t = <<Step("unlock", i), Step("put", i)>>
  BY <1>1, ReturnIs
<1>3. PICK u \in StepRec, v \in StepRec, w \in StepRec, x \in StepRec, y \in StepRec :
         /\ u = Step("unlock", d) /\ v = Step("unlock", i) /\ w = Step("put", d)
         /\ x = Step("put", i) /\ y = Step("open", i)
  BY StepIs DEF Ops, HoldOps, LastOps
<1>4. <<u, w>> \o <<y>> = <<u, w, y>> /\ <<u, w>> \o <<v, x>> = <<u, w, v, x>>
  <2>1. Joins(u, w, w, y, y) /\ Joins(u, w, w, v, x)
    BY Joined
  <2> QED
    BY <2>1 DEF Joins
<1> QED
  BY <1>1, <1>2, <1>3, <1>4

LEMMA ExistsRefs == ASSUME RefInv, NEW p \in Procs, Exists(p) PROVE RefInv'
<1>1. At(p, "exists") /\ ~ panicked /\ UNCHANGED tables /\ itab' = itab /\ dirs' = dirs /\ mem' = mem
  BY DEF Exists, At, inodes, tables
<1>2. PICK i, a : i = Head(todo[p]).i /\ a = arg[p]
  OBVIOUS
<1>3. /\ i \in Inodes /\ a \in ParentArg /\ a.dp \in Inodes
      /\ \A j : Cnt(todo[p], a, j) = Is(i, j) + Is(a.dp, j)
  <2>1. "exists" \in LastOps /\ "exists" \in DpOps /\ "exists" \in ParentOps
    BY DEF LastOps, DpOps, ParentOps
  <2> QED
    BY <1>1, <1>2, <2>1, AtLast
<1>4. TypesOk /\ mem' \in MemTable
  BY <1>1 DEF RefInv, TypesOk, MemTable
<1>5. PICK d \in Inodes : d = a.dp
  BY <1>3
<1>6. PICK s : /\ Rest(p, s)
               /\ \/ s = <<Step("unlock", d), Step("unlock", i), Step("put", d), Step("put", i)>>
                  \/ s = <<Step("unlock", d), Step("unlock", i), Step("put", d), Step("open", i)>>
                  \/ s = <<Step("unlock", d), Step("unlock", i), Step("put", d), Step("unlock", i),
                           Step("put", i)>>
  BY <1>2, <1>3, <1>5, ExistsScript
<1>7. CallOk(s, a, OpenBy(p)) /\ \A j : Cnt(s, a, j) = Is(d, j) + Is(i, j)
  BY <1>3, <1>6, FoundWrong, FoundOpen, FoundDone
<1>8. \A j \in Inodes : Cnt(s, a, j) = Cnt(todo[p], a, j)
  <2> TAKE j \in Inodes
  <2>1. PICK u \in Nat, v \in Nat : u = Is(i, j) /\ v = Is(d, j)
    BY DEF Is
  <2>2. Cnt(s, a, j) = v + u /\ Cnt(todo[p], a, j) = u + v
    BY <1>3, <1>5, <1>7, <2>1
  <2> QED
    BY <2>1, <2>2
<1>9. /\ itab' \in [Inodes -> [type : Types, links : Int]]
      /\ dirs' \in [Inodes -> SUBSET (Names \X Inodes)] /\ \A j \in Inodes : Rc(mem', j) = Rc(mem, j)
  BY <1>1, <1>4 DEF TypesOk
<1> QED
  BY <1>1, <1>2, <1>4, <1>6, <1>7, <1>8, <1>9, SameRest

\* What an inode says is changed in memory.
EntrySet(m, i, e, m2) ==
    m \in MemTable /\ i \in Inodes /\ m[i] # NULL /\ e \in [type : Types, links : Int] /\ m2 = [m EXCEPT ![i].e = e]

LEMMA EntryChanged ==
    ASSUME NEW m, NEW i, NEW e, NEW m2, EntrySet(m, i, e, m2)
    PROVE  m2 \in MemTable /\ (\A j \in Inodes : Rc(m2, j) = Rc(m, j)) /\ \A j \in Inodes : m2[j] = NULL <=> m[j] = NULL
<1>0. /\ m \in MemTable /\ i \in Inodes /\ m[i] # NULL /\ e \in [type : Types, links : Int]
      /\ m2 = [m EXCEPT ![i].e = e]
  BY DEF EntrySet
<1>1. PICK y, x : y = m[i] /\ x = [y EXCEPT !.e = e]
  OBVIOUS
<1>2. y \in MemInode
  BY <1>0, <1>1 DEF MemTable
<1>3. x \in MemInode /\ x.rc = y.rc
  BY <1>0, <1>1, <1>2 DEF MemInode
<1>4. m2 = [m EXCEPT ![i] = x]
  BY <1>0, <1>1 DEF MemTable
<1>5. SameButFor(m, i, x, m2)
  BY <1>0, <1>1, <1>3, <1>4 DEF SameButFor
<1>6. \A j \in Inodes : m2[j] = NULL <=> m[j] = NULL
  BY <1>0, <1>3, <1>4, NullAssumption DEF MemTable
<1>7. m2 \in MemTable /\ (\A j \in Inodes : Rc(m2, j) = Rc(m, j))
  BY <1>5, SameCount
<1> QED
  BY <1>6, <1>7

LEMMA MakeRefs == ASSUME RefInv, NEW p \in Procs, Make(p) PROVE RefInv'
<1>1. At(p, "make") /\ ~ panicked /\ UNCHANGED tables
  BY DEF Make, At, tables
<1>2. PICK i, a : i = Head(todo[p]).i /\ a = arg[p]
  OBVIOUS
<1>3. /\ i \in Inodes /\ a \in ParentArg /\ a.dp \in Inodes /\ a.type # "any"
      /\ mem[i] # NULL /\ mem[a.dp] # NULL
      /\ \A j : Cnt(todo[p], a, j) = Is(i, j) + Is(a.dp, j)
  <2>1. "make" \in LastOps /\ "make" \in DpOps /\ "make" \in ParentOps
    BY DEF LastOps, DpOps, ParentOps
  <2> QED
    BY <1>1, <1>2, <2>1, AtLast
<1>4. TypesOk /\ mem \in MemTable
  BY <1>1 DEF RefInv, TypesOk, MemTable
<1>5. PICK d \in Inodes : d = a.dp
  BY <1>3
<1>6. PICK s : /\ Rest(p, s)
               /\ \/ s = <<Step("unlock", d), Step("put", d), Step("open", i)>>
                  \/ s = <<Step("unlock", d), Step("put", d), Step("unlock", i), Step("put", i)>>
  BY <1>2, <1>3, <1>5, MakeScript
<1>7. CallOk(s, a, OpenBy(p)) /\ \A j : Cnt(s, a, j) = Is(d, j) + Is(i, j)
  BY <1>3, <1>6, MadeOpen, MadeDone
<1>8. \A j \in Inodes : Cnt(s, a, j) = Cnt(todo[p], a, j)
  <2> TAKE j \in Inodes
  <2>1. PICK u \in Nat, v \in Nat : u = Is(i, j) /\ v = Is(d, j)
    BY DEF Is
  <2>2. Cnt(s, a, j) = v + u /\ Cnt(todo[p], a, j) = u + v
    BY <1>3, <1>5, <1>7, <2>1
  <2> QED
    BY <2>1, <2>2
<1>9. PICK new, dp, b : /\ new = Entry(a.type, 1) /\ b = (a.type = "dir")
                        /\ dp = [mem[d].e EXCEPT !.links = ParentLinks(d, a.type)]
  OBVIOUS
<1>10. new \in [type : Types, links : Int] /\ dp \in [type : Types, links : Int]
  <2>1. mem[d] \in MemInode /\ mem[d].e \in [type : Types, links : Int]
    BY <1>3, <1>4, <1>5 DEF MemTable, MemInode
  <2>2. ParentLinks(d, a.type) \in Int
    BY <2>1 DEF ParentLinks
  <2>3. a.type \in Types
    BY <1>3 DEF ParentArg, Types
  <2> QED
    BY <1>9, <2>1, <2>2, <2>3 DEF Entry
<1>11. /\ itab' = [itab EXCEPT ![i] = new, ![d] = IF a.type = "dir" THEN dp ELSE @]
       /\ mem' = [mem EXCEPT ![i].e = new, ![d].e = dp]
       /\ dirs' = [dirs EXCEPT ![d] = @ \cup {<<a.name, i>>}]
  BY <1>2, <1>5, <1>9 DEF Make
<1>12. itab' \in [Inodes -> [type : Types, links : Int]]
  BY <1>4, <1>10, <1>11 DEF TypesOk
<1>13. dirs' \in [Inodes -> SUBSET (Names \X Inodes)]
  BY <1>3, <1>4, <1>11 DEF TypesOk, ParentArg
<1>14. PICK m0, m1, m2 : /\ m0 = mem /\ m1 = [m0 EXCEPT ![i].e = new] /\ m2 = [m1 EXCEPT ![d].e = dp]
  OBVIOUS
<1>15. /\ m1 \in MemTable /\ (\A j \in Inodes : Rc(m1, j) = Rc(m0, j))
       /\ \A j \in Inodes : m1[j] = NULL <=> m0[j] = NULL
  <2>1. EntrySet(m0, i, new, m1)
    BY <1>3, <1>4, <1>10, <1>14 DEF EntrySet
  <2> QED
    BY <2>1, EntryChanged
<1>16. m2 \in MemTable /\ (\A j \in Inodes : Rc(m2, j) = Rc(m1, j))
  <2>1. EntrySet(m1, d, dp, m2)
    BY <1>3, <1>5, <1>10, <1>14, <1>15 DEF EntrySet
  <2> QED
    BY <2>1, EntryChanged
<1>17. mem' = m2
  BY <1>11, <1>14
<1>18. mem' \in MemTable /\ \A j \in Inodes : Rc(mem', j) = Rc(mem, j)
  BY <1>14, <1>15, <1>16, <1>17
<1> QED
  BY <1>1, <1>2, <1>6, <1>7, <1>8, <1>12, <1>13, <1>18, SameRest

LEMMA LookRefs == ASSUME RefInv, NEW p \in Procs, Look(p) PROVE RefInv'
<1>1. At(p, "look") /\ ~ panicked /\ itab' = itab /\ dirs' = dirs /\ UNCHANGED tables
  BY DEF Look, At, tables
<1>2. PICK d, a : d = Head(todo[p]).i /\ a = arg[p]
  OBVIOUS
<1>3. /\ d \in Inodes /\ a \in ParentArg /\ a.dp = d
      /\ \A j : Cnt(todo[p], a, j) = Is(d, j)
  <2>1. "look" \in LastOps /\ "look" \notin DpOps /\ "look" \in ParentOps
    BY DEF LastOps, DpOps, ParentOps
  <2> QED
    BY <1>1, <1>2, <2>1, AtLast
<1>4. TypesOk /\ mem \in MemTable
  BY <1>1 DEF RefInv, TypesOk, MemTable
<1>5. dirs' \in [Inodes -> SUBSET (Names \X Inodes)] /\ itab' \in [Inodes -> [type : Types, links : Int]]
  BY <1>1, <1>4 DEF TypesOk
<1>6. ASSUME NEW i \in Removable(d, a.name), mem' = Got(mem, i),
             Rest(p, <<Step("lock", i), Step("unlink", i)>>)
      PROVE  RefInv'
  <2>1. i \in Inodes
    BY <1>3, <1>4, NamedIs, RemovableIs
  <2>2. PICK s : s = <<Step("lock", i), Step("unlink", i)>>
    OBVIOUS
  <2>3. CallOk(s, a, OpenBy(p)) /\ \A j : Cnt(s, a, j) = Is(i, j) + Is(a.dp, j)
    BY <1>3, <2>1, <2>2, WaitChild DEF DpOps
  <2>4. \A j \in Inodes : Cnt(s, a, j) = Is(i, j) + Cnt(todo[p], a, j)
    BY <1>3, <2>3
  <2> QED
    BY <1>1, <1>2, <1>5, <1>6, <2>1, <2>2, <2>3, <2>4, GotRest
<1>7. ASSUME mem' = mem, Rest(p, <<Step("unlock", d), Step("put", d)>>) PROVE RefInv'
  <2>1. PICK s : s = <<Step("unlock", d), Step("put", d)>>
    OBVIOUS
  <2>2. CallOk(s, a, OpenBy(p)) /\ \A j : Cnt(s, a, j) = Is(d, j)
    BY <1>3, <2>1, Leaving
  <2>3. \A j \in Inodes : Cnt(s, a, j) = Cnt(todo[p], a, j) /\ Rc(mem', j) = Rc(mem, j)
    BY <1>3, <1>7, <2>2
  <2>4. mem' \in MemTable
    BY <1>4, <1>7
  <2> QED
    BY <1>1, <1>2, <1>5, <1>7, <2>1, <2>2, <2>3, <2>4, SameRest
<1>8. \/ \E i \in Removable(d, a.name) : mem' = Got(mem, i) /\ Rest(p, <<Step("lock", i), Step("unlink", i)>>)
      \/ mem' = mem /\ Rest(p, <<Step("unlock", d), Step("put", d)>>)
  BY <1>2, <1>3 DEF Look
<1> QED
  BY <1>6, <1>7, <1>8

LEMMA UnlinkRefs == ASSUME RefInv, NEW p \in Procs, Unlink(p) PROVE RefInv'
<1>1. At(p, "unlink") /\ ~ panicked /\ UNCHANGED tables
  BY DEF Unlink, At, tables
<1>2. PICK i, a : i = Head(todo[p]).i /\ a = arg[p]
  OBVIOUS
<1>3. /\ i \in Inodes /\ a \in ParentArg /\ a.dp \in Inodes /\ mem[i] # NULL /\ mem[a.dp] # NULL
      /\ \A j : Cnt(todo[p], a, j) = Is(i, j) + Is(a.dp, j)
  <2>1. "unlink" \in LastOps /\ "unlink" \in DpOps /\ "unlink" \in ParentOps
    BY DEF LastOps, DpOps, ParentOps
  <2> QED
    BY <1>1, <1>2, <2>1, AtLast
<1>4. TypesOk /\ mem \in MemTable
  BY <1>1 DEF RefInv, TypesOk, MemTable
<1>5. PICK d \in Inodes : d = a.dp
  BY <1>3
<1>6. ASSUME NEW s, CallOk(s, a, OpenBy(p)), \A j : Cnt(s, a, j) = Is(d, j) + Is(i, j)
      PROVE  \A j \in Inodes : Cnt(s, a, j) = Cnt(todo[p], a, j)
  <2> TAKE j \in Inodes
  <2>1. PICK u \in Nat, v \in Nat : u = Is(i, j) /\ v = Is(d, j)
    BY DEF Is
  <2>2. Cnt(s, a, j) = v + u /\ Cnt(todo[p], a, j) = u + v
    BY <1>3, <1>5, <1>6, <2>1
  <2> QED
    BY <2>1, <2>2
<1>7. ASSUME Rest(p, Refused(d, i)), UNCHANGED inodes PROVE RefInv'
  <2>1. itab' = itab /\ dirs' = dirs /\ mem' = mem
    BY <1>7 DEF inodes
  <2>2. PICK s : s = <<Step("unlock", i), Step("put", i), Step("unlock", d), Step("put", d)>>
    OBVIOUS
  <2>3. Rest(p, s)
    BY <1>7, <2>2 DEF Refused
  <2>4. CallOk(s, a, OpenBy(p)) /\ \A j : Cnt(s, a, j) = Is(i, j) + Is(d, j)
    BY <1>3, <2>2, MadeDone
  <2>5. \A j \in Inodes : Cnt(s, a, j) = Cnt(todo[p], a, j) /\ Rc(mem', j) = Rc(mem, j)
    BY <1>3, <1>5, <2>1, <2>4
  <2>6. /\ itab' \in [Inodes -> [type : Types, links : Int]]
        /\ dirs' \in [Inodes -> SUBSET (Names \X Inodes)] /\ mem' \in MemTable
    BY <1>4, <2>1 DEF TypesOk
  <2> QED
    BY <1>1, <1>2, <2>3, <2>4, <2>5, <2>6, SameRest
<1>8. ASSUME NEW isDir \in BOOLEAN, NEW dp, dp = Fewer(mem[d].e), dirs' = Erased(d, a.name, i),
             mem' = IF isDir THEN [mem EXCEPT ![d].e = dp] ELSE mem,
             itab' = IF isDir THEN [itab EXCEPT ![d] = dp] ELSE itab,
             Rest(p, <<Step("unlock", d), Step("put", d), Step("drop", i), Step("unlock", i), Step("put", i)>>)
      PROVE  RefInv'
  <2>1. PICK s : s = <<Step("unlock", d), Step("put", d), Step("drop", i), Step("unlock", i), Step("put", i)>>
    OBVIOUS
  <2>2. CallOk(s, a, OpenBy(p)) /\ \A j : Cnt(s, a, j) = Is(d, j) + Is(i, j)
    BY <1>3, <2>1, Removing
  <2>3. \A j \in Inodes : Cnt(s, a, j) = Cnt(todo[p], a, j)
    BY <1>6, <2>2
  <2>4. dp \in [type : Types, links : Int]
    <3>1. mem[d] \in MemInode /\ mem[d].e \in [type : Types, links : Int]
      BY <1>3, <1>4, <1>5 DEF MemTable, MemInode
    <3> QED
      BY <1>8, <3>1, FewerIs
  <2>5. mem' \in MemTable /\ \A j \in Inodes : Rc(mem', j) = Rc(mem, j)
    <3>1. CASE isDir
      <4>1. PICK m, m2 : m = mem /\ m2 = mem'
        OBVIOUS
      <4>2. EntrySet(m, d, dp, m2)
        BY <1>3, <1>4, <1>5, <1>8, <2>4, <3>1, <4>1 DEF EntrySet
      <4>3. m2 \in MemTable /\ \A j \in Inodes : Rc(m2, j) = Rc(m, j)
        BY <4>2, EntryChanged
      <4> QED
        BY <4>1, <4>3
    <3>2. CASE ~ isDir
      BY <1>4, <1>8, <3>2
    <3> QED
      BY <3>1, <3>2
  <2>6. itab' \in [Inodes -> [type : Types, links : Int]]
    BY <1>4, <1>8, <2>4 DEF TypesOk
  <2>7. dirs' \in [Inodes -> SUBSET (Names \X Inodes)]
    BY <1>4, <1>8 DEF TypesOk, Erased
  <2>8. Rest(p, s)
    BY <1>8, <2>1
  <2> QED
    BY <1>1, <1>2, <2>2, <2>3, <2>5, <2>6, <2>7, <2>8, SameRest
<1>9. \/ Rest(p, Refused(d, i)) /\ UNCHANGED inodes
      \/ /\ dirs' = Erased(d, a.name, i)
         /\ mem' = IF mem[i].e.type = "dir" THEN [mem EXCEPT ![d].e = Fewer(mem[d].e)] ELSE mem
         /\ itab' = IF mem[i].e.type = "dir" THEN [itab EXCEPT ![d] = Fewer(mem[d].e)] ELSE itab
         /\ Rest(p, <<Step("unlock", d), Step("put", d), Step("drop", i), Step("unlock", i), Step("put", i)>>)
  BY <1>2, <1>5 DEF Unlink
<1>10. PICK isDir \in BOOLEAN : isDir = (mem[i].e.type = "dir")
  OBVIOUS
<1> QED
  BY <1>7, <1>8, <1>9, <1>10

LEMMA StatRefs == ASSUME RefInv, NEW p \in Procs, Stat(p) PROVE RefInv'
<1>1. At(p, "stat") /\ ~ panicked /\ UNCHANGED tables /\ itab' = itab /\ dirs' = dirs /\ mem' = mem
  BY DEF Stat, At, inodes, tables
<1>2. PICK i : i = Head(todo[p]).i
  OBVIOUS
<1>3. i \in Inodes /\ \A j : Cnt(todo[p], arg[p], j) = Is(i, j)
  <2>1. "stat" \in LastOps /\ "stat" \notin DpOps
    BY DEF LastOps, DpOps
  <2> QED
    BY <1>1, <1>2, <2>1, AtLast
<1>4. PICK s : s = <<Step("unlock", i), Step("put", i)>>
  OBVIOUS
<1>5. CallOk(s, arg[p], OpenBy(p)) /\ \A j : Cnt(s, arg[p], j) = Is(i, j)
  BY <1>3, <1>4, Leaving
<1>6. /\ itab' \in [Inodes -> [type : Types, links : Int]]
      /\ dirs' \in [Inodes -> SUBSET (Names \X Inodes)] /\ mem' \in MemTable
  BY <1>1 DEF RefInv, TypesOk, MemTable
<1>7. \A j \in Inodes : Cnt(s, arg[p], j) = Cnt(todo[p], arg[p], j) /\ Rc(mem', j) = Rc(mem, j)
  BY <1>1, <1>3, <1>5
<1>8. Rest(p, s)
  BY <1>2, <1>4 DEF Stat
<1> QED
  BY <1>1, <1>5, <1>6, <1>7, <1>8, SameRest

LEMMA EnterRefs == ASSUME RefInv, NEW p \in Procs, Enter(p) PROVE RefInv'
<1>1. At(p, "enter") /\ ~ panicked /\ UNCHANGED tables /\ itab' = itab /\ dirs' = dirs /\ mem' = mem
  BY DEF Enter, At, inodes, tables
<1>2. PICK i : i = Head(todo[p]).i
  OBVIOUS
<1>3. i \in Inodes /\ \A j : Cnt(todo[p], arg[p], j) = Is(i, j)
  <2>1. "enter" \in LastOps /\ "enter" \notin DpOps
    BY DEF LastOps, DpOps
  <2> QED
    BY <1>1, <1>2, <2>1, AtLast
<1>4. PICK s : /\ Rest(p, s)
               /\ s = <<Step("unlock", i), Step("put", i)>> \/ s = <<Step("unlock", i), Step("swap", i)>>
  BY <1>2 DEF Enter
<1>5. CallOk(s, arg[p], OpenBy(p)) /\ \A j : Cnt(s, arg[p], j) = Is(i, j)
  BY <1>3, <1>4, Leaving, Swapping
<1>6. /\ itab' \in [Inodes -> [type : Types, links : Int]]
      /\ dirs' \in [Inodes -> SUBSET (Names \X Inodes)] /\ mem' \in MemTable
  BY <1>1 DEF RefInv, TypesOk, MemTable
<1>7. \A j \in Inodes : Cnt(s, arg[p], j) = Cnt(todo[p], arg[p], j) /\ Rc(mem', j) = Rc(mem, j)
  BY <1>1, <1>3, <1>5
<1> QED
  BY <1>1, <1>4, <1>5, <1>6, <1>7, SameRest

LEMMA SwapRefs == ASSUME RefInv, NEW p \in Procs, Swap(p) PROVE RefInv'
<1>1. panicked' /\ UNCHANGED tables
  BY DEF Swap, tables
<1> QED
  BY <1>1, PanicRefs

-----------------------------------------------------------------------------
(* Files and descriptors *)

OfTable == [Procs -> [Fds -> Files \cup {NULL}]]
LeadIn(of, f) == {x \in Procs \X Fds : of[x[1]][x[2]] = f}
\* A descriptor is set.
FdSet(of, p, d, v, o2) ==
    of \in OfTable /\ p \in Procs /\ d \in Fds /\ v \in Files \cup {NULL} /\ o2 = [of EXCEPT ![p][d] = v]

LEMMA FdSetIs ==
    ASSUME NEW of, NEW p, NEW d, NEW v, NEW o2, FdSet(of, p, d, v, o2)
    PROVE  /\ o2 \in OfTable
           /\ \A q \in Procs, e \in Fds : o2[q][e] = IF q = p /\ e = d THEN v ELSE of[q][e]
<1>1. of \in OfTable /\ p \in Procs /\ d \in Fds /\ v \in Files \cup {NULL} /\ o2 = [of EXCEPT ![p][d] = v]
  BY DEF FdSet
<1>2. PICK y, x : y = of[p] /\ x = [y EXCEPT ![d] = v]
  OBVIOUS
<1>3. y \in [Fds -> Files \cup {NULL}]
  BY <1>1, <1>2 DEF OfTable
<1>4. x \in [Fds -> Files \cup {NULL}] /\ \A e \in Fds : x[e] = IF e = d THEN v ELSE y[e]
  BY <1>1, <1>2, <1>3
<1>5. o2 = [of EXCEPT ![p] = x]
  BY <1>1, <1>2
<1> QED
  BY <1>1, <1>2, <1>4, <1>5 DEF OfTable

LEMMA LeadFinite ==
    ASSUME NEW of, NEW f
    PROVE  IsFiniteSet(LeadIn(of, f)) /\ Cardinality(LeadIn(of, f)) \in Nat
<1>1. IsFiniteSet(Procs \X Fds)
  BY TablesAssumption, FS_Product
<1> QED
  BY <1>1, FS_Subset, FS_CardinalityType DEF LeadIn

\* A descriptor that was free is set to f, and one that led to f is freed.
FdTaken(of, p, d, f, o2) == FdSet(of, p, d, f, o2) /\ of[p][d] = NULL /\ f \in Files
FdFreed(of, p, d, f, o2) == FdSet(of, p, d, NULL, o2) /\ of[p][d] = f /\ f \in Files

\* fdalloc.
LEMMA LeadTaken ==
    ASSUME NEW of, NEW p, NEW d, NEW f, NEW o2, FdTaken(of, p, d, f, o2)
    PROVE  /\ Cardinality(LeadIn(o2, f)) = Cardinality(LeadIn(of, f)) + 1
           /\ \A g \in Files : g # f => LeadIn(o2, g) = LeadIn(of, g)
<1>1. of \in OfTable /\ p \in Procs /\ d \in Fds /\ NULL \notin Files /\ of[p][d] = NULL /\ f \in Files
  BY NullAssumption DEF FdTaken, FdSet
<1>2. \A q \in Procs, e \in Fds : o2[q][e] = IF q = p /\ e = d THEN f ELSE of[q][e]
  BY FdSetIs DEF FdTaken
<1>3. PICK A, B, x : A = LeadIn(of, f) /\ B = LeadIn(o2, f) /\ x = <<p, d>>
  OBVIOUS
<1>4. x \notin A
  BY <1>1, <1>3 DEF LeadIn
<1>5. B = A \cup {x}
  BY <1>1, <1>2, <1>3 DEF LeadIn
<1>6. Cardinality(B) = Cardinality(A) + 1
  BY <1>3, <1>4, <1>5, LeadFinite, FS_AddElement
<1>7. \A g \in Files : g # f => LeadIn(o2, g) = LeadIn(of, g)
  BY <1>1, <1>2 DEF LeadIn
<1> QED
  BY <1>3, <1>6, <1>7

\* close.
LEMMA LeadFreed ==
    ASSUME NEW of, NEW p, NEW d, NEW f, NEW o2, FdFreed(of, p, d, f, o2)
    PROVE  /\ Cardinality(LeadIn(o2, f)) = Cardinality(LeadIn(of, f)) - 1
           /\ \A g \in Files : g # f => LeadIn(o2, g) = LeadIn(of, g)
           /\ Cardinality(LeadIn(of, f)) = 1 => \A q \in Procs, e \in Fds : of[q][e] = f => q = p /\ e = d
<1>1. of \in OfTable /\ p \in Procs /\ d \in Fds /\ NULL \notin Files /\ of[p][d] = f /\ f \in Files
  BY NullAssumption DEF FdFreed, FdSet
<1>2. \A q \in Procs, e \in Fds : o2[q][e] = IF q = p /\ e = d THEN NULL ELSE of[q][e]
  BY FdSetIs DEF FdFreed
<1>3. PICK A, B, x : A = LeadIn(of, f) /\ B = LeadIn(o2, f) /\ x = <<p, d>>
  OBVIOUS
<1>4. x \in A
  BY <1>1, <1>3 DEF LeadIn
<1>5. B = A \ {x}
  BY <1>1, <1>2, <1>3 DEF LeadIn
<1>6. Cardinality(B) = Cardinality(A) - 1
  BY <1>3, <1>4, <1>5, LeadFinite, FS_RemoveElement
<1>7. \A g \in Files : g # f => LeadIn(o2, g) = LeadIn(of, g)
  BY <1>1, <1>2 DEF LeadIn
<1>8. ASSUME Cardinality(A) = 1, NEW q \in Procs, NEW e \in Fds, of[q][e] = f PROVE q = p /\ e = d
  <2>1. Cardinality(B) = 0 /\ IsFiniteSet(B)
    BY <1>3, <1>6, <1>8, LeadFinite
  <2>2. B = {}
    BY <2>1, FS_EmptySet
  <2>3. PICK y : y = <<q, e>>
    OBVIOUS
  <2>4. y \in A
    BY <1>3, <1>8, <2>3 DEF LeadIn
  <2>5. y = x
    BY <1>5, <2>2, <2>4
  <2> QED
    BY <1>3, <2>3, <2>5
<1> QED
  BY <1>3, <1>6, <1>7, <1>8

LEMMA TablesAre ==
    /\ \A f : Leading(f) = LeadIn(ofiles, f)
    /\ \A f : Leading(f)' = LeadIn(ofiles', f)
    /\ TablesOk => ofiles \in OfTable
  BY DEF Leading, LeadIn, TablesOk, OfTable

\* A file that is new, or that p has open, is opened by p, and is closed.
LEMMA OwnerTaken ==
    ASSUME NEW of, OneOwner(of), NEW p, NEW d, NEW f, NEW o2, FdTaken(of, p, d, f, o2),
           \A q \in Procs, e \in Fds : of[q][e] = f => q = p
    PROVE  OneOwner(o2)
<1>1. \A q \in Procs, e \in Fds : o2[q][e] = IF q = p /\ e = d THEN f ELSE of[q][e]
  BY FdSetIs DEF FdTaken
<1> SUFFICES ASSUME NEW q \in Procs, NEW r \in Procs, NEW e \in Fds, NEW c \in Fds,
                    o2[q][e] # NULL, o2[q][e] = o2[r][c]
             PROVE  q = r
  BY DEF OneOwner
<1>2. CASE q = p /\ e = d
  BY <1>1, <1>2
<1>3. CASE r = p /\ c = d
  BY <1>1, <1>3
<1>4. CASE ~ (q = p /\ e = d) /\ ~ (r = p /\ c = d)
  BY <1>1, <1>4 DEF OneOwner
<1> QED
  BY <1>2, <1>3, <1>4

LEMMA OwnerFreed ==
    ASSUME NEW of, OneOwner(of), NEW p, NEW d, NEW f, NEW o2, FdFreed(of, p, d, f, o2)
    PROVE  OneOwner(o2)
<1>1. \A q \in Procs, e \in Fds : o2[q][e] = IF q = p /\ e = d THEN NULL ELSE of[q][e]
  BY FdSetIs DEF FdFreed
<1> QED
  BY <1>1 DEF OneOwner

\* What a descriptor leads to.
LEMMA FdFile ==
    ASSUME TablesOk, NEW p \in Procs, NEW d \in Fds, NEW f, f = ofiles[p][d], f # NULL
    PROVE  /\ f \in Files /\ files[f].ref \in Nat /\ files[f].ref > 0
           /\ files[f].ip \in Inodes /\ files[f].ip \in OpenBy(p)
<1>1. f \in Files
  BY DEF TablesOk
<1>2. <<p, d>> \in LeadIn(ofiles, f)
  BY DEF LeadIn
<1>3. Cardinality(LeadIn(ofiles, f)) # 0
  BY <1>2, LeadFinite, FS_EmptySet
<1>4. files[f].ref \in Nat /\ files[f].ref = Cardinality(LeadIn(ofiles, f))
  BY <1>1, TablesAre DEF TablesOk
<1>5. files[f].ref > 0
  BY <1>3, <1>4
<1>6. files[f].ip \in Inodes
  BY <1>1, <1>5 DEF TablesOk
<1> QED
  BY <1>1, <1>4, <1>5, <1>6 DEF OpenBy

LEMMA FreeFd ==
    ASSUME NEW p, FreeFds(p) # {}, NEW f
    PROVE  \E d \in Fds : ofiles[p][d] = NULL /\ FdAlloc(p, f) = [ofiles EXCEPT ![p][d] = f]
<1>1. PICK F \in SUBSET Nat : F = FreeFds(p)
  BY TablesAssumption DEF FreeFds
<1>2. \E d \in F : \A e \in F : d <= e
  BY <1>1, LeastNat
<1>3. PICK d : d = CHOOSE x \in FreeFds(p) : \A e \in FreeFds(p) : x <= e
  OBVIOUS
<1>4. d \in FreeFds(p)
  BY <1>1, <1>2, <1>3
<1>5. FdAlloc(p, f) = [ofiles EXCEPT ![p][d] = f]
  BY <1>3, Zenon DEF FdAlloc
<1> QED
  BY <1>4, <1>5 DEF FreeFds

\* A process that can take one more descriptor has not filled the count of
\* references to a file: file_dup counts it.
LEMMA DupFits ==
    ASSUME TablesOk, NEW p \in Procs, NEW c \in Fds, NEW f, f = ofiles[p][c], f # NULL,
           NEW d \in Fds, ofiles[p][d] = NULL
    PROVE  files[f].ref < NFILE
<1>1. f \in Files /\ files[f].ref \in Nat /\ files[f].ref = Cardinality(LeadIn(ofiles, f))
  <2>1. f \in Files /\ files[f].ref \in Nat
    BY FdFile
  <2> QED
    BY <2>1, TablesAre DEF TablesOk
<1>2. PICK A, L : A = Fds \ {d} /\ L = LeadIn(ofiles, f)
  OBVIOUS
<1>3. \A x \in L : x \in {p} \X A
  <2> SUFFICES ASSUME NEW q \in Procs, NEW e \in Fds, ofiles[q][e] = f PROVE q = p /\ e # d
    BY <1>2 DEF LeadIn
  <2>1. q = p
    BY DEF TablesOk, OneOwner
  <2> QED
    BY <2>1
<1>4. IsFiniteSet(A) /\ Cardinality(A) = Cardinality(Fds) - 1 /\ Cardinality(Fds) \in Nat
  BY <1>2, TablesAssumption, FS_RemoveElement, FS_CardinalityType
<1>5. IsFiniteSet({p} \X A) /\ Cardinality({p} \X A) = Cardinality(A)
  <2>1. IsFiniteSet({p}) /\ Cardinality({p}) = 1
    BY FS_Singleton
  <2>2. IsFiniteSet({p} \X A) /\ Cardinality({p} \X A) = Cardinality({p}) * Cardinality(A)
    BY <1>4, <2>1, FS_Product
  <2>3. Cardinality(A) \in Nat
    BY <1>4, FS_CardinalityType
  <2> QED
    BY <2>1, <2>2, <2>3
<1>6. Cardinality(L) <= Cardinality(A) /\ Cardinality(L) \in Nat
  <2>1. L \subseteq {p} \X A
    BY <1>3
  <2>2. Cardinality(L) <= Cardinality({p} \X A)
    BY <1>5, <2>1, FS_Subset
  <2> QED
    BY <1>2, <1>5, <2>2, LeadFinite
<1> QED
  BY <1>1, <1>2, <1>4, <1>6, TablesAssumption

LEMMA FreeFile == ASSUME FreeFiles # {} PROVE FileAlloc \in Files /\ files[FileAlloc].ref = 0
<1>1. PICK F \in SUBSET Nat : F = FreeFiles
  BY TablesAssumption DEF FreeFiles
<1>2. \E d \in F : \A e \in F : d <= e
  BY <1>1, LeastNat
<1>3. FileAlloc \in FreeFiles
  BY <1>1, <1>2 DEF FileAlloc
<1> QED
  BY <1>3 DEF FreeFiles

LEMMA AccessRefs == ASSUME RefInv, NEW p \in Procs, NEW d \in Fds, Access(p, d) PROVE RefInv'
<1>1. /\ todo[p] = <<>> /\ ~ panicked /\ itab' = itab /\ dirs' = dirs /\ mem' = mem /\ UNCHANGED tables
      /\ ofiles[p][d] # NULL
  BY DEF Access, May, inodes, tables
<1>2. PICK i : i = files[ofiles[p][d]].ip
  OBVIOUS
<1>3. i \in Inodes /\ i \in OpenBy(p)
  BY <1>1, <1>2, FdFile DEF RefInv
<1>4. PICK s : s = <<Step("lock", i), Step("unlock", i)>>
  OBVIOUS
<1>5. CallOk(s, arg[p], OpenBy(p)) /\ \A j : Cnt(s, arg[p], j) = 0
  BY <1>3, <1>4, Accessing
<1>6. Rest(p, s)
  BY <1>2, <1>4 DEF Access
<1>7. /\ itab' \in [Inodes -> [type : Types, links : Int]]
      /\ dirs' \in [Inodes -> SUBSET (Names \X Inodes)] /\ mem' \in MemTable
  BY <1>1 DEF RefInv, TypesOk, MemTable
<1>8. \A j \in Inodes : Cnt(s, arg[p], j) = Cnt(todo[p], arg[p], j) /\ Rc(mem', j) = Rc(mem, j)
  BY <1>1, <1>5, CntEmpty
<1> QED
  BY <1>1, <1>5, <1>6, <1>7, <1>8, SameRest

\* What opens a file.
FileTable == [Files -> [ref : Nat, ip : Inodes \cup {NULL}]]
FileSet(fl, f, r, i, fl2) ==
    /\ fl \in FileTable /\ f \in Files /\ r \in Nat /\ i \in Inodes \cup {NULL}
    /\ fl2 = [fl EXCEPT ![f] = [ref |-> r, ip |-> i]]

LEMMA FileSetIs ==
    ASSUME NEW fl, NEW f, NEW r, NEW i, NEW fl2, FileSet(fl, f, r, i, fl2)
    PROVE  /\ fl2 \in FileTable /\ fl2[f].ref = r /\ fl2[f].ip = i
           /\ \A g \in Files : g # f => fl2[g] = fl[g]
<1>1. PICK x : x = [ref |-> r, ip |-> i]
  OBVIOUS
<1>2. x \in [ref : Nat, ip : Inodes \cup {NULL}] /\ x.ref = r /\ x.ip = i
  BY <1>1 DEF FileSet
<1>3. fl \in FileTable /\ f \in Files /\ fl2 = [fl EXCEPT ![f] = x]
  BY <1>1 DEF FileSet
<1> QED
  BY <1>2, <1>3 DEF FileTable

\* A free file is taken for the inode i.
LEMMA FileTaken ==
    ASSUME NEW fl, NEW f, NEW i \in Inodes, NEW fl2, FileSet(fl, f, 1, i, fl2), fl[f].ref = 0,
           NEW j \in Inodes
    PROVE  Cardinality(FilesOn(fl2, j)) = Cardinality(FilesOn(fl, j)) + Is(i, j)
<1>1. f \in Files /\ fl2[f].ref = 1 /\ fl2[f].ip = i /\ \A g \in Files : g # f => fl2[g] = fl[g]
  BY FileSetIs DEF FileSet
<1>2. f \notin FilesOn(fl, j)
  BY DEF FilesOn
<1>3. PICK A, B : A = FilesOn(fl, j) /\ B = FilesOn(fl2, j)
  OBVIOUS
<1>4. IsFiniteSet(A) /\ Cardinality(A) \in Nat
  BY <1>3, FileTags
<1>5. CASE i = j
  <2>1. B = A \cup {f}
    BY <1>1, <1>3, <1>5 DEF FilesOn
  <2>2. Cardinality(B) = Cardinality(A) + 1
    BY <1>2, <1>3, <1>4, <2>1, FS_AddElement
  <2> QED
    BY <1>3, <1>5, <2>2 DEF Is
<1>6. CASE i # j
  <2>1. B = A
    BY <1>1, <1>2, <1>3, <1>6 DEF FilesOn
  <2> QED
    BY <1>3, <1>4, <1>6, <2>1 DEF Is
<1> QED
  BY <1>5, <1>6

\* A file is closed.
LEMMA FileFreed ==
    ASSUME NEW fl \in FileTable, NEW f \in Files, NEW i, i = fl[f].ip, fl[f].ref > 0, NEW fl2,
           FileSet(fl, f, 0, NULL, fl2), NEW j \in Inodes
    PROVE  Cardinality(FilesOn(fl2, j)) = Cardinality(FilesOn(fl, j)) - Is(i, j)
<1>1. fl2[f].ref = 0 /\ \A g \in Files : g # f => fl2[g] = fl[g]
  BY FileSetIs
<1>2. f \notin FilesOn(fl2, j)
  BY <1>1 DEF FilesOn
<1>3. PICK A, B : A = FilesOn(fl, j) /\ B = FilesOn(fl2, j)
  OBVIOUS
<1>4. IsFiniteSet(A) /\ Cardinality(A) \in Nat
  BY <1>3, FileTags
<1>5. CASE i = j
  <2>1. f \in A /\ B = A \ {f}
    BY <1>1, <1>2, <1>3, <1>5 DEF FilesOn
  <2>2. Cardinality(B) = Cardinality(A) - 1
    BY <1>3, <1>4, <2>1, FS_RemoveElement, ZenonT(40)
  <2> QED
    BY <1>3, <1>5, <2>2 DEF Is
<1>6. CASE i # j
  <2>1. B = A
    BY <1>1, <1>2, <1>3, <1>6 DEF FilesOn
  <2> QED
    BY <1>3, <1>4, <1>6, <2>1 DEF Is
<1> QED
  BY <1>5, <1>6

\* The count of a file with descriptors left.
FileKept(fl, f, r, i, fl2) == FileSet(fl, f, r, i, fl2) /\ r > 0 /\ i = fl[f].ip /\ fl[f].ref > 0

LEMMA FileCounted ==
    ASSUME NEW fl, NEW f, NEW r, NEW i, NEW fl2, FileKept(fl, f, r, i, fl2), NEW j
    PROVE  FilesOn(fl2, j) = FilesOn(fl, j)
<1>1. f \in Files /\ FileSet(fl, f, r, i, fl2) /\ r > 0 /\ i = fl[f].ip /\ fl[f].ref > 0
  BY DEF FileKept, FileSet
<1>2. /\ fl2 \in FileTable /\ fl2[f].ref = r /\ fl2[f].ip = i
      /\ \A g \in Files : g # f => fl2[g] = fl[g]
  BY <1>1, FileSetIs
<1> QED
  BY <1>1, <1>2 DEF FilesOn

LEMMA OpenRefs == ASSUME RefInv, NEW p \in Procs, Open(p) PROVE RefInv'
<1>1. At(p, "open") /\ ~ panicked /\ itab' = itab /\ dirs' = dirs /\ mem' = mem
  BY DEF Open, At, inodes
<1>2. PICK i : i = Head(todo[p]).i
  OBVIOUS
<1>3. i \in Inodes /\ \A j : Cnt(todo[p], arg[p], j) = Is(i, j)
  <2>1. "open" \in LastOps /\ "open" \notin DpOps
    BY DEF LastOps, DpOps
  <2> QED
    BY <1>1, <1>2, <2>1, AtLast
<1>4. TypesOk /\ TablesOk /\ mem \in MemTable
  BY <1>1 DEF RefInv, TypesOk, MemTable
<1>5. /\ itab' \in [Inodes -> [type : Types, links : Int]]
      /\ dirs' \in [Inodes -> SUBSET (Names \X Inodes)] /\ mem' \in MemTable
      /\ \A j \in Inodes : Rc(mem', j) = Rc(mem, j) /\ Rc(mem, j) \in Int
  BY <1>1, <1>4, RcInt DEF TypesOk
<1>6. CASE FreeFiles # {} /\ FreeFds(p) # {}
  <2>1. PICK f \in Files : f = FileAlloc /\ files[f].ref = 0
    BY <1>6, FreeFile
  <2>2. PICK d \in Fds : ofiles[p][d] = NULL /\ FdAlloc(p, f) = [ofiles EXCEPT ![p][d] = f]
    BY <1>6, FreeFd
  <2>3. PICK s : s = <<Step("unlock", i)>>
    OBVIOUS
  <2>4. /\ files' = [files EXCEPT ![f] = [ref |-> 1, ip |-> i]] /\ ofiles' = [ofiles EXCEPT ![p][d] = f]
        /\ Rest(p, s)
    BY <1>2, <1>6, <2>1, <2>2, <2>3 DEF Open
  <2>5. PICK fl, fl2, of, o2 : fl = files /\ fl2 = files' /\ of = ofiles /\ o2 = ofiles'
    OBVIOUS
  <2>6. /\ FileSet(fl, f, 1, i, fl2) /\ FdSet(of, p, d, f, o2) /\ fl \in FileTable /\ fl[f].ref = 0
        /\ of[p][d] = NULL
    BY <1>3, <1>4, <2>1, <2>2, <2>4, <2>5 DEF FileSet, FdSet, TablesOk, OfTable, FileTable
  <2>7. /\ fl2 \in FileTable /\ fl2[f].ref = 1 /\ fl2[f].ip = i
        /\ \A g \in Files : g # f => fl2[g] = fl[g]
    BY <1>3, <2>6, FileSetIs
  <2>8. o2 \in OfTable /\ \A q \in Procs, e \in Fds : o2[q][e] = IF q = p /\ e = d THEN f ELSE of[q][e]
    BY <2>6, FdSetIs
  <2>9. /\ Cardinality(LeadIn(o2, f)) = Cardinality(LeadIn(of, f)) + 1
        /\ \A g \in Files : g # f => LeadIn(o2, g) = LeadIn(of, g)
    <3>1. FdTaken(of, p, d, f, o2)
      BY <2>1, <2>6 DEF FdTaken
    <3> QED
      BY <3>1, LeadTaken
  <2>10. \A g \in Files : fl[g].ref = Cardinality(LeadIn(of, g)) /\ (fl[g].ref > 0 => fl[g].ip \in Inodes)
    BY <1>4, <2>5, TablesAre DEF TablesOk
  <2>11. TablesOk'
    <3>1. \A g \in Files : fl2[g].ref = Cardinality(LeadIn(o2, g)) /\ (fl2[g].ref > 0 => fl2[g].ip \in Inodes)
      BY <1>3, <2>6, <2>7, <2>9, <2>10
    <3>2. \A q \in Procs, e \in Fds : ofiles[q][e] # f
      BY <1>4, <2>1, NullAssumption, FdFile
    <3>3. OneOwner(o2)
      <4>1. FdTaken(of, p, d, f, o2) /\ OneOwner(of)
        BY <1>4, <2>1, <2>5, <2>6 DEF FdTaken, TablesOk
      <4> QED
        BY <2>5, <3>2, <4>1, OwnerTaken
    <3> QED
      BY <2>5, <2>7, <2>8, <3>1, <3>3, TablesAre DEF TablesOk, FileTable, OfTable
  <2>12. ASSUME NEW q \in Procs PROVE OpenBy(q) \subseteq OpenBy(q)'
    <3>1. ASSUME NEW j \in OpenBy(q) PROVE j \in OpenBy(q)'
      <4>1. PICK e \in Fds : ofiles[q][e] # NULL /\ files[ofiles[q][e]].ip = j
        BY <3>1 DEF OpenBy
      <4>2. PICK g : g = ofiles[q][e]
        OBVIOUS
      <4>3. g \in Files /\ files[g].ref > 0
        BY <1>4, <4>1, <4>2, FdFile
      <4>4. g # f /\ ~ (q = p /\ e = d)
        BY <2>1, <2>2, <4>1, <4>2, <4>3
      <4>5. ofiles'[q][e] = g /\ files'[g] = files[g]
        BY <2>5, <2>7, <2>8, <4>2, <4>3, <4>4
      <4> QED
        BY <4>1, <4>2, <4>5 DEF OpenBy
    <3> QED
      BY <3>1
  <2>13. i \in OpenBy(p)'
    <3>1. ofiles'[p][d] = f /\ files'[f].ip = i /\ f # NULL
      BY <2>5, <2>7, <2>8, NullAssumption
    <3> QED
      BY <1>3, <3>1 DEF OpenBy
  <2>14. arg' = arg /\ todo' = [todo EXCEPT ![p] = s]
    BY <2>3, <2>4 DEF Rest
  <2>15. CallOk(s, arg'[p], OpenBy(p)') /\ \A j : Cnt(s, arg'[p], j) = 0
    BY <1>3, <2>3, <2>13, Opened
  <2>16. ASSUME NEW j \in Inodes
         PROVE  Rc(mem', j) = Rc(mem, j) + (Cnt(s, arg'[p], j) - Cnt(todo[p], arg[p], j))
                  + (Cardinality(FilesOn(files', j)) - Cardinality(FilesOn(files, j)))
    <3>1. PICK r \in Int, u \in Nat : r = Rc(mem, j) /\ u = Is(i, j)
      BY <1>5 DEF Is
    <3>2. PICK n \in Nat : n = Cardinality(FilesOn(fl, j))
      BY FileTags
    <3>3. Cardinality(FilesOn(fl2, j)) = n + u
      BY <1>3, <2>6, <3>1, <3>2, FileTaken, ZenonT(40)
    <3>4. /\ Rc(mem', j) = r /\ Rc(mem, j) = r /\ Cnt(s, arg'[p], j) = 0 /\ Cnt(todo[p], arg[p], j) = u
          /\ Cardinality(FilesOn(files', j)) = n + u /\ Cardinality(FilesOn(files, j)) = n
      BY <1>3, <1>5, <2>5, <2>15, <3>1, <3>2, <3>3
    <3> QED
      BY <3>1, <3>2, <3>4
  <2>17. DOMAIN arg' = Procs /\ \A q \in Procs \ {p} : arg'[q] = arg[q] /\ OpenBy(q) \subseteq OpenBy(q)'
    BY <1>4, <2>12, <2>14 DEF TypesOk
  <2> QED
    BY <1>1, <1>5, <2>11, <2>14, <2>15, <2>16, <2>17, Stepped, ZenonT(40)
<1>7. CASE ~ (FreeFiles # {} /\ FreeFds(p) # {})
  <2>1. PICK s : s = <<Step("unlock", i), Step("put", i)>>
    OBVIOUS
  <2>2. Rest(p, s) /\ files' = files /\ ofiles' = ofiles
    BY <1>2, <1>7, <2>1 DEF Open
  <2>3. CallOk(s, arg[p], OpenBy(p)) /\ \A j : Cnt(s, arg[p], j) = Is(i, j)
    BY <1>3, <2>1, Leaving
  <2>4. \A j \in Inodes : Cnt(s, arg[p], j) = Cnt(todo[p], arg[p], j)
    BY <1>3, <2>3
  <2>5. UNCHANGED tables
    BY <2>2 DEF tables
  <2> QED
    BY <1>1, <1>5, <2>2, <2>3, <2>4, <2>5, SameRest
<1> QED
  BY <1>6, <1>7

LEMMA DupRefs == ASSUME RefInv, NEW p \in Procs, NEW c \in Fds, Dup(p, c) PROVE RefInv'
<1>1. /\ todo[p] = <<>> /\ ~ panicked /\ itab' = itab /\ dirs' = dirs /\ mem' = mem
      /\ todo' = todo /\ arg' = arg /\ ofiles[p][c] # NULL /\ FreeFds(p) # {}
  BY DEF Dup, May, inodes
<1>2. PICK f : f = ofiles[p][c]
  OBVIOUS
<1>3. TypesOk /\ TablesOk /\ mem \in MemTable
  BY <1>1 DEF RefInv, TypesOk, MemTable
<1>4. f \in Files /\ files[f].ref \in Nat /\ files[f].ref > 0 /\ files[f].ip \in Inodes
  BY <1>1, <1>2, <1>3, FdFile
<1>5. PICK d \in Fds : ofiles[p][d] = NULL /\ FdAlloc(p, f) = [ofiles EXCEPT ![p][d] = f]
  BY <1>1, FreeFd
<1>6. PICK r \in Nat, i \in Inodes : r = files[f].ref + 1 /\ i = files[f].ip
  BY <1>4
<1>7. files' = [files EXCEPT ![f] = [ref |-> r, ip |-> i]] /\ ofiles' = [ofiles EXCEPT ![p][d] = f]
  <2>0. files[f].ref < NFILE
    BY <1>1, <1>2, <1>3, <1>5, DupFits
  <2>1. files' = [files EXCEPT ![f].ref = IF @ < NFILE THEN @ + 1 ELSE @] /\ ofiles' = FdAlloc(p, f)
    BY <1>2 DEF Dup, DupRef
  <2>2. PICK y : y = files[f]
    OBVIOUS
  <2>3. y \in [ref : Nat, ip : Inodes \cup {NULL}]
    BY <1>3, <1>4, <2>2 DEF TablesOk
  <2>4. [y EXCEPT !.ref = @ + 1] = [ref |-> r, ip |-> i]
    BY <1>6, <2>2, <2>3
  <2>5. files' = [files EXCEPT ![f] = [y EXCEPT !.ref = @ + 1]]
    BY <1>3, <1>4, <2>0, <2>1, <2>2 DEF TablesOk
  <2> QED
    BY <1>5, <2>1, <2>4, <2>5
<1>8. PICK fl, fl2, of, o2 : fl = files /\ fl2 = files' /\ of = ofiles /\ o2 = ofiles'
  OBVIOUS
<1>9. /\ FileSet(fl, f, r, i, fl2) /\ FdSet(of, p, d, f, o2) /\ FdTaken(of, p, d, f, o2)
      /\ fl \in FileTable /\ fl[f].ref > 0 /\ i = fl[f].ip /\ r > 0 /\ fl[f].ref = r - 1
  <2>1. fl \in FileTable /\ of \in OfTable
    BY <1>3, <1>8 DEF TablesOk, OfTable, FileTable
  <2>2. FileSet(fl, f, r, i, fl2)
    BY <1>4, <1>6, <1>7, <1>8, <2>1 DEF FileSet
  <2>3. FdSet(of, p, d, f, o2)
    BY <1>4, <1>7, <1>8, <2>1 DEF FdSet
  <2>4. FdTaken(of, p, d, f, o2)
    BY <1>4, <1>5, <1>8, <2>3 DEF FdTaken
  <2> QED
    BY <1>4, <1>6, <1>8, <2>1, <2>2, <2>3, <2>4
<1>10. /\ fl2 \in FileTable /\ fl2[f].ref = r /\ fl2[f].ip = i
       /\ \A g \in Files : g # f => fl2[g] = fl[g]
  BY <1>9, FileSetIs
<1>11. o2 \in OfTable /\ \A q \in Procs, e \in Fds : o2[q][e] = IF q = p /\ e = d THEN f ELSE of[q][e]
  BY <1>9, FdSetIs
<1>12. /\ Cardinality(LeadIn(o2, f)) = Cardinality(LeadIn(of, f)) + 1
       /\ \A g \in Files : g # f => LeadIn(o2, g) = LeadIn(of, g)
  BY <1>9, LeadTaken
<1>13. \A g \in Files : fl[g].ref = Cardinality(LeadIn(of, g)) /\ (fl[g].ref > 0 => fl[g].ip \in Inodes)
  BY <1>3, <1>8, TablesAre DEF TablesOk
<1>14. TablesOk'
  <2>1. fl2[f].ref = Cardinality(LeadIn(o2, f))
    BY <1>4, <1>9, <1>10, <1>12, <1>13
  <2>2. \A g \in Files : fl2[g].ref = Cardinality(LeadIn(o2, g)) /\ (fl2[g].ref > 0 => fl2[g].ip \in Inodes)
    BY <1>10, <1>12, <1>13, <2>1
  <2>3. OneOwner(o2)
    <3>1. OneOwner(of) /\ \A q \in Procs, e \in Fds : of[q][e] = f => q = p
      BY <1>1, <1>2, <1>3, <1>8 DEF TablesOk, OneOwner
    <3> QED
      BY <1>9, <3>1, OwnerTaken
  <2> QED
    BY <1>8, <1>10, <1>11, <2>2, <2>3, TablesAre DEF TablesOk, FileTable, OfTable
<1>15. ASSUME NEW q \in Procs PROVE OpenBy(q) \subseteq OpenBy(q)'
  <2>1. ASSUME NEW j \in OpenBy(q) PROVE j \in OpenBy(q)'
    <3>1. PICK e \in Fds : ofiles[q][e] # NULL /\ files[ofiles[q][e]].ip = j
      BY <2>1 DEF OpenBy
    <3>2. PICK g : g = ofiles[q][e]
      OBVIOUS
    <3>3. g \in Files
      BY <1>3, <3>1, <3>2, FdFile
    <3>4. ~ (q = p /\ e = d)
      BY <1>5, <3>1
    <3>5. ofiles'[q][e] = g /\ files'[g].ip = files[g].ip
      BY <1>8, <1>9, <1>10, <1>11, <3>2, <3>3, <3>4
    <3> QED
      BY <3>1, <3>2, <3>5 DEF OpenBy
  <2> QED
    BY <2>1
<1>16. PICK s : s = <<>>
  OBVIOUS
<1>17. CallOk(s, arg'[p], OpenBy(p)')
  BY <1>16, CallEmpty
<1>18. todo' = [todo EXCEPT ![p] = s]
  BY <1>1, <1>3, <1>16 DEF TypesOk
<1>19. ASSUME NEW j \in Inodes
       PROVE  Rc(mem', j) = Rc(mem, j) + (Cnt(s, arg'[p], j) - Cnt(todo[p], arg[p], j))
                + (Cardinality(FilesOn(files', j)) - Cardinality(FilesOn(files, j)))
  <2>1. PICK a \in Int : a = Rc(mem, j)
    BY <1>3, RcInt
  <2>2. FilesOn(fl2, j) = FilesOn(fl, j)
    <3>1. FileKept(fl, f, r, i, fl2)
      BY <1>9 DEF FileKept
    <3> QED
      BY <3>1, FileCounted
  <2>3. PICK n \in Nat : n = Cardinality(FilesOn(fl, j))
    BY FileTags
  <2>4. /\ Rc(mem', j) = a /\ Cnt(s, arg'[p], j) = 0 /\ Cnt(todo[p], arg[p], j) = 0
        /\ Cardinality(FilesOn(files', j)) = n /\ Cardinality(FilesOn(files, j)) = n
    BY <1>1, <1>8, <1>16, <2>1, <2>2, <2>3, CntEmpty
  <2> QED
    BY <2>1, <2>3, <2>4
<1>20. DOMAIN arg' = Procs /\ \A q \in Procs \ {p} : arg'[q] = arg[q] /\ OpenBy(q) \subseteq OpenBy(q)'
  BY <1>1, <1>3, <1>15 DEF TypesOk
<1>21. /\ itab' \in [Inodes -> [type : Types, links : Int]]
       /\ dirs' \in [Inodes -> SUBSET (Names \X Inodes)] /\ mem' \in MemTable
  BY <1>1, <1>3 DEF TypesOk
<1> QED
  BY <1>1, <1>14, <1>17, <1>18, <1>19, <1>20, <1>21, Stepped, ZenonT(40)

LEMMA CloseRefs == ASSUME RefInv, NEW p \in Procs, NEW d \in Fds, Close(p, d) PROVE RefInv'
<1>1. /\ todo[p] = <<>> /\ ~ panicked /\ todo' = todo /\ arg' = arg /\ ofiles[p][d] # NULL
      /\ ofiles' = [ofiles EXCEPT ![p][d] = NULL]
  BY DEF Close, May
<1>2. PICK f : f = ofiles[p][d]
  OBVIOUS
<1>3. TypesOk /\ TablesOk /\ mem \in MemTable
  BY <1>1 DEF RefInv, TypesOk, MemTable
<1>4. /\ f \in Files /\ files[f].ref \in Nat /\ files[f].ref > 0 /\ files[f].ip \in Inodes
      /\ files[f].ip \in OpenBy(p)
  BY <1>1, <1>2, <1>3, FdFile
<1>5. PICK fl, fl2, of, o2 : fl = files /\ fl2 = files' /\ of = ofiles /\ o2 = ofiles'
  OBVIOUS
<1>6. fl \in FileTable /\ of \in OfTable
  BY <1>3, <1>5 DEF TablesOk, OfTable, FileTable
<1>7. FdSet(of, p, d, NULL, o2)
  BY <1>1, <1>5, <1>6 DEF FdSet
<1>8. FdFreed(of, p, d, f, o2)
  BY <1>2, <1>4, <1>5, <1>7 DEF FdFreed
<1>9. /\ Cardinality(LeadIn(o2, f)) = Cardinality(LeadIn(of, f)) - 1
      /\ \A g \in Files : g # f => LeadIn(o2, g) = LeadIn(of, g)
      /\ Cardinality(LeadIn(of, f)) = 1 => \A q \in Procs, e \in Fds : of[q][e] = f => q = p /\ e = d
  BY <1>8, LeadFreed
<1>10. o2 \in OfTable /\ \A q \in Procs, e \in Fds : o2[q][e] = IF q = p /\ e = d THEN NULL ELSE of[q][e]
  BY <1>7, FdSetIs
<1>11. \A g \in Files : fl[g].ref = Cardinality(LeadIn(of, g)) /\ (fl[g].ref > 0 => fl[g].ip \in Inodes)
  BY <1>3, <1>5, TablesAre DEF TablesOk
<1>12. PICK i \in Inodes : i = files[f].ip
  BY <1>4
<1>0. PICK s : s = <<>>
  OBVIOUS
<1>13. todo' = [todo EXCEPT ![p] = s]
  BY <1>0, <1>1, <1>3 DEF TypesOk
<1>14. CallOk(s, arg'[p], OpenBy(p)')
  BY <1>0, CallEmpty
<1>15. \A j : Cnt(s, arg'[p], j) = 0 /\ Cnt(todo[p], arg[p], j) = 0
  BY <1>0, <1>1, CntEmpty
\* The other processes keep what they have open.
<1>16. ASSUME NEW r \in Nat, NEW k \in Inodes \cup {NULL}, FileSet(fl, f, r, k, fl2), r = fl[f].ref - 1,
              r > 0 => k = i
       PROVE  /\ TablesOk'
              /\ \A q \in Procs \ {p} : OpenBy(q) \subseteq OpenBy(q)'
  <2>1. /\ fl2 \in FileTable /\ fl2[f].ref = r /\ fl2[f].ip = k
        /\ \A g \in Files : g # f => fl2[g] = fl[g]
    BY <1>6, <1>16, FileSetIs
  <2>2. fl2[f].ref = Cardinality(LeadIn(o2, f)) /\ (fl2[f].ref > 0 => fl2[f].ip \in Inodes)
    BY <1>4, <1>5, <1>9, <1>11, <1>12, <1>16, <2>1
  <2>3. \A g \in Files : fl2[g].ref = Cardinality(LeadIn(o2, g)) /\ (fl2[g].ref > 0 => fl2[g].ip \in Inodes)
    BY <1>9, <1>11, <2>1, <2>2
  <2>6. OneOwner(o2)
    <3>1. OneOwner(of)
      BY <1>3, <1>5 DEF TablesOk
    <3> QED
      BY <1>8, <3>1, OwnerFreed
  <2>4. TablesOk'
    BY <1>5, <1>10, <2>1, <2>3, <2>6, TablesAre DEF TablesOk, FileTable, OfTable
  <2>5. ASSUME NEW q \in Procs \ {p}, NEW j \in OpenBy(q) PROVE j \in OpenBy(q)'
    <3>1. PICK e \in Fds : ofiles[q][e] # NULL /\ files[ofiles[q][e]].ip = j
      BY <2>5 DEF OpenBy
    <3>2. PICK g : g = ofiles[q][e]
      OBVIOUS
    <3>3. g \in Files /\ j \in Inodes
      BY <1>3, <2>5, <3>1, <3>2, FdFile DEF OpenBy
    <3>4. fl2[g].ip = fl[g].ip
      <4>1. CASE g # f
        BY <2>1, <3>3, <4>1
      <4>2. CASE g = f
        <5>1. Cardinality(LeadIn(of, f)) # 1
          BY <1>5, <1>9, <3>2, <4>2
        <5>2. r > 0
          BY <1>4, <1>5, <1>11, <1>16, <5>1
        <5> QED
          BY <1>5, <1>12, <1>16, <2>1, <4>2, <5>2
      <4> QED
        BY <4>1, <4>2
    <3>5. ofiles'[q][e] = g /\ g # NULL /\ files'[g].ip = j
      BY <1>5, <1>10, <3>1, <3>2, <3>4
    <3> QED
      BY <3>3, <3>5 DEF OpenBy
  <2> QED
    BY <2>4, <2>5
<1>17. CASE files[f].ref = 1
  <2>1. PutInode(i) /\ files' = [files EXCEPT ![f] = Closed]
    BY <1>2, <1>12, <1>17 DEF Close
  <2>2. FileSet(fl, f, 0, NULL, fl2)
    BY <1>4, <1>5, <1>6, <2>1 DEF FileSet, Closed
  <2>3. TablesOk' /\ \A q \in Procs \ {p} : OpenBy(q) \subseteq OpenBy(q)'
    <3>1. PICK r \in Nat, k \in Inodes \cup {NULL} : r = 0 /\ k = NULL
      OBVIOUS
    <3>2. FileSet(fl, f, r, k, fl2) /\ r = fl[f].ref - 1 /\ (r > 0 => k = i)
      BY <1>5, <1>17, <2>2, <3>1
    <3> QED
      BY <1>16, <3>2
  <2>4. mem[i] # NULL
    BY <1>1, <1>4, <1>12, Referenced
  <2>5. /\ mem' \in MemTable /\ \A j \in Inodes : Rc(mem', j) = Rc(mem, j) - Is(i, j)
        /\ itab' \in [Inodes -> [type : Types, links : Int]]
        /\ dirs' \in [Inodes -> SUBSET (Names \X Inodes)]
    BY <1>3, <2>1, <2>4, PutCount
  <2>6. ASSUME NEW j \in Inodes
        PROVE  Rc(mem', j) = Rc(mem, j) + (Cnt(s, arg'[p], j) - Cnt(todo[p], arg[p], j))
                 + (Cardinality(FilesOn(files', j)) - Cardinality(FilesOn(files, j)))
    <3>1. PICK r \in Int, u \in Nat : r = Rc(mem, j) /\ u = Is(i, j)
      BY <1>3, RcInt DEF Is
    <3>2. PICK n \in Nat : n = Cardinality(FilesOn(fl, j))
      BY FileTags
    <3>3. i = fl[f].ip /\ fl[f].ref > 0
      BY <1>4, <1>5, <1>12
    <3>4. Cardinality(FilesOn(fl2, j)) = n - u
      BY <1>4, <1>6, <2>2, <3>1, <3>2, <3>3, FileFreed
    <3>5. /\ Rc(mem', j) = r - u /\ Rc(mem, j) = r /\ Cnt(s, arg'[p], j) = 0 /\ Cnt(todo[p], arg[p], j) = 0
          /\ Cardinality(FilesOn(files', j)) = n - u /\ Cardinality(FilesOn(files, j)) = n
      BY <1>5, <1>15, <2>5, <3>1, <3>2, <3>4
    <3> QED
      BY <3>1, <3>2, <3>5
  <2>7. DOMAIN arg' = Procs /\ \A q \in Procs \ {p} : arg'[q] = arg[q] /\ OpenBy(q) \subseteq OpenBy(q)'
    BY <1>1, <1>3, <2>3 DEF TypesOk
  <2> QED
    BY <1>1, <1>13, <1>14, <2>3, <2>5, <2>6, <2>7, Stepped, ZenonT(40)
<1>18. CASE files[f].ref # 1
  <2>1. files' = [files EXCEPT ![f].ref = @ - 1] /\ UNCHANGED inodes
    BY <1>2, <1>18 DEF Close
  <2>2. itab' = itab /\ dirs' = dirs /\ mem' = mem
    BY <2>1 DEF inodes
  <2>3. PICK r \in Nat, k \in Inodes \cup {NULL} : r = files[f].ref - 1 /\ k = i /\ r > 0
    BY <1>4, <1>18
  <2>4. FileSet(fl, f, r, k, fl2)
    <3>1. PICK y : y = files[f]
      OBVIOUS
    <3>2. y \in [ref : Nat, ip : Inodes \cup {NULL}]
      BY <1>4, <1>5, <1>6, <3>1 DEF FileTable
    <3>3. [y EXCEPT !.ref = @ - 1] = [ref |-> r, ip |-> k]
      BY <1>12, <2>3, <3>1, <3>2
    <3>4. files' = [files EXCEPT ![f] = [y EXCEPT !.ref = @ - 1]]
      BY <1>4, <1>5, <1>6, <2>1, <3>1 DEF FileTable
    <3> QED
      BY <1>4, <1>5, <1>6, <2>3, <3>3, <3>4 DEF FileSet
  <2>5. TablesOk' /\ \A q \in Procs \ {p} : OpenBy(q) \subseteq OpenBy(q)'
    BY <1>5, <1>16, <2>3, <2>4
  <2>6. ASSUME NEW j \in Inodes
        PROVE  Rc(mem', j) = Rc(mem, j) + (Cnt(s, arg'[p], j) - Cnt(todo[p], arg[p], j))
                 + (Cardinality(FilesOn(files', j)) - Cardinality(FilesOn(files, j)))
    <3>1. PICK a \in Int : a = Rc(mem, j)
      BY <1>3, RcInt
    <3>2. PICK n \in Nat : n = Cardinality(FilesOn(fl, j))
      BY FileTags
    <3>3. k = fl[f].ip /\ fl[f].ref > 0
      BY <1>4, <1>5, <1>12, <2>3
    <3>6. FileKept(fl, f, r, k, fl2)
      BY <2>3, <2>4, <3>3 DEF FileKept
    <3>4. FilesOn(fl2, j) = FilesOn(fl, j)
      BY <3>6, FileCounted
    <3>5. /\ Rc(mem', j) = a /\ Cnt(s, arg'[p], j) = 0 /\ Cnt(todo[p], arg[p], j) = 0
          /\ Cardinality(FilesOn(files', j)) = n /\ Cardinality(FilesOn(files, j)) = n
      BY <1>5, <1>15, <2>2, <3>1, <3>2, <3>4
    <3> QED
      BY <3>1, <3>2, <3>5
  <2>7. DOMAIN arg' = Procs /\ \A q \in Procs \ {p} : arg'[q] = arg[q] /\ OpenBy(q) \subseteq OpenBy(q)'
    BY <1>1, <1>3, <2>5 DEF TypesOk
  <2>8. /\ itab' \in [Inodes -> [type : Types, links : Int]]
        /\ dirs' \in [Inodes -> SUBSET (Names \X Inodes)] /\ mem' \in MemTable
    BY <1>3, <2>2 DEF TypesOk
  <2> QED
    BY <1>1, <1>13, <1>14, <2>5, <2>6, <2>7, <2>8, Stepped, ZenonT(40)
<1> QED
  BY <1>17, <1>18

-----------------------------------------------------------------------------
(* The theorem *)

LEMMA RefInit == ASSUME Init PROVE RefInv
<1>1. PICK name \in Names :
        /\ itab = [i \in Inodes |-> IF i = Root THEN Entry("dir", 1)
                                    ELSE IF i = 2 THEN Entry("file", 1) ELSE Free]
        /\ dirs = [i \in Inodes |-> IF i = Root THEN {<<name, 2>>} ELSE {}]
        /\ mem = [i \in Inodes |-> IF i = Root THEN NewInode ELSE NULL]
        /\ files = [f \in Files |-> Closed]
        /\ ofiles = [p \in Procs |-> [d \in Fds |-> NULL]]
        /\ todo = [p \in Procs |-> <<>>]
        /\ arg = [p \in Procs |-> NoCall]
  BY DEF Init
<1>2. Root \in Inodes /\ 2 \in Inodes
  BY InodesAssumption DEF Inodes, Root
<1>3. NULL \notin Files /\ NULL \notin MemInode
  BY NullAssumption
<1>4. TypesOk
  <2>1. itab \in [Inodes -> [type : Types, links : Int]]
    BY <1>1 DEF Entry, Free, Types
  <2>2. dirs \in [Inodes -> SUBSET (Names \X Inodes)]
    BY <1>1, <1>2
  <2>3. NewInode \in MemInode
    BY DEF NewInode, MemInode, Free, Entry, Types
  <2>4. mem \in [Inodes -> MemInode \cup {NULL}]
    BY <1>1, <2>3
  <2>5. todo \in [Procs -> Seq(StepRec)]
    BY <1>1
  <2> QED
    BY <1>1, <2>1, <2>2, <2>4, <2>5 DEF TypesOk
<1>5. TablesOk
  <2>1. \A f \in Files : files[f].ref = 0 /\ files[f].ip = NULL
    BY <1>1 DEF Closed
  <2>2. \A f \in Files : LeadIn(ofiles, f) = {}
    BY <1>1, <1>3 DEF LeadIn
  <2>3. \A f \in Files : files[f].ref = Cardinality(Leading(f))
    BY <2>1, <2>2, FS_EmptySet, TablesAre
  <2>4. files \in [Files -> [ref : Nat, ip : Inodes \cup {NULL}]]
    BY <1>1 DEF Closed
  <2>5. ofiles \in [Procs -> [Fds -> Files \cup {NULL}]]
    BY <1>1
  <2>6. OneOwner(ofiles)
    BY <1>1 DEF OneOwner
  <2> QED
    BY <2>1, <2>3, <2>4, <2>5, <2>6 DEF TablesOk
<1>6. \A p \in Procs : CallOk(todo[p], arg[p], OpenBy(p))
  BY <1>1, CallEmpty
<1>7. ASSUME NEW i \in Inodes PROVE Cardinality(References(i)) = IF mem[i] = NULL THEN 0 ELSE mem[i].rc
  <2>1. \A q \in Procs : todo[q] \in Seq(StepRec) /\ HoldsIn(todo[q], arg[q], q) = {}
    BY <1>1 DEF HoldsIn
  <2>2. FilesOn(files, i) = {}
    BY <1>1 DEF FilesOn, Closed
  <2>3. References(i) = RefsIn(todo, arg, files, i)
    BY <2>1, ReferencesAre
  <2>4. RefsIn(todo, arg, files, i) = {<<"root", x>> : x \in {Root} \cap {i}}
    BY <2>1, <2>2 DEF RefsIn
  <2>5. CASE i = Root
    <3>1. References(i) = {<<"root", Root>>}
      BY <2>3, <2>4, <2>5
    <3>2. mem[i] # NULL /\ mem[i].rc = 1
      <4>1. NewInode \in MemInode /\ NewInode.rc = 1
        BY DEF NewInode, MemInode, Free, Entry, Types
      <4> QED
        BY <1>1, <1>3, <2>5, <4>1
    <3> QED
      BY <3>1, <3>2, FS_Singleton
  <2>6. CASE i # Root
    <3>1. References(i) = {} /\ mem[i] = NULL
      BY <1>1, <2>3, <2>4, <2>6
    <3> QED
      BY <3>1, FS_EmptySet
  <2> QED
    BY <2>5, <2>6
<1> QED
  BY <1>4, <1>5, <1>6, <1>7 DEF RefInv, Exact

LEMMA RefNext == ASSUME RefInv, [Next]_vars PROVE RefInv'
<1>1. CASE UNCHANGED vars
  <2>1. /\ itab' = itab /\ dirs' = dirs /\ mem' = mem /\ files' = files /\ ofiles' = ofiles
        /\ todo' = todo /\ arg' = arg /\ panicked' = panicked
    BY <1>1 DEF vars
  <2> QED
    BY <2>1, SameRefs
<1>2. CASE Next
  <2>1. PICK p \in Procs :
        \/ Openat(p) \/ Mkdirat(p) \/ Mknodat(p) \/ Unlinkat(p) \/ Chdir(p) \/ Newfstatat(p)
        \/ \E d \in Fds : Dup(p, d) \/ Close(p, d) \/ Access(p, d)
        \/ Lock(p) \/ Unlock(p) \/ Put(p)
        \/ Find(p) \/ Exists(p) \/ Make(p) \/ Look(p) \/ Unlink(p) \/ Drop(p)
        \/ Open(p) \/ Stat(p) \/ Enter(p) \/ Swap(p)
    BY <1>2 DEF Next
  <2>2. CASE Openat(p) \/ Mkdirat(p) \/ Mknodat(p) \/ Unlinkat(p) \/ Chdir(p) \/ Newfstatat(p)
    BY <2>2, CallsRefs
  <2>3. CASE \E d \in Fds : Dup(p, d) \/ Close(p, d) \/ Access(p, d)
    BY <2>3, DupRefs, CloseRefs, AccessRefs
  <2>4. CASE Lock(p)
    BY <2>4, LockRefs
  <2>5. CASE Unlock(p)
    BY <2>5, UnlockRefs
  <2>6. CASE Put(p)
    BY <2>6, PutRefs
  <2>7. CASE Find(p)
    BY <2>7, FindRefs
  <2>8. CASE Exists(p)
    BY <2>8, ExistsRefs
  <2>9. CASE Make(p)
    BY <2>9, MakeRefs
  <2>10. CASE Look(p)
    BY <2>10, LookRefs
  <2>11. CASE Unlink(p)
    BY <2>11, UnlinkRefs
  <2>12. CASE Drop(p)
    BY <2>12, DropRefs
  <2>13. CASE Open(p)
    BY <2>13, OpenRefs
  <2>14. CASE Stat(p)
    BY <2>14, StatRefs
  <2>15. CASE Enter(p)
    BY <2>15, EnterRefs
  <2>16. CASE Swap(p)
    BY <2>16, SwapRefs
  <2> QED
    BY <2>1, <2>2, <2>3, <2>4, <2>5, <2>6, <2>7, <2>8, <2>9, <2>10, <2>11, <2>12, <2>13, <2>14,
       <2>15, <2>16
<1> QED
  BY <1>1, <1>2

\* The reference counts of inodes and files are what RefsAreExact says, at
\* every moment of every call (inode_get and inode_put in fs/inode.c, the
\* references of fs/file.c, and all that kernel/sysfile.c does with them).
THEOREM RefsExact == Spec => []RefsAreExact
<1>1. Init => RefInv
  BY RefInit
<1>2. RefInv /\ [Next]_vars => RefInv'
  BY RefNext
<1>3. RefInv => RefsAreExact
  BY DEF RefInv, Exact, TablesOk, Leading, RefsAreExact
<1> QED
  BY <1>1, <1>2, <1>3, PTL DEF Spec

-----------------------------------------------------------------------------
(* Directories and locks: what holds also when locks were mixed up *)

Unlockers == (LastOps \ {"swap"}) \cup {"unlock"}

\* An inode in memory that has been read.
Loaded(m, i) == m[i] # NULL /\ m[i].valid

\* What p's script s does: it makes i, works in the directory i, looks at j
\* which it found in i, or will unlock i, which it has locked.
MakeOn(s, i) == \E k \in 1 .. Len(s) : s[k].op = "make" /\ s[k].i = i
ParentIs(s, a, i) == \E k \in 1 .. Len(s) : s[k].op \in ParentOps /\ a.dp = i
LooksAt(s, a, i, j) == \E k \in 1 .. Len(s) : s[k].op \in DpOps /\ s[k].i = j /\ a.dp = i
WillUnlock(s, a, i) ==
    \E k \in 1 .. Len(s) : \/ s[k].op \in Unlockers /\ s[k].i = i /\ s[1].op # "lock"
                           \/ s[k].op \in DpOps /\ a.dp = i

\* A lock is the first of two steps, and nothing but a lock comes before a
\* step in a parent directory.
ShapeOk(s) ==
    \A k \in 1 .. Len(s) :
        /\ s[k].op = "lock" => k = 1 /\ Len(s) = 2 /\ s[2].i = s[1].i /\ s[2].op \in Unlockers
        /\ s[k].op \in ParentOps => k = 1 \/ s[1].op = "lock"

\* What has been locked has been read, a parent is a directory, and an inode
\* that is made has its type.
ReadyOk(s, a, I, m) ==
    \A k \in 1 .. Len(s) :
        /\ s[k].op \in ParentOps => I[a.dp].type = "dir"
        /\ s[k].op \in DpOps \/ (s[k].op \in {"find", "look"} /\ k = 1) => Loaded(m, a.dp)
        /\ s[k].op \in DpOps /\ k = 1 => Loaded(m, s[k].i)
        /\ s[k].op = "drop" => Loaded(m, s[k].i) /\ m[s[k].i].e.type # "invalid"
        /\ s[k].op = "make" => I[s[k].i].type = a.type

\* An inode in memory differs from its block only while it is made, and was
\* read when it was free.
EntriesOk ==
    \A i \in Inodes :
        /\ dirs[i] # {} => itab[i].type = "dir"
        /\ itab[i].type = "invalid" => itab[i] = Free
        /\ Loaded(mem, i) /\ mem[i].e # itab[i] =>
              /\ mem[i].e = Free /\ itab[i].links = 0
              /\ \A q \in Procs : ~ ParentIs(todo[q], arg[q], i)
              /\ \E q \in Procs : MakeOn(todo[q], i)

\* What directories hold, and what calls have found in them, has no cycle:
\* every set of inodes has one that leads to none of the set.
EdgesIn(D, td, ag) ==
    {x \in Inodes \X Inodes : \/ \E y \in D[x[1]] : y[2] = x[2]
                              \/ \E q \in Procs : LooksAt(td[q], ag[q], x[1], x[2])}
Acyclic(R) == \A S \in SUBSET Inodes : S # {} => \E i \in S : \A j \in S : <<i, j>> \notin R

\* A lock that is taken will be released.
LocksOk ==
    \A i \in Inodes : mem[i] # NULL =>
        /\ mem[i].lock >= 0
        /\ mem[i].lock = 0 => \E q \in Procs : WillUnlock(todo[q], arg[q], i)

DirInv ==
    ~ panicked => /\ EntriesOk /\ LocksOk /\ Acyclic(EdgesIn(dirs, todo, arg))
                  /\ \A q \in Procs : ShapeOk(todo[q]) /\ ReadyOk(todo[q], arg[q], itab, mem)

LEMMA AcyclicLess ==
    ASSUME NEW R, Acyclic(R), NEW R2, R2 \subseteq R
    PROVE  Acyclic(R2)
  BY DEF Acyclic

\* A new edge to an inode that leads nowhere.
LEMMA AcyclicNew ==
    ASSUME NEW R, Acyclic(R), NEW R2, NEW d, NEW n, d # n,
           R2 \subseteq R \cup {<<d, n>>}, \A j : <<n, j>> \notin R2
    PROVE  Acyclic(R2)
<1> SUFFICES ASSUME NEW S \in SUBSET Inodes, S # {}
             PROVE  \E i \in S : \A j \in S : <<i, j>> \notin R2
  BY DEF Acyclic
<1>1. CASE n \in S
  BY <1>1
<1>2. CASE n \notin S
  <2>1. PICK i \in S : \A j \in S : <<i, j>> \notin R
    BY DEF Acyclic
  <2>2. \A j \in S : <<i, j>> # <<d, n>>
    BY <1>2
  <2> QED
    BY <2>1, <2>2
<1> QED
  BY <1>1, <1>2

\* Nobody refers to an inode that is not in memory.
LEMMA Unreferenced ==
    ASSUME NEW td, NEW ag, NEW fl, \A q \in Procs : td[q] \in Seq(StepRec), NEW i,
           Cardinality(RefsIn(td, ag, fl, i)) = 0, NEW q \in Procs
    PROVE  /\ \A l \in 1 .. Len(td[q]) : ~ Keeps(td[q], ag[q], l, i)
           /\ FilesOn(fl, i) = {} /\ i # Root
<1>1. PICK c \in Nat : c = Cardinality(HeldElsewhere(td, ag, q, i))
  BY ElsewhereFinite
<1>2. PICK f \in Nat : f = Cardinality(FilesOn(fl, i))
  BY FileTags
<1>3. PICK a \in Nat, b \in Nat : a = Cardinality(StepsOn(td[q], i)) /\ b = Cardinality(ParentOn(td[q], ag[q], i))
  BY CntNat
<1>4. PICK o \in Nat : o = OfRoot(i)
  BY DEF OfRoot
<1>5. 0 = c + (a + b) + f + o
  BY <1>1, <1>2, <1>3, <1>4, ReferencesCount DEF Cnt
<1>6. a = 0 /\ b = 0 /\ f = 0 /\ o = 0
  BY <1>5
<1>7. StepsOn(td[q], i) = {} /\ ParentOn(td[q], ag[q], i) = {}
  BY <1>3, <1>6, CntNat, FS_EmptySet
<1>8. FilesOn(fl, i) = {}
  BY <1>2, <1>6, FileTags, FS_EmptySet
<1> QED
  BY <1>4, <1>6, <1>7, <1>8 DEF StepsOn, ParentOn, Keeps, OfRoot

LEMMA OpenCounts ==
    ASSUME TablesOk', NEW q \in Procs, NEW i, i \in OpenBy(q)'
    PROVE  FilesOn(files', i) # {}
<1>1. PICK d \in Fds : ofiles'[q][d] # NULL /\ files'[ofiles'[q][d]].ip = i
  BY DEF OpenBy
<1>2. PICK f \in Files : f = ofiles'[q][d]
  BY <1>1 DEF TablesOk
<1>3. <<q, d>> \in Leading(f)'
  BY <1>2 DEF Leading
<1>4. IsFiniteSet(Leading(f)')
  <2>1. IsFiniteSet(Procs \X Fds)
    BY TablesAssumption, FS_Product
  <2> QED
    BY <2>1, FS_Subset DEF Leading
<1>5. files'[f].ref \in Nat /\ files'[f].ref # 0
  <2>1. files'[f].ref = Cardinality(Leading(f)') /\ files'[f].ref \in Nat
    BY DEF TablesOk
  <2> QED
    BY <1>3, <1>4, <2>1, FS_EmptySet
<1> QED
  BY <1>1, <1>2, <1>5 DEF FilesOn

\* A call has to do only with inodes that it keeps.
LEMMA Unmentioned ==
    ASSUME NEW s, NEW a, NEW O, CallOk(s, a, O), NEW i, i \notin O, \A l \in 1 .. Len(s) : ~ Keeps(s, a, l, i)
    PROVE  \A k \in 1 .. Len(s) : s[k].i # i /\ (s[k].op \in ParentOps => a.dp # i)
<1>1. s \in Seq(StepRec) /\ ScriptOk(s, a) /\ Backed(s, a, O)
  BY DEF CallOk, ScriptOk
<1>2. \A k \in 1 .. Len(s) : s[k].i # i
  <2> SUFFICES ASSUME NEW k \in 1 .. Len(s), s[k].i = i PROVE FALSE
    OBVIOUS
  <2>1. s[k].op \notin HoldOps
    BY DEF Keeps
  <2>2. PICK l \in k + 1 .. Len(s) : Keeps(s, a, l, i)
    BY <1>1, <2>1 DEF Backed
  <2>3. l \in 1 .. Len(s)
    BY <1>1, <2>2
  <2> QED
    BY <2>2, <2>3
<1>3. ASSUME NEW k \in 1 .. Len(s), s[k].op \in ParentOps PROVE a.dp # i
  <2>1. s[k].op \in {"find", "look"} => s[k].i = a.dp
    BY <1>1, <1>3 DEF ScriptOk
  <2>2. s[k].op \in DpOps => a.dp # i
    BY DEF Keeps
  <2> QED
    BY <1>2, <1>3, <2>1, <2>2 DEF ParentOps, DpOps
<1> QED
  BY <1>2, <1>3

LEMMA Gone ==
    ASSUME RefInv', ~ panicked', NEW i \in Inodes, mem'[i] = NULL, NEW q \in Procs
    PROVE  /\ \A k \in 1 .. Len(todo'[q]) :
                 todo'[q][k].i # i /\ (todo'[q][k].op \in ParentOps => arg'[q].dp # i)
           /\ FilesOn(files', i) = {} /\ i # Root
<1>1. TypesOk' /\ Exact' /\ TablesOk' /\ CallOk(todo'[q], arg'[q], OpenBy(q)')
  BY DEF RefInv
<1>2. \A r \in Procs : todo'[r] \in Seq(StepRec)
  BY <1>1 DEF TypesOk
<1>3. Cardinality(RefsIn(todo', arg', files', i)) = 0
  BY <1>1, <1>2, ReferencesAreNext DEF Exact
<1>4. PICK td, ag, fl : td = todo' /\ ag = arg' /\ fl = files'
  OBVIOUS
<1>5. /\ \A l \in 1 .. Len(td[q]) : ~ Keeps(td[q], ag[q], l, i)
      /\ FilesOn(fl, i) = {} /\ i # Root
  BY <1>2, <1>3, <1>4, Unreferenced
<1>6. i \notin OpenBy(q)'
  BY <1>1, <1>4, <1>5, OpenCounts
<1>7. PICK s, a, O : s = todo'[q] /\ a = arg'[q] /\ O = OpenBy(q)'
  OBVIOUS
<1>8. CallOk(s, a, O) /\ i \notin O /\ \A l \in 1 .. Len(s) : ~ Keeps(s, a, l, i)
  BY <1>1, <1>4, <1>5, <1>6, <1>7
<1>9. \A k \in 1 .. Len(s) : s[k].i # i /\ (s[k].op \in ParentOps => a.dp # i)
  BY <1>8, Unmentioned
<1> QED
  BY <1>4, <1>5, <1>7, <1>9

\* The scripts of others are as good as before.
LEMMA ReadyStays ==
    ASSUME NEW s, NEW a, NEW I, NEW m, NEW I2, NEW m2, ReadyOk(s, a, I, m),
           \A k \in 1 .. Len(s) : s[k].i \in Inodes /\ m2[s[k].i] # NULL,
           \A k \in 1 .. Len(s) : s[k].op \in ParentOps => a.dp \in Inodes /\ m2[a.dp] # NULL,
           \A k \in 1 .. Len(s) : s[k].op = "make" => a.type # "invalid",
           \A i \in Inodes : m2[i] # NULL => I2[i].type = I[i].type \/ I[i].type = "invalid",
           \A i \in Inodes : Loaded(m, i) /\ m2[i] # NULL =>
              m2[i].valid /\ (m[i].e.type # "invalid" => m2[i].e.type # "invalid")
    PROVE  ReadyOk(s, a, I2, m2)
<1> SUFFICES ASSUME NEW k \in 1 .. Len(s)
             PROVE  /\ s[k].op \in ParentOps => I2[a.dp].type = "dir"
                    /\ s[k].op \in DpOps \/ (s[k].op \in {"find", "look"} /\ k = 1) => Loaded(m2, a.dp)
                    /\ s[k].op \in DpOps /\ k = 1 => Loaded(m2, s[k].i)
                    /\ s[k].op = "drop" => Loaded(m2, s[k].i) /\ m2[s[k].i].e.type # "invalid"
                    /\ s[k].op = "make" => I2[s[k].i].type = a.type
  BY DEF ReadyOk
<1>1. s[k].op \in ParentOps => I2[a.dp].type = "dir"
  BY DEF ReadyOk
<1>2. s[k].op \in DpOps \/ s[k].op \in {"find", "look"} => s[k].op \in ParentOps
  BY DEF ParentOps, DpOps
<1>3. s[k].op \in DpOps \/ (s[k].op \in {"find", "look"} /\ k = 1) => Loaded(m2, a.dp)
  BY <1>2 DEF ReadyOk, Loaded
<1>4. s[k].op \in DpOps /\ k = 1 => Loaded(m2, s[k].i)
  BY DEF ReadyOk, Loaded
<1>5. s[k].op = "drop" => Loaded(m2, s[k].i) /\ m2[s[k].i].e.type # "invalid"
  BY DEF ReadyOk, Loaded
<1>6. s[k].op = "make" => I2[s[k].i].type = a.type
  BY DEF ReadyOk
<1> QED
  BY <1>1, <1>3, <1>4, <1>5, <1>6

LEMMA ReadyNext ==
    ASSUME RefInv', ~ panicked', NEW q \in Procs, ReadyOk(todo'[q], arg'[q], itab, mem),
           \A i \in Inodes : mem'[i] # NULL => itab'[i].type = itab[i].type \/ itab[i].type = "invalid",
           \A i \in Inodes : Loaded(mem, i) /\ mem'[i] # NULL =>
              mem'[i].valid /\ (mem[i].e.type # "invalid" => mem'[i].e.type # "invalid")
    PROVE  ReadyOk(todo'[q], arg'[q], itab', mem')
<1>1. PICK t, a, I, m, I2, m2 :
        t = todo'[q] /\ a = arg'[q] /\ I = itab /\ m = mem /\ I2 = itab' /\ m2 = mem'
  OBVIOUS
<1>2. ReadyOk(t, a, I, m)
  BY <1>1
<1>3. t \in Seq(StepRec) /\ ScriptOk(t, a)
  BY <1>1 DEF RefInv, CallOk, ScriptOk
<1>4. \A k \in 1 .. Len(t) : t[k] \in StepRec
  BY <1>3
<1>5. \A k \in 1 .. Len(t) : t[k].i \in Inodes
  BY <1>4 DEF StepRec
<1>6. \A k \in 1 .. Len(t) : t[k].op \in ParentOps => a.dp \in Inodes
  BY <1>3 DEF ScriptOk, ParentArg
<1>7. \A k \in 1 .. Len(t) : t[k].op = "make" => a.type # "invalid"
  BY <1>3 DEF ScriptOk, ParentArg, ParentOps
<1>8. \A k \in 1 .. Len(t) : m2[t[k].i] # NULL
  BY <1>1, <1>5, Gone
<1>9. \A k \in 1 .. Len(t) : t[k].op \in ParentOps => m2[a.dp] # NULL
  BY <1>1, <1>6, Gone
<1>10. /\ \A i \in Inodes : m2[i] # NULL => I2[i].type = I[i].type \/ I[i].type = "invalid"
       /\ \A i \in Inodes : Loaded(m, i) /\ m2[i] # NULL =>
             m2[i].valid /\ (m[i].e.type # "invalid" => m2[i].e.type # "invalid")
  BY <1>1
<1>11. ReadyOk(t, a, I2, m2)
  BY <1>2, <1>5, <1>6, <1>7, <1>8, <1>9, <1>10, ReadyStays
<1> QED
  BY <1>1, <1>11

\* The script of p changes to s; p's lock changes are its own.
LEMMA DirStep ==
    ASSUME RefInv, RefInv', DirInv, ~ panicked, ~ panicked', NEW p \in Procs, NEW s,
           todo' = [todo EXCEPT ![p] = s], \A q \in Procs \ {p} : arg'[q] = arg[q],
           \A i \in Inodes : mem'[i] # NULL => itab'[i].type = itab[i].type \/ itab[i].type = "invalid",
           \A i \in Inodes : Loaded(mem, i) /\ mem'[i] # NULL =>
              mem'[i].valid /\ (mem[i].e.type # "invalid" => mem'[i].e.type # "invalid"),
           ShapeOk(s), ReadyOk(s, arg'[p], itab', mem'), EntriesOk', Acyclic(EdgesIn(dirs', todo', arg')),
           \A i \in Inodes : mem'[i] # NULL =>
              \/ mem'[i].lock >= 0 /\ (mem'[i].lock = 0 => WillUnlock(s, arg'[p], i))
              \/ /\ mem[i] # NULL /\ mem'[i].lock = mem[i].lock
                 /\ WillUnlock(todo[p], arg[p], i) => WillUnlock(s, arg'[p], i)
    PROVE  DirInv'
<1>1. todo \in [Procs -> Seq(StepRec)]
  BY DEF RefInv, TypesOk
<1>2. todo'[p] = s /\ \A q \in Procs \ {p} : todo'[q] = todo[q]
  BY <1>1
<1>3. LocksOk'
  <2> SUFFICES ASSUME NEW i \in Inodes, mem'[i] # NULL
               PROVE  /\ mem'[i].lock >= 0
                      /\ mem'[i].lock = 0 => \E q \in Procs : WillUnlock(todo'[q], arg'[q], i)
    BY DEF LocksOk
  <2>1. CASE mem'[i].lock >= 0 /\ (mem'[i].lock = 0 => WillUnlock(s, arg'[p], i))
    BY <1>2, <2>1
  <2>2. CASE /\ mem[i] # NULL /\ mem'[i].lock = mem[i].lock
             /\ WillUnlock(todo[p], arg[p], i) => WillUnlock(s, arg'[p], i)
    <3>1. /\ mem[i].lock >= 0
          /\ mem[i].lock = 0 => \E q \in Procs : WillUnlock(todo[q], arg[q], i)
      BY <2>2 DEF DirInv, LocksOk
    <3>2. \A q \in Procs : WillUnlock(todo[q], arg[q], i) => WillUnlock(todo'[q], arg'[q], i)
      <4> TAKE q \in Procs
      <4>1. CASE q = p
        BY <1>2, <2>2, <4>1
      <4>2. CASE q # p
        BY <1>2, <4>2
      <4> QED
        BY <4>1, <4>2
    <3> QED
      BY <2>2, <3>1, <3>2
  <2> QED
    BY <2>1, <2>2
<1>4. ASSUME NEW q \in Procs, q # p PROVE ReadyOk(todo'[q], arg'[q], itab', mem')
  <2>1. ReadyOk(todo'[q], arg'[q], itab, mem)
    BY <1>2, <1>4 DEF DirInv
  <2> QED
    BY <2>1, ReadyNext
<1>5. \A q \in Procs : ShapeOk(todo'[q]) /\ ReadyOk(todo'[q], arg'[q], itab', mem')
  <2> TAKE q \in Procs
  <2>1. CASE q = p
    BY <1>2, <2>1
  <2>2. CASE q # p
    BY <1>2, <1>4, <2>2 DEF DirInv
  <2> QED
    BY <2>1, <2>2
<1> QED
  BY <1>3, <1>5 DEF DirInv

\* What no directory loses or gains and no inode in memory forgets, but for
\* an inode that is freed.
Mild ==
    \A i \in Inodes :
        /\ (itab'[i] = itab[i] /\ dirs'[i] = dirs[i]) \/ (mem'[i] = NULL /\ itab'[i] = Free /\ dirs'[i] = {})
        /\ mem'[i] # NULL => /\ Loaded(mem, i) => mem'[i].valid /\ mem'[i].e = mem[i].e
                             /\ ~ Loaded(mem, i) /\ mem'[i].valid => mem'[i].e = itab[i]

LEMMA MildStep ==
    ASSUME RefInv, RefInv', DirInv, ~ panicked, ~ panicked', NEW p \in Procs, NEW s,
           todo' = [todo EXCEPT ![p] = s], \A q \in Procs \ {p} : arg'[q] = arg[q], Mild,
           ShapeOk(s), ReadyOk(s, arg'[p], itab', mem'),
           \A i \in Inodes : MakeOn(todo[p], i) => MakeOn(s, i),
           \A i \in Inodes : ParentIs(s, arg'[p], i) => ParentIs(todo[p], arg[p], i) \/ itab[i].links # 0,
           \A i, j \in Inodes : LooksAt(s, arg'[p], i, j) =>
              LooksAt(todo[p], arg[p], i, j) \/ \E y \in dirs[i] : y[2] = j,
           \A i \in Inodes : mem'[i] # NULL =>
              \/ mem'[i].lock >= 0 /\ (mem'[i].lock = 0 => WillUnlock(s, arg'[p], i))
              \/ /\ mem[i] # NULL /\ mem'[i].lock = mem[i].lock
                 /\ WillUnlock(todo[p], arg[p], i) => WillUnlock(s, arg'[p], i)
    PROVE  DirInv'
<1>1. todo \in [Procs -> Seq(StepRec)]
  BY DEF RefInv, TypesOk
<1>2. todo'[p] = s /\ \A q \in Procs \ {p} : todo'[q] = todo[q]
  BY <1>1
<1>3. EntriesOk
  BY DEF DirInv
<1>4. EntriesOk'
  <2> SUFFICES ASSUME NEW i \in Inodes
               PROVE  /\ dirs'[i] # {} => itab'[i].type = "dir"
                      /\ itab'[i].type = "invalid" => itab'[i] = Free
                      /\ Loaded(mem', i) /\ mem'[i].e # itab'[i] =>
                           /\ mem'[i].e = Free /\ itab'[i].links = 0
                           /\ \A q \in Procs : ~ ParentIs(todo'[q], arg'[q], i)
                           /\ \E q \in Procs : MakeOn(todo'[q], i)
    BY DEF EntriesOk
  <2>1. (dirs'[i] # {} => itab'[i].type = "dir") /\ (itab'[i].type = "invalid" => itab'[i] = Free)
    BY <1>3 DEF Mild, EntriesOk
  <2>2. ASSUME Loaded(mem', i), mem'[i].e # itab'[i]
        PROVE  /\ mem'[i].e = Free /\ itab'[i].links = 0
               /\ \A q \in Procs : ~ ParentIs(todo'[q], arg'[q], i)
               /\ \E q \in Procs : MakeOn(todo'[q], i)
    <3>1. itab'[i] = itab[i] /\ Loaded(mem, i) /\ mem'[i].e = mem[i].e
      BY <2>2 DEF Mild, Loaded
    <3>2. /\ mem[i].e = Free /\ itab[i].links = 0
          /\ \A q \in Procs : ~ ParentIs(todo[q], arg[q], i)
          /\ \E q \in Procs : MakeOn(todo[q], i)
      BY <1>3, <2>2, <3>1 DEF EntriesOk
    <3>3. \A q \in Procs : ~ ParentIs(todo'[q], arg'[q], i)
      <4> TAKE q \in Procs
      <4>1. CASE q = p
        BY <1>2, <3>2, <4>1
      <4>2. CASE q # p
        BY <1>2, <3>2, <4>2
      <4> QED
        BY <4>1, <4>2
    <3>4. PICK q \in Procs : MakeOn(todo[q], i)
      BY <3>2
    <3>5. MakeOn(todo'[q], i)
      <4>1. CASE q = p
        BY <1>2, <3>4, <4>1
      <4>2. CASE q # p
        BY <1>2, <3>4, <4>2
      <4> QED
        BY <4>1, <4>2
    <3> QED
      BY <3>1, <3>2, <3>3, <3>5
  <2> QED
    BY <2>1, <2>2
<1>5. Acyclic(EdgesIn(dirs', todo', arg'))
  <2>1. EdgesIn(dirs', todo', arg') \subseteq EdgesIn(dirs, todo, arg)
    <3> SUFFICES ASSUME NEW x \in Inodes \X Inodes,
                        \/ \E y \in dirs'[x[1]] : y[2] = x[2]
                        \/ \E q \in Procs : LooksAt(todo'[q], arg'[q], x[1], x[2])
                 PROVE  \/ \E y \in dirs[x[1]] : y[2] = x[2]
                        \/ \E q \in Procs : LooksAt(todo[q], arg[q], x[1], x[2])
      BY DEF EdgesIn
    <3>1. PICK i \in Inodes, j \in Inodes : i = x[1] /\ j = x[2]
      OBVIOUS
    <3>2. CASE \E y \in dirs'[i] : y[2] = j
      BY <3>1, <3>2 DEF Mild
    <3>3. CASE \E q \in Procs : LooksAt(todo'[q], arg'[q], i, j)
      <4>1. PICK q \in Procs : LooksAt(todo'[q], arg'[q], i, j)
        BY <3>3
      <4>2. CASE q = p
        BY <1>2, <3>1, <4>1, <4>2
      <4>3. CASE q # p
        BY <1>2, <3>1, <4>1, <4>3
      <4> QED
        BY <4>2, <4>3
    <3> QED
      BY <3>1, <3>2, <3>3
  <2> QED
    BY <2>1, AcyclicLess DEF DirInv
<1>6. \A i \in Inodes : mem'[i] # NULL => itab'[i].type = itab[i].type \/ itab[i].type = "invalid"
  BY DEF Mild
<1>7. \A i \in Inodes : Loaded(mem, i) /\ mem'[i] # NULL =>
         mem'[i].valid /\ (mem[i].e.type # "invalid" => mem'[i].e.type # "invalid")
  BY DEF Mild
<1> QED
  BY <1>4, <1>5, <1>6, <1>7, DirStep

\* The same, when what is left of the script was in order already.
LEMMA MildTail ==
    ASSUME RefInv, RefInv', DirInv, ~ panicked, ~ panicked', NEW p \in Procs, NEW s,
           todo' = [todo EXCEPT ![p] = s], \A q \in Procs \ {p} : arg'[q] = arg[q], Mild,
           ShapeOk(s), ReadyOk(s, arg'[p], itab, mem),
           \A i \in Inodes : MakeOn(todo[p], i) => MakeOn(s, i),
           \A i \in Inodes : ParentIs(s, arg'[p], i) => ParentIs(todo[p], arg[p], i) \/ itab[i].links # 0,
           \A i, j \in Inodes : LooksAt(s, arg'[p], i, j) =>
              LooksAt(todo[p], arg[p], i, j) \/ \E y \in dirs[i] : y[2] = j,
           \A i \in Inodes : mem'[i] # NULL =>
              \/ mem'[i].lock >= 0 /\ (mem'[i].lock = 0 => WillUnlock(s, arg'[p], i))
              \/ /\ mem[i] # NULL /\ mem'[i].lock = mem[i].lock
                 /\ WillUnlock(todo[p], arg[p], i) => WillUnlock(s, arg'[p], i)
    PROVE  DirInv'
<1>1. todo'[p] = s
  BY DEF RefInv, TypesOk
<1>2. \A i \in Inodes : mem'[i] # NULL => itab'[i].type = itab[i].type \/ itab[i].type = "invalid"
  BY DEF Mild
<1>3. \A i \in Inodes : Loaded(mem, i) /\ mem'[i] # NULL =>
         mem'[i].valid /\ (mem[i].e.type # "invalid" => mem'[i].e.type # "invalid")
  BY DEF Mild
<1>4. ReadyOk(s, arg'[p], itab', mem')
  BY <1>1, <1>2, <1>3, ReadyNext
<1> QED
  BY <1>4, MildStep

\* The rest of a script whose first step is no lock.
LEMMA TailIs ==
    ASSUME NEW s \in Seq(StepRec), s # <<>>, ShapeOk(s), s[1].op # "lock", NEW t, t = Tail(s)
    PROVE  /\ t \in Seq(StepRec) /\ ShapeOk(t)
           /\ \A k \in 1 .. Len(t) : t[k] = s[k + 1] /\ k + 1 \in 1 .. Len(s)
           /\ \A k \in 1 .. Len(t) : t[k].op \notin ParentOps /\ t[k].op # "lock"
           /\ \A a, I, m, b : ReadyOk(s, a, I, m) => ReadyOk(t, b, I, m)
           /\ \A i, j, a : ~ MakeOn(t, i) /\ ~ ParentIs(t, a, i) /\ ~ LooksAt(t, a, i, j)
           /\ \A i, j, a : s[1].op \notin ParentOps =>
                 ~ MakeOn(s, i) /\ ~ ParentIs(s, a, i) /\ ~ LooksAt(s, a, i, j)
           /\ \A a, b, i : WillUnlock(s, a, i) /\ (s[1].op \in Unlockers => s[1].i # i) /\ s[1].op \notin ParentOps
                 => WillUnlock(t, b, i)
<1>1. t \in Seq(StepRec) /\ Len(t) = Len(s) - 1 /\ Len(s) \in Nat /\ Len(t) \in Nat /\ Len(s) > 0
  BY HeadTailProperties
<1>2. \A k \in 1 .. Len(t) : t[k] = s[k + 1] /\ k + 1 \in 1 .. Len(s) /\ k + 1 # 1
  BY <1>1
<1>3. \A k \in 1 .. Len(t) : t[k].op \notin ParentOps /\ t[k].op # "lock"
  BY <1>2 DEF ShapeOk
<1>4. ShapeOk(t)
  BY <1>3 DEF ShapeOk
<1>5. DpOps \subseteq ParentOps /\ {"find", "look", "make"} \subseteq ParentOps
  BY DEF DpOps, ParentOps
<1>6. ASSUME NEW a, NEW I, NEW m, NEW b, ReadyOk(s, a, I, m) PROVE ReadyOk(t, b, I, m)
  <2>1. \A k \in 1 .. Len(t) : t[k].op = "drop" => Loaded(m, t[k].i) /\ m[t[k].i].e.type # "invalid"
    BY <1>2, <1>6 DEF ReadyOk
  <2>2. \A k \in 1 .. Len(t) : t[k].op \notin DpOps /\ t[k].op \notin {"find", "look"} /\ t[k].op # "make"
    BY <1>3, <1>5
  <2> QED
    BY <1>3, <2>1, <2>2 DEF ReadyOk
<1>7. \A i, j, a : ~ MakeOn(t, i) /\ ~ ParentIs(t, a, i) /\ ~ LooksAt(t, a, i, j)
  BY <1>3, <1>5 DEF MakeOn, ParentIs, LooksAt
<1>8. ASSUME s[1].op \notin ParentOps
      PROVE  \A k \in 1 .. Len(s) : s[k].op \notin ParentOps
  BY <1>8 DEF ShapeOk
<1>9. \A i, j, a : s[1].op \notin ParentOps =>
         ~ MakeOn(s, i) /\ ~ ParentIs(s, a, i) /\ ~ LooksAt(s, a, i, j)
  BY <1>5, <1>8 DEF MakeOn, ParentIs, LooksAt
<1>10. ASSUME NEW a, NEW b, NEW i, WillUnlock(s, a, i), s[1].op \in Unlockers => s[1].i # i,
              s[1].op \notin ParentOps
       PROVE  WillUnlock(t, b, i)
  <2>1. PICK k \in 1 .. Len(s) : \/ s[k].op \in Unlockers /\ s[k].i = i /\ s[1].op # "lock"
                                 \/ s[k].op \in DpOps /\ a.dp = i
    BY <1>10 DEF WillUnlock
  <2>2. s[k].op \in Unlockers /\ s[k].i = i
    BY <1>5, <1>8, <1>10, <2>1
  <2>3. k # 1
    BY <1>10, <2>2
  <2>4. k - 1 \in 1 .. Len(t) /\ (k - 1) + 1 = k
    BY <1>1, <2>3
  <2>5. t[k - 1] = s[k] /\ 1 \in 1 .. Len(t)
    BY <1>1, <1>2, <2>4
  <2>6. t[1].op # "lock"
    BY <1>3, <2>5
  <2> QED
    BY <2>2, <2>4, <2>5, <2>6 DEF WillUnlock
<1> QED
  BY <1>1, <1>2, <1>3, <1>4, <1>6, <1>7, <1>9, <1>10

LEMMA RestIs ==
    ASSUME RefInv, ~ panicked, NEW p \in Procs, NEW s, Rest(p, s)
    PROVE  /\ todo' = [todo EXCEPT ![p] = s] /\ todo'[p] = s
           /\ \A q \in Procs \ {p} : arg'[q] = arg[q]
           /\ s # <<>> => arg' = arg
  BY DEF Rest, RefInv, TypesOk

\* The first step of a script is done, and it is no lock.
LEMMA TailStep ==
    ASSUME RefInv, RefInv', DirInv, ~ panicked, ~ panicked', NEW p \in Procs, todo[p] # <<>>,
           NEW op, Head(todo[p]).op = op, op # "lock", op \notin ParentOps, Rest(p, Tail(todo[p])), Mild,
           \A j \in Inodes : mem'[j] # NULL =>
              \/ mem'[j].lock >= 0 /\ mem'[j].lock # 0
              \/ /\ mem[j] # NULL /\ mem'[j].lock = mem[j].lock
                 /\ op \in Unlockers => Head(todo[p]).i # j
    PROVE  DirInv'
<1>1. PICK s : s = todo[p]
  OBVIOUS
<1>2. s \in Seq(StepRec) /\ s # <<>> /\ Head(s) = s[1]
  BY <1>1 DEF RefInv, TypesOk
<1>3. ShapeOk(s) /\ ReadyOk(s, arg[p], itab, mem)
  BY <1>1 DEF DirInv
<1>4. PICK t : t = Tail(s)
  OBVIOUS
<1>5. /\ todo' = [todo EXCEPT ![p] = t] /\ \A q \in Procs \ {p} : arg'[q] = arg[q]
  BY <1>1, <1>4, RestIs
<1>6. PICK a, b : a = arg[p] /\ b = arg'[p]
  OBVIOUS
<1>7. s[1].op = op /\ s[1].i = Head(todo[p]).i
  BY <1>1, <1>2
<1>8. /\ ShapeOk(t)
      /\ \A c, I, m, d : ReadyOk(s, c, I, m) => ReadyOk(t, d, I, m)
      /\ \A j, k, c : ~ MakeOn(t, j) /\ ~ ParentIs(t, c, j) /\ ~ LooksAt(t, c, j, k)
      /\ \A j, k, c : s[1].op \notin ParentOps =>
            ~ MakeOn(s, j) /\ ~ ParentIs(s, c, j) /\ ~ LooksAt(s, c, j, k)
      /\ \A c, d, j : WillUnlock(s, c, j) /\ (s[1].op \in Unlockers => s[1].i # j) /\ s[1].op \notin ParentOps
            => WillUnlock(t, d, j)
  BY <1>2, <1>3, <1>4, <1>7, TailIs
<1>9. \A j : WillUnlock(s, a, j) /\ (op \in Unlockers => Head(todo[p]).i # j) => WillUnlock(t, b, j)
  BY <1>7, <1>8
<1>10. ReadyOk(t, b, itab, mem)
  BY <1>3, <1>8
<1>11. \A j, k : ~ ParentIs(t, b, j) /\ ~ LooksAt(t, b, j, k) /\ ~ MakeOn(s, j)
  BY <1>7, <1>8
<1>12. \A j \in Inodes : mem'[j] # NULL =>
          \/ mem'[j].lock >= 0 /\ (mem'[j].lock = 0 => WillUnlock(t, arg'[p], j))
          \/ /\ mem[j] # NULL /\ mem'[j].lock = mem[j].lock
             /\ WillUnlock(todo[p], arg[p], j) => WillUnlock(t, arg'[p], j)
  BY <1>1, <1>6, <1>9
<1> QED
  BY <1>1, <1>5, <1>6, <1>8, <1>10, <1>11, <1>12, MildTail

LEMMA UnlockDir == ASSUME RefInv, RefInv', DirInv, NEW p \in Procs, Unlock(p) PROVE DirInv'
<1>1. /\ At(p, "unlock") /\ Rest(p, Tail(todo[p])) /\ ~ panicked /\ ~ panicked'
      /\ itab' = itab /\ dirs' = dirs
  BY DEF Unlock, At
<1>2. PICK i, s : i = Head(todo[p]).i /\ s = todo[p]
  OBVIOUS
<1>3. i \in Inodes /\ mem[i] # NULL /\ mem[i] \in MemInode
  BY <1>1, <1>2, PassStep
<1>4. mem \in MemTable /\ s \in Seq(StepRec) /\ s # <<>>
  BY <1>1, <1>2 DEF RefInv, TypesOk, MemTable, At
<1>5. s[1].op = "unlock" /\ s[1].i = i
  BY <1>1, <1>2, <1>4 DEF At
<1>6. PICK y \in MemInode : y = mem[i]
  BY <1>3
<1>7. PICK x : x = [y EXCEPT !.lock = @ + 1, !.by = NULL]
  OBVIOUS
<1>8. x = [rc |-> y.rc, lock |-> y.lock + 1, by |-> NULL, valid |-> y.valid, e |-> y.e]
  BY <1>7, UnlockedInode, Zenon
<1>9. x.lock = y.lock + 1 /\ x.valid = y.valid /\ x.e = y.e /\ y.lock \in Int
  BY <1>6, <1>8, Zenon DEF MemInode
<1>10. mem' = [mem EXCEPT ![i] = x]
  BY <1>1, <1>2, <1>3, <1>4, <1>6, <1>7 DEF Unlock, MemTable
<1>11. mem'[i] = x /\ \A j \in Inodes : j # i => mem'[j] = mem[j]
  BY <1>3, <1>4, <1>10 DEF MemTable
<1>12. Mild
  <2> SUFFICES ASSUME NEW j \in Inodes
               PROVE  mem'[j] # NULL => /\ Loaded(mem, j) => mem'[j].valid /\ mem'[j].e = mem[j].e
                                        /\ ~ Loaded(mem, j) /\ mem'[j].valid => mem'[j].e = itab[j]
    BY <1>1 DEF Mild
  <2>1. CASE j = i
    BY <1>3, <1>6, <1>9, <1>11, <2>1 DEF Loaded
  <2>2. CASE j # i
    BY <1>11, <2>2 DEF Loaded
  <2> QED
    BY <2>1, <2>2
<1>13. \A j \in Inodes : mem'[j] # NULL =>
          \/ mem'[j].lock >= 0 /\ mem'[j].lock # 0
          \/ /\ mem[j] # NULL /\ mem'[j].lock = mem[j].lock
             /\ "unlock" \in Unlockers => Head(todo[p]).i # j
  <2>1. mem[i].lock >= 0
    BY <1>1, <1>3 DEF DirInv, LocksOk
  <2>2. mem'[i].lock >= 0 /\ mem'[i].lock # 0
    BY <1>6, <1>9, <1>11, <2>1
  <2> QED
    BY <1>2, <1>11, <2>2
<1> QED
  BY <1>1, <1>12, <1>13, TailStep DEF At, ParentOps

\* inode_get and inode_put change no entry, but for an inode that is freed.
LEMMA GotKeeps ==
    ASSUME RefInv, ~ panicked, NEW i \in Inodes, mem' = Got(mem, i)
    PROVE  \A j \in Inodes : mem'[j] # NULL =>
              /\ \/ mem'[j].lock >= 0 /\ mem'[j].lock # 0
                 \/ mem[j] # NULL /\ mem'[j].lock = mem[j].lock
              /\ Loaded(mem, j) => mem'[j].valid /\ mem'[j].e = mem[j].e
              /\ ~ Loaded(mem, j) => ~ mem'[j].valid
<1>1. NULL \notin MemInode /\ mem \in MemTable
  BY NullAssumption DEF RefInv, TypesOk, MemTable
<1>2. PICK x : mem' = [mem EXCEPT ![i] = x]
               /\ (mem[i] = NULL => x = NewInode) /\ (mem[i] # NULL => x = [mem[i] EXCEPT !.rc = @ + 1])
  <2>1. CASE mem[i] = NULL
    BY <2>1 DEF Got
  <2>2. CASE mem[i] # NULL
    <3>1. mem' = [mem EXCEPT ![i] = [mem[i] EXCEPT !.rc = @ + 1]]
      BY <1>1, <2>2 DEF Got
    <3> QED
      BY <2>2, <3>1
  <2> QED
    BY <2>1, <2>2
<1>3. mem'[i] = x /\ \A j \in Inodes : j # i => mem'[j] = mem[j]
  BY <1>1, <1>2 DEF MemTable
<1>4. mem[i] = NULL => x.lock = 1 /\ x.valid = FALSE
  BY <1>2 DEF NewInode
<1>5. mem[i] # NULL => x.lock = mem[i].lock /\ x.valid = mem[i].valid /\ x.e = mem[i].e
  <2>1. mem[i] # NULL => mem[i] \in MemInode
    BY <1>1 DEF MemTable
  <2> QED
    BY <1>2, <2>1 DEF MemInode
<1> QED
  BY <1>3, <1>4, <1>5 DEF Loaded

LEMMA GotMild ==
    ASSUME RefInv, ~ panicked, NEW i \in Inodes, mem' = Got(mem, i), itab' = itab, dirs' = dirs
    PROVE  /\ Mild
           /\ \A j \in Inodes : mem'[j] # NULL =>
                 \/ mem'[j].lock >= 0 /\ mem'[j].lock # 0
                 \/ mem[j] # NULL /\ mem'[j].lock = mem[j].lock
  BY GotKeeps DEF Mild

LEMMA PutMild ==
    ASSUME RefInv, ~ panicked, NEW i \in Inodes, mem[i] # NULL, PutInode(i)
    PROVE  /\ Mild
           /\ \A j \in Inodes : mem'[j] # NULL => mem[j] # NULL /\ mem'[j].lock = mem[j].lock
<1>1. NULL \notin MemInode /\ mem \in MemTable
  BY NullAssumption DEF RefInv, TypesOk, MemTable
<1>2. mem[i] \in MemInode /\ DOMAIN itab = Inodes /\ DOMAIN dirs = Inodes
  BY <1>1 DEF MemTable, RefInv, TypesOk
<1>3. PICK links : IF LastPut(i, links)
                   THEN /\ itab' = [itab EXCEPT ![i] = Free]
                        /\ dirs' = [dirs EXCEPT ![i] = {}]
                        /\ mem' = [mem EXCEPT ![i] = NULL]
                   ELSE /\ mem' = [mem EXCEPT ![i].rc = @ - 1]
                        /\ UNCHANGED <<itab, dirs>>
  BY DEF PutInode
<1>4. CASE LastPut(i, links)
  <2>1. mem'[i] = NULL /\ itab'[i] = Free /\ dirs'[i] = {}
    BY <1>1, <1>2, <1>3, <1>4 DEF MemTable
  <2>2. \A j \in Inodes : j # i => mem'[j] = mem[j] /\ itab'[j] = itab[j] /\ dirs'[j] = dirs[j]
    BY <1>1, <1>2, <1>3, <1>4 DEF MemTable
  <2>3. Mild
    <3> SUFFICES ASSUME NEW j \in Inodes
                 PROVE  /\ \/ itab'[j] = itab[j] /\ dirs'[j] = dirs[j]
                           \/ mem'[j] = NULL /\ itab'[j] = Free /\ dirs'[j] = {}
                        /\ mem'[j] # NULL => /\ Loaded(mem, j) => mem'[j].valid /\ mem'[j].e = mem[j].e
                                             /\ ~ Loaded(mem, j) /\ mem'[j].valid => mem'[j].e = itab[j]
      BY DEF Mild
    <3> QED
      BY <2>1, <2>2 DEF Loaded
  <2> QED
    BY <2>1, <2>2, <2>3
<1>5. CASE ~ LastPut(i, links)
  <2>1. PICK x : x = [mem[i] EXCEPT !.rc = @ - 1]
    OBVIOUS
  <2>2. x.lock = mem[i].lock /\ x.valid = mem[i].valid /\ x.e = mem[i].e
    BY <1>2, <2>1 DEF MemInode
  <2>3. mem' = [mem EXCEPT ![i] = x] /\ itab' = itab /\ dirs' = dirs
    BY <1>3, <1>5, <2>1
  <2>4. mem'[i] = x /\ \A j \in Inodes : j # i => mem'[j] = mem[j]
    BY <1>1, <2>3 DEF MemTable
  <2>5. \A j \in Inodes : mem'[j] # NULL =>
           /\ mem[j] # NULL /\ mem'[j].lock = mem[j].lock /\ mem'[j].valid = mem[j].valid /\ mem'[j].e = mem[j].e
    <3> TAKE j \in Inodes
    <3>1. CASE j = i
      BY <2>2, <2>4, <3>1
    <3>2. CASE j # i
      BY <2>4, <3>2
    <3> QED
      BY <3>1, <3>2
  <2>6. Mild
    BY <2>3, <2>5 DEF Mild, Loaded
  <2> QED
    BY <2>5, <2>6
<1> QED
  BY <1>4, <1>5

LEMMA PutDir == ASSUME RefInv, RefInv', DirInv, NEW p \in Procs, Put(p) PROVE DirInv'
<1>1. /\ At(p, "put") /\ PutInode(Head(todo[p]).i) /\ Rest(p, Tail(todo[p]))
      /\ ~ panicked /\ ~ panicked'
  BY DEF Put, At
<1>2. PICK s, i : s = todo[p] /\ i = Head(todo[p]).i
  OBVIOUS
<1>3. s \in Seq(StepRec) /\ s # <<>> /\ Head(s).op = "put"
  BY <1>1, <1>2 DEF At, RefInv, TypesOk
<1>4. 1 \in 1 .. Len(s) /\ s[1] \in StepRec /\ Head(s) = s[1]
  BY <1>3
<1>5. i \in Inodes /\ Keeps(s, arg[p], 1, i)
  BY <1>2, <1>3, <1>4 DEF StepRec, Keeps, HoldOps
<1>6. mem[i] # NULL
  BY <1>1, <1>2, <1>4, <1>5, Referenced
<1>7. Mild /\ \A j \in Inodes : mem'[j] # NULL => mem[j] # NULL /\ mem'[j].lock = mem[j].lock
  BY <1>1, <1>2, <1>5, <1>6, PutMild
<1>8. "put" # "lock" /\ "put" \notin ParentOps /\ "put" \notin Unlockers
  BY DEF ParentOps, Unlockers, LastOps
<1> QED
  BY <1>1, <1>2, <1>3, <1>7, <1>8, TailStep

\* Scripts of one step, and of a lock and one step.
SingleFacts(s, a, op, i) ==
    /\ ShapeOk(s) /\ s \in Seq(StepRec)
    /\ \A j : /\ MakeOn(s, j) <=> op = "make" /\ i = j
              /\ ParentIs(s, a, j) <=> op \in ParentOps /\ a.dp = j
              /\ WillUnlock(s, a, j) <=> (op \in Unlockers /\ i = j) \/ (op \in DpOps /\ a.dp = j)
    /\ \A j, k : LooksAt(s, a, j, k) <=> op \in DpOps /\ i = k /\ a.dp = j
    /\ \A I, m : ReadyOk(s, a, I, m) <=>
          /\ op \in ParentOps => I[a.dp].type = "dir" /\ Loaded(m, a.dp)
          /\ op \in DpOps => Loaded(m, i)
          /\ op = "drop" => Loaded(m, i) /\ m[i].e.type # "invalid"
          /\ op = "make" => I[i].type = a.type

LEMMA SingleIs ==
    ASSUME NEW op \in Ops, op # "lock", NEW i \in Inodes, NEW s, s = <<Step(op, i)>>, NEW a
    PROVE  SingleFacts(s, a, op, i)
<1>1. PICK x \in StepRec : x = Step(op, i)
  BY StepIs
<1>2. s \in Seq(StepRec) /\ Len(s) = 1 /\ s[1] = x /\ x.op = op /\ x.i = i
  BY <1>1, StepIs
<1>3. 1 \in 1 .. Len(s) /\ \A k \in 1 .. Len(s) : k = 1
  BY <1>2
<1>4. ParentOps = DpOps \cup {"find", "look"}
  BY DEF ParentOps, DpOps
<1>5. ShapeOk(s)
  BY <1>2, <1>3 DEF ShapeOk
<1>6. \A I, m : ReadyOk(s, a, I, m) <=>
         /\ op \in ParentOps => I[a.dp].type = "dir" /\ Loaded(m, a.dp)
         /\ op \in DpOps => Loaded(m, i)
         /\ op = "drop" => Loaded(m, i) /\ m[i].e.type # "invalid"
         /\ op = "make" => I[i].type = a.type
  BY <1>2, <1>3, <1>4 DEF ReadyOk
<1>7. \A j : MakeOn(s, j) <=> op = "make" /\ i = j
  BY <1>2, <1>3 DEF MakeOn
<1>8. \A j : ParentIs(s, a, j) <=> op \in ParentOps /\ a.dp = j
  BY <1>2, <1>3 DEF ParentIs
<1>9. \A j : WillUnlock(s, a, j) <=> (op \in Unlockers /\ i = j) \/ (op \in DpOps /\ a.dp = j)
  BY <1>2, <1>3 DEF WillUnlock
<1>10. \A j, k : LooksAt(s, a, j, k) <=> op \in DpOps /\ i = k /\ a.dp = j
  BY <1>2, <1>3 DEF LooksAt
<1> QED
  BY <1>2, <1>5, <1>6, <1>7, <1>8, <1>9, <1>10 DEF SingleFacts

PairFacts(s, a, op, i) ==
    /\ ShapeOk(s) /\ s \in Seq(StepRec)
    /\ \A j : /\ MakeOn(s, j) <=> op = "make" /\ i = j
              /\ ParentIs(s, a, j) <=> op \in ParentOps /\ a.dp = j
              /\ WillUnlock(s, a, j) <=> op \in DpOps /\ a.dp = j
    /\ \A j, k : LooksAt(s, a, j, k) <=> op \in DpOps /\ i = k /\ a.dp = j
    /\ \A I, m : ReadyOk(s, a, I, m) <=>
          /\ op \in ParentOps => I[a.dp].type = "dir"
          /\ op \in DpOps => Loaded(m, a.dp)
          /\ op = "make" => I[i].type = a.type

LEMMA PairIs ==
    ASSUME NEW op \in Unlockers, NEW i \in Inodes, NEW s, s = <<Step("lock", i), Step(op, i)>>, NEW a
    PROVE  PairFacts(s, a, op, i)
<1>1. "lock" \in Ops /\ op \in Ops
  BY DEF Ops, Unlockers, HoldOps
<1>2. PICK x \in StepRec, y \in StepRec : x = Step("lock", i) /\ y = Step(op, i)
  BY <1>1, StepIs
<1>3. /\ s \in Seq(StepRec) /\ Len(s) = 2 /\ s[1] = x /\ s[2] = y
      /\ x.op = "lock" /\ x.i = i /\ y.op = op /\ y.i = i
  BY <1>1, <1>2, StepIs
<1>4. 1 \in 1 .. Len(s) /\ 2 \in 1 .. Len(s) /\ \A k \in 1 .. Len(s) : k = 1 \/ k = 2
  BY <1>3
<1>5. /\ DpOps \subseteq ParentOps /\ "lock" \notin ParentOps /\ "lock" \notin DpOps /\ "lock" # "make"
      /\ "lock" \notin Unlockers /\ op # "lock" /\ op # "drop"
  BY DEF ParentOps, DpOps, Unlockers, LastOps
<1>6. ShapeOk(s)
  BY <1>3, <1>4, <1>5 DEF ShapeOk
<1>7. \A I, m : ReadyOk(s, a, I, m) <=>
         /\ op \in ParentOps => I[a.dp].type = "dir"
         /\ op \in DpOps => Loaded(m, a.dp)
         /\ op = "make" => I[i].type = a.type
  BY <1>3, <1>4, <1>5 DEF ReadyOk
<1>8. \A j : MakeOn(s, j) <=> op = "make" /\ i = j
  BY <1>3, <1>4, <1>5 DEF MakeOn
<1>9. \A j : ParentIs(s, a, j) <=> op \in ParentOps /\ a.dp = j
  BY <1>3, <1>4, <1>5 DEF ParentIs
<1>10. \A j : WillUnlock(s, a, j) <=> op \in DpOps /\ a.dp = j
  BY <1>3, <1>4, <1>5 DEF WillUnlock
<1>11. \A j, k : LooksAt(s, a, j, k) <=> op \in DpOps /\ i = k /\ a.dp = j
  BY <1>3, <1>4, <1>5 DEF LooksAt
<1> QED
  BY <1>3, <1>6, <1>7, <1>8, <1>9, <1>10, <1>11 DEF PairFacts

\* Scripts that only leave.
Leaves(s) == s \in Seq(StepRec) /\ \A k \in 1 .. Len(s) : s[k].op \in {"unlock", "put", "open", "swap", "drop"}

LEMMA LeavesIs ==
    ASSUME NEW s, Leaves(s), NEW a
    PROVE  /\ ShapeOk(s)
           /\ \A j, k : ~ MakeOn(s, j) /\ ~ ParentIs(s, a, j) /\ ~ LooksAt(s, a, j, k)
           /\ \A I, m : (\A k \in 1 .. Len(s) : s[k].op = "drop" => Loaded(m, s[k].i) /\ m[s[k].i].e.type # "invalid")
                 => ReadyOk(s, a, I, m)
           /\ \A k \in 1 .. Len(s) : s[k].op \in {"unlock", "open"} => WillUnlock(s, a, s[k].i)
<1>1. {"unlock", "put", "open", "swap", "drop"} \cap (ParentOps \cup DpOps \cup {"find", "look", "make", "lock"}) = {}
  BY DEF ParentOps, DpOps
<1>2. \A k \in 1 .. Len(s) : s[k].op \notin ParentOps /\ s[k].op \notin DpOps /\ s[k].op \notin {"find", "look"}
                             /\ s[k].op # "make" /\ s[k].op # "lock"
  BY <1>1 DEF Leaves
<1>3. ShapeOk(s)
  BY <1>2 DEF ShapeOk
<1>4. \A j, k : ~ MakeOn(s, j) /\ ~ ParentIs(s, a, j) /\ ~ LooksAt(s, a, j, k)
  BY <1>2 DEF MakeOn, ParentIs, LooksAt
<1>5. \A I, m : (\A k \in 1 .. Len(s) : s[k].op = "drop" => Loaded(m, s[k].i) /\ m[s[k].i].e.type # "invalid")
         => ReadyOk(s, a, I, m)
  BY <1>2 DEF ReadyOk
<1>6. \A k \in 1 .. Len(s) : s[k].op \in {"unlock", "open"} => WillUnlock(s, a, s[k].i)
  <2> SUFFICES ASSUME NEW k \in 1 .. Len(s), s[k].op \in {"unlock", "open"}
               PROVE  WillUnlock(s, a, s[k].i)
    OBVIOUS
  <2>1. s[k].op \in Unlockers
    BY DEF Unlockers, LastOps
  <2>2. Len(s) \in Nat
    BY DEF Leaves
  <2>3. s[1].op # "lock"
    BY <1>2, <2>2
  <2> QED
    BY <2>1, <2>3 DEF WillUnlock
<1> QED
  BY <1>3, <1>4, <1>5, <1>6

\* A call that works on i, and in the directory d, goes on to leave.
LEMMA LeaveDir ==
    ASSUME RefInv, RefInv', DirInv, ~ panicked, ~ panicked', NEW p \in Procs,
           NEW op \in LastOps, op \notin {"make", "swap"}, NEW i \in Inodes, todo[p] = <<Step(op, i)>>,
           NEW s, Leaves(s), \A k \in 1 .. Len(s) : s[k].op # "drop", Rest(p, s),
           \E k \in 1 .. Len(s) : s[k].op \in {"unlock", "open"} /\ s[k].i = i,
           op \in DpOps => \E k \in 1 .. Len(s) : s[k].op = "unlock" /\ s[k].i = arg[p].dp,
           itab' = itab, dirs' = dirs, mem' = mem
    PROVE  DirInv'
<1>1. op \in Ops /\ op # "lock"
  BY DEF Ops, HoldOps, LastOps
<1>2. PICK o, a, b : o = todo[p] /\ a = arg[p] /\ b = arg'[p]
  OBVIOUS
<1>3. SingleFacts(o, a, op, i)
  <2>1. o = <<Step(op, i)>>
    BY <1>2
  <2> QED
    BY <1>1, <2>1, SingleIs
<1>4. /\ ShapeOk(s)
      /\ \A j, k : ~ MakeOn(s, j) /\ ~ ParentIs(s, b, j) /\ ~ LooksAt(s, b, j, k)
      /\ \A I, m : (\A k \in 1 .. Len(s) : s[k].op = "drop" => Loaded(m, s[k].i) /\ m[s[k].i].e.type # "invalid")
            => ReadyOk(s, b, I, m)
      /\ \A k \in 1 .. Len(s) : s[k].op \in {"unlock", "open"} => WillUnlock(s, b, s[k].i)
  BY LeavesIs
<1>5. WillUnlock(s, b, i) /\ (op \in DpOps => WillUnlock(s, b, a.dp))
  BY <1>2, <1>4
<1>6. \A j \in Inodes : WillUnlock(o, a, j) => WillUnlock(s, b, j)
  BY <1>3, <1>5 DEF SingleFacts
<1>7. Mild
  BY DEF Mild, Loaded
<1>8. todo' = [todo EXCEPT ![p] = s] /\ \A q \in Procs \ {p} : arg'[q] = arg[q]
  BY RestIs
<1>9. ReadyOk(s, b, itab, mem)
  BY <1>4
<1>10. \A j \in Inodes : MakeOn(o, j) => MakeOn(s, j)
  BY <1>3 DEF SingleFacts
<1> QED
  BY <1>2, <1>4, <1>6, <1>7, <1>8, <1>9, <1>10, MildTail

\* What is left of a script is a sequence of steps.
LEMMA NextScript ==
    ASSUME RefInv, RefInv', ~ panicked, ~ panicked', NEW p \in Procs, NEW s, Rest(p, s)
    PROVE  s \in Seq(StepRec)
<1>1. todo'[p] = s
  BY RestIs
<1> QED
  BY <1>1 DEF RefInv, TypesOk

LEMMA StatDir == ASSUME RefInv, RefInv', DirInv, NEW p \in Procs, Stat(p) PROVE DirInv'
<1>1. At(p, "stat") /\ ~ panicked /\ ~ panicked' /\ itab' = itab /\ dirs' = dirs /\ mem' = mem
  BY DEF Stat, At, inodes
<1>2. PICK i : i = Head(todo[p]).i
  OBVIOUS
<1>3. "stat" \in LastOps /\ "stat" \notin {"make", "swap"} /\ "stat" \notin DpOps
  BY DEF LastOps, DpOps
<1>4. i \in Inodes /\ todo[p] = <<Step("stat", i)>>
  BY <1>1, <1>2, <1>3, AtLast
<1>5. PICK s : s = <<Step("unlock", i), Step("put", i)>>
  OBVIOUS
<1>6. Rest(p, s)
  BY <1>2, <1>5 DEF Stat
<1>7. s \in Seq(StepRec)
  BY <1>1, <1>6, NextScript
<1>8. Len(s) = 2 /\ s[1].op = "unlock" /\ s[1].i = i /\ s[2].op = "put"
  BY <1>5 DEF Step
<1>9. Leaves(s) /\ (\A k \in 1 .. Len(s) : s[k].op # "drop")
      /\ \E k \in 1 .. Len(s) : s[k].op \in {"unlock", "open"} /\ s[k].i = i
  BY <1>7, <1>8 DEF Leaves
<1> QED
  BY <1>1, <1>3, <1>4, <1>6, <1>9, LeaveDir

LEMMA EnterDir == ASSUME RefInv, RefInv', DirInv, NEW p \in Procs, Enter(p) PROVE DirInv'
<1>1. At(p, "enter") /\ ~ panicked /\ ~ panicked' /\ itab' = itab /\ dirs' = dirs /\ mem' = mem
  BY DEF Enter, At, inodes
<1>2. PICK i : i = Head(todo[p]).i
  OBVIOUS
<1>3. "enter" \in LastOps /\ "enter" \notin {"make", "swap"} /\ "enter" \notin DpOps
  BY DEF LastOps, DpOps
<1>4. i \in Inodes /\ todo[p] = <<Step("enter", i)>>
  BY <1>1, <1>2, <1>3, AtLast
<1>5. PICK o, s : o \in {"swap", "put"} /\ s = <<Step("unlock", i), Step(o, i)>> /\ Rest(p, s)
  BY <1>2 DEF Enter
<1>6. s \in Seq(StepRec)
  BY <1>1, <1>5, NextScript
<1>7. Len(s) = 2 /\ s[1].op = "unlock" /\ s[1].i = i /\ s[2].op = o
  BY <1>5 DEF Step
<1>8. Leaves(s) /\ (\A k \in 1 .. Len(s) : s[k].op # "drop")
      /\ \E k \in 1 .. Len(s) : s[k].op \in {"unlock", "open"} /\ s[k].i = i
  BY <1>5, <1>6, <1>7 DEF Leaves
<1> QED
  BY <1>1, <1>3, <1>4, <1>5, <1>8, LeaveDir

LEMMA OpenDir == ASSUME RefInv, RefInv', DirInv, NEW p \in Procs, Open(p) PROVE DirInv'
<1>1. At(p, "open") /\ ~ panicked /\ ~ panicked' /\ itab' = itab /\ dirs' = dirs /\ mem' = mem
  BY DEF Open, At, inodes
<1>2. PICK i : i = Head(todo[p]).i
  OBVIOUS
<1>3. "open" \in LastOps /\ "open" \notin {"make", "swap"} /\ "open" \notin DpOps
  BY DEF LastOps, DpOps
<1>4. i \in Inodes /\ todo[p] = <<Step("open", i)>>
  BY <1>1, <1>2, <1>3, AtLast
<1>5. PICK s : (s = <<Step("unlock", i)>> \/ s = <<Step("unlock", i), Step("put", i)>>) /\ Rest(p, s)
  BY <1>2 DEF Open
<1>6. s \in Seq(StepRec)
  BY <1>1, <1>5, NextScript
<1>7. Leaves(s) /\ (\A k \in 1 .. Len(s) : s[k].op # "drop")
      /\ \E k \in 1 .. Len(s) : s[k].op \in {"unlock", "open"} /\ s[k].i = i
  <2>1. CASE s = <<Step("unlock", i)>>
    <3>1. Len(s) = 1 /\ s[1].op = "unlock" /\ s[1].i = i
      BY <2>1 DEF Step
    <3> QED
      BY <1>6, <3>1 DEF Leaves
  <2>2. CASE s = <<Step("unlock", i), Step("put", i)>>
    <3>1. Len(s) = 2 /\ s[1].op = "unlock" /\ s[1].i = i /\ s[2].op = "put"
      BY <2>2 DEF Step
    <3> QED
      BY <1>6, <3>1 DEF Leaves
  <2> QED
    BY <1>5, <2>1, <2>2
<1> QED
  BY <1>1, <1>3, <1>4, <1>5, <1>7, LeaveDir

LEMMA ExistsDir == ASSUME RefInv, RefInv', DirInv, NEW p \in Procs, Exists(p) PROVE DirInv'
<1>1. At(p, "exists") /\ ~ panicked /\ ~ panicked' /\ itab' = itab /\ dirs' = dirs /\ mem' = mem
  BY DEF Exists, At, inodes
<1>2. PICK i : i = Head(todo[p]).i
  OBVIOUS
<1>3. "exists" \in LastOps /\ "exists" \notin {"make", "swap"} /\ "exists" \in DpOps /\ "exists" \in ParentOps
  BY DEF LastOps, DpOps, ParentOps
<1>4. i \in Inodes /\ todo[p] = <<Step("exists", i)>> /\ arg[p].dp \in Inodes
  BY <1>1, <1>2, <1>3, AtLast
<1>5. PICK d \in Inodes : d = arg[p].dp
  BY <1>4
<1>6. PICK s : /\ Rest(p, s)
               /\ \/ s = <<Step("unlock", d), Step("unlock", i), Step("put", d), Step("put", i)>>
                  \/ s = <<Step("unlock", d), Step("unlock", i), Step("put", d), Step("open", i)>>
                  \/ s = <<Step("unlock", d), Step("unlock", i), Step("put", d), Step("unlock", i),
                           Step("put", i)>>
  BY <1>2, <1>4, <1>5, ExistsScript, ZenonT(40)
<1>7. s \in Seq(StepRec)
  BY <1>1, <1>6, NextScript
<1>8. /\ Len(s) \in {4, 5} /\ s[1].op = "unlock" /\ s[1].i = d /\ s[2].op = "unlock" /\ s[2].i = i
      /\ s[3].op = "put" /\ s[4].op \in {"put", "open", "unlock"} /\ (Len(s) = 5 => s[5].op = "put")
  BY <1>6 DEF Step
<1>9. /\ Leaves(s) /\ (\A k \in 1 .. Len(s) : s[k].op # "drop")
      /\ \E k \in 1 .. Len(s) : s[k].op \in {"unlock", "open"} /\ s[k].i = i
      /\ \E k \in 1 .. Len(s) : s[k].op = "unlock" /\ s[k].i = d
  <2>1. /\ 1 \in 1 .. Len(s) /\ 2 \in 1 .. Len(s)
        /\ \A k \in 1 .. Len(s) : k = 1 \/ k = 2 \/ k = 3 \/ k = 4 \/ (k = 5 /\ Len(s) = 5)
    <3>1. PICK n : n = Len(s) /\ n \in {4, 5}
      BY <1>8
    <3>2. \A k \in 1 .. n : k = 1 \/ k = 2 \/ k = 3 \/ k = 4 \/ (k = 5 /\ n = 5)
      BY <3>1
    <3> QED
      BY <3>1, <3>2
  <2> QED
    BY <1>7, <1>8, <2>1 DEF Leaves
<1> QED
  BY <1>1, <1>3, <1>4, <1>5, <1>6, <1>9, LeaveDir

\* A call begins: it will lock i and then do op.
LEMMA BeginDir ==
    ASSUME RefInv, RefInv', DirInv, NEW p \in Procs, NEW i \in Inodes, NEW a, NEW op \in Unlockers,
           op \notin DpOps, NEW s, s = <<Step("lock", i), Step(op, i)>>, Begin(p, i, a, s),
           op \in ParentOps => a.dp = i /\ i \in Directories
    PROVE  DirInv'
<1>1. todo[p] = <<>> /\ ~ panicked /\ ~ panicked' /\ itab' = itab /\ dirs' = dirs
  BY DEF Begin, May
<1>2. CASE mem' = Got(mem, i) /\ todo' = [todo EXCEPT ![p] = s] /\ arg' = [arg EXCEPT ![p] = a]
  <2>1. arg'[p] = a /\ \A q \in Procs \ {p} : arg'[q] = arg[q]
    BY <1>1, <1>2 DEF RefInv, TypesOk
  <2>2. /\ Mild
        /\ \A j \in Inodes : mem'[j] # NULL =>
              \/ mem'[j].lock >= 0 /\ mem'[j].lock # 0
              \/ mem[j] # NULL /\ mem'[j].lock = mem[j].lock
    BY <1>1, <1>2, GotMild
  <2>3. PICK I, m : I = itab /\ m = mem
    OBVIOUS
  <2>4. PairFacts(s, a, op, i)
    BY PairIs
  <2>5. op \in ParentOps => itab[i].type = "dir" /\ itab[i].links # 0
    <3>1. itab \in [Inodes -> [type : Types, links : Int]]
      BY <1>1 DEF RefInv, TypesOk
    <3> QED
      BY <3>1 DEF Directories
  <2>6. op # "make"
    BY DEF DpOps
  <2>7. ReadyOk(s, a, itab, mem)
    BY <2>3, <2>4, <2>5, <2>6 DEF PairFacts
  <2>8. \A j : ~ MakeOn(todo[p], j) /\ \A b : ~ WillUnlock(todo[p], b, j)
    BY <1>1 DEF MakeOn, WillUnlock
  <2>9. \A j \in Inodes : ParentIs(s, a, j) => itab[j].links # 0
    BY <2>4, <2>5 DEF PairFacts
  <2>10. \A j, k : ~ LooksAt(s, a, j, k)
    BY <2>4 DEF PairFacts
  <2>11. \A j \in Inodes : ParentIs(s, arg'[p], j) => ParentIs(todo[p], arg[p], j) \/ itab[j].links # 0
    BY <2>1, <2>9
  <2>12. ReadyOk(s, arg'[p], itab, mem) /\ \A j, k : ~ LooksAt(s, arg'[p], j, k)
    BY <2>1, <2>7, <2>10
  <2>13. \A j \in Inodes : mem'[j] # NULL =>
            \/ mem'[j].lock >= 0 /\ (mem'[j].lock = 0 => WillUnlock(s, arg'[p], j))
            \/ /\ mem[j] # NULL /\ mem'[j].lock = mem[j].lock
               /\ WillUnlock(todo[p], arg[p], j) => WillUnlock(s, arg'[p], j)
    BY <2>2, <2>8
  <2>14. \A j \in Inodes : MakeOn(todo[p], j) => MakeOn(s, j)
    BY <2>8
  <2>15. ShapeOk(s)
    BY <2>4 DEF PairFacts
  <2> QED
    BY <1>1, <1>2, <2>1, <2>2, <2>11, <2>12, <2>13, <2>14, <2>15, MildTail
<1>3. CASE UNCHANGED <<mem, todo, arg>>
  <2>1. DirInv' <=> DirInv
    BY <1>1, <1>3 DEF DirInv, EntriesOk, LocksOk
  <2> QED
    BY <2>1
<1> QED
  BY <1>2, <1>3 DEF Begin

LEMMA CallsDir ==
    ASSUME RefInv, RefInv', DirInv, NEW p \in Procs,
           Openat(p) \/ Mkdirat(p) \/ Mknodat(p) \/ Unlinkat(p) \/ Chdir(p) \/ Newfstatat(p)
    PROVE  DirInv'
<1>1. ASSUME NEW call, NEW type, NEW op \in {"find", "look"}, Parent(p, call, op, type) PROVE DirInv'
  <2>1. PICK d \in Directories, name \in Names :
          Begin(p, d, [call |-> call, dp |-> d, name |-> name, type |-> type],
                <<Step("lock", d), Step(op, d)>>)
    BY <1>1 DEF Parent
  <2>2. PICK a, s : /\ a = [call |-> call, dp |-> d, name |-> name, type |-> type]
                    /\ s = <<Step("lock", d), Step(op, d)>>
    OBVIOUS
  <2>3. a.dp = d /\ op \in Unlockers /\ op \notin DpOps /\ d \in Inodes
    BY <2>2, DirectoryIs DEF Unlockers, LastOps, DpOps
  <2>4. Begin(p, d, a, s)
    BY <2>1, <2>2
  <2> QED
    BY <2>1, <2>2, <2>3, <2>4, BeginDir
<1>2. ASSUME NEW call, NEW op \in {"open", "stat", "enter"}, Target(p, call, op) PROVE DirInv'
  <2>1. PICK i \in Found : Begin(p, i, [call |-> call], <<Step("lock", i), Step(op, i)>>)
    BY <1>2 DEF Target
  <2>2. PICK a, s : a = [call |-> call] /\ s = <<Step("lock", i), Step(op, i)>>
    OBVIOUS
  <2>3. TypesOk
    BY <2>1 DEF RefInv, Begin, May
  <2>4. i \in Inodes
    BY <2>1, <2>3, FoundIs
  <2>5. op \in Unlockers /\ op \notin DpOps /\ op \notin ParentOps
    BY DEF Unlockers, LastOps, DpOps, ParentOps
  <2>6. Begin(p, i, a, s)
    BY <2>1, <2>2
  <2> QED
    BY <2>2, <2>4, <2>5, <2>6, BeginDir
<1> QED
  BY <1>1, <1>2 DEF Openat, Mkdirat, Mknodat, Unlinkat, Chdir, Newfstatat

\* read and write take the lock of a file's inode.
LEMMA AccessDir == ASSUME RefInv, RefInv', DirInv, NEW p \in Procs, NEW d \in Fds, Access(p, d) PROVE DirInv'
<1>1. /\ todo[p] = <<>> /\ ~ panicked /\ ~ panicked' /\ itab' = itab /\ dirs' = dirs /\ mem' = mem
      /\ ofiles[p][d] # NULL
  BY DEF Access, May, inodes
<1>2. PICK f : f = ofiles[p][d]
  OBVIOUS
<1>3. PICK i \in Inodes : i = files[f].ip
  BY <1>1, <1>2, FdFile DEF RefInv
<1>4. PICK s : s = <<Step("lock", i), Step("unlock", i)>>
  OBVIOUS
<1>5. Rest(p, s)
  BY <1>2, <1>3, <1>4 DEF Access
<1>6. "unlock" \in Unlockers /\ "unlock" \notin ParentOps /\ "unlock" \notin DpOps
  BY DEF Unlockers, ParentOps, DpOps
<1>7. PICK a : a = arg'[p]
  OBVIOUS
<1>8. PICK op \in Unlockers : op = "unlock"
  BY <1>6
<1>9. PairFacts(s, a, op, i)
  <2>1. s = <<Step("lock", i), Step(op, i)>>
    BY <1>4, <1>8
  <2> QED
    BY <2>1, PairIs
<1>10. ReadyOk(s, a, itab, mem)
  BY <1>6, <1>8, <1>9 DEF PairFacts
<1>11. \A j, k : ~ ParentIs(s, a, j) /\ ~ LooksAt(s, a, j, k)
  BY <1>6, <1>8, <1>9 DEF PairFacts
<1>12. \A j : ~ MakeOn(todo[p], j) /\ \A b : ~ WillUnlock(todo[p], b, j)
  BY <1>1 DEF MakeOn, WillUnlock
<1>13. ShapeOk(s)
  BY <1>9 DEF PairFacts
<1>14. Mild
  BY <1>1 DEF Mild, Loaded
<1>15. todo' = [todo EXCEPT ![p] = s] /\ \A q \in Procs \ {p} : arg'[q] = arg[q]
  BY <1>1, <1>5, RestIs
<1> QED
  BY <1>1, <1>7, <1>13, <1>10, <1>11, <1>12, <1>14, <1>15, MildTail

\* A process at the last step of its script.
LEMMA LastReady ==
    ASSUME RefInv, DirInv, ~ panicked, NEW p \in Procs, NEW op \in LastOps, At(p, op), NEW i, i = Head(todo[p]).i
    PROVE  /\ i \in Inodes /\ todo[p] = <<Step(op, i)>> /\ SingleFacts(todo[p], arg[p], op, i)
           /\ op \in ParentOps => /\ arg[p] \in ParentArg /\ arg[p].dp \in Inodes
                                  /\ itab[arg[p].dp].type = "dir" /\ Loaded(mem, arg[p].dp)
           /\ op \in DpOps => Loaded(mem, i)
           /\ op = "make" => itab[i].type = arg[p].type
           /\ op \in {"find", "exists", "make"} => arg[p].type # "any"
           /\ op \in {"find", "look"} => arg[p].dp = i
<1>1. /\ i \in Inodes /\ todo[p] = <<Step(op, i)>>
      /\ op \in ParentOps => /\ arg[p] \in ParentArg /\ arg[p].dp \in Inodes
                             /\ op \in {"find", "look"} => arg[p].dp = i
                             /\ op \in {"find", "exists", "make"} => arg[p].type # "any"
  BY AtLast
<1>2. op \in Ops /\ op # "lock" /\ {"find", "look", "exists", "make"} \subseteq ParentOps
  BY DEF Ops, HoldOps, LastOps, ParentOps
<1>3. PICK o, a : o = todo[p] /\ a = arg[p]
  OBVIOUS
<1>4. SingleFacts(o, a, op, i)
  <2>1. o = <<Step(op, i)>>
    BY <1>1, <1>3
  <2> QED
    BY <1>1, <1>2, <2>1, SingleIs
<1>5. ReadyOk(o, a, itab, mem)
  BY <1>3 DEF DirInv
<1>6. /\ op \in ParentOps => itab[a.dp].type = "dir" /\ Loaded(mem, a.dp)
      /\ op \in DpOps => Loaded(mem, i)
      /\ op = "make" => itab[i].type = a.type
  BY <1>4, <1>5 DEF SingleFacts
<1> QED
  BY <1>1, <1>2, <1>3, <1>4, <1>6

\* The name is looked up in the locked directory, and an inode is found.
LEMMA ChildDir ==
    ASSUME RefInv, RefInv', DirInv, ~ panicked, ~ panicked', NEW p \in Procs, NEW op \in {"find", "look"},
           NEW op2 \in {"exists", "unlink"}, At(p, op), NEW i \in Named(arg[p].dp, arg[p].name), mem' = Got(mem, i),
           Rest(p, <<Step("lock", i), Step(op2, i)>>), itab' = itab, dirs' = dirs
    PROVE  DirInv'
<1>1. PICK d, a, s : d = Head(todo[p]).i /\ a = arg[p] /\ s = <<Step("lock", i), Step(op2, i)>>
  OBVIOUS
<1>2. op \in LastOps /\ op \in ParentOps /\ op \notin DpOps /\ op # "make"
  BY DEF LastOps, ParentOps, DpOps
<1>3. /\ d \in Inodes /\ SingleFacts(todo[p], a, op, d) /\ a.dp = d
      /\ itab[d].type = "dir" /\ Loaded(mem, d)
  BY <1>1, <1>2, LastReady
<1>4. TypesOk
  BY DEF RefInv
<1>5. i \in Inodes /\ \E y \in dirs[d] : y[2] = i
  BY <1>1, <1>3, <1>4, NamedIs DEF Named
<1>6. op2 \in Unlockers /\ op2 \in DpOps /\ op2 \in ParentOps /\ op2 # "make"
  BY DEF Unlockers, LastOps, DpOps, ParentOps
<1>7. PairFacts(s, a, op2, i)
  BY <1>1, <1>5, <1>6, PairIs
<1>8. s # <<>>
  BY <1>1
<1>9. todo' = [todo EXCEPT ![p] = s] /\ arg' = arg
  BY <1>1, <1>8, RestIs
<1>10. /\ Mild
       /\ \A j \in Inodes : mem'[j] # NULL =>
             \/ mem'[j].lock >= 0 /\ mem'[j].lock # 0
             \/ mem[j] # NULL /\ mem'[j].lock = mem[j].lock
  BY <1>5, GotMild
<1>11. ReadyOk(s, a, itab, mem)
  BY <1>3, <1>6, <1>7 DEF PairFacts
<1>12. ShapeOk(s) /\ \A j : ~ MakeOn(todo[p], j)
  BY <1>2, <1>3, <1>7 DEF PairFacts, SingleFacts
<1>13. \A j \in Inodes : ParentIs(s, a, j) => ParentIs(todo[p], a, j)
  BY <1>2, <1>3, <1>7 DEF PairFacts, SingleFacts
<1>14. \A j, k \in Inodes : LooksAt(s, a, j, k) => \E y \in dirs[j] : y[2] = k
  BY <1>3, <1>5, <1>7 DEF PairFacts
<1>15. \A j : WillUnlock(todo[p], a, j) => WillUnlock(s, a, j)
  BY <1>2, <1>3, <1>6, <1>7 DEF PairFacts, SingleFacts
<1>16. a = arg'[p] /\ a = arg[p]
  BY <1>1, <1>9
<1>17. \A j \in Inodes : ParentIs(s, arg'[p], j) => ParentIs(todo[p], arg[p], j) \/ itab[j].links # 0
  BY <1>13, <1>16
<1>18. \A j, k \in Inodes : LooksAt(s, arg'[p], j, k) =>
          LooksAt(todo[p], arg[p], j, k) \/ \E y \in dirs[j] : y[2] = k
  BY <1>14, <1>16
<1>19. \A j \in Inodes : mem'[j] # NULL =>
          \/ mem'[j].lock >= 0 /\ (mem'[j].lock = 0 => WillUnlock(s, arg'[p], j))
          \/ /\ mem[j] # NULL /\ mem'[j].lock = mem[j].lock
             /\ WillUnlock(todo[p], arg[p], j) => WillUnlock(s, arg'[p], j)
  BY <1>10, <1>15, <1>16
<1>20. ReadyOk(s, arg'[p], itab, mem)
  BY <1>11, <1>16
<1>21. \A q \in Procs \ {p} : arg'[q] = arg[q]
  BY <1>9
<1> QED
  BY <1>9, <1>10, <1>12, <1>17, <1>18, <1>19, <1>20, <1>21, MildTail

LEMMA LookDir == ASSUME RefInv, RefInv', DirInv, NEW p \in Procs, Look(p) PROVE DirInv'
<1>1. At(p, "look") /\ ~ panicked /\ ~ panicked' /\ itab' = itab /\ dirs' = dirs
  BY DEF Look, At
<1>2. CASE \E i \in Removable(arg[p].dp, arg[p].name) :
             mem' = Got(mem, i) /\ Rest(p, <<Step("lock", i), Step("unlink", i)>>)
  BY <1>1, <1>2, RemovableIs, ChildDir
<1>3. CASE Rest(p, <<Step("unlock", arg[p].dp), Step("put", arg[p].dp)>>) /\ mem' = mem
  <2>1. PICK d, s : d = Head(todo[p]).i /\ s = <<Step("unlock", d), Step("put", d)>>
    OBVIOUS
  <2>2. "look" \in LastOps /\ "look" \in ParentOps /\ "look" \notin DpOps /\ "look" \notin {"make", "swap"}
    BY DEF LastOps, ParentOps, DpOps
  <2>3. d \in Inodes /\ todo[p] = <<Step("look", d)>> /\ arg[p].dp = d
    BY <1>1, <2>1, <2>2, LastReady
  <2>4. Rest(p, s)
    BY <1>3, <2>1, <2>3
  <2>5. s \in Seq(StepRec)
    BY <1>1, <2>4, NextScript
  <2>6. Len(s) = 2 /\ s[1].op = "unlock" /\ s[1].i = d /\ s[2].op = "put"
    BY <2>1 DEF Step
  <2>7. Leaves(s) /\ (\A k \in 1 .. Len(s) : s[k].op # "drop")
        /\ \E k \in 1 .. Len(s) : s[k].op \in {"unlock", "open"} /\ s[k].i = d
    BY <2>5, <2>6 DEF Leaves
  <2> QED
    BY <1>1, <1>3, <2>2, <2>3, <2>4, <2>7, LeaveDir
<1> QED
  BY <1>2, <1>3 DEF Look

\* A call that waits for a lock has one more step to do.
LEMMA AtLock ==
    ASSUME RefInv, DirInv, ~ panicked, NEW p \in Procs, At(p, "lock"), NEW i, i = Head(todo[p]).i
    PROVE  i \in Inodes /\ \E op \in Unlockers : /\ todo[p] = <<Step("lock", i), Step(op, i)>>
                                                 /\ Tail(todo[p]) = <<Step(op, i)>>
<1>1. PICK s : s = todo[p]
  OBVIOUS
<1>2. s \in Seq(StepRec) /\ s # <<>> /\ s[1].op = "lock" /\ s[1].i = i /\ ShapeOk(s)
  BY <1>1 DEF RefInv, TypesOk, At, DirInv
<1>3. PICK op \in Unlockers : Len(s) = 2 /\ s[2].i = i /\ s[2].op = op
  <2>1. 1 \in 1 .. Len(s)
    BY <1>2
  <2> QED
    BY <1>2, <2>1 DEF ShapeOk
<1>4. s[1] \in StepRec /\ s[2] \in StepRec
  <2>1. 1 \in 1 .. Len(s) /\ 2 \in 1 .. Len(s)
    BY <1>3
  <2> QED
    BY <1>2, <2>1, ElementOfSeq
<1>5. s[1] = Step("lock", i) /\ s[2] = Step(op, i) /\ i \in Inodes
  BY <1>2, <1>3, <1>4 DEF StepRec, Step
<1>6. PICK r \in Seq(StepRec) : r = <<s[1], s[2]>> /\ Len(r) = 2 /\ r[1] = s[1] /\ r[2] = s[2]
  <2>1. PICK u \in StepRec, v \in StepRec : u = s[1] /\ v = s[2]
    BY <1>4
  <2>2. <<u, v>> \in Seq(StepRec)
    OBVIOUS
  <2> QED
    BY <2>1, <2>2
<1>7. Len(r) = Len(s) /\ \A k \in 1 .. Len(s) : s[k] = r[k]
  BY <1>3, <1>6
<1>8. s = r
  BY <1>2, <1>7, SeqEqual
<1>9. s = <<Step("lock", i), Step(op, i)>> /\ Tail(s) = <<Step(op, i)>>
  BY <1>5, <1>6, <1>8
<1> QED
  BY <1>1, <1>5, <1>9

\* The inode whose lock is taken.
LEMMA LockKeeps ==
    ASSUME RefInv, NEW p \in Procs, Lock(p), NEW i, i = Head(todo[p]).i
    PROVE  /\ Mild /\ i \in Inodes /\ mem[i] # NULL /\ Loaded(mem', i) /\ mem[i].lock \in Int /\ mem[i].lock > 0
           /\ mem'[i].lock = mem[i].lock - 1 /\ mem'[i].by = p /\ mem'[i].rc = mem[i].rc
           /\ \A j \in Inodes : j # i => mem'[j] = mem[j]
<1>1. At(p, "lock") /\ ~ panicked /\ itab' = itab /\ dirs' = dirs
  BY DEF Lock, At
<1>2. i \in Inodes /\ mem[i] # NULL /\ mem[i] \in MemInode
  BY <1>1, PassStep
<1>3. mem \in MemTable
  BY <1>1 DEF RefInv, TypesOk, MemTable
<1>4. PICK y \in MemInode : y = mem[i]
  BY <1>2
<1>5. PICK e : e = IF y.valid THEN y.e ELSE itab[i]
  OBVIOUS
<1>6. PICK x : x = [y EXCEPT !.lock = @ - 1, !.by = p, !.valid = TRUE, !.e = e]
  OBVIOUS
<1>7. x = [rc |-> y.rc, lock |-> y.lock - 1, by |-> p, valid |-> TRUE, e |-> e]
  BY <1>6, LockedInode, Zenon
<1>8. /\ x.lock = y.lock - 1 /\ x.valid /\ x.e = e /\ x.by = p /\ x.rc = y.rc /\ y.lock \in Int /\ y.lock > 0
  BY <1>4, <1>7, Zenon DEF MemInode, Lock
<1>9. mem' = [mem EXCEPT ![i] = x]
  BY <1>2, <1>3, <1>4, <1>5, <1>6, Zenon DEF Lock, MemTable
<1>10. mem'[i] = x /\ \A j \in Inodes : j # i => mem'[j] = mem[j]
  BY <1>2, <1>3, <1>9 DEF MemTable
<1>11. Mild
  <2> SUFFICES ASSUME NEW j \in Inodes
               PROVE  mem'[j] # NULL => /\ Loaded(mem, j) => mem'[j].valid /\ mem'[j].e = mem[j].e
                                        /\ ~ Loaded(mem, j) /\ mem'[j].valid => mem'[j].e = itab[j]
    BY <1>1 DEF Mild
  <2>1. CASE j = i
    BY <1>2, <1>4, <1>5, <1>8, <1>10, <2>1 DEF Loaded
  <2>2. CASE j # i
    BY <1>10, <2>2 DEF Loaded
  <2> QED
    BY <2>1, <2>2
<1>12. x # NULL
  <2>1. itab[i] \in [type : Types, links : Int]
    BY <1>1, <1>2 DEF RefInv, TypesOk
  <2>2. e \in [type : Types, links : Int]
    BY <1>4, <1>5, <2>1 DEF MemInode
  <2>3. PICK v \in BOOLEAN : v = TRUE
    OBVIOUS
  <2>4. PICK n \in Int : n = y.lock - 1
    BY <1>8
  <2>5. PICK c \in Procs \cup {NULL} : c = p
    OBVIOUS
  <2>6. x = [rc |-> y.rc, lock |-> n, by |-> c, valid |-> v, e |-> e]
    BY <1>7, <2>3, <2>4, <2>5
  <2>7. x \in MemInode
    BY <2>2, <2>6, InodeIs
  <2> QED
    BY <2>7, NullAssumption
<1> QED
  BY <1>2, <1>4, <1>8, <1>10, <1>11, <1>12, Zenon DEF Loaded

\* The sleep lock is taken, and the inode is read.
LEMMA LockDir == ASSUME RefInv, RefInv', DirInv, NEW p \in Procs, Lock(p) PROVE DirInv'
<1>1. /\ At(p, "lock") /\ Rest(p, Tail(todo[p])) /\ ~ panicked /\ ~ panicked'
      /\ itab' = itab /\ dirs' = dirs
  BY Zenon DEF Lock, At
<1>2. PICK i, s, a : i = Head(todo[p]).i /\ s = todo[p] /\ a = arg[p]
  OBVIOUS
<1>3. PICK op \in Unlockers : s = <<Step("lock", i), Step(op, i)>> /\ Tail(s) = <<Step(op, i)>>
  BY <1>1, <1>2, AtLock
<1>4. i \in Inodes /\ ShapeOk(s) /\ ReadyOk(s, a, itab, mem)
  BY <1>1, <1>2, AtLock DEF DirInv
<1>5. op # "lock" /\ op \in Ops /\ DpOps \subseteq ParentOps /\ op # "drop"
  BY DEF Unlockers, LastOps, Ops, HoldOps, DpOps, ParentOps
<1>6. PICK t : t = <<Step(op, i)>>
  OBVIOUS
<1>7. Tail(s) = t
  BY <1>3, <1>6
<1>8. PairFacts(s, a, op, i) /\ SingleFacts(t, a, op, i)
  BY <1>3, <1>4, <1>5, <1>6, PairIs, SingleIs
<1>9. todo' = [todo EXCEPT ![p] = t] /\ arg' = arg
  <2>1. t # <<>>
    BY <1>6
  <2> QED
    BY <1>1, <1>2, <1>7, <2>1, RestIs
<1>10. /\ Mild /\ Loaded(mem', i) /\ mem[i].lock \in Int /\ mem[i].lock > 0
       /\ mem'[i].lock = mem[i].lock - 1 /\ \A j \in Inodes : j # i => mem'[j] = mem[j]
  BY <1>2, LockKeeps
<1>11. op \in ParentOps => Loaded(mem', a.dp) /\ itab'[a.dp].type = "dir"
  <2> SUFFICES ASSUME op \in ParentOps PROVE Loaded(mem', a.dp) /\ itab'[a.dp].type = "dir"
    OBVIOUS
  <2>1. itab'[a.dp].type = "dir"
    BY <1>1, <1>4, <1>8 DEF PairFacts
  <2>2. a \in ParentArg /\ (op \in {"find", "look"} => i = a.dp)
    <3>1. ScriptOk(s, a)
      BY <1>1, <1>2 DEF RefInv, CallOk
    <3>2. Len(s) = 2 /\ s[2].op = op /\ s[2].i = i
      BY <1>3 DEF Step
    <3> QED
      BY <3>1, <3>2 DEF ScriptOk
  <2>3. a.dp \in Inodes
    BY <2>2 DEF ParentArg
  <2>4. CASE op \in DpOps
    <3>1. Loaded(mem, a.dp)
      BY <1>4, <1>8, <2>4 DEF PairFacts
    <3> QED
      BY <1>10, <2>1, <2>3, <3>1 DEF Loaded
  <2>5. CASE op \notin DpOps
    BY <1>10, <2>1, <2>2, <2>5 DEF ParentOps, DpOps
  <2> QED
    BY <2>4, <2>5
<1>12. op = "make" => itab'[i].type = a.type
  BY <1>1, <1>4, <1>8 DEF PairFacts
<1>13. ShapeOk(t) /\ ReadyOk(t, a, itab', mem')
  <2>1. PICK I, m : I = itab' /\ m = mem'
    OBVIOUS
  <2> QED
    BY <1>5, <1>8, <1>10, <1>11, <1>12, <2>1 DEF SingleFacts
<1>14. \A j \in Inodes : /\ MakeOn(s, j) => MakeOn(t, j)
                         /\ ParentIs(t, a, j) => ParentIs(s, a, j)
                         /\ WillUnlock(s, a, j) => WillUnlock(t, a, j)
  BY <1>8 DEF PairFacts, SingleFacts
<1>15. \A j, k \in Inodes : LooksAt(t, a, j, k) => LooksAt(s, a, j, k)
  BY <1>8 DEF PairFacts, SingleFacts
<1>16. WillUnlock(t, a, i)
  BY <1>8 DEF SingleFacts
<1>17. a = arg'[p]
  BY <1>2, <1>9
<1>18. \A j \in Inodes : mem'[j] # NULL =>
          \/ mem'[j].lock >= 0 /\ (mem'[j].lock = 0 => WillUnlock(t, arg'[p], j))
          \/ /\ mem[j] # NULL /\ mem'[j].lock = mem[j].lock
             /\ WillUnlock(todo[p], arg[p], j) => WillUnlock(t, arg'[p], j)
  <2> TAKE j \in Inodes
  <2>1. CASE j = i
    BY <1>10, <1>16, <1>17, <2>1
  <2>2. CASE j # i
    BY <1>2, <1>10, <1>14, <1>17, <2>2
  <2> QED
    BY <2>1, <2>2
<1>19. /\ \A j \in Inodes : MakeOn(todo[p], j) => MakeOn(t, j)
       /\ \A j \in Inodes : ParentIs(t, arg'[p], j) => ParentIs(todo[p], arg[p], j) \/ itab[j].links # 0
       /\ \A j, k \in Inodes : LooksAt(t, arg'[p], j, k) =>
             LooksAt(todo[p], arg[p], j, k) \/ \E z \in dirs[j] : z[2] = k
       /\ ReadyOk(t, arg'[p], itab', mem') /\ \A q \in Procs \ {p} : arg'[q] = arg[q]
  BY <1>2, <1>9, <1>13, <1>14, <1>15, <1>17
<1> QED
  BY <1>1, <1>9, <1>10, <1>13, <1>18, <1>19, MildStep, Zenon

LEMMA ParentReady ==
    ASSUME NEW s, NEW a, NEW I, NEW m, ReadyOk(s, a, I, m), NEW i
    PROVE  /\ ParentIs(s, a, i) => I[i].type = "dir"
           /\ \A j : LooksAt(s, a, i, j) => ParentIs(s, a, i)
<1>1. DpOps \subseteq ParentOps
  BY DEF DpOps, ParentOps
<1> QED
  BY <1>1 DEF ReadyOk, ParentIs, LooksAt

\* create takes a free inode and waits for its lock.
LEMMA NewDir ==
    ASSUME RefInv, RefInv', DirInv, ~ panicked, ~ panicked', NEW p \in Procs, At(p, "find"),
           NEW i \in Inodes, itab[i].type = "invalid", mem' = Got(mem, i),
           itab' = [itab EXCEPT ![i] = Entry(arg[p].type, 0)], dirs' = dirs,
           Rest(p, <<Step("lock", i), Step("make", i)>>)
    PROVE  DirInv'
<1>1. PICK d, a, s : d = Head(todo[p]).i /\ a = arg[p] /\ s = <<Step("lock", i), Step("make", i)>>
  OBVIOUS
<1>2. /\ "find" \in LastOps /\ "find" \in ParentOps /\ "find" \notin DpOps /\ "find" # "make"
      /\ "make" \in Unlockers /\ "make" \in DpOps /\ "make" \in ParentOps
  BY DEF LastOps, ParentOps, DpOps, Unlockers
<1>3. /\ d \in Inodes /\ SingleFacts(todo[p], a, "find", d) /\ a.dp = d /\ a \in ParentArg /\ a.type # "any"
      /\ itab[d].type = "dir" /\ Loaded(mem, d)
  BY <1>1, <1>2, LastReady
<1>4. i # d /\ a.type # "invalid"
  BY <1>3 DEF ParentArg
<1>5. PairFacts(s, a, "make", i)
  BY <1>1, <1>2, PairIs
<1>6. todo' = [todo EXCEPT ![p] = s] /\ arg' = arg /\ todo'[p] = s
  <2>1. s # <<>>
    BY <1>1
  <2> QED
    BY <1>1, <2>1, RestIs
<1>7. \A j \in Inodes : mem'[j] # NULL =>
         /\ \/ mem'[j].lock >= 0 /\ mem'[j].lock # 0
            \/ mem[j] # NULL /\ mem'[j].lock = mem[j].lock
         /\ Loaded(mem, j) => mem'[j].valid /\ mem'[j].e = mem[j].e
         /\ ~ Loaded(mem, j) => ~ mem'[j].valid
  BY GotKeeps
<1>8. PICK n : n = Entry(a.type, 0) /\ n.type = a.type /\ n.links = 0
  <2>1. Entry(a.type, 0).type = a.type /\ Entry(a.type, 0).links = 0
    BY DEF Entry
  <2> QED
    BY <2>1
<1>9. itab'[i] = n /\ \A j \in Inodes : j # i => itab'[j] = itab[j]
  BY <1>1, <1>8 DEF RefInv, TypesOk
<1>10. EntriesOk /\ itab[i] = Free
  BY DEF DirInv, EntriesOk
<1>11. \A q \in Procs : todo'[q] = todo[q] \/ q = p
  BY <1>6 DEF RefInv, TypesOk
<1>12. ReadyOk(s, a, itab', mem')
  <2>1. mem' \in MemTable /\ mem'[d] # NULL
    <3>1. mem'[d] = mem[d]
      BY <1>3, <1>4 DEF Got, RefInv, TypesOk
    <3> QED
      BY <1>3, <3>1 DEF RefInv, TypesOk, MemTable, Loaded
  <2>2. Loaded(mem', d)
    BY <1>3, <1>7, <2>1 DEF Loaded
  <2>3. itab'[d].type = "dir" /\ itab'[i].type = a.type
    BY <1>3, <1>4, <1>8, <1>9
  <2>4. PICK I, m : I = itab' /\ m = mem'
    OBVIOUS
  <2> QED
    BY <1>3, <1>5, <2>2, <2>3, <2>4 DEF PairFacts
<1>13. \A q \in Procs : ~ ParentIs(todo'[q], arg'[q], i)
  <2> TAKE q \in Procs
  <2>1. CASE q = p
    BY <1>1, <1>3, <1>4, <1>5, <1>6, <2>1 DEF PairFacts
  <2>2. CASE q # p
    <3>1. todo'[q] = todo[q] /\ arg'[q] = arg[q] /\ ReadyOk(todo[q], arg[q], itab, mem)
      BY <1>6, <1>11, <2>2 DEF DirInv
    <3> QED
      BY <3>1, ParentReady
  <2> QED
    BY <2>1, <2>2
<1>14. EntriesOk'
  <2> SUFFICES ASSUME NEW j \in Inodes
               PROVE  /\ dirs'[j] # {} => itab'[j].type = "dir"
                      /\ itab'[j].type = "invalid" => itab'[j] = Free
                      /\ Loaded(mem', j) /\ mem'[j].e # itab'[j] =>
                           /\ mem'[j].e = Free /\ itab'[j].links = 0
                           /\ \A q \in Procs : ~ ParentIs(todo'[q], arg'[q], j)
                           /\ \E q \in Procs : MakeOn(todo'[q], j)
    BY DEF EntriesOk
  <2>1. CASE j = i
    <3>1. dirs'[i] = {} /\ itab'[i].type # "invalid"
      BY <1>4, <1>8, <1>9, <1>10 DEF EntriesOk
    <3>2. ASSUME Loaded(mem', i) PROVE mem'[i].e = Free
      <4>1. Loaded(mem, i) /\ mem'[i].e = mem[i].e
        BY <1>7, <3>2 DEF Loaded
      <4> QED
        BY <1>10, <4>1 DEF EntriesOk
    <3>3. MakeOn(todo'[p], i)
      BY <1>5, <1>6 DEF PairFacts
    <3> QED
      BY <1>8, <1>9, <1>13, <2>1, <3>1, <3>2, <3>3
  <2>2. CASE j # i
    <3>1. itab'[j] = itab[j]
      BY <1>9, <2>2
    <3>2. (dirs'[j] # {} => itab'[j].type = "dir") /\ (itab'[j].type = "invalid" => itab'[j] = Free)
      BY <1>10, <3>1 DEF EntriesOk
    <3>3. ASSUME Loaded(mem', j), mem'[j].e # itab'[j]
          PROVE  /\ mem'[j].e = Free /\ itab'[j].links = 0
                 /\ \A q \in Procs : ~ ParentIs(todo'[q], arg'[q], j)
                 /\ \E q \in Procs : MakeOn(todo'[q], j)
      <4>1. Loaded(mem, j) /\ mem'[j].e = mem[j].e
        BY <1>7, <3>3 DEF Loaded
      <4>2. /\ mem[j].e = Free /\ itab[j].links = 0
            /\ \A q \in Procs : ~ ParentIs(todo[q], arg[q], j)
            /\ \E q \in Procs : MakeOn(todo[q], j)
        BY <1>10, <3>1, <3>3, <4>1 DEF EntriesOk
      <4>3. ASSUME NEW q \in Procs PROVE ~ ParentIs(todo'[q], arg'[q], j)
        <5>1. CASE q = p
          <6>1. a.dp # j
            BY <1>1, <1>2, <1>3, <4>2 DEF SingleFacts
          <6> QED
            BY <1>1, <1>5, <1>6, <5>1, <6>1 DEF PairFacts
        <5>2. CASE q # p
          BY <1>6, <1>11, <4>2, <5>2
        <5> QED
          BY <5>1, <5>2
      <4>4. PICK q \in Procs : MakeOn(todo[q], j)
        BY <4>2
      <4>5. q # p
        BY <1>2, <1>3, <4>4 DEF SingleFacts
      <4>6. MakeOn(todo'[q], j)
        BY <1>11, <4>4, <4>5
      <4> QED
        BY <3>1, <4>1, <4>2, <4>3, <4>6
    <3> QED
      BY <3>2, <3>3
  <2> QED
    BY <2>1, <2>2
<1>15. \A j : <<i, j>> \notin EdgesIn(dirs', todo', arg')
  <2> SUFFICES ASSUME NEW j, <<i, j>> \in EdgesIn(dirs', todo', arg') PROVE FALSE
    OBVIOUS
  <2>1. (\E y \in dirs'[i] : y[2] = j) \/ \E q \in Procs : LooksAt(todo'[q], arg'[q], i, j)
    BY DEF EdgesIn
  <2>2. dirs'[i] = {}
    BY <1>10 DEF EntriesOk
  <2>3. DpOps \subseteq ParentOps
    BY DEF DpOps, ParentOps
  <2> QED
    BY <1>13, <2>1, <2>2, <2>3 DEF LooksAt, ParentIs
<1>16. EdgesIn(dirs', todo', arg') \subseteq EdgesIn(dirs, todo, arg) \cup {<<d, i>>}
  <2> SUFFICES ASSUME NEW x \in Inodes \X Inodes, x # <<d, i>>,
                      \/ \E y \in dirs'[x[1]] : y[2] = x[2]
                      \/ \E q \in Procs : LooksAt(todo'[q], arg'[q], x[1], x[2])
               PROVE  \/ \E y \in dirs[x[1]] : y[2] = x[2]
                      \/ \E q \in Procs : LooksAt(todo[q], arg[q], x[1], x[2])
    BY DEF EdgesIn
  <2>1. ASSUME NEW q \in Procs, LooksAt(todo'[q], arg'[q], x[1], x[2])
        PROVE  LooksAt(todo[q], arg[q], x[1], x[2])
    <3>1. CASE q = p
      <4>1. LooksAt(s, a, x[1], x[2])
        BY <1>1, <1>6, <2>1, <3>1
      <4>2. x[1] = d /\ x[2] = i
        BY <1>3, <1>5, <4>1 DEF PairFacts
      <4> QED
        BY <4>2
    <3>2. CASE q # p
      BY <1>6, <1>11, <2>1, <3>2
    <3> QED
      BY <3>1, <3>2
  <2> QED
    BY <2>1
<1>17. Acyclic(EdgesIn(dirs', todo', arg'))
  <2>1. PICK R, R2 : R = EdgesIn(dirs, todo, arg) /\ R2 = EdgesIn(dirs', todo', arg')
    OBVIOUS
  <2>2. Acyclic(R)
    BY <2>1 DEF DirInv
  <2>3. Acyclic(R2)
    BY <1>4, <1>15, <1>16, <2>1, <2>2, AcyclicNew
  <2> QED
    BY <2>1, <2>3
<1>18. \A j \in Inodes : mem'[j] # NULL =>
          \/ mem'[j].lock >= 0 /\ (mem'[j].lock = 0 => WillUnlock(s, arg'[p], j))
          \/ /\ mem[j] # NULL /\ mem'[j].lock = mem[j].lock
             /\ WillUnlock(todo[p], arg[p], j) => WillUnlock(s, arg'[p], j)
  <2>1. \A j : WillUnlock(todo[p], a, j) => WillUnlock(s, a, j)
    BY <1>2, <1>3, <1>5 DEF PairFacts, SingleFacts
  <2> QED
    BY <1>1, <1>6, <1>7, <2>1
<1>19. ShapeOk(s) /\ ReadyOk(s, arg'[p], itab', mem')
  BY <1>1, <1>5, <1>6, <1>12 DEF PairFacts
<1>20. \A j \in Inodes : mem'[j] # NULL => itab'[j].type = itab[j].type \/ itab[j].type = "invalid"
  BY <1>9
<1>21. \A j \in Inodes : Loaded(mem, j) /\ mem'[j] # NULL =>
          mem'[j].valid /\ (mem[j].e.type # "invalid" => mem'[j].e.type # "invalid")
  BY <1>7
<1>22. \A q \in Procs \ {p} : arg'[q] = arg[q]
  BY <1>6
<1> QED
  BY <1>6, <1>14, <1>17, <1>18, <1>19, <1>20, <1>21, <1>22, DirStep

LEMMA FindDir == ASSUME RefInv, RefInv', DirInv, NEW p \in Procs, Find(p), ~ dotted' PROVE DirInv'
<1>1. /\ At(p, "find") /\ ~ panicked /\ dirs' = dirs
      /\ Meets(arg[p].dp, arg[p].name) = Named(arg[p].dp, arg[p].name)
  BY DEF Find, At, Meets
<1>2. CASE panicked'
  BY <1>2 DEF DirInv
<1>3. CASE ~ panicked'
  <2>1. CASE \E i \in Named(arg[p].dp, arg[p].name) :
                /\ mem' = Got(mem, i) /\ itab' = itab
                /\ Rest(p, <<Step("lock", i), Step("exists", i)>>)
    BY <1>1, <1>3, <2>1, ChildDir
  <2> DEFINE free == {i \in Inodes : itab[i].type = "invalid"}
             new == CHOOSE i \in free : \A j \in free : i <= j
  <2>2. CASE /\ free # {}
             /\ itab' = [itab EXCEPT ![new] = Entry(arg[p].type, 0)]
             /\ mem' = Got(mem, new)
             /\ Rest(p, <<Step("lock", new), Step("make", new)>>)
    <3>1. new \in free
      <4>1. free \subseteq Nat
        BY InodesAssumption DEF Inodes
      <4>2. PICK F \in SUBSET Nat : F = free /\ F # {}
        BY <2>2, <4>1
      <4>3. \E i \in F : \A j \in F : i <= j
        BY <4>2, LeastNat
      <4> QED
        BY <4>2, <4>3
    <3>2. PICK i \in Inodes : i = new /\ itab[i].type = "invalid"
      BY <3>1
    <3> QED
      BY <1>1, <1>3, <2>2, <3>2, NewDir
  <2> QED
    BY <1>1, <1>3, <2>1, <2>2 DEF Find
<1> QED
  BY <1>2, <1>3

LEMMA EntryKeeps ==
    ASSUME NEW m, NEW i, NEW e, NEW m2, EntrySet(m, i, e, m2)
    PROVE  /\ \A j \in Inodes : m2[j] = NULL <=> m[j] = NULL
           /\ m2[i].e = e /\ m2[i].lock = m[i].lock /\ m2[i].valid = m[i].valid
           /\ m2[i].by = m[i].by /\ m2[i].rc = m[i].rc
           /\ \A j \in Inodes : j # i => m2[j] = m[j]
<1>1. PICK y, x : y = m[i] /\ x = [y EXCEPT !.e = e]
  OBVIOUS
<1>2. y \in MemInode /\ m \in MemTable /\ i \in Inodes
  BY <1>1 DEF MemTable, EntrySet
<1>3. x.e = e /\ x.lock = y.lock /\ x.valid = y.valid /\ x.by = y.by /\ x.rc = y.rc
  BY <1>1, <1>2 DEF MemInode
<1>4. m2 = [m EXCEPT ![i] = x]
  BY <1>1, <1>2 DEF MemTable, EntrySet
<1>5. m2[i] = x /\ \A j \in Inodes : j # i => m2[j] = m[j]
  BY <1>2, <1>4 DEF MemTable
<1>6. \A j \in Inodes : m2[j] = NULL <=> m[j] = NULL
  BY EntryChanged
<1> QED
  BY <1>1, <1>3, <1>5, <1>6

\* A script that locks nothing, and looks at nothing in a directory.
Quits(s, a) == ShapeOk(s) /\ \A j, k : ~ MakeOn(s, j) /\ ~ ParentIs(s, a, j) /\ ~ LooksAt(s, a, j, k)

\* A call leaves, having changed the entries of inodes whose types stay.
LEMMA LeaveStep ==
    ASSUME RefInv, RefInv', DirInv, ~ panicked, ~ panicked', NEW p \in Procs, NEW s,
           Rest(p, s), Quits(s, arg'[p]), ReadyOk(s, arg'[p], itab', mem'), Acyclic(EdgesIn(dirs', todo', arg')),
           \A j \in Inodes : dirs'[j] # {} => itab'[j].type = "dir",
           \A j \in Inodes : itab'[j] = itab[j] \/ (itab'[j].type = itab[j].type /\ itab[j].type # "invalid"),
           \A j \in Inodes : mem'[j] # NULL =>
              /\ mem[j] # NULL /\ mem'[j].lock = mem[j].lock /\ mem'[j].valid = mem[j].valid
              /\ \/ mem'[j].e = mem[j].e /\ itab'[j] = itab[j] /\ ~ MakeOn(todo[p], j)
                 \/ mem'[j].e = itab'[j] /\ itab'[j].type # "invalid",
           \A j \in Inodes : WillUnlock(todo[p], arg[p], j) => WillUnlock(s, arg'[p], j)
    PROVE  DirInv'
<1>1. todo' = [todo EXCEPT ![p] = s] /\ todo'[p] = s /\ \A q \in Procs \ {p} : arg'[q] = arg[q]
  BY RestIs
<1>2. \A q \in Procs \ {p} : todo'[q] = todo[q]
  BY <1>1 DEF RefInv, TypesOk
<1>3. EntriesOk
  BY DEF DirInv
<1>4. PICK b : b = arg'[p]
  OBVIOUS
<1>5. /\ ShapeOk(s)
      /\ \A j, k : ~ MakeOn(s, j) /\ ~ ParentIs(s, b, j) /\ ~ LooksAt(s, b, j, k)
  BY <1>4 DEF Quits
<1>6. ASSUME NEW j \in Inodes, Loaded(mem', j), mem'[j].e # itab'[j]
      PROVE  /\ mem'[j].e = Free /\ itab'[j].links = 0
             /\ \A q \in Procs : ~ ParentIs(todo'[q], arg'[q], j)
             /\ \E q \in Procs : MakeOn(todo'[q], j)
  <2>1. Loaded(mem, j) /\ mem'[j].e = mem[j].e /\ itab'[j] = itab[j] /\ ~ MakeOn(todo[p], j)
    BY <1>6 DEF Loaded
  <2>2. /\ mem[j].e = Free /\ itab[j].links = 0
        /\ \A q \in Procs : ~ ParentIs(todo[q], arg[q], j)
        /\ \E q \in Procs : MakeOn(todo[q], j)
    BY <1>3, <1>6, <2>1 DEF EntriesOk
  <2>3. ASSUME NEW q \in Procs PROVE ~ ParentIs(todo'[q], arg'[q], j)
    <3>1. CASE q = p
      BY <1>1, <1>4, <1>5, <3>1
    <3>2. CASE q # p
      BY <1>1, <1>2, <2>2, <3>2
    <3> QED
      BY <3>1, <3>2
  <2>4. PICK q \in Procs : MakeOn(todo[q], j)
    BY <2>2
  <2>5. q # p
    BY <2>1, <2>4
  <2>6. MakeOn(todo'[q], j)
    BY <1>2, <2>4, <2>5
  <2> QED
    BY <2>1, <2>2, <2>3, <2>6
<1>7. EntriesOk'
  <2>1. \A j \in Inodes : itab'[j].type = "invalid" => itab'[j] = Free
    BY <1>3 DEF EntriesOk
  <2> QED
    BY <1>6, <2>1 DEF EntriesOk
<1>8. \A j \in Inodes : mem'[j] # NULL => itab'[j].type = itab[j].type \/ itab[j].type = "invalid"
  OBVIOUS
<1>9. \A j \in Inodes : Loaded(mem, j) /\ mem'[j] # NULL =>
         mem'[j].valid /\ (mem[j].e.type # "invalid" => mem'[j].e.type # "invalid")
  BY DEF Loaded
<1>10. \A j \in Inodes : mem'[j] # NULL =>
          \/ mem'[j].lock >= 0 /\ (mem'[j].lock = 0 => WillUnlock(s, arg'[p], j))
          \/ /\ mem[j] # NULL /\ mem'[j].lock = mem[j].lock
             /\ WillUnlock(todo[p], arg[p], j) => WillUnlock(s, arg'[p], j)
  OBVIOUS
<1> QED
  BY <1>1, <1>5, <1>7, <1>8, <1>9, <1>10, DirStep

\* What a call has found in a directory, when it has no new entry but one
\* that p has looked at.
LEMMA LeaveEdges ==
    ASSUME RefInv, DirInv, ~ panicked, NEW p \in Procs, NEW s, Rest(p, s), Quits(s, arg'[p]),
           \A j \in Inodes : \A y \in dirs'[j] : y \in dirs[j] \/ LooksAt(todo[p], arg[p], j, y[2])
    PROVE  Acyclic(EdgesIn(dirs', todo', arg'))
<1>1. todo'[p] = s /\ \A q \in Procs \ {p} : arg'[q] = arg[q] /\ todo'[q] = todo[q]
  BY RestIs DEF RefInv, TypesOk
<1>2. PICK b : b = arg'[p]
  OBVIOUS
<1>3. \A j, k : ~ LooksAt(s, b, j, k)
  BY <1>2 DEF Quits
<1>4. EdgesIn(dirs', todo', arg') \subseteq EdgesIn(dirs, todo, arg)
  <2> SUFFICES ASSUME NEW x \in Inodes \X Inodes,
                      \/ \E y \in dirs'[x[1]] : y[2] = x[2]
                      \/ \E q \in Procs : LooksAt(todo'[q], arg'[q], x[1], x[2])
               PROVE  \/ \E y \in dirs[x[1]] : y[2] = x[2]
                      \/ \E q \in Procs : LooksAt(todo[q], arg[q], x[1], x[2])
    BY DEF EdgesIn
  <2>1. PICK i \in Inodes, j \in Inodes : i = x[1] /\ j = x[2]
    OBVIOUS
  <2>2. CASE \E y \in dirs'[i] : y[2] = j
    <3>1. PICK y \in dirs'[i] : y[2] = j
      BY <2>2
    <3> QED
      BY <2>1, <3>1
  <2>3. CASE \E q \in Procs : LooksAt(todo'[q], arg'[q], i, j)
    <3>1. PICK q \in Procs : LooksAt(todo'[q], arg'[q], i, j)
      BY <2>3
    <3>2. q # p
      BY <1>1, <1>2, <1>3, <3>1
    <3> QED
      BY <1>1, <2>1, <3>1, <3>2
  <2> QED
    BY <2>1, <2>2, <2>3
<1>5. PICK R, R2 : R = EdgesIn(dirs, todo, arg) /\ R2 = EdgesIn(dirs', todo', arg')
  OBVIOUS
<1>6. Acyclic(R2)
  BY <1>4, <1>5, AcyclicLess DEF DirInv
<1> QED
  BY <1>5, <1>6

\* A call that looks at i in the directory d: d is read and not i, and what
\* memory says of it is what its block says.
ChildFacts(p, op, i, d) ==
    /\ i \in Inodes /\ d \in Inodes /\ i # d /\ todo[p] = <<Step(op, i)>>
    /\ SingleFacts(todo[p], arg[p], op, i)
    /\ Loaded(mem, i) /\ Loaded(mem, d) /\ mem[d].e = itab[d] /\ itab[d].type = "dir"
    /\ LooksAt(todo[p], arg[p], d, i)
    /\ \A j : WillUnlock(todo[p], arg[p], j) => j = i \/ j = d

LEMMA ChildReady ==
    ASSUME RefInv, DirInv, ~ panicked, NEW p \in Procs, NEW op \in DpOps, At(p, op), NEW i, i = Head(todo[p]).i,
           NEW d, d = arg[p].dp
    PROVE  ChildFacts(p, op, i, d)
<1>1. op \in LastOps /\ op \in ParentOps /\ op \in Unlockers
  BY DEF DpOps, LastOps, ParentOps, Unlockers
<1>2. /\ i \in Inodes /\ d \in Inodes /\ todo[p] = <<Step(op, i)>>
      /\ SingleFacts(todo[p], arg[p], op, i) /\ Loaded(mem, i) /\ Loaded(mem, d) /\ itab[d].type = "dir"
  BY <1>1, LastReady
<1>3. PICK o, a : o = todo[p] /\ a = arg[p]
  BY Zenon
<1>4. /\ LooksAt(o, a, d, i) /\ ParentIs(o, a, d)
      /\ \A j : WillUnlock(o, a, j) => j = i \/ j = d
  BY <1>1, <1>2, <1>3 DEF SingleFacts
<1>5. i # d
  <2> SUFFICES ASSUME i = d PROVE FALSE
    OBVIOUS
  <2>1. <<i, i>> \in EdgesIn(dirs, todo, arg)
    BY <1>2, <1>3, <1>4 DEF EdgesIn
  <2>2. PICK R : R = EdgesIn(dirs, todo, arg)
    OBVIOUS
  <2>3. Acyclic(R) /\ <<i, i>> \in R
    BY <2>1, <2>2 DEF DirInv
  <2>4. {i} \in SUBSET Inodes /\ {i} # {}
    BY <1>2
  <2>5. \E k \in {i} : \A j \in {i} : <<k, j>> \notin R
    BY <2>3, <2>4 DEF Acyclic
  <2> QED
    BY <2>3, <2>5
<1>6. mem[d].e = itab[d]
  BY <1>2, <1>3, <1>4 DEF DirInv, EntriesOk
<1> QED
  BY <1>2, <1>3, <1>4, <1>5, <1>6 DEF ChildFacts

\* What make leaves: the new inode has a link, and its directory has one more
\* if a directory is made.
MakeResult(i, d, type) ==
    /\ itab'[i].type = type /\ itab'[i].links = 1
    /\ itab'[d].type = "dir" /\ itab'[d].links = itab[d].links + (IF type = "dir" THEN 1 ELSE 0)
    /\ mem'[i].e = itab'[i] /\ mem'[d].e = itab'[d]
    /\ \A j \in Inodes : j # i /\ j # d => itab'[j] = itab[j] /\ mem'[j] = mem[j]
    /\ \A j \in Inodes : /\ mem'[j] = NULL <=> mem[j] = NULL
                         /\ mem'[j].lock = mem[j].lock /\ mem'[j].valid = mem[j].valid
                         /\ mem'[j].by = mem[j].by /\ mem'[j].rc = mem[j].rc

LEMMA MakeIs ==
    ASSUME RefInv, DirInv, NEW p \in Procs, Make(p), NEW i, i = Head(todo[p]).i, NEW d, d = arg[p].dp
    PROVE  ChildFacts(p, "make", i, d) /\ MakeResult(i, d, arg[p].type)
<1>1. At(p, "make") /\ ~ panicked
  BY DEF Make, At
<1>2. PICK a : a = arg[p]
  OBVIOUS
<1>3. "make" \in DpOps /\ "make" \in LastOps /\ "make" \in ParentOps
  BY DEF DpOps, LastOps, ParentOps
<1>4. ChildFacts(p, "make", i, d)
  <2>1. PICK op \in DpOps : op = "make"
    BY <1>3
  <2>2. At(p, op)
    BY <1>1, <2>1
  <2>3. ChildFacts(p, op, i, d)
    BY <1>1, <2>2, ChildReady
  <2> QED
    BY <2>1, <2>3
<1>5. /\ i \in Inodes /\ d \in Inodes /\ i # d
      /\ Loaded(mem, i) /\ Loaded(mem, d) /\ mem[d].e = itab[d] /\ itab[d].type = "dir"
  BY <1>4 DEF ChildFacts
<1>6. a \in ParentArg /\ a.type # "any"
  BY <1>1, <1>2, <1>3, LastReady
<1>7. mem \in MemTable /\ itab \in [Inodes -> [type : Types, links : Int]]
  BY <1>1 DEF RefInv, TypesOk, MemTable
<1>10. PICK new, dp : /\ new = Entry(a.type, 1)
                      /\ dp = [mem[d].e EXCEPT !.links = ParentLinks(d, a.type)]
  OBVIOUS
<1>11. /\ itab' = [itab EXCEPT ![i] = new, ![d] = IF a.type = "dir" THEN dp ELSE @]
       /\ mem' = [mem EXCEPT ![i].e = new, ![d].e = dp]
  BY <1>2, <1>10 DEF Make
<1>12. /\ new \in [type : Types, links : Int] /\ new.type = a.type /\ new.links = 1
       /\ dp \in [type : Types, links : Int] /\ dp.type = "dir"
       /\ dp.links = itab[d].links + (IF a.type = "dir" THEN 1 ELSE 0)
       /\ a.type # "dir" => dp = itab[d]
  <2>1. PICK e \in [type : Types, links : Int] : e = mem[d].e /\ e = itab[d] /\ e.type = "dir"
    BY <1>5, <1>7
  <2>2. PICK n : n = ParentLinks(d, a.type) /\ n = e.links + (IF a.type = "dir" THEN 1 ELSE 0)
    BY <2>1 DEF ParentLinks
  <2>3. n \in Int /\ (a.type # "dir" => n = e.links)
    BY <2>1, <2>2
  <2>4. dp = [e EXCEPT !.links = n]
    BY <1>10, <2>1, <2>2
  <2>5. a.type \in Types
    BY <1>6 DEF ParentArg, Types
  <2> QED
    BY <1>10, <2>1, <2>2, <2>3, <2>4, <2>5 DEF Entry
<1>13. /\ itab'[i] = new /\ itab'[d] = dp
       /\ \A j \in Inodes : j # i /\ j # d => itab'[j] = itab[j]
  <2>1. PICK w : w = (IF a.type = "dir" THEN dp ELSE itab[d]) /\ w = dp
    BY <1>12
  <2>2. itab' = [itab EXCEPT ![i] = new, ![d] = w]
    BY <1>5, <1>7, <1>11, <2>1
  <2> QED
    BY <1>5, <1>7, <2>1, <2>2
<1>14. PICK m0, m1, m2 : /\ m0 = mem /\ m1 = [m0 EXCEPT ![i].e = new] /\ m2 = [m1 EXCEPT ![d].e = dp]
  OBVIOUS
<1>15. EntrySet(m0, i, new, m1)
  BY <1>5, <1>7, <1>12, <1>14 DEF EntrySet, Loaded
<1>16. /\ m1 \in MemTable /\ \A j \in Inodes : m1[j] = NULL <=> m0[j] = NULL
       /\ m1[i].e = new /\ m1[i].lock = m0[i].lock /\ m1[i].valid = m0[i].valid
       /\ m1[i].by = m0[i].by /\ m1[i].rc = m0[i].rc
       /\ \A j \in Inodes : j # i => m1[j] = m0[j]
  BY <1>15, EntryChanged, EntryKeeps, SMTT(20)
<1>17. EntrySet(m1, d, dp, m2)
  BY <1>5, <1>12, <1>14, <1>16 DEF EntrySet, Loaded
<1>18. /\ \A j \in Inodes : m2[j] = NULL <=> m1[j] = NULL
       /\ m2[d].e = dp /\ m2[d].lock = m1[d].lock /\ m2[d].valid = m1[d].valid
       /\ m2[d].by = m1[d].by /\ m2[d].rc = m1[d].rc
       /\ \A j \in Inodes : j # d => m2[j] = m1[j]
  BY <1>17, EntryKeeps
<1>19. mem' = m2 /\ mem = m0
  BY <1>11, <1>14
<1>20. /\ mem'[i].e = new /\ mem'[d].e = dp
       /\ \A j \in Inodes : j # i /\ j # d => mem'[j] = mem[j]
       /\ \A j \in Inodes : /\ mem'[j] = NULL <=> mem[j] = NULL
                            /\ mem'[j].lock = mem[j].lock /\ mem'[j].valid = mem[j].valid
                            /\ mem'[j].by = mem[j].by /\ mem'[j].rc = mem[j].rc
  BY <1>5, <1>16, <1>18, <1>19
<1> QED
  BY <1>2, <1>4, <1>12, <1>13, <1>20 DEF MakeResult

LEMMA MakeDir == ASSUME RefInv, RefInv', DirInv, NEW p \in Procs, Make(p) PROVE DirInv'
<1>1. At(p, "make") /\ ~ panicked /\ ~ panicked'
  BY DEF Make, At
<1>2. PICK i, a, d : i = Head(todo[p]).i /\ a = arg[p] /\ d = a.dp
  OBVIOUS
<1>3. "make" \in DpOps /\ "make" \in LastOps /\ "make" \in ParentOps
  BY DEF DpOps, LastOps, ParentOps
<1>4. /\ i \in Inodes /\ d \in Inodes /\ i # d
      /\ SingleFacts(todo[p], a, "make", i)
      /\ Loaded(mem, i) /\ Loaded(mem, d) /\ mem[d].e = itab[d] /\ itab[d].type = "dir"
      /\ LooksAt(todo[p], a, d, i)
      /\ \A j : WillUnlock(todo[p], a, j) => j = i \/ j = d
  BY <1>2, MakeIs DEF ChildFacts
<1>5. a \in ParentArg /\ a.type # "any" /\ itab[i].type = a.type
  BY <1>1, <1>2, <1>3, LastReady
<1>6. dirs \in [Inodes -> SUBSET (Names \X Inodes)]
  BY <1>1 DEF RefInv, TypesOk
<1>7. PICK s : /\ Rest(p, s)
               /\ \/ s = <<Step("unlock", d), Step("put", d), Step("open", i)>>
                  \/ s = <<Step("unlock", d), Step("put", d), Step("unlock", i), Step("put", i)>>
  BY <1>2, <1>4, MakeScript
<1>8. s \in Seq(StepRec)
  BY <1>1, <1>7, NextScript
<1>9. /\ Leaves(s) /\ (\A k \in 1 .. Len(s) : s[k].op # "drop")
      /\ \E k \in 1 .. Len(s) : s[k].op \in {"unlock", "open"} /\ s[k].i = i
      /\ \E k \in 1 .. Len(s) : s[k].op = "unlock" /\ s[k].i = d
  <2>1. CASE s = <<Step("unlock", d), Step("put", d), Step("open", i)>>
    <3>1. /\ Len(s) = 3 /\ s[1].op = "unlock" /\ s[1].i = d /\ s[2].op = "put"
          /\ s[3].op = "open" /\ s[3].i = i
      BY <2>1 DEF Step
    <3>2. \A k \in 1 .. 3 : k = 1 \/ k = 2 \/ k = 3
      OBVIOUS
    <3> QED
      BY <1>8, <3>1, <3>2 DEF Leaves
  <2>2. CASE s = <<Step("unlock", d), Step("put", d), Step("unlock", i), Step("put", i)>>
    <3>1. /\ Len(s) = 4 /\ s[1].op = "unlock" /\ s[1].i = d /\ s[2].op = "put"
          /\ s[3].op = "unlock" /\ s[3].i = i /\ s[4].op = "put"
      BY <2>2 DEF Step
    <3>2. \A k \in 1 .. 4 : k = 1 \/ k = 2 \/ k = 3 \/ k = 4
      OBVIOUS
    <3> QED
      BY <1>8, <3>1, <3>2 DEF Leaves
  <2> QED
    BY <1>7, <2>1, <2>2
<1>10. MakeResult(i, d, a.type)
  BY <1>2, MakeIs
<1>11. dirs' = [dirs EXCEPT ![d] = @ \cup {<<a.name, i>>}]
  BY <1>2 DEF Make
<1>12. a.type # "invalid"
  BY <1>5 DEF ParentArg
<1>20. \A j : MakeOn(todo[p], j) => j = i
  BY <1>4 DEF SingleFacts
<1>22. \A j \in Inodes : dirs'[j] # {} => itab'[j].type = "dir"
  <2> SUFFICES ASSUME NEW j \in Inodes, dirs'[j] # {} PROVE itab'[j].type = "dir"
    OBVIOUS
  <2>1. CASE j = d
    BY <1>10, <2>1 DEF MakeResult
  <2>2. CASE j # d
    <3>1. dirs'[j] = dirs[j]
      BY <1>6, <1>11, <2>2
    <3>2. itab[j].type = "dir"
      BY <1>1, <3>1 DEF DirInv, EntriesOk
    <3> QED
      BY <1>5, <1>10, <2>2, <3>2 DEF MakeResult
  <2> QED
    BY <2>1, <2>2
<1>23. \A j \in Inodes : itab'[j] = itab[j] \/ (itab'[j].type = itab[j].type /\ itab[j].type # "invalid")
  BY <1>4, <1>5, <1>10, <1>12 DEF MakeResult
<1>24. \A j \in Inodes : mem'[j] # NULL =>
          /\ mem[j] # NULL /\ mem'[j].lock = mem[j].lock /\ mem'[j].valid = mem[j].valid
          /\ \/ mem'[j].e = mem[j].e /\ itab'[j] = itab[j] /\ ~ MakeOn(todo[p], j)
             \/ mem'[j].e = itab'[j] /\ itab'[j].type # "invalid"
  BY <1>4, <1>10, <1>12, <1>20 DEF MakeResult
<1>25. PICK b : b = arg'[p]
  OBVIOUS
<1>26. /\ Quits(s, b) /\ \A I, m : ReadyOk(s, b, I, m)
       /\ \A k \in 1 .. Len(s) : s[k].op \in {"unlock", "open"} => WillUnlock(s, b, s[k].i)
  BY <1>9, LeavesIs DEF Quits
<1>27. Quits(s, arg'[p])
  BY <1>25, <1>26
<1>28. \A j \in Inodes : WillUnlock(todo[p], arg[p], j) => WillUnlock(s, arg'[p], j)
  <2>1. WillUnlock(s, b, i) /\ WillUnlock(s, b, d)
    BY <1>9, <1>26
  <2> QED
    BY <1>2, <1>4, <1>25, <2>1
<1>29. Acyclic(EdgesIn(dirs', todo', arg'))
  <2>1. ASSUME NEW j \in Inodes, NEW y \in dirs'[j]
        PROVE  y \in dirs[j] \/ LooksAt(todo[p], arg[p], j, y[2])
    <3>1. CASE j = d
      BY <1>2, <1>4, <1>6, <1>11, <2>1, <3>1
    <3>2. CASE j # d
      BY <1>6, <1>11, <2>1, <3>2
    <3> QED
      BY <3>1, <3>2
  <2> QED
    BY <1>1, <1>7, <1>27, <2>1, LeaveEdges
<1>30. ReadyOk(s, arg'[p], itab', mem')
  <2>1. PICK I, m : I = itab' /\ m = mem'
    OBVIOUS
  <2> QED
    BY <1>25, <1>26, <2>1
<1> QED
  BY <1>1, <1>7, <1>27, <1>22, <1>23, <1>24, <1>28, <1>29, <1>30, LeaveStep

\* An inode in memory with a type is what its block says.
LEMMA TypedIs ==
    ASSUME DirInv, ~ panicked, NEW i \in Inodes, Loaded(mem, i),
           mem[i].e.type # "invalid" \/ mem[i].e.links # 0
    PROVE  mem[i].e = itab[i] /\ itab[i].type # "invalid"
<1>1. Free.type = "invalid" /\ Free.links = 0
  BY DEF Free, Entry
<1>2. EntriesOk
  BY DEF DirInv
<1>3. mem[i].e = itab[i]
  BY <1>1, <1>2 DEF EntriesOk
<1> QED
  BY <1>1, <1>2, <1>3 DEF EntriesOk

\* What unlinkat leaves when it takes the entry of i away: the directory has
\* one link less if i is a directory.
UnlinkScript(i, d) == <<Step("unlock", d), Step("put", d), Step("drop", i), Step("unlock", i), Step("put", i)>>
UnlinkResult(i, d) ==
    /\ mem[i].e = itab[i] /\ itab[i].type # "invalid"
    /\ itab[i].type = "dir" => dirs[i] = {}
    /\ itab'[d].type = "dir" /\ itab'[d].links = itab[d].links - (IF itab[i].type = "dir" THEN 1 ELSE 0)
    /\ mem'[d].e = itab'[d]
    /\ \A j \in Inodes : j # d => itab'[j] = itab[j] /\ mem'[j] = mem[j]
    /\ \A j \in Inodes : /\ mem'[j] = NULL <=> mem[j] = NULL
                         /\ mem'[j].lock = mem[j].lock /\ mem'[j].valid = mem[j].valid
                         /\ mem'[j].by = mem[j].by /\ mem'[j].rc = mem[j].rc

LEMMA UnlinkIs ==
    ASSUME RefInv, DirInv, NEW p \in Procs, Unlink(p), ~ panicked', NEW i, i = Head(todo[p]).i,
           NEW d, d = arg[p].dp
    PROVE  /\ ChildFacts(p, "unlink", i, d)
           /\ \/ Rest(p, Refused(d, i)) /\ UNCHANGED inodes
              \/ /\ Rest(p, UnlinkScript(i, d)) /\ dirs' = Erased(d, arg[p].name, i)
                 /\ UnlinkResult(i, d)
<1>1. At(p, "unlink") /\ ~ panicked
  BY DEF Unlink, At
<1>2. ChildFacts(p, "unlink", i, d)
  <2>1. PICK op \in DpOps : op = "unlink"
    BY DEF DpOps
  <2>2. At(p, op)
    BY <1>1, <2>1
  <2>3. ChildFacts(p, op, i, d)
    BY <1>1, <2>2, ChildReady
  <2> QED
    BY <2>1, <2>3
<1>3. /\ i \in Inodes /\ d \in Inodes /\ i # d
      /\ Loaded(mem, i) /\ Loaded(mem, d) /\ mem[d].e = itab[d] /\ itab[d].type = "dir"
  BY <1>2 DEF ChildFacts
<1>4. mem \in MemTable /\ itab \in [Inodes -> [type : Types, links : Int]]
  BY <1>1 DEF RefInv, TypesOk, MemTable
<1>5. PICK isDir, dp : isDir = (mem[i].e.type = "dir") /\ dp = Fewer(mem[d].e)
  BY Zenon
<1>6. \/ Rest(p, Refused(d, i)) /\ UNCHANGED inodes
      \/ /\ isDir => dirs[i] = {}
         /\ dirs' = Erased(d, arg[p].name, i)
         /\ mem' = IF isDir THEN [mem EXCEPT ![d].e = dp] ELSE mem
         /\ itab' = IF isDir THEN [itab EXCEPT ![d] = dp] ELSE itab
         /\ Rest(p, UnlinkScript(i, d))
  BY <1>5, Zenon DEF Unlink, UnlinkScript, IsDirEmpty
<1>7. ASSUME isDir => dirs[i] = {}, mem' = IF isDir THEN [mem EXCEPT ![d].e = dp] ELSE mem,
             itab' = IF isDir THEN [itab EXCEPT ![d] = dp] ELSE itab
      PROVE  UnlinkResult(i, d)
  <2>1. mem[i] \in MemInode /\ mem[i].e.links \in Int /\ mem[d] # NULL
    BY <1>3, <1>4 DEF MemTable, MemInode, Loaded
  <2>2. mem[i].e = itab[i] /\ itab[i].type # "invalid"
    <3>1. ~ (mem[i].e.links < 1)
      BY DEF Unlink
    <3>2. mem[i].e.links # 0
      BY <2>1, <3>1
    <3> QED
      BY <1>1, <1>3, <3>2, TypedIs
  <2>3. dp \in [type : Types, links : Int] /\ dp.type = "dir" /\ dp.links = itab[d].links - 1
    <3>1. itab[d] \in [type : Types, links : Int]
      BY <1>3, <1>4
    <3>2. dp \in [type : Types, links : Int] /\ dp = [type |-> mem[d].e.type, links |-> mem[d].e.links - 1]
      BY <1>3, <1>5, <3>1, FewerIs
    <3> QED
      BY <1>3, <3>2
  <2>4. CASE isDir
    <3>1. PICK m, m2 : m = mem /\ m2 = mem'
      OBVIOUS
    <3>2. EntrySet(m, d, dp, m2)
      BY <1>3, <1>4, <1>7, <2>1, <2>3, <2>4, <3>1 DEF EntrySet
    <3>3. /\ \A j \in Inodes : m2[j] = NULL <=> m[j] = NULL
          /\ m2[d].e = dp /\ m2[d].lock = m[d].lock /\ m2[d].valid = m[d].valid
          /\ m2[d].by = m[d].by /\ m2[d].rc = m[d].rc
          /\ \A j \in Inodes : j # d => m2[j] = m[j]
      BY <3>2, EntryKeeps
    <3>4. itab'[d] = dp /\ \A j \in Inodes : j # d => itab'[j] = itab[j]
      BY <1>3, <1>4, <1>7, <2>4
    <3>5. itab[i].type = "dir" /\ dirs[i] = {}
      BY <1>5, <1>7, <2>2, <2>4
    <3>6. /\ mem'[d].e = itab'[d] /\ itab'[d].type = "dir" /\ itab'[d].links = itab[d].links - 1
          /\ \A j \in Inodes : j # d => itab'[j] = itab[j] /\ mem'[j] = mem[j]
      BY <2>3, <3>1, <3>3, <3>4
    <3>7. \A j \in Inodes : /\ mem'[j] = NULL <=> mem[j] = NULL
                            /\ mem'[j].lock = mem[j].lock /\ mem'[j].valid = mem[j].valid
                            /\ mem'[j].by = mem[j].by /\ mem'[j].rc = mem[j].rc
      BY <3>1, <3>3
    <3> QED
      BY <2>2, <3>5, <3>6, <3>7 DEF UnlinkResult
  <2>5. CASE ~ isDir
    <3>1. mem' = mem /\ itab' = itab /\ itab[i].type # "dir"
      BY <1>5, <1>7, <2>2, <2>5
    <3>2. itab[d].links \in Int
      BY <1>3, <1>4
    <3> QED
      BY <1>3, <2>2, <3>1, <3>2 DEF UnlinkResult
  <2> QED
    BY <2>4, <2>5
<1> QED
  BY <1>2, <1>6, <1>7

LEMMA UnlinkDir == ASSUME RefInv, RefInv', DirInv, NEW p \in Procs, Unlink(p) PROVE DirInv'
<1>1. At(p, "unlink") /\ ~ panicked
  BY DEF Unlink, At
<1>2. CASE panicked'
  BY <1>2 DEF DirInv
<1>3. CASE ~ panicked'
  <2>1. PICK i, a, d : i = Head(todo[p]).i /\ a = arg[p] /\ d = a.dp
    OBVIOUS
  <2>2. /\ ChildFacts(p, "unlink", i, d)
        /\ \/ Rest(p, Refused(d, i)) /\ UNCHANGED inodes
           \/ /\ Rest(p, UnlinkScript(i, d)) /\ dirs' = Erased(d, a.name, i)
              /\ UnlinkResult(i, d)
    BY <1>3, <2>1, UnlinkIs
  <2>4. /\ i \in Inodes /\ d \in Inodes /\ i # d /\ todo[p] = <<Step("unlink", i)>>
        /\ SingleFacts(todo[p], a, "unlink", i)
        /\ Loaded(mem, i) /\ Loaded(mem, d) /\ mem[d].e = itab[d] /\ itab[d].type = "dir"
        /\ \A j : WillUnlock(todo[p], a, j) => j = i \/ j = d
    BY <2>1, <2>2 DEF ChildFacts
  <2>5. CASE Rest(p, Refused(d, i)) /\ UNCHANGED inodes
    <3>1. itab' = itab /\ dirs' = dirs /\ mem' = mem
      BY <2>5 DEF inodes
    <3>2. PICK s : s = <<Step("unlock", i), Step("put", i), Step("unlock", d), Step("put", d)>>
      OBVIOUS
    <3>3. Rest(p, s)
      BY <2>5, <3>2 DEF Refused
    <3>4. s \in Seq(StepRec)
      BY <1>1, <1>3, <3>3, NextScript
    <3>5. /\ Len(s) = 4 /\ s[1].op = "unlock" /\ s[1].i = i /\ s[2].op = "put"
          /\ s[3].op = "unlock" /\ s[3].i = d /\ s[4].op = "put"
      BY <3>2 DEF Step
    <3>6. \A k \in 1 .. 4 : k = 1 \/ k = 2 \/ k = 3 \/ k = 4
      OBVIOUS
    <3>7. /\ Leaves(s) /\ (\A k \in 1 .. Len(s) : s[k].op # "drop")
          /\ \E k \in 1 .. Len(s) : s[k].op \in {"unlock", "open"} /\ s[k].i = i
          /\ \E k \in 1 .. Len(s) : s[k].op = "unlock" /\ s[k].i = d
      BY <3>4, <3>5, <3>6 DEF Leaves
    <3>8. "unlink" \in LastOps /\ "unlink" \notin {"make", "swap"}
      BY DEF LastOps
    <3> QED
      BY <1>1, <1>3, <2>1, <2>4, <3>1, <3>3, <3>7, <3>8, LeaveDir
  <2>6. CASE /\ Rest(p, UnlinkScript(i, d)) /\ dirs' = Erased(d, a.name, i)
             /\ UnlinkResult(i, d)
    <3>1. dirs \in [Inodes -> SUBSET (Names \X Inodes)]
      BY <1>1 DEF RefInv, TypesOk
    <3>2. PICK s : s = <<Step("unlock", d), Step("put", d), Step("drop", i), Step("unlock", i), Step("put", i)>>
      OBVIOUS
    <3>3. Rest(p, s)
      BY <2>6, <3>2 DEF UnlinkScript
    <3>4. s \in Seq(StepRec)
      BY <1>1, <1>3, <3>3, NextScript
    <3>5. /\ Len(s) = 5 /\ s[1].op = "unlock" /\ s[1].i = d /\ s[2].op = "put" /\ s[3].op = "drop" /\ s[3].i = i
          /\ s[4].op = "unlock" /\ s[4].i = i /\ s[5].op = "put"
      BY <3>2 DEF Step
    <3>6. \A k \in 1 .. 5 : k = 1 \/ k = 2 \/ k = 3 \/ k = 4 \/ k = 5
      OBVIOUS
    <3>7. /\ Leaves(s) /\ (\A k \in 1 .. Len(s) : s[k].op = "drop" => s[k].i = i)
          /\ \E k \in 1 .. Len(s) : s[k].op \in {"unlock", "open"} /\ s[k].i = i
          /\ \E k \in 1 .. Len(s) : s[k].op = "unlock" /\ s[k].i = d
      BY <3>4, <3>5, <3>6 DEF Leaves
    <3>14. \A j \in Inodes : dirs'[j] \subseteq dirs[j]
      BY <2>4, <2>6, <3>1 DEF Erased
    <3>15. \A j \in Inodes : dirs'[j] # {} => itab'[j].type = "dir"
      <4>1. \A j \in Inodes : dirs[j] # {} => itab[j].type = "dir"
        BY <1>1 DEF DirInv, EntriesOk
      <4> QED
        BY <2>6, <3>14, <4>1 DEF UnlinkResult
    <3>16. \A j \in Inodes : itab'[j] = itab[j] \/ (itab'[j].type = itab[j].type /\ itab[j].type # "invalid")
      BY <2>4, <2>6 DEF UnlinkResult
    <3>17. \A j : ~ MakeOn(todo[p], j)
      BY <2>4 DEF SingleFacts
    <3>18. \A j \in Inodes : mem'[j] # NULL =>
              /\ mem[j] # NULL /\ mem'[j].lock = mem[j].lock /\ mem'[j].valid = mem[j].valid
              /\ \/ mem'[j].e = mem[j].e /\ itab'[j] = itab[j] /\ ~ MakeOn(todo[p], j)
                 \/ mem'[j].e = itab'[j] /\ itab'[j].type # "invalid"
      BY <2>6, <3>17 DEF UnlinkResult
    <3>19. PICK b : b = arg'[p]
      OBVIOUS
    <3>20. /\ Quits(s, b)
           /\ \A I, m : (\A k \in 1 .. Len(s) : s[k].op = "drop" => Loaded(m, s[k].i) /\ m[s[k].i].e.type # "invalid")
                 => ReadyOk(s, b, I, m)
           /\ \A k \in 1 .. Len(s) : s[k].op \in {"unlock", "open"} => WillUnlock(s, b, s[k].i)
      BY <3>7, LeavesIs DEF Quits
    <3>21. Quits(s, arg'[p])
      BY <3>19, <3>20
    <3>22. ReadyOk(s, arg'[p], itab', mem')
      <4>1. PICK I, m : I = itab' /\ m = mem'
        OBVIOUS
      <4>2. Loaded(m, i) /\ m[i].e.type # "invalid"
        BY <2>4, <2>6, <4>1 DEF Loaded, UnlinkResult
      <4> QED
        BY <3>7, <3>19, <3>20, <4>1, <4>2
    <3>23. \A j \in Inodes : WillUnlock(todo[p], arg[p], j) => WillUnlock(s, arg'[p], j)
      <4>1. WillUnlock(s, b, i) /\ WillUnlock(s, b, d)
        BY <3>7, <3>20
      <4> QED
        BY <2>1, <2>4, <3>19, <4>1
    <3>24. Acyclic(EdgesIn(dirs', todo', arg'))
      BY <1>1, <3>3, <3>14, <3>21, LeaveEdges
    <3> QED
      BY <1>1, <1>3, <3>3, <3>15, <3>16, <3>18, <3>21, <3>22, <3>23, <3>24, LeaveStep
  <2> QED
    BY <2>2, <2>5, <2>6
<1> QED
  BY <1>2, <1>3

\* What is left when i has lost a link.
DropResult(i) ==
    /\ Loaded(mem, i) /\ mem[i].e = itab[i] /\ itab[i].type # "invalid"
    /\ itab'[i].type = itab[i].type /\ itab'[i].links = itab[i].links - 1 /\ mem'[i].e = itab'[i]
    /\ \A j \in Inodes : j # i => itab'[j] = itab[j] /\ mem'[j] = mem[j]
    /\ \A j \in Inodes : /\ mem'[j] = NULL <=> mem[j] = NULL
                         /\ mem'[j].lock = mem[j].lock /\ mem'[j].valid = mem[j].valid
                         /\ mem'[j].by = mem[j].by /\ mem'[j].rc = mem[j].rc

LEMMA DropIs ==
    ASSUME RefInv, DirInv, NEW p \in Procs, Drop(p), NEW i, i = Head(todo[p]).i, NEW s, s = todo[p]
    PROVE  /\ i \in Inodes /\ s \in Seq(StepRec) /\ s # <<>> /\ s[1].op = "drop" /\ s[1].i = i
           /\ 1 \in 1 .. Len(s) /\ DropResult(i)
<1>1. At(p, "drop") /\ ~ panicked
  BY DEF Drop, At
<1>3. i \in Inodes /\ mem[i] # NULL /\ mem[i] \in MemInode
  BY <1>1, PassStep
<1>4. /\ mem \in MemTable /\ itab \in [Inodes -> [type : Types, links : Int]]
      /\ s \in Seq(StepRec) /\ s # <<>>
  BY <1>1 DEF RefInv, TypesOk, MemTable, At
<1>5. s[1].op = "drop" /\ s[1].i = i /\ 1 \in 1 .. Len(s)
  BY <1>1, <1>4 DEF At
<1>6. ReadyOk(s, arg[p], itab, mem)
  BY <1>1 DEF DirInv
<1>7. Loaded(mem, i) /\ mem[i].e.type # "invalid"
  BY <1>5, <1>6 DEF ReadyOk
<1>8. mem[i].e = itab[i]
  BY <1>1, <1>3, <1>7, TypedIs
<1>9. PICK e : e = Fewer(mem[i].e)
  OBVIOUS
<1>10. e \in [type : Types, links : Int] /\ e.type = itab[i].type /\ e.links = itab[i].links - 1
  <2>1. itab[i] \in [type : Types, links : Int]
    BY <1>3, <1>4
  <2>2. e \in [type : Types, links : Int] /\ e = [type |-> mem[i].e.type, links |-> mem[i].e.links - 1]
    BY <1>8, <1>9, <2>1, FewerIs
  <2> QED
    BY <1>8, <2>2
<1>11. itab'[i] = e /\ \A j \in Inodes : j # i => itab'[j] = itab[j]
  BY <1>3, <1>4, <1>9 DEF Drop, Synced
<1>12. /\ \A j \in Inodes : (mem'[j] = NULL <=> mem[j] = NULL)
       /\ mem'[i].e = e /\ mem'[i].lock = mem[i].lock /\ mem'[i].valid = mem[i].valid
       /\ mem'[i].by = mem[i].by /\ mem'[i].rc = mem[i].rc
       /\ \A j \in Inodes : j # i => mem'[j] = mem[j]
  <2>1. PICK m, m2 : m = mem /\ m2 = mem'
    OBVIOUS
  <2>2. m2 = [m EXCEPT ![i].e = e]
    BY <1>9, <2>1 DEF Drop
  <2>3. EntrySet(m, i, e, m2)
    BY <1>3, <1>4, <1>10, <2>1, <2>2 DEF EntrySet
  <2>4. /\ \A j \in Inodes : m2[j] = NULL <=> m[j] = NULL
        /\ m2[i].e = e /\ m2[i].lock = m[i].lock /\ m2[i].valid = m[i].valid
        /\ m2[i].by = m[i].by /\ m2[i].rc = m[i].rc
        /\ \A j \in Inodes : j # i => m2[j] = m[j]
    BY <2>3, EntryKeeps
  <2> QED
    BY <2>1, <2>4
<1> QED
  BY <1>3, <1>4, <1>5, <1>7, <1>8, <1>10, <1>11, <1>12 DEF DropResult

LEMMA DropDir == ASSUME RefInv, RefInv', DirInv, NEW p \in Procs, Drop(p) PROVE DirInv'
<1>1. At(p, "drop") /\ ~ panicked /\ ~ panicked' /\ Rest(p, Tail(todo[p])) /\ dirs' = dirs
  BY DEF Drop, At
<1>2. PICK i, s : i = Head(todo[p]).i /\ s = todo[p]
  OBVIOUS
<1>3. /\ i \in Inodes /\ s \in Seq(StepRec) /\ s # <<>> /\ s[1].op = "drop" /\ s[1].i = i
      /\ 1 \in 1 .. Len(s) /\ DropResult(i)
  BY <1>2, DropIs
<1>6. ShapeOk(s) /\ ReadyOk(s, arg[p], itab, mem)
  BY <1>1, <1>2 DEF DirInv
<1>13. "drop" \notin ParentOps /\ "drop" \notin Unlockers /\ "drop" # "lock"
  BY DEF ParentOps, Unlockers, LastOps
<1>14. PICK t, a, b : t = Tail(s) /\ a = arg[p] /\ b = arg'[p]
  BY Zenon
<1>15. /\ Quits(t, b)
       /\ \A I, m : ReadyOk(s, a, I, m) => ReadyOk(t, b, I, m)
       /\ \A j : ~ MakeOn(s, j)
       /\ \A j : WillUnlock(s, a, j) => WillUnlock(t, b, j)
  <2>1. /\ ShapeOk(t)
        /\ \A c, I, m, d : ReadyOk(s, c, I, m) => ReadyOk(t, d, I, m)
        /\ \A j, k, c : ~ MakeOn(t, j) /\ ~ ParentIs(t, c, j) /\ ~ LooksAt(t, c, j, k)
        /\ \A j, k, c : s[1].op \notin ParentOps =>
              ~ MakeOn(s, j) /\ ~ ParentIs(s, c, j) /\ ~ LooksAt(s, c, j, k)
        /\ \A c, d, j : WillUnlock(s, c, j) /\ (s[1].op \in Unlockers => s[1].i # j) /\ s[1].op \notin ParentOps
              => WillUnlock(t, d, j)
    BY <1>3, <1>6, <1>13, <1>14, TailIs
  <2> QED
    BY <1>3, <1>13, <2>1 DEF Quits
<1>16. Rest(p, t) /\ Quits(t, arg'[p]) /\ todo'[p] = t
  <2>1. Rest(p, t)
    BY <1>1, <1>2, <1>14
  <2> QED
    BY <1>1, <1>14, <1>15, <2>1, RestIs
<1>17. Acyclic(EdgesIn(dirs', todo', arg'))
  BY <1>1, <1>16, LeaveEdges
<1>18. \A j \in Inodes : dirs'[j] # {} => itab'[j].type = "dir"
  <2>1. \A j \in Inodes : dirs[j] # {} => itab[j].type = "dir"
    BY <1>1 DEF DirInv, EntriesOk
  <2> QED
    BY <1>1, <1>3, <2>1 DEF DropResult
<1>19. \A j \in Inodes : itab'[j] = itab[j] \/ (itab'[j].type = itab[j].type /\ itab[j].type # "invalid")
  BY <1>3 DEF DropResult
<1>20. \A j \in Inodes : mem'[j] # NULL =>
          /\ mem[j] # NULL /\ mem'[j].lock = mem[j].lock /\ mem'[j].valid = mem[j].valid
          /\ \/ mem'[j].e = mem[j].e /\ itab'[j] = itab[j] /\ ~ MakeOn(todo[p], j)
             \/ mem'[j].e = itab'[j] /\ itab'[j].type # "invalid"
  BY <1>2, <1>3, <1>15 DEF DropResult
<1>21. ReadyOk(t, arg'[p], itab', mem')
  <2>1. ReadyOk(t, arg'[p], itab, mem)
    BY <1>6, <1>14, <1>15
  <2>2. \A j \in Inodes : Loaded(mem, j) /\ mem'[j] # NULL =>
           mem'[j].valid /\ (mem[j].e.type # "invalid" => mem'[j].e.type # "invalid")
    BY <1>3 DEF DropResult, Loaded
  <2>3. \A j \in Inodes : mem'[j] # NULL => itab'[j].type = itab[j].type \/ itab[j].type = "invalid"
    BY <1>19
  <2> QED
    BY <1>1, <1>16, <2>1, <2>2, <2>3, ReadyNext
<1>22. \A j \in Inodes : WillUnlock(todo[p], arg[p], j) => WillUnlock(t, arg'[p], j)
  BY <1>2, <1>14, <1>15
<1> QED
  BY <1>1, <1>16, <1>17, <1>18, <1>19, <1>20, <1>21, <1>22, LeaveStep

LEMMA SwapDir == ASSUME DirInv, NEW p \in Procs, Swap(p) PROVE DirInv'
  BY DEF Swap, DirInv

\* dup: no inode is touched.
LEMMA SameDir == ASSUME DirInv, UNCHANGED <<inodes, todo, arg, panicked>> PROVE DirInv'
<1>1. itab' = itab /\ dirs' = dirs /\ mem' = mem /\ todo' = todo /\ arg' = arg /\ panicked' = panicked
  BY DEF inodes
<1>2. DirInv' <=> DirInv
  BY <1>1 DEF DirInv, EntriesOk, LocksOk
<1> QED
  BY <1>2

\* close, between calls, may put an inode.
LEMMA CloseDir == ASSUME RefInv, RefInv', DirInv, NEW p \in Procs, NEW d \in Fds, Close(p, d) PROVE DirInv'
<1>1. /\ todo[p] = <<>> /\ ~ panicked /\ ~ panicked' /\ todo' = todo /\ arg' = arg
      /\ ofiles[p][d] # NULL /\ panicked' = panicked
  BY DEF Close, May
<1>2. PICK f : f = ofiles[p][d]
  OBVIOUS
<1>3. PICK i \in Inodes : i = files[f].ip /\ i \in OpenBy(p)
  BY <1>1, <1>2, FdFile DEF RefInv
<1>4. CASE UNCHANGED inodes
  BY <1>1, <1>4, SameDir
<1>5. CASE PutInode(i)
  <2>1. mem[i] # NULL
    BY <1>1, <1>3, Referenced
  <2>2. /\ Mild
        /\ \A j \in Inodes : mem'[j] # NULL => mem[j] # NULL /\ mem'[j].lock = mem[j].lock
    BY <1>1, <1>5, <2>1, PutMild
  <2>3. PICK s : s = todo[p]
    OBVIOUS
  <2>4. ShapeOk(s) /\ ReadyOk(s, arg[p], itab, mem)
    BY <1>1, <2>3 DEF DirInv
  <2>5. todo' = [todo EXCEPT ![p] = s]
    BY <1>1, <2>3 DEF RefInv, TypesOk
  <2> QED
    BY <1>1, <2>2, <2>3, <2>4, <2>5, MildTail
<1> QED
  BY <1>2, <1>3, <1>4, <1>5 DEF Close

LEMMA DirInit == ASSUME Init PROVE DirInv
<1>1. PICK name \in Names : dirs = [i \in Inodes |-> IF i = Root THEN {<<name, 2>>} ELSE {}]
  BY DEF Init
<1>2. /\ itab = [i \in Inodes |-> IF i = Root THEN Entry("dir", 1)
                                  ELSE IF i = 2 THEN Entry("file", 1) ELSE Free]
      /\ mem = [i \in Inodes |-> IF i = Root THEN NewInode ELSE NULL]
      /\ todo = [q \in Procs |-> <<>>]
  BY DEF Init
<1>3. Entry("dir", 1).type = "dir" /\ Entry("file", 1).type = "file"
  BY DEF Entry
<1>4. \A i \in Inodes : mem[i] # NULL => mem[i].lock = 1 /\ ~ mem[i].valid
  BY <1>2 DEF NewInode
<1>5. EntriesOk
  <2> SUFFICES ASSUME NEW i \in Inodes
               PROVE  /\ dirs[i] # {} => itab[i].type = "dir"
                      /\ itab[i].type = "invalid" => itab[i] = Free
    BY <1>4 DEF EntriesOk, Loaded
  <2>1. CASE i = Root
    BY <1>2, <1>3, <2>1
  <2>2. CASE i # Root
    BY <1>1, <1>2, <1>3, <2>2
  <2> QED
    BY <2>1, <2>2
<1>6. LocksOk
  BY <1>4 DEF LocksOk
<1>7. \A q \in Procs : ShapeOk(todo[q]) /\ ReadyOk(todo[q], arg[q], itab, mem)
  BY <1>2 DEF ShapeOk, ReadyOk
<1>8. ASSUME NEW S \in SUBSET Inodes, S # {}
      PROVE  \E i \in S : \A j \in S : <<i, j>> \notin EdgesIn(dirs, todo, arg)
  <2>1. \A q \in Procs : \A a, i, j : ~ LooksAt(todo[q], a, i, j)
    BY <1>2 DEF LooksAt
  <2>2. ASSUME NEW i \in Inodes, NEW j \in Inodes, <<i, j>> \in EdgesIn(dirs, todo, arg)
        PROVE  i = Root /\ j = 2
    <3>1. PICK y \in dirs[i] : y[2] = j
      BY <2>1, <2>2 DEF EdgesIn
    <3> QED
      BY <1>1, <3>1
  <2>3. Root # 2
    BY DEF Root
  <2>4. CASE 2 \in S
    BY <1>8, <2>2, <2>3, <2>4
  <2>5. CASE 2 \notin S
    <3>1. PICK i \in S : TRUE
      BY <1>8
    <3>2. \A j \in S : <<i, j>> \notin EdgesIn(dirs, todo, arg)
      BY <1>8, <2>2, <2>5
    <3> QED
      BY <3>2
  <2> QED
    BY <2>4, <2>5
<1> QED
  BY <1>5, <1>6, <1>7, <1>8 DEF DirInv, Acyclic

LEMMA DirNext == ASSUME RefInv, DirInv, [Next]_vars, ~ dotted' PROVE DirInv'
<1>1. RefInv'
  BY RefNext
<1>2. CASE Next
  <2>1. PICK p \in Procs :
          \/ Openat(p) \/ Mkdirat(p) \/ Mknodat(p) \/ Unlinkat(p) \/ Chdir(p) \/ Newfstatat(p)
          \/ \E d \in Fds : Dup(p, d) \/ Close(p, d) \/ Access(p, d)
          \/ Lock(p) \/ Unlock(p) \/ Put(p)
          \/ Find(p) \/ Exists(p) \/ Make(p) \/ Look(p) \/ Unlink(p) \/ Drop(p)
          \/ Open(p) \/ Stat(p) \/ Enter(p) \/ Swap(p)
    BY <1>2 DEF Next
  <2>2. CASE Openat(p) \/ Mkdirat(p) \/ Mknodat(p) \/ Unlinkat(p) \/ Chdir(p) \/ Newfstatat(p)
    BY <1>1, <2>2, CallsDir
  <2>3. CASE \E d \in Fds : Dup(p, d)
    BY <2>3, SameDir DEF Dup
  <2>4. CASE \E d \in Fds : Close(p, d)
    BY <1>1, <2>4, CloseDir
  <2>5. CASE \E d \in Fds : Access(p, d)
    BY <1>1, <2>5, AccessDir
  <2>6. CASE Lock(p)
    BY <1>1, <2>6, LockDir
  <2>7. CASE Unlock(p)
    BY <1>1, <2>7, UnlockDir
  <2>8. CASE Put(p)
    BY <1>1, <2>8, PutDir
  <2>9. CASE Find(p)
    BY <1>1, <2>9, FindDir
  <2>10. CASE Exists(p)
    BY <1>1, <2>10, ExistsDir
  <2>11. CASE Make(p)
    BY <1>1, <2>11, MakeDir
  <2>12. CASE Look(p)
    BY <1>1, <2>12, LookDir
  <2>13. CASE Unlink(p)
    BY <1>1, <2>13, UnlinkDir
  <2>14. CASE Drop(p)
    BY <1>1, <2>14, DropDir
  <2>15. CASE Open(p)
    BY <1>1, <2>15, OpenDir
  <2>16. CASE Stat(p)
    BY <1>1, <2>16, StatDir
  <2>17. CASE Enter(p)
    BY <1>1, <2>17, EnterDir
  <2>18. CASE Swap(p)
    BY <2>18, SwapDir
  <2> QED
    BY <2>1, <2>2, <2>3, <2>4, <2>5, <2>6, <2>7, <2>8, <2>9, <2>10, <2>11, <2>12, <2>13, <2>14,
       <2>15, <2>16, <2>17, <2>18
<1>3. CASE UNCHANGED vars
  <2>1. UNCHANGED <<inodes, todo, arg, panicked>>
    BY <1>3 DEF vars, inodes
  <2> QED
    BY <2>1, SameDir
<1> QED
  BY <1>2, <1>3

\* Who waits for a lock that is taken waits for one who waits for a lock
\* further down in the directories.
LEMMA WaitsDown ==
    ASSUME RefInv, DirInv, ~ panicked, NEW p \in Procs, NEW i, At(p, "lock"), i = Head(todo[p]).i,
           ~ (mem[i].lock > 0)
    PROVE  /\ i \in Inodes
           /\ \E q \in Procs : /\ todo[q] # <<>>
                               /\ At(q, "lock") => <<i, Head(todo[q]).i>> \in EdgesIn(dirs, todo, arg)
<1>1. i \in Inodes /\ mem[i] # NULL /\ mem[i] \in MemInode
  BY PassStep
<1>2. mem[i].lock \in Int /\ mem[i].lock >= 0
  BY <1>1 DEF MemInode, DirInv, LocksOk
<1>3. PICK q \in Procs : WillUnlock(todo[q], arg[q], i)
  BY <1>1, <1>2 DEF DirInv, LocksOk
<1>4. PICK s, a : s = todo[q] /\ a = arg[q]
  OBVIOUS
<1>5. s \in Seq(StepRec) /\ ShapeOk(s)
  BY <1>4 DEF RefInv, TypesOk, DirInv
<1>6. PICK k \in 1 .. Len(s) : \/ s[k].op \in Unlockers /\ s[k].i = i /\ s[1].op # "lock"
                               \/ s[k].op \in DpOps /\ a.dp = i
  BY <1>3, <1>4 DEF WillUnlock
<1>7. s # <<>> /\ Head(s) = s[1] /\ 1 \in 1 .. Len(s) /\ Len(s) \in Nat
  BY <1>5, <1>6
<1>8. ASSUME At(q, "lock") PROVE <<i, Head(todo[q]).i>> \in EdgesIn(dirs, todo, arg)
  <2>1. s[1].op = "lock"
    BY <1>4, <1>7, <1>8 DEF At
  <2>2. s[k].op \in DpOps /\ a.dp = i
    BY <1>6, <2>1
  <2>3. s[2].i = s[1].i /\ Len(s) = 2
    BY <1>5, <1>7, <2>1 DEF ShapeOk
  <2>4. k = 2
    BY <2>1, <2>2, <2>3 DEF DpOps
  <2>5. s[1].i \in Inodes
    <3>1. s[1] \in StepRec
      BY <1>5, <1>7, ElementOfSeq
    <3> QED
      BY <3>1 DEF StepRec
  <2>6. LooksAt(s, a, i, s[1].i)
    BY <2>2, <2>3, <2>4 DEF LooksAt
  <2> QED
    BY <1>1, <1>4, <1>7, <2>5, <2>6 DEF EdgesIn
<1> QED
  BY <1>1, <1>4, <1>7, <1>8

LEMMA SomeoneGoes == ASSUME RefInv, DirInv PROVE CallsGoOn
<1>1. PICK busy : busy = {p \in Procs : todo[p] # <<>>}
  OBVIOUS
<1>2. SUFFICES ASSUME busy # {}, \A p \in busy : At(p, "lock") /\ ~ (mem[Head(todo[p]).i].lock > 0)
               PROVE  FALSE
  BY <1>1 DEF CallsGoOn
<1>3. ~ panicked
  BY <1>2 DEF At
<1>4. PICK S : S = {Head(todo[p]).i : p \in busy}
  OBVIOUS
<1>5. S \in SUBSET Inodes /\ S # {}
  BY <1>1, <1>2, <1>3, <1>4, WaitsDown
<1>6. PICK i \in S : \A j \in S : <<i, j>> \notin EdgesIn(dirs, todo, arg)
  <2>1. PICK R : R = EdgesIn(dirs, todo, arg)
    OBVIOUS
  <2>2. Acyclic(R)
    BY <1>3, <2>1 DEF DirInv
  <2> QED
    BY <1>5, <2>1, <2>2 DEF Acyclic
<1>7. PICK p \in busy : i = Head(todo[p]).i
  BY <1>4, <1>6
<1>8. PICK q \in Procs : /\ todo[q] # <<>>
                         /\ At(q, "lock") => <<i, Head(todo[q]).i>> \in EdgesIn(dirs, todo, arg)
  BY <1>1, <1>2, <1>3, <1>7, WaitsDown
<1>9. q \in busy /\ Head(todo[q]).i \in S
  BY <1>1, <1>4, <1>8
<1> QED
  BY <1>2, <1>6, <1>8, <1>9

\* Directories and locks hold as long as create has not met Dot, which spoils
\* all that follows.
DirSafe == (dotted => spoiled) /\ (~ dotted => DirInv)

\* What is dotted stays so.
LEMMA DottedNext == ASSUME dotted => spoiled, [Next]_vars PROVE (dotted => dotted') /\ (dotted' => spoiled')
<1>1. CASE Next
  <2>1. PICK p \in Procs :
          \/ Openat(p) \/ Mkdirat(p) \/ Mknodat(p) \/ Unlinkat(p) \/ Chdir(p) \/ Newfstatat(p)
          \/ \E d \in Fds : Dup(p, d) \/ Close(p, d) \/ Access(p, d)
          \/ Lock(p) \/ Unlock(p) \/ Put(p)
          \/ Find(p) \/ Exists(p) \/ Make(p) \/ Look(p) \/ Unlink(p) \/ Drop(p)
          \/ Open(p) \/ Stat(p) \/ Enter(p) \/ Swap(p)
    BY <1>1 DEF Next
  <2>2. CASE Openat(p) \/ Mkdirat(p) \/ Mknodat(p) \/ Unlinkat(p) \/ Chdir(p) \/ Newfstatat(p)
    BY <2>2 DEF Openat, Mkdirat, Mknodat, Unlinkat, Chdir, Newfstatat, Target, Parent, Begin
  <2>3. CASE \E d \in Fds : Dup(p, d) \/ Close(p, d) \/ Access(p, d)
    BY <2>3 DEF Dup, Close, Access
  <2>4. CASE Lock(p) \/ Unlock(p) \/ Put(p)
    <3>1. CASE Lock(p) \/ Put(p)
      <4>1. dotted' = dotted /\ spoiled' = spoiled
        BY <3>1, Zenon DEF Lock, Put
      <4> QED
        BY <4>1
    <3>2. CASE Unlock(p)
      <4>1. dotted' = dotted /\ (spoiled => spoiled')
        BY <3>2 DEF Unlock
      <4> QED
        BY <4>1
    <3> QED
      BY <2>4, <3>1, <3>2
  <2>5. CASE Find(p)
    BY <2>5, Zenon DEF Find
  <2>6. CASE Exists(p) \/ Make(p)
    <3>1. dotted' = dotted /\ (spoiled => spoiled')
      BY <2>6 DEF Exists, Make
    <3> QED
      BY <3>1
  <2>7. CASE Look(p) \/ Unlink(p) \/ Drop(p)
    <3>1. dotted' = dotted /\ spoiled' = spoiled
      BY <2>7 DEF Look, Unlink, Drop
    <3> QED
      BY <3>1
  <2>8. CASE Open(p) \/ Stat(p) \/ Enter(p) \/ Swap(p)
    <3>1. dotted' = dotted /\ spoiled' = spoiled
      BY <2>8 DEF Open, Stat, Enter, Swap
    <3> QED
      BY <3>1
  <2> QED
    BY <2>1, <2>2, <2>3, <2>4, <2>5, <2>6, <2>7, <2>8
<1>2. CASE UNCHANGED vars
  BY <1>2 DEF vars
<1> QED
  BY <1>1, <1>2

LEMMA DirSafeInit == ASSUME Init PROVE DirSafe
  BY DirInit DEF DirSafe, Init

LEMMA DirSafeNext == ASSUME RefInv, DirSafe, [Next]_vars PROVE DirSafe'
  BY DirNext, DottedNext DEF DirSafe

\* Every directory of the image holds only inodes below it, and create and
\* unlinkat, which hold one lock while they wait for another, take the
\* directory first: but for a create of Dot, which waits for the lock it
\* holds, in no state do all running calls wait for locks of inodes.
THEOREM NeverAllWait == Spec => []NoDeadlock
<1>1. Init => RefInv /\ DirSafe
  BY RefInit, DirSafeInit
<1>2. RefInv /\ DirSafe /\ [Next]_vars => (RefInv /\ DirSafe)'
  BY RefNext, DirSafeNext
<1>3. RefInv /\ DirSafe => NoDeadlock
  BY SomeoneGoes DEF DirSafe, NoDeadlock
<1> QED
  BY <1>1, <1>2, <1>3, PTL DEF Spec

-----------------------------------------------------------------------------
(* Links and entries: what holds as long as locks are released by those who *)
(* hold them                                                                *)

\* A directory of D has an entry for i; the script s will take a link of i
\* away; and s has to do with i at all.
NamedIn(D, i) == \E d \in Inodes : \E x \in D[d] : x[2] = i
DropOn(s, i) == \E k \in 1 .. Len(s) : s[k].op = "drop" /\ s[k].i = i
Mentions(s, a, i) == \E k \in 1 .. Len(s) : s[k].i = i \/ (s[k].op \in ParentOps /\ a.dp = i)

\* The inodes that a call has locked and still works on.
Locks(s, a, i) ==
    \E k \in 1 .. Len(s) : \/ k = 1 /\ s[k].op \in ParentOps /\ s[k].i = i
                           \/ s[k].op \in DpOps /\ a.dp = i
                           \/ s[k].op = "drop" /\ s[k].i = i

\* At most one link is taken away, after all else is done, and the inode has
\* been locked all the time.
DropShape(s) ==
    \A k \in 1 .. Len(s) : s[k].op = "drop" =>
        \A l \in 1 .. Len(s) : /\ s[l].op \notin LastOps \cup {"lock"}
                               /\ s[l].op = "drop" => l = k
                               /\ l < k => s[l].i # s[k].i

\* What is dropped or made has no entry and is empty, the name of what is
\* made is not taken, and what is unlinked has its entry.
WorkOk(s, a, D) ==
    \A k \in 1 .. Len(s) :
        /\ s[k].op \in {"drop", "make"} => ~ NamedIn(D, s[k].i) /\ s[k].i # Root /\ D[s[k].i] = {}
        /\ s[k].op = "make" => \A x \in D[a.dp] : x[1] # a.name
        /\ s[k].op = "unlink" => <<a.name, s[k].i>> \in D[a.dp]

\* What a call has locked once it has read.
HasRead(s, m) == s # <<>> /\ s[1].op # "lock" => \A k \in 1 .. Len(s) : s[k].op \in HoldOps => Loaded(m, s[k].i)

CallFine(s, a, D, m, q) ==
    /\ DropShape(s) /\ WorkOk(s, a, D) /\ HasRead(s, m)
    /\ \A i \in Inodes : Locks(s, a, i) => m[i] # NULL /\ m[i].by = q

\* Entries name inodes in use; no two have one name or name one inode.
NamesOk ==
    \A d \in Inodes : \A x \in dirs[d] :
        /\ itab[x[2]].type # "invalid"
        /\ \A c \in Inodes : \A y \in dirs[c] : x[2] = y[2] \/ (c = d /\ x[1] = y[1]) => c = d /\ x = y

Bit(b) == IF b THEN 1 ELSE 0
SubsOf(D, I, i) == {x \in D[i] : I[x[2]].type = "dir"}
Dropping(td, i) == \E q \in Procs : DropOn(td[q], i)
LinksOf(D, I, td, i) ==
    Bit(NamedIn(D, i)) + Cardinality(SubsOf(D, I, i)) + Bit(i = Root) + Bit(Dropping(td, i))

\* The links of an inode at every moment of every call; an inode in use
\* without links is in memory.
LinksOk ==
    \A i \in Inodes :
        /\ itab[i].links = LinksOf(dirs, itab, todo, i)
        /\ IsFiniteSet(dirs[i])
        /\ dirs[i] # {} => i = Root \/ NamedIn(dirs, i)
        /\ NamedIn(dirs, i) => i # Root
        /\ itab[i].links = 0 /\ itab[i].type # "invalid" => mem[i] # NULL /\ mem[i].rc >= 1

\* A sleep lock is free, or has one holder.
Owned(x) == (x.by = NULL /\ x.lock = 1) \/ (x.by \in Procs /\ x.lock = 0)

HeldOk ==
    \A i \in Inodes : mem[i] # NULL =>
        /\ itab[i].type # "invalid"
        /\ mem[i].valid => mem[i].e = itab[i]
        /\ Owned(mem[i])

CallsFine == \A q \in Procs : CallFine(todo[q], arg[q], dirs, mem, q)

\* Nobody else knows an inode that is being made.
NewAlone ==
    \A q \in Procs, i \in Inodes : MakeOn(todo[q], i) =>
        FilesOn(files, i) = {} /\ \A r \in Procs \ {q} : ~ Mentions(todo[r], arg[r], i)

FilesRead == \A f \in Files : files[f].ref > 0 => Loaded(mem, files[f].ip)

Linked == NamesOk /\ LinksOk /\ HeldOk /\ CallsFine /\ NewAlone /\ FilesRead
LinkInv == ~ spoiled => Linked

LEMMA GoneNow ==
    ASSUME RefInv, ~ panicked, NEW i \in Inodes, mem[i] = NULL, NEW q \in Procs
    PROVE  ~ Mentions(todo[q], arg[q], i)
<1>1. CallOk(todo[q], arg[q], OpenBy(q))
  BY DEF RefInv
<1>2. i \notin OpenBy(q) /\ \A l \in 1 .. Len(todo[q]) : ~ Keeps(todo[q], arg[q], l, i)
  BY Referenced
<1> QED
  BY <1>1, <1>2, Unmentioned DEF Mentions

LEMMA GoneNext ==
    ASSUME RefInv', ~ panicked', NEW i \in Inodes, NEW q \in Procs, Mentions(todo'[q], arg'[q], i)
    PROVE  mem'[i] # NULL
<1> SUFFICES ASSUME mem'[i] = NULL PROVE FALSE
  OBVIOUS
<1>1. \A k \in 1 .. Len(todo'[q]) :
         todo'[q][k].i # i /\ (todo'[q][k].op \in ParentOps => arg'[q].dp # i)
  BY Gone
<1> QED
  BY <1>1 DEF Mentions

\* What a call locks, drops or makes it has to do with.
LEMMA LocksMention ==
    ASSUME NEW s, NEW a, NEW i
    PROVE  /\ Locks(s, a, i) => Mentions(s, a, i)
           /\ DropOn(s, i) => Locks(s, a, i)
           /\ MakeOn(s, i) => Mentions(s, a, i)
<1>1. DpOps \subseteq ParentOps
  BY DEF DpOps, ParentOps
<1> QED
  BY <1>1 DEF Locks, Mentions, DropOn, MakeOn

\* A script is as good after a step that leaves alone what it has locked.
LEMMA FineStays ==
    ASSUME NEW s \in Seq(StepRec), NEW a, NEW D, NEW m, NEW q, CallFine(s, a, D, m, q), NEW D2, NEW m2,
           \A k \in 1 .. Len(s) : s[k].op \in ParentOps => a.dp \in Inodes,
           \A i \in Inodes : Mentions(s, a, i) => m2[i] # NULL /\ (NamedIn(D2, i) => NamedIn(D, i)),
           \A i \in Inodes : Mentions(s, a, i) /\ Loaded(m, i) => m2[i].valid,
           \A i \in Inodes : Locks(s, a, i) => m2[i].by = m[i].by,
           \A i \in Inodes : Locks(s, a, i) \/ MakeOn(s, i) => D2[i] = D[i]
    PROVE  CallFine(s, a, D2, m2, q)
<1>1. \A k \in 1 .. Len(s) : s[k].i \in Inodes /\ Mentions(s, a, s[k].i)
  <2> TAKE k \in 1 .. Len(s)
  <2>1. s[k] \in StepRec
    BY ElementOfSeq
  <2> QED
    BY <2>1 DEF StepRec, Mentions
<1>2. HasRead(s, m2)
  BY <1>1 DEF CallFine, HasRead, Loaded
<1>3. WorkOk(s, a, D2)
  <2> SUFFICES ASSUME NEW k \in 1 .. Len(s)
               PROVE  /\ s[k].op \in {"drop", "make"} => ~ NamedIn(D2, s[k].i) /\ s[k].i # Root /\ D2[s[k].i] = {}
                      /\ s[k].op = "make" => \A x \in D2[a.dp] : x[1] # a.name
                      /\ s[k].op = "unlink" => <<a.name, s[k].i>> \in D2[a.dp]
    BY DEF WorkOk
  <2>1. WorkOk(s, a, D)
    BY DEF CallFine
  <2>2. ASSUME s[k].op \in {"drop", "make"}
        PROVE  ~ NamedIn(D2, s[k].i) /\ s[k].i # Root /\ D2[s[k].i] = {}
    <3>1. Locks(s, a, s[k].i) \/ MakeOn(s, s[k].i)
      BY <2>2 DEF Locks, MakeOn
    <3>2. ~ NamedIn(D, s[k].i) /\ s[k].i # Root /\ D[s[k].i] = {}
      BY <2>1, <2>2 DEF WorkOk
    <3> QED
      BY <1>1, <3>1, <3>2
  <2>3. ASSUME s[k].op \in {"make", "unlink"} PROVE D2[a.dp] = D[a.dp]
    <3>1. s[k].op \in DpOps /\ s[k].op \in ParentOps
      BY <2>3 DEF DpOps, ParentOps
    <3>2. a.dp \in Inodes /\ Locks(s, a, a.dp)
      BY <3>1 DEF Locks
    <3> QED
      BY <3>2
  <2>4. /\ s[k].op = "make" => \A x \in D[a.dp] : x[1] # a.name
        /\ s[k].op = "unlink" => <<a.name, s[k].i>> \in D[a.dp]
    BY <2>1 DEF WorkOk
  <2> QED
    BY <2>2, <2>3, <2>4
<1>4. \A i \in Inodes : Locks(s, a, i) => m2[i] # NULL /\ m2[i].by = q
  BY LocksMention DEF CallFine
<1> QED
  BY <1>2, <1>3, <1>4 DEF CallFine

\* p goes on with the script s: what has to be seen of such a step.
LEMMA LinkStep ==
    ASSUME RefInv, RefInv', Linked, ~ panicked, ~ panicked', NEW p \in Procs, NEW s,
           todo' = [todo EXCEPT ![p] = s], \A q \in Procs \ {p} : arg'[q] = arg[q],
           NamesOk', LinksOk', HeldOk', CallFine(s, arg'[p], dirs', mem', p),
           \A i \in Inodes : mem[i] # NULL /\ mem'[i] # NULL =>
              (mem[i].valid => mem'[i].valid) /\ (mem'[i].by = mem[i].by \/ mem[i].by \in {NULL, p}),
           \A i \in Inodes : dirs'[i] = dirs[i] \/ Locks(todo[p], arg[p], i),
           \A i \in Inodes : NamedIn(dirs', i) => NamedIn(dirs, i) \/ MakeOn(todo[p], i),
           \A i \in Inodes : MakeOn(s, i) =>
              FilesOn(files', i) = {} /\ \A q \in Procs \ {p} : ~ Mentions(todo[q], arg[q], i),
           \A i \in Inodes, q \in Procs \ {p} :
              MakeOn(todo[q], i) /\ Mentions(s, arg'[p], i) => Mentions(todo[p], arg[p], i),
           \A f \in Files : files'[f].ref > 0 =>
              \/ files[f].ref > 0 /\ files[f].ip = files'[f].ip
              \/ Mentions(todo[p], arg[p], files'[f].ip) /\ Loaded(mem, files'[f].ip)
    PROVE  Linked'
<1>1. todo \in [Procs -> Seq(StepRec)] /\ TablesOk'
  BY DEF RefInv, TypesOk
<1>2. todo'[p] = s /\ \A q \in Procs \ {p} : todo'[q] = todo[q] /\ arg'[q] = arg[q]
  BY <1>1
<1>3. CallsFine /\ NewAlone /\ FilesRead /\ NULL \notin Procs
  BY NullAssumption DEF Linked
<1>4. ASSUME NEW q \in Procs, q # p, NEW i \in Inodes
      PROVE  /\ MakeOn(todo[p], i) => ~ Mentions(todo[q], arg[q], i)
             /\ MakeOn(todo[q], i) => ~ Mentions(todo[p], arg[p], i) /\ FilesOn(files, i) = {}
  BY <1>3, <1>4 DEF NewAlone
<1>5. ASSUME NEW q \in Procs, q # p PROVE CallFine(todo'[q], arg'[q], dirs', mem', q)
  <2>1. PICK t, a, D, m, D2, m2 : t = todo[q] /\ a = arg[q] /\ D = dirs /\ m = mem /\ D2 = dirs' /\ m2 = mem'
    OBVIOUS
  <2>2. t \in Seq(StepRec) /\ CallFine(t, a, D, m, q)
    BY <1>1, <1>3, <2>1 DEF CallsFine
  <2>3. \A k \in 1 .. Len(t) : t[k].op \in ParentOps => a.dp \in Inodes
    BY <2>1 DEF RefInv, CallOk, ScriptOk, ParentArg
  <2>4. \A i \in Inodes : Mentions(t, a, i) => m2[i] # NULL
    BY <1>2, <1>5, <2>1, GoneNext
  <2>5. \A i \in Inodes : Mentions(t, a, i) => (NamedIn(D2, i) => NamedIn(D, i))
    BY <1>4, <1>5, <2>1
  <2>6. \A i \in Inodes : Mentions(t, a, i) /\ Loaded(m, i) => m2[i].valid
    BY <2>1, <2>4 DEF Loaded
  <2>7. \A i \in Inodes : Locks(t, a, i) => m[i] # NULL /\ m[i].by = q /\ Mentions(t, a, i)
    BY <2>2, LocksMention DEF CallFine
  <2>8. \A i \in Inodes : Locks(t, a, i) => m2[i].by = m[i].by
    BY <1>3, <1>5, <2>1, <2>4, <2>7
  <2>9. \A i \in Inodes : Locks(todo[p], arg[p], i) => m[i].by = p /\ Mentions(todo[p], arg[p], i)
    BY <1>3, <2>1, LocksMention DEF CallsFine, CallFine
  <2>10. \A i \in Inodes : Locks(t, a, i) \/ MakeOn(t, i) => D2[i] = D[i]
    BY <1>4, <1>5, <2>1, <2>7, <2>9
  <2>11. CallFine(t, a, D2, m2, q)
    BY <2>2, <2>3, <2>4, <2>5, <2>6, <2>8, <2>10, FineStays
  <2> QED
    BY <1>2, <1>5, <2>1, <2>11
<1>6. CallsFine'
  <2>1. \A q \in Procs : CallFine(todo'[q], arg'[q], dirs', mem', q)
    BY <1>2, <1>5
  <2> QED
    BY <2>1 DEF CallsFine
<1>7. NewAlone'
  <2> SUFFICES ASSUME NEW q \in Procs, NEW i \in Inodes, MakeOn(todo'[q], i)
               PROVE  FilesOn(files', i) = {} /\ \A r \in Procs \ {q} : ~ Mentions(todo'[r], arg'[r], i)
    BY DEF NewAlone
  <2>1. CASE q = p
    BY <1>2, <2>1
  <2>2. CASE q # p
    <3>1. /\ MakeOn(todo[q], i) /\ ~ Mentions(todo[p], arg[p], i) /\ FilesOn(files, i) = {}
          /\ \A r \in Procs \ {q} : ~ Mentions(todo[r], arg[r], i)
      BY <1>2, <1>3, <1>4, <2>2 DEF NewAlone
    <3>2. FilesOn(files', i) = {}
      BY <3>1 DEF FilesOn
    <3>3. ~ Mentions(s, arg'[p], i)
      BY <2>2, <3>1
    <3> QED
      BY <1>2, <3>1, <3>2, <3>3
  <2> QED
    BY <2>1, <2>2
<1>8. FilesRead'
  <2> SUFFICES ASSUME NEW f \in Files, files'[f].ref > 0 PROVE Loaded(mem', files'[f].ip)
    BY DEF FilesRead
  <2>1. PICK i \in Inodes : i = files'[f].ip
    BY <1>1 DEF TablesOk
  <2>2. mem'[i] # NULL
    BY <2>1, Gone DEF FilesOn
  <2>3. Loaded(mem, i)
    BY <1>3, <2>1 DEF FilesRead
  <2> QED
    BY <2>1, <2>2, <2>3 DEF Loaded
<1> QED
  BY <1>6, <1>7, <1>8 DEF Linked

LEMMA BitIs == ASSUME NEW b PROVE Bit(b) \in Nat /\ Bit(b) \in {0, 1} /\ (b <=> Bit(b) = 1) /\ (Bit(b) = 0 => ~ b)
  BY DEF Bit

\* An inode without links.
LEMMA LinksZero ==
    ASSUME Linked, NEW i \in Inodes, itab[i].links = 0
    PROVE  ~ NamedIn(dirs, i) /\ i # Root /\ dirs[i] = {} /\ ~ Dropping(todo, i)
<1>1. itab[i].links = LinksOf(dirs, itab, todo, i) /\ IsFiniteSet(dirs[i])
      /\ (dirs[i] # {} => i = Root \/ NamedIn(dirs, i))
  BY DEF Linked, LinksOk
<1>2. Cardinality(SubsOf(dirs, itab, i)) \in Nat
  <2>1. SubsOf(dirs, itab, i) \subseteq dirs[i]
    BY DEF SubsOf
  <2>2. IsFiniteSet(SubsOf(dirs, itab, i))
    BY <1>1, <2>1, FS_Subset
  <2> QED
    BY <2>2, FS_CardinalityType
<1>3. PICK n, x, y, z : /\ n = Cardinality(SubsOf(dirs, itab, i)) /\ x = Bit(NamedIn(dirs, i))
                        /\ y = Bit(i = Root) /\ z = Bit(Dropping(todo, i))
  OBVIOUS
<1>4. /\ n \in Nat /\ x \in Nat /\ y \in Nat /\ z \in Nat
      /\ x = 0 => ~ NamedIn(dirs, i)
      /\ y = 0 => i # Root
      /\ z = 0 => ~ Dropping(todo, i)
  BY <1>2, <1>3, BitIs
<1>5. x + n + y + z = 0
  BY <1>1, <1>3 DEF LinksOf
<1>6. x = 0 /\ y = 0 /\ z = 0
  BY <1>4, <1>5
<1> QED
  BY <1>1, <1>4, <1>6

LEMMA MadeIs ==
    ASSUME RefInv, Linked, ~ panicked, NEW q \in Procs, NEW i \in Inodes, MakeOn(todo[q], i)
    PROVE  /\ itab[i].links = 0 /\ ~ NamedIn(dirs, i) /\ i # Root /\ dirs[i] = {}
           /\ FilesOn(files, i) = {} /\ mem[i] # NULL
<1>1. PICK k \in 1 .. Len(todo[q]) : todo[q][k].op = "make" /\ todo[q][k].i = i
  BY DEF MakeOn
<1>2. CallFine(todo[q], arg[q], dirs, mem, q) /\ Mentions(todo[q], arg[q], i)
  BY <1>1 DEF Linked, CallsFine, Mentions
<1>3. ~ NamedIn(dirs, i) /\ i # Root /\ dirs[i] = {}
  BY <1>1, <1>2 DEF CallFine, WorkOk
<1>4. ~ Dropping(todo, i)
  <2> SUFFICES ASSUME NEW r \in Procs, DropOn(todo[r], i) PROVE FALSE
    BY DEF Dropping
  <2>1. Mentions(todo[r], arg[r], i)
    BY LocksMention
  <2>2. r = q
    BY <2>1 DEF Linked, NewAlone
  <2>3. DropShape(todo[q]) /\ "make" \in LastOps
    BY <1>2 DEF CallFine, LastOps
  <2> QED
    BY <1>1, <2>2, <2>3 DEF DropOn, DropShape
<1>5. SubsOf(dirs, itab, i) = {}
  BY <1>3 DEF SubsOf
<1>6. itab[i].links = 0
  BY <1>3, <1>4, <1>5, FS_EmptySet DEF Linked, LinksOk, LinksOf, Bit
<1>7. FilesOn(files, i) = {} /\ mem[i] # NULL
  BY <1>2, GoneNow DEF Linked, NewAlone
<1> QED
  BY <1>3, <1>6, <1>7

\* No entry and no link changes.
LEMMA SameLinks ==
    ASSUME RefInv, ~ panicked, Linked, dirs' = dirs,
           \A i \in Inodes : itab'[i] = itab[i] \/ (itab[i].links = 0 /\ itab'[i].links = 0),
           \A i \in Inodes : itab'[i].links = 0 /\ itab'[i].type # "invalid" => mem'[i] # NULL /\ mem'[i].rc >= 1,
           \A i \in Inodes : Dropping(todo', i) <=> Dropping(todo, i)
    PROVE  NamesOk' /\ LinksOk'
<1>1. NamesOk /\ LinksOk /\ dirs \in [Inodes -> SUBSET (Names \X Inodes)]
  BY DEF Linked, RefInv, TypesOk
<1>2. \A d \in Inodes : \A x \in dirs[d] : x[2] \in Inodes /\ itab'[x[2]] = itab[x[2]]
  <2> TAKE d \in Inodes
  <2> TAKE x \in dirs[d]
  <2>1. x[2] \in Inodes /\ NamedIn(dirs, x[2])
    BY <1>1 DEF NamedIn
  <2> QED
    BY <2>1, LinksZero
<1>3. NamesOk'
  <2>1. \A d \in Inodes : \A x \in dirs[d] :
           /\ itab'[x[2]].type # "invalid"
           /\ \A c \in Inodes : \A y \in dirs[c] : x[2] = y[2] \/ (c = d /\ x[1] = y[1]) => c = d /\ x = y
    BY <1>1, <1>2 DEF NamesOk
  <2> QED
    BY <2>1 DEF NamesOk
<1>4. ASSUME NEW i \in Inodes PROVE itab'[i].links = LinksOf(dirs', itab', todo', i)
  <2>1. itab'[i].links = itab[i].links
    OBVIOUS
  <2>2. itab[i].links = LinksOf(dirs, itab, todo, i)
    BY <1>1 DEF LinksOk
  <2>3. SubsOf(dirs', itab', i) = SubsOf(dirs, itab, i)
    BY <1>2 DEF SubsOf
  <2>4. NamedIn(dirs', i) <=> NamedIn(dirs, i)
    OBVIOUS
  <2>5. Bit(NamedIn(dirs', i)) = Bit(NamedIn(dirs, i)) /\ Bit(Dropping(todo', i)) = Bit(Dropping(todo, i))
    BY <2>4 DEF Bit
  <2> QED
    BY <2>1, <2>2, <2>3, <2>5 DEF LinksOf
<1>5. LinksOk'
  <2>1. \A i \in Inodes :
           /\ itab'[i].links = LinksOf(dirs', itab', todo', i)
           /\ IsFiniteSet(dirs'[i])
           /\ dirs'[i] # {} => i = Root \/ NamedIn(dirs', i)
           /\ NamedIn(dirs', i) => i # Root
           /\ itab'[i].links = 0 /\ itab'[i].type # "invalid" => mem'[i] # NULL /\ mem'[i].rc >= 1
    BY <1>1, <1>4 DEF LinksOk
  <2> QED
    BY <2>1 DEF LinksOk
<1> QED
  BY <1>3, <1>5

LEMMA DropsSame ==
    ASSUME RefInv, ~ panicked, NEW p \in Procs, NEW s, todo' = [todo EXCEPT ![p] = s],
           \A i \in Inodes : DropOn(s, i) <=> DropOn(todo[p], i)
    PROVE  \A i \in Inodes : Dropping(todo', i) <=> Dropping(todo, i)
<1>1. todo'[p] = s /\ \A q \in Procs \ {p} : todo'[q] = todo[q]
  BY DEF RefInv, TypesOk
<1> QED
  BY <1>1 DEF Dropping

\* A step that changes nothing that links are about.
LEMMA MildLink ==
    ASSUME RefInv, RefInv', Linked, ~ panicked, ~ panicked', NEW p \in Procs, NEW s,
           todo' = [todo EXCEPT ![p] = s], \A q \in Procs \ {p} : arg'[q] = arg[q], Mild,
           \A i \in Inodes : itab[i].links = 0 /\ itab[i].type # "invalid" =>
              itab'[i] = Free \/ (mem'[i] # NULL /\ mem'[i].rc >= 1),
           \A i \in Inodes : mem'[i] = NULL /\ itab'[i] # itab[i] => itab[i].links = 0,
           \A i \in Inodes : mem[i] = NULL /\ mem'[i] # NULL => mem'[i] = NewInode /\ itab[i].type # "invalid",
           \A i \in Inodes : mem[i] # NULL /\ mem'[i] # NULL =>
              Owned(mem'[i]) /\ (mem'[i].by = mem[i].by \/ mem[i].by \in {NULL, p}),
           \A i \in Inodes : DropOn(s, i) <=> DropOn(todo[p], i),
           CallFine(s, arg'[p], dirs, mem', p),
           \A i \in Inodes : MakeOn(s, i) => MakeOn(todo[p], i),
           \A i \in Inodes : Mentions(s, arg'[p], i) =>
              Mentions(todo[p], arg[p], i) \/ itab[i].links # 0 \/ FilesOn(files, i) # {},
           \A f \in Files : files'[f].ref > 0 =>
              \/ files[f].ref > 0 /\ files[f].ip = files'[f].ip
              \/ /\ Mentions(todo[p], arg[p], files'[f].ip) /\ Loaded(mem, files'[f].ip)
                 /\ \A i \in Inodes : ~ MakeOn(s, i)
    PROVE  Linked'
<1>1. TypesOk /\ TypesOk'
  BY DEF RefInv
<1>2. dirs' = dirs
  <2>1. \A i \in Inodes : dirs'[i] = dirs[i]
    <3> SUFFICES ASSUME NEW i \in Inodes, mem'[i] = NULL, itab'[i] = Free, dirs'[i] = {} PROVE dirs[i] = {}
      BY DEF Mild
    <3>1. itab[i].links = 0
      BY DEF Free, Entry
    <3> QED
      BY <3>1, LinksZero
  <2> QED
    BY <1>1, <2>1 DEF TypesOk
<1>3. \A i \in Inodes : itab'[i] = itab[i] \/ (itab'[i] = Free /\ itab[i].links = 0 /\ mem'[i] = NULL)
  BY DEF Mild
<1>4. Free.links = 0 /\ Free.type = "invalid"
  BY DEF Free, Entry
<1>5. NamesOk' /\ LinksOk'
  <2>1. \A i \in Inodes : itab'[i] = itab[i] \/ (itab[i].links = 0 /\ itab'[i].links = 0)
    BY <1>3, <1>4
  <2>2. \A i \in Inodes : itab'[i].links = 0 /\ itab'[i].type # "invalid" => mem'[i] # NULL /\ mem'[i].rc >= 1
    BY <1>3, <1>4
  <2>3. \A i \in Inodes : Dropping(todo', i) <=> Dropping(todo, i)
    BY DropsSame
  <2> QED
    BY <1>2, <2>1, <2>2, <2>3, SameLinks
<1>6. HeldOk'
  <2> SUFFICES ASSUME NEW i \in Inodes, mem'[i] # NULL
               PROVE  /\ itab'[i].type # "invalid"
                      /\ mem'[i].valid => mem'[i].e = itab'[i]
                      /\ Owned(mem'[i])
    BY DEF HeldOk
  <2>1. itab'[i] = itab[i]
    BY <1>3
  <2>2. mem'[i].valid => mem'[i].e = itab[i]
    <3>1. Loaded(mem, i) => mem'[i].e = mem[i].e /\ mem[i].e = itab[i]
      BY DEF Mild, Linked, HeldOk, Loaded
    <3>2. ~ Loaded(mem, i) /\ mem'[i].valid => mem'[i].e = itab[i]
      BY DEF Mild
    <3> QED
      BY <3>1, <3>2
  <2>3. itab[i].type # "invalid"
    BY DEF Linked, HeldOk
  <2>4. Owned(mem'[i])
    <3>1. NewInode.by = NULL /\ NewInode.lock = 1
      BY DEF NewInode
    <3> QED
      BY <3>1 DEF Owned
  <2> QED
    BY <2>1, <2>2, <2>3, <2>4
<1>7. \A i \in Inodes : mem[i] # NULL /\ mem'[i] # NULL =>
         (mem[i].valid => mem'[i].valid) /\ (mem'[i].by = mem[i].by \/ mem[i].by \in {NULL, p})
  BY DEF Mild, Loaded
<1>8. \A i \in Inodes : NamedIn(dirs', i) => NamedIn(dirs, i) \/ MakeOn(todo[p], i)
  BY <1>2
<1>9. ASSUME NEW i \in Inodes, MakeOn(s, i)
      PROVE  FilesOn(files', i) = {} /\ \A q \in Procs \ {p} : ~ Mentions(todo[q], arg[q], i)
  <2>1. FilesOn(files, i) = {} /\ \A q \in Procs \ {p} : ~ Mentions(todo[q], arg[q], i)
    BY <1>9 DEF Linked, NewAlone
  <2>2. FilesOn(files', i) = {}
    BY <1>9, <2>1 DEF FilesOn
  <2> QED
    BY <2>1, <2>2
<1>10. \A i \in Inodes, q \in Procs \ {p} :
          MakeOn(todo[q], i) /\ Mentions(s, arg'[p], i) => Mentions(todo[p], arg[p], i)
  BY MadeIs
<1>11. \A f \in Files : files'[f].ref > 0 =>
          \/ files[f].ref > 0 /\ files[f].ip = files'[f].ip
          \/ Mentions(todo[p], arg[p], files'[f].ip) /\ Loaded(mem, files'[f].ip)
  OBVIOUS
<1>12. CallFine(s, arg'[p], dirs', mem', p)
  BY <1>2
<1>13. \A i \in Inodes : dirs'[i] = dirs[i] \/ Locks(todo[p], arg[p], i)
  BY <1>2
<1> QED
  BY <1>5, <1>6, <1>7, <1>8, <1>9, <1>10, <1>11, <1>12, <1>13, LinkStep

\* What a script of one step, or of a lock and one step, does.
OpOk(op, i, a, D) ==
    /\ op = "make" => ~ NamedIn(D, i) /\ i # Root /\ D[i] = {} /\ \A x \in D[a.dp] : x[1] # a.name
    /\ op = "unlink" => <<a.name, i>> \in D[a.dp]

PairLinks(s, a, op, i) ==
    /\ \A j : /\ Mentions(s, a, j) <=> i = j \/ (op \in ParentOps /\ a.dp = j)
              /\ MakeOn(s, j) <=> op = "make" /\ i = j
              /\ ~ DropOn(s, j)
    /\ \A D, m, q : CallFine(s, a, D, m, q) <=>
          OpOk(op, i, a, D) /\ \A j \in Inodes : op \in DpOps /\ a.dp = j => m[j] # NULL /\ m[j].by = q

LEMMA PairLinked ==
    ASSUME NEW op \in Unlockers, NEW i \in Inodes, NEW s, s = <<Step("lock", i), Step(op, i)>>, NEW a
    PROVE  PairLinks(s, a, op, i)
<1>1. Len(s) = 2 /\ s[1].op = "lock" /\ s[2].op = op /\ s[1].i = i /\ s[2].i = i /\ s # <<>>
  BY DEF Step
<1>2. 1 \in 1 .. Len(s) /\ 2 \in 1 .. Len(s) /\ \A k \in 1 .. Len(s) : k = 1 \/ k = 2
  BY <1>1
<1>3. DpOps \subseteq ParentOps /\ "lock" \notin ParentOps /\ "lock" \notin DpOps /\ op # "lock" /\ op # "drop"
  BY DEF ParentOps, DpOps, Unlockers, LastOps
<1>4. \A j : Mentions(s, a, j) <=> i = j \/ (op \in ParentOps /\ a.dp = j)
  BY <1>1, <1>2, <1>3 DEF Mentions
<1>5. \A j : MakeOn(s, j) <=> op = "make" /\ i = j
  BY <1>1, <1>2 DEF MakeOn
<1>6. \A j : ~ DropOn(s, j)
  BY <1>1, <1>2, <1>3 DEF DropOn
<1>7. \A j : Locks(s, a, j) <=> op \in DpOps /\ a.dp = j
  BY <1>1, <1>2, <1>3 DEF Locks
<1>8. DropShape(s) /\ \A m : HasRead(s, m)
  BY <1>1, <1>2, <1>3 DEF DropShape, HasRead
<1>9. \A D : WorkOk(s, a, D) <=> OpOk(op, i, a, D)
  BY <1>1, <1>2, <1>3 DEF WorkOk, OpOk
<1>10. \A D, m, q : CallFine(s, a, D, m, q) <=>
         OpOk(op, i, a, D) /\ \A j \in Inodes : op \in DpOps /\ a.dp = j => m[j] # NULL /\ m[j].by = q
  BY <1>7, <1>8, <1>9 DEF CallFine
<1> QED
  BY <1>4, <1>5, <1>6, <1>10 DEF PairLinks

SingleLinks(s, a, op, i) ==
    /\ \A j : /\ Mentions(s, a, j) <=> i = j \/ (op \in ParentOps /\ a.dp = j)
              /\ MakeOn(s, j) <=> op = "make" /\ i = j
              /\ ~ DropOn(s, j)
              /\ Locks(s, a, j) <=> (op \in ParentOps /\ i = j) \/ (op \in DpOps /\ a.dp = j)
    /\ \A D, m, q : CallFine(s, a, D, m, q) <=>
          /\ OpOk(op, i, a, D) /\ (op \in HoldOps => Loaded(m, i))
          /\ \A j \in Inodes : (op \in ParentOps /\ i = j) \/ (op \in DpOps /\ a.dp = j) => m[j] # NULL /\ m[j].by = q

LEMMA SingleLinked ==
    ASSUME NEW op \in Unlockers, NEW i \in Inodes, NEW s, s = <<Step(op, i)>>, NEW a
    PROVE  SingleLinks(s, a, op, i)
<1>1. Len(s) = 1 /\ s[1].op = op /\ s[1].i = i /\ s # <<>>
  BY DEF Step
<1>2. 1 \in 1 .. Len(s) /\ \A k \in 1 .. Len(s) : k = 1
  BY <1>1
<1>3. DpOps \subseteq ParentOps /\ op # "lock" /\ op # "drop"
  BY DEF ParentOps, DpOps, Unlockers, LastOps
<1>4. \A j : Mentions(s, a, j) <=> i = j \/ (op \in ParentOps /\ a.dp = j)
  BY <1>1, <1>2, <1>3 DEF Mentions
<1>5. \A j : MakeOn(s, j) <=> op = "make" /\ i = j
  BY <1>1, <1>2 DEF MakeOn
<1>6. \A j : ~ DropOn(s, j)
  BY <1>1, <1>2, <1>3 DEF DropOn
<1>7. \A j : Locks(s, a, j) <=> (op \in ParentOps /\ i = j) \/ (op \in DpOps /\ a.dp = j)
  BY <1>1, <1>2, <1>3 DEF Locks
<1>8. DropShape(s) /\ \A m : HasRead(s, m) <=> (op \in HoldOps => Loaded(m, i))
  BY <1>1, <1>2, <1>3 DEF DropShape, HasRead
<1>9. \A D : WorkOk(s, a, D) <=> OpOk(op, i, a, D)
  BY <1>1, <1>2, <1>3 DEF WorkOk, OpOk
<1>10. \A D, m, q : CallFine(s, a, D, m, q) <=>
          /\ OpOk(op, i, a, D) /\ (op \in HoldOps => Loaded(m, i))
          /\ \A j \in Inodes : (op \in ParentOps /\ i = j) \/ (op \in DpOps /\ a.dp = j) => m[j] # NULL /\ m[j].by = q
  BY <1>7, <1>8, <1>9 DEF CallFine
<1> QED
  BY <1>4, <1>5, <1>6, <1>7, <1>10 DEF SingleLinks

\* A script that only leaves, and takes no link away.
LEMMA LeavesFine ==
    ASSUME NEW s, Leaves(s), \A k \in 1 .. Len(s) : s[k].op # "drop", NEW m,
           \A k \in 1 .. Len(s) : s[k].op \in HoldOps => Loaded(m, s[k].i), NEW a, NEW D, NEW q
    PROVE  /\ CallFine(s, a, D, m, q)
           /\ \A j : ~ MakeOn(s, j) /\ ~ DropOn(s, j) /\ (Mentions(s, a, j) <=> \E k \in 1 .. Len(s) : s[k].i = j)
<1>1. {"unlock", "put", "open", "swap", "drop"} \cap (ParentOps \cup DpOps \cup {"make", "lock"}) = {}
  BY DEF ParentOps, DpOps
<1>2. \A k \in 1 .. Len(s) : s[k].op \notin ParentOps /\ s[k].op \notin DpOps /\ s[k].op # "make" /\ s[k].op # "unlink"
  BY <1>1 DEF Leaves, ParentOps
<1>3. \A j : ~ MakeOn(s, j) /\ ~ DropOn(s, j) /\ ~ Locks(s, a, j)
             /\ (Mentions(s, a, j) <=> \E k \in 1 .. Len(s) : s[k].i = j)
  BY <1>2 DEF MakeOn, DropOn, Locks, Mentions
<1>4. DropShape(s) /\ HasRead(s, m) /\ WorkOk(s, a, D)
  BY <1>2 DEF DropShape, HasRead, WorkOk
<1> QED
  BY <1>3, <1>4 DEF CallFine

\* A step that changes no inode.
LEMMA CalmLink ==
    ASSUME RefInv, RefInv', Linked, ~ panicked, ~ panicked', NEW p \in Procs, NEW s,
           todo' = [todo EXCEPT ![p] = s], \A q \in Procs \ {p} : arg'[q] = arg[q],
           itab' = itab, dirs' = dirs, mem' = mem,
           \A i \in Inodes : DropOn(s, i) <=> DropOn(todo[p], i),
           CallFine(s, arg'[p], dirs, mem, p),
           \A i \in Inodes : MakeOn(s, i) => MakeOn(todo[p], i),
           \A i \in Inodes : Mentions(s, arg'[p], i) =>
              Mentions(todo[p], arg[p], i) \/ itab[i].links # 0 \/ FilesOn(files, i) # {},
           \A f \in Files : files'[f].ref > 0 =>
              \/ files[f].ref > 0 /\ files[f].ip = files'[f].ip
              \/ /\ Mentions(todo[p], arg[p], files'[f].ip) /\ Loaded(mem, files'[f].ip)
                 /\ \A i \in Inodes : ~ MakeOn(s, i)
    PROVE  Linked'
<1>1. Mild
  BY DEF Mild, Loaded
<1>2. \A i \in Inodes : itab[i].links = 0 /\ itab[i].type # "invalid" => mem'[i] # NULL /\ mem'[i].rc >= 1
  BY DEF Linked, LinksOk
<1>3. \A i \in Inodes : mem[i] # NULL => Owned(mem'[i])
  BY DEF Linked, HeldOk
<1>4. CallFine(s, arg'[p], dirs, mem', p)
  OBVIOUS
<1> QED
  BY <1>1, <1>2, <1>3, <1>4, MildLink

\* A call that works on i, and in the directory d, goes on to leave.
LEMMA LeaveLink ==
    ASSUME RefInv, RefInv', DirInv, Linked, ~ panicked, ~ panicked', NEW p \in Procs,
           NEW op \in LastOps, op # "swap", NEW i \in Inodes, todo[p] = <<Step(op, i)>>,
           NEW s, Leaves(s), \A k \in 1 .. Len(s) : s[k].op # "drop", Rest(p, s),
           \A k \in 1 .. Len(s) : s[k].i = i \/ (op \in ParentOps /\ s[k].i = arg[p].dp),
           itab' = itab, dirs' = dirs, mem' = mem,
           \A f \in Files : files'[f].ref > 0 => (files[f].ref > 0 /\ files[f].ip = files'[f].ip) \/ files'[f].ip = i
    PROVE  Linked'
<1>1. PICK o, a, b : o = todo[p] /\ a = arg[p] /\ b = arg'[p]
  OBVIOUS
<1>2. op \in Unlockers /\ op \in HoldOps /\ op \in Ops /\ op # "lock"
  BY DEF Unlockers, HoldOps, Ops, LastOps
<1>3. SingleLinks(o, a, op, i) /\ SingleFacts(o, a, op, i)
  <2>1. o = <<Step(op, i)>>
    BY <1>1
  <2> QED
    BY <1>2, <2>1, SingleLinked, SingleIs
<1>4. Loaded(mem, i) /\ (op \in ParentOps => Loaded(mem, a.dp))
  <2>1. CallFine(o, a, dirs, mem, p)
    BY <1>1 DEF Linked, CallsFine
  <2>2. ReadyOk(o, a, itab, mem)
    BY <1>1 DEF DirInv
  <2> QED
    BY <1>2, <1>3, <2>1, <2>2 DEF SingleLinks, SingleFacts
<1>5. CallFine(s, b, dirs, mem, p)
      /\ \A j : ~ MakeOn(s, j) /\ ~ DropOn(s, j) /\ (Mentions(s, b, j) <=> \E k \in 1 .. Len(s) : s[k].i = j)
  BY <1>1, <1>4, LeavesFine
<1>6. todo' = [todo EXCEPT ![p] = s] /\ \A q \in Procs \ {p} : arg'[q] = arg[q]
  BY RestIs
<1>7. \A j \in Inodes : DropOn(s, j) <=> DropOn(todo[p], j)
  BY <1>1, <1>3, <1>5 DEF SingleLinks
<1>8. \A j : Mentions(s, arg'[p], j) => Mentions(todo[p], arg[p], j)
  BY <1>1, <1>3, <1>5 DEF SingleLinks
<1>9. Mentions(todo[p], arg[p], i)
  BY <1>1, <1>3 DEF SingleLinks
<1>10. \A f \in Files : files'[f].ref > 0 =>
          \/ files[f].ref > 0 /\ files[f].ip = files'[f].ip
          \/ /\ Mentions(todo[p], arg[p], files'[f].ip) /\ Loaded(mem, files'[f].ip)
             /\ \A j \in Inodes : ~ MakeOn(s, j)
  BY <1>4, <1>5, <1>9
<1>11. CallFine(s, arg'[p], dirs, mem, p)
  BY <1>1, <1>5
<1> QED
  BY <1>5, <1>6, <1>7, <1>8, <1>10, <1>11, CalmLink

LEMMA StatLink == ASSUME RefInv, RefInv', DirInv, Linked, NEW p \in Procs, Stat(p) PROVE Linked'
<1>1. /\ At(p, "stat") /\ ~ panicked /\ ~ panicked' /\ itab' = itab /\ dirs' = dirs /\ mem' = mem
      /\ files' = files
  BY DEF Stat, At, inodes, tables
<1>2. PICK i : i = Head(todo[p]).i
  OBVIOUS
<1>3. "stat" \in LastOps /\ "stat" # "swap"
  BY DEF LastOps
<1>4. i \in Inodes /\ todo[p] = <<Step("stat", i)>>
  BY <1>1, <1>2, <1>3, AtLast
<1>5. PICK s : s = <<Step("unlock", i), Step("put", i)>>
  OBVIOUS
<1>6. Rest(p, s)
  BY <1>2, <1>5 DEF Stat
<1>7. s \in Seq(StepRec)
  BY <1>1, <1>6, NextScript
<1>8. Len(s) = 2 /\ s[1].op = "unlock" /\ s[1].i = i /\ s[2].op = "put" /\ s[2].i = i
  BY <1>5 DEF Step
<1>9. Leaves(s) /\ \A k \in 1 .. Len(s) : s[k].op # "drop" /\ s[k].i = i
  BY <1>7, <1>8 DEF Leaves
<1> QED
  BY <1>1, <1>3, <1>4, <1>6, <1>9, LeaveLink

LEMMA EnterLink == ASSUME RefInv, RefInv', DirInv, Linked, NEW p \in Procs, Enter(p) PROVE Linked'
<1>1. /\ At(p, "enter") /\ ~ panicked /\ ~ panicked' /\ itab' = itab /\ dirs' = dirs /\ mem' = mem
      /\ files' = files
  BY DEF Enter, At, inodes, tables
<1>2. PICK i : i = Head(todo[p]).i
  OBVIOUS
<1>3. "enter" \in LastOps /\ "enter" # "swap"
  BY DEF LastOps
<1>4. i \in Inodes /\ todo[p] = <<Step("enter", i)>>
  BY <1>1, <1>2, <1>3, AtLast
<1>5. PICK o, s : o \in {"swap", "put"} /\ s = <<Step("unlock", i), Step(o, i)>> /\ Rest(p, s)
  BY <1>2 DEF Enter
<1>6. s \in Seq(StepRec)
  BY <1>1, <1>5, NextScript
<1>7. Len(s) = 2 /\ s[1].op = "unlock" /\ s[1].i = i /\ s[2].op = o /\ s[2].i = i
  BY <1>5 DEF Step
<1>8. Leaves(s) /\ \A k \in 1 .. Len(s) : s[k].op # "drop" /\ s[k].i = i
  BY <1>5, <1>6, <1>7 DEF Leaves
<1> QED
  BY <1>1, <1>3, <1>4, <1>5, <1>8, LeaveLink

LEMMA OpenLink == ASSUME RefInv, RefInv', DirInv, Linked, NEW p \in Procs, Open(p) PROVE Linked'
<1>1. At(p, "open") /\ ~ panicked /\ ~ panicked' /\ itab' = itab /\ dirs' = dirs /\ mem' = mem
  BY DEF Open, At, inodes
<1>2. PICK i : i = Head(todo[p]).i
  OBVIOUS
<1>3. "open" \in LastOps /\ "open" # "swap"
  BY DEF LastOps
<1>4. i \in Inodes /\ todo[p] = <<Step("open", i)>>
  BY <1>1, <1>2, <1>3, AtLast
<1>5. PICK s : (s = <<Step("unlock", i)>> \/ s = <<Step("unlock", i), Step("put", i)>>) /\ Rest(p, s)
  BY <1>2 DEF Open
<1>6. s \in Seq(StepRec)
  BY <1>1, <1>5, NextScript
<1>7. Leaves(s) /\ \A k \in 1 .. Len(s) : s[k].op # "drop" /\ s[k].i = i
  <2>1. CASE s = <<Step("unlock", i)>>
    <3>1. Len(s) = 1 /\ s[1].op = "unlock" /\ s[1].i = i
      BY <2>1 DEF Step
    <3> QED
      BY <1>6, <3>1 DEF Leaves
  <2>2. CASE s = <<Step("unlock", i), Step("put", i)>>
    <3>1. Len(s) = 2 /\ s[1].op = "unlock" /\ s[1].i = i /\ s[2].op = "put" /\ s[2].i = i
      BY <2>2 DEF Step
    <3> QED
      BY <1>6, <3>1 DEF Leaves
  <2> QED
    BY <1>5, <2>1, <2>2
<1>8. \A f \in Files : files'[f].ref > 0 => (files[f].ref > 0 /\ files[f].ip = files'[f].ip) \/ files'[f].ip = i
  <2>1. files' = files \/ files' = [files EXCEPT ![FileAlloc] = [ref |-> 1, ip |-> i]]
    BY <1>2 DEF Open
  <2>2. CASE files' = files
    BY <2>2
  <2>3. CASE files' = [files EXCEPT ![FileAlloc] = [ref |-> 1, ip |-> i]]
    <3>1. files \in [Files -> [ref : Nat, ip : Inodes \cup {NULL}]]
      BY DEF RefInv, TablesOk
    <3>2. \A f \in Files : files'[f] = files[f] \/ files'[f] = [ref |-> 1, ip |-> i]
      BY <2>3, <3>1
    <3> QED
      BY <3>2
  <2> QED
    BY <2>1, <2>2, <2>3
<1> QED
  BY <1>1, <1>3, <1>4, <1>5, <1>7, <1>8, LeaveLink

LEMMA ExistsLink == ASSUME RefInv, RefInv', DirInv, Linked, NEW p \in Procs, Exists(p) PROVE Linked'
<1>1. /\ At(p, "exists") /\ ~ panicked /\ ~ panicked' /\ itab' = itab /\ dirs' = dirs /\ mem' = mem
      /\ files' = files
  BY DEF Exists, At, inodes, tables
<1>2. PICK i : i = Head(todo[p]).i
  OBVIOUS
<1>3. "exists" \in LastOps /\ "exists" # "swap" /\ "exists" \in ParentOps
  BY DEF LastOps, ParentOps
<1>4. i \in Inodes /\ todo[p] = <<Step("exists", i)>> /\ arg[p].dp \in Inodes
  BY <1>1, <1>2, <1>3, AtLast
<1>5. PICK d \in Inodes : d = arg[p].dp
  BY <1>4
<1>6. PICK s : /\ Rest(p, s)
               /\ \/ s = <<Step("unlock", d), Step("unlock", i), Step("put", d), Step("put", i)>>
                  \/ s = <<Step("unlock", d), Step("unlock", i), Step("put", d), Step("open", i)>>
                  \/ s = <<Step("unlock", d), Step("unlock", i), Step("put", d), Step("unlock", i),
                           Step("put", i)>>
  BY <1>2, <1>4, <1>5, ExistsScript, ZenonT(40)
<1>7. s \in Seq(StepRec)
  BY <1>1, <1>6, NextScript
<1>8. /\ Len(s) \in {4, 5} /\ s[1].op = "unlock" /\ s[1].i = d /\ s[2].op = "unlock" /\ s[2].i = i
      /\ s[3].op = "put" /\ s[3].i = d /\ s[4].op \in {"put", "open", "unlock"} /\ s[4].i = i
      /\ Len(s) = 5 => s[5].op = "put" /\ s[5].i = i
  BY <1>6 DEF Step
<1>9. Leaves(s) /\ \A k \in 1 .. Len(s) : s[k].op # "drop" /\ (s[k].i = i \/ s[k].i = d)
  <2>1. \A k \in 1 .. Len(s) : k = 1 \/ k = 2 \/ k = 3 \/ k = 4 \/ (k = 5 /\ Len(s) = 5)
    <3>1. PICK n : n = Len(s) /\ n \in {4, 5}
      BY <1>8
    <3>2. \A k \in 1 .. n : k = 1 \/ k = 2 \/ k = 3 \/ k = 4 \/ (k = 5 /\ n = 5)
      BY <3>1
    <3> QED
      BY <3>1, <3>2
  <2> QED
    BY <1>7, <1>8, <2>1 DEF Leaves
<1> QED
  BY <1>1, <1>3, <1>4, <1>5, <1>6, <1>9, LeaveLink

\* inode_get: the inode on the list keeps all but its count.
LEMMA GotLinked ==
    ASSUME RefInv, Linked, ~ panicked, NEW i \in Inodes, mem' = Got(mem, i)
    PROVE  /\ mem'[i] # NULL
           /\ \A j \in Inodes : mem[j] = NULL /\ mem'[j] # NULL => j = i /\ mem'[j] = NewInode
           /\ \A j \in Inodes : mem[j] # NULL =>
                 /\ mem'[j] # NULL /\ mem'[j].by = mem[j].by /\ Owned(mem'[j])
                 /\ mem[j].rc >= 1 => mem'[j].rc >= 1
                 /\ mem'[j].valid = mem[j].valid /\ mem'[j].e = mem[j].e
<1>1. NULL \notin MemInode /\ mem \in MemTable
  BY NullAssumption DEF RefInv, TypesOk, MemTable
<1>2. \A j \in Inodes : mem[j] # NULL => Owned(mem[j]) /\ mem[j] \in MemInode
  BY <1>1 DEF Linked, HeldOk, MemTable
<1>3. CASE mem[i] = NULL
  <2>1. mem' = [mem EXCEPT ![i] = NewInode]
    BY <1>3 DEF Got
  <2>2. mem'[i] = NewInode /\ \A j \in Inodes : j # i => mem'[j] = mem[j]
    BY <1>1, <2>1 DEF MemTable
  <2>3. mem'[i] # NULL
    <3>1. mem' \in MemTable
      BY <1>1, <2>1, GotCount
    <3>2. NewInode \in MemInode
      BY DEF NewInode, MemInode, Free, Entry, Types
    <3> QED
      BY <1>1, <2>2, <3>2
  <2> QED
    BY <1>2, <1>3, <2>2, <2>3
<1>4. CASE mem[i] # NULL
  <2>1. PICK y \in MemInode : y = mem[i]
    BY <1>2, <1>4
  <2>2. PICK x : x = [y EXCEPT !.rc = @ + 1]
    OBVIOUS
  <2>3. /\ x.by = y.by /\ x.lock = y.lock /\ x.rc = y.rc + 1 /\ x.valid = y.valid /\ x.e = y.e /\ y.rc \in Int
        /\ x \in MemInode
    BY <2>1, <2>2 DEF MemInode
  <2>4. mem' = [mem EXCEPT ![i] = x]
    BY <1>1, <1>4, <2>1, <2>2 DEF Got, MemTable
  <2>5. mem'[i] = x /\ \A j \in Inodes : j # i => mem'[j] = mem[j]
    BY <1>1, <2>4 DEF MemTable
  <2>6. x # NULL /\ Owned(x) /\ (y.rc >= 1 => x.rc >= 1)
    BY <1>1, <1>2, <1>4, <2>1, <2>3 DEF Owned
  <2> QED
    BY <1>2, <1>4, <2>1, <2>3, <2>5, <2>6
<1> QED
  BY <1>3, <1>4

\* A call refers to i, which has links, and goes on to lock it.
LEMMA PairLink ==
    ASSUME RefInv, RefInv', DirInv, Linked, ~ panicked, ~ panicked', NEW p \in Procs, NEW i \in Inodes,
           itab[i].links # 0, NEW op \in Unlockers, op # "make",
           NEW s, s = <<Step("lock", i), Step(op, i)>>, todo' = [todo EXCEPT ![p] = s],
           \A q \in Procs \ {p} : arg'[q] = arg[q],
           mem' = Got(mem, i), itab' = itab, dirs' = dirs, files' = files,
           \A j \in Inodes : ~ DropOn(todo[p], j),
           OpOk(op, i, arg'[p], dirs),
           \A j \in Inodes : op \in DpOps /\ arg'[p].dp = j => Locks(todo[p], arg[p], j),
           op \in ParentOps => arg'[p].dp = i \/ Mentions(todo[p], arg[p], arg'[p].dp)
    PROVE  Linked'
<1>1. PICK b : b = arg'[p]
  OBVIOUS
<1>2. PairLinks(s, b, op, i)
  BY PairLinked
<1>3. /\ mem'[i] # NULL
      /\ \A j \in Inodes : mem[j] = NULL /\ mem'[j] # NULL => j = i /\ mem'[j] = NewInode
      /\ \A j \in Inodes : mem[j] # NULL =>
            /\ mem'[j] # NULL /\ mem'[j].by = mem[j].by /\ Owned(mem'[j])
            /\ mem[j].rc >= 1 => mem'[j].rc >= 1
            /\ mem'[j].valid = mem[j].valid /\ mem'[j].e = mem[j].e
  BY GotLinked
<1>4. \A j \in Inodes : op \in DpOps /\ b.dp = j => mem'[j] # NULL /\ mem'[j].by = p
  BY <1>1, <1>3 DEF Linked, CallsFine, CallFine
<1>5. CallFine(s, b, dirs, mem', p)
  <2>1. PICK D, m : D = dirs /\ m = mem'
    OBVIOUS
  <2>2. OpOk(op, i, b, D) /\ \A j \in Inodes : op \in DpOps /\ b.dp = j => m[j] # NULL /\ m[j].by = p
    BY <1>1, <1>4, <2>1
  <2>3. CallFine(s, b, D, m, p)
    BY <1>2, <2>2 DEF PairLinks
  <2> QED
    BY <2>1, <2>3
<1>6. Mild
  BY GotMild
<1>7. itab[i].type # "invalid"
  BY DEF DirInv, EntriesOk, Free, Entry
<1>8. \A j \in Inodes : itab[j].links = 0 /\ itab[j].type # "invalid" => mem'[j] # NULL /\ mem'[j].rc >= 1
  BY <1>3 DEF Linked, LinksOk
<1>9. \A j \in Inodes : ~ MakeOn(s, j) /\ (DropOn(s, j) <=> DropOn(todo[p], j))
  BY <1>2 DEF PairLinks
<1>10. \A j \in Inodes : Mentions(s, arg'[p], j) => Mentions(todo[p], arg[p], j) \/ itab[j].links # 0
  BY <1>1, <1>2 DEF PairLinks
<1>11. CallFine(s, arg'[p], dirs, mem', p)
  BY <1>1, <1>5
<1>12. \A j \in Inodes : mem[j] = NULL /\ mem'[j] # NULL => mem'[j] = NewInode /\ itab[j].type # "invalid"
  BY <1>3, <1>7
<1> QED
  BY <1>3, <1>6, <1>8, <1>9, <1>10, <1>11, <1>12, MildLink

\* The root directory and what is named have links.
LEMMA NamedLinks ==
    ASSUME RefInv, Linked, ~ panicked
    PROVE  /\ itab[Root].links # 0
           /\ \A d \in Inodes : \A x \in dirs[d] : x[2] \in Inodes /\ itab[x[2]].links # 0
<1>1. dirs \in [Inodes -> SUBSET (Names \X Inodes)] /\ Root \in Inodes
  BY DirectoryIs DEF RefInv, TypesOk
<1>2. itab[Root].links # 0
  BY <1>1, LinksZero
<1>3. \A d \in Inodes : \A x \in dirs[d] : x[2] \in Inodes /\ NamedIn(dirs, x[2])
  BY <1>1 DEF NamedIn
<1> QED
  BY <1>2, <1>3, LinksZero

LEMMA BeginLink ==
    ASSUME RefInv, RefInv', DirInv, Linked, NEW p \in Procs, NEW i \in Inodes, NEW a, NEW op \in Unlockers,
           op \notin DpOps, NEW s, s = <<Step("lock", i), Step(op, i)>>, Begin(p, i, a, s),
           op \in ParentOps => a.dp = i, itab[i].links # 0
    PROVE  Linked'
<1>1. /\ todo[p] = <<>> /\ ~ panicked /\ ~ panicked' /\ itab' = itab /\ dirs' = dirs /\ files' = files
      /\ op # "make" /\ op # "unlink"
  BY DEF Begin, May, tables, DpOps
<1>2. CASE mem' = Got(mem, i) /\ todo' = [todo EXCEPT ![p] = s] /\ arg' = [arg EXCEPT ![p] = a]
  <2>1. arg'[p] = a /\ \A q \in Procs \ {p} : arg'[q] = arg[q]
    BY <1>1, <1>2 DEF RefInv, TypesOk
  <2>2. \A j \in Inodes : ~ DropOn(todo[p], j)
    BY <1>1 DEF DropOn
  <2>3. OpOk(op, i, arg'[p], dirs)
    BY <1>1 DEF OpOk
  <2> QED
    BY <1>1, <1>2, <2>1, <2>2, <2>3, PairLink
<1>3. CASE UNCHANGED <<mem, todo, arg>>
  BY <1>1, <1>3 DEF Linked, NamesOk, LinksOk, HeldOk, CallsFine, NewAlone, FilesRead
<1> QED
  BY <1>2, <1>3 DEF Begin

LEMMA CallsLink ==
    ASSUME RefInv, RefInv', DirInv, Linked, NEW p \in Procs,
           Openat(p) \/ Mkdirat(p) \/ Mknodat(p) \/ Unlinkat(p) \/ Chdir(p) \/ Newfstatat(p)
    PROVE  Linked'
<1>1. ASSUME NEW call, NEW type, NEW op \in {"find", "look"}, Parent(p, call, op, type) PROVE Linked'
  <2>1. PICK d \in Directories, name \in Names :
          Begin(p, d, [call |-> call, dp |-> d, name |-> name, type |-> type],
                <<Step("lock", d), Step(op, d)>>)
    BY <1>1 DEF Parent
  <2>2. PICK a, s : /\ a = [call |-> call, dp |-> d, name |-> name, type |-> type]
                    /\ s = <<Step("lock", d), Step(op, d)>>
    OBVIOUS
  <2>3. a.dp = d /\ op \in Unlockers /\ op \notin DpOps /\ d \in Inodes
    BY <2>2, DirectoryIs DEF Unlockers, LastOps, DpOps
  <2>4. Begin(p, d, a, s)
    BY <2>1, <2>2
  <2>5. itab[d].links # 0
    <3>1. itab \in [Inodes -> [type : Types, links : Int]]
      BY <2>4 DEF Begin, May, RefInv, TypesOk
    <3> QED
      BY <2>3, <3>1 DEF Directories
  <2> QED
    BY <2>2, <2>3, <2>4, <2>5, BeginLink
<1>2. ASSUME NEW call, NEW op \in {"open", "stat", "enter"}, Target(p, call, op) PROVE Linked'
  <2>1. PICK i \in Found : Begin(p, i, [call |-> call], <<Step("lock", i), Step(op, i)>>)
    BY <1>2 DEF Target
  <2>2. PICK a, s : a = [call |-> call] /\ s = <<Step("lock", i), Step(op, i)>>
    OBVIOUS
  <2>3. TypesOk /\ ~ panicked
    BY <2>1 DEF RefInv, Begin, May
  <2>4. i \in Inodes /\ itab[i].links # 0
    <3>1. i \in Inodes
      BY <2>3, FoundIs
    <3>2. i = Root \/ \E d \in Inodes : \E x \in dirs[d] : i = x[2]
      BY DirectoryIs DEF Found
    <3> QED
      BY <2>3, <3>1, <3>2, NamedLinks
  <2>5. op \in Unlockers /\ op \notin DpOps /\ op \notin ParentOps
    BY DEF Unlockers, LastOps, DpOps, ParentOps
  <2>6. Begin(p, i, a, s)
    BY <2>1, <2>2
  <2> QED
    BY <2>2, <2>4, <2>5, <2>6, BeginLink
<1> QED
  BY <1>1, <1>2 DEF Openat, Mkdirat, Mknodat, Unlinkat, Chdir, Newfstatat

LEMMA AccessLink ==
    ASSUME RefInv, RefInv', DirInv, Linked, NEW p \in Procs, NEW d \in Fds, Access(p, d)
    PROVE  Linked'
<1>1. /\ todo[p] = <<>> /\ ~ panicked /\ ~ panicked' /\ itab' = itab /\ dirs' = dirs /\ mem' = mem
      /\ ofiles[p][d] # NULL /\ files' = files
  BY DEF Access, May, inodes, tables
<1>2. PICK f : f = ofiles[p][d]
  OBVIOUS
<1>3. f \in Files /\ files[f].ip \in Inodes /\ files[f].ref > 0
  BY <1>1, <1>2, FdFile DEF RefInv, TablesOk
<1>4. PICK i \in Inodes : i = files[f].ip
  BY <1>3
<1>5. PICK s : s = <<Step("lock", i), Step("unlock", i)>>
  OBVIOUS
<1>6. Rest(p, s)
  BY <1>2, <1>4, <1>5 DEF Access
<1>7. PICK a, op : a = arg'[p] /\ op = "unlock"
  OBVIOUS
<1>8. op \in Unlockers /\ op \notin ParentOps /\ op \notin DpOps /\ op # "make" /\ op # "unlink"
  BY <1>7 DEF Unlockers, ParentOps, DpOps
<1>9. PairLinks(s, a, op, i)
  <2>1. s = <<Step("lock", i), Step(op, i)>>
    BY <1>5, <1>7
  <2> QED
    BY <1>8, <2>1, PairLinked
<1>10. CallFine(s, a, dirs, mem, p)
  <2>1. PICK D, m : D = dirs /\ m = mem
    OBVIOUS
  <2>2. OpOk(op, i, a, D)
    BY <1>8 DEF OpOk
  <2>3. CallFine(s, a, D, m, p)
    BY <1>8, <1>9, <2>2 DEF PairLinks
  <2> QED
    BY <2>1, <2>3
<1>11. FilesOn(files, i) # {}
  BY <1>3, <1>4 DEF FilesOn
<1>12. \A j \in Inodes : ~ MakeOn(s, j) /\ ~ DropOn(s, j) /\ (Mentions(s, arg'[p], j) => FilesOn(files, j) # {})
  BY <1>7, <1>8, <1>9, <1>11 DEF PairLinks
<1>13. \A j \in Inodes : ~ DropOn(todo[p], j)
  BY <1>1 DEF DropOn
<1>14. todo' = [todo EXCEPT ![p] = s] /\ \A q \in Procs \ {p} : arg'[q] = arg[q]
  BY <1>1, <1>6, RestIs
<1>15. CallFine(s, arg'[p], dirs, mem, p)
  BY <1>7, <1>10
<1> QED
  BY <1>1, <1>12, <1>13, <1>14, <1>15, CalmLink

\* The name is looked up in the locked directory, and an inode is found.
LEMMA ChildLink ==
    ASSUME RefInv, RefInv', DirInv, Linked, ~ panicked, ~ panicked', NEW p \in Procs, NEW op \in {"find", "look"},
           NEW op2 \in {"exists", "unlink"}, At(p, op), NEW i \in Named(arg[p].dp, arg[p].name), mem' = Got(mem, i),
           Rest(p, <<Step("lock", i), Step(op2, i)>>), itab' = itab, dirs' = dirs, files' = files
    PROVE  Linked'
<1>1. PICK d, s : d = Head(todo[p]).i /\ s = <<Step("lock", i), Step(op2, i)>>
  OBVIOUS
<1>2. op \in LastOps /\ op \in ParentOps /\ op \in Unlockers /\ "unlink" \notin {"make"}
  BY DEF LastOps, ParentOps, Unlockers
<1>3. d \in Inodes /\ todo[p] = <<Step(op, d)>> /\ arg[p].dp = d /\ arg[p] \in ParentArg
  BY <1>1, <1>2, LastReady
<1>4. PICK o, a : o = todo[p] /\ a = arg[p]
  OBVIOUS
<1>5. SingleLinks(o, a, op, d)
  BY <1>2, <1>3, <1>4, SingleLinked
<1>6. <<a.name, i>> \in dirs[d]
  <2>1. PICK y \in dirs[d] : y[1] = a.name /\ y[2] = i
    BY <1>3, <1>4 DEF Named
  <2>2. y \in Names \X Inodes
    BY <1>3 DEF RefInv, TypesOk
  <2>3. y = <<y[1], y[2]>>
    BY <2>2
  <2> QED
    BY <2>1, <2>3
<1>7. i \in Inodes /\ itab[i].links # 0
  <2>1. <<a.name, i>>[2] = i
    OBVIOUS
  <2> QED
    BY <1>3, <1>6, <2>1, NamedLinks
<1>8. op2 \in Unlockers /\ op2 # "make"
  BY DEF Unlockers, LastOps
<1>9. s # <<>>
  BY <1>1
<1>10. todo' = [todo EXCEPT ![p] = s] /\ arg' = arg
  BY <1>1, <1>9, RestIs
<1>11. arg'[p] = a /\ \A q \in Procs \ {p} : arg'[q] = arg[q]
  BY <1>4, <1>10
<1>12. \A j \in Inodes : ~ DropOn(todo[p], j)
  BY <1>4, <1>5 DEF SingleLinks
<1>13. Locks(todo[p], arg[p], d) /\ Mentions(todo[p], arg[p], d)
  BY <1>2, <1>4, <1>5 DEF SingleLinks
<1>14. OpOk(op2, i, arg'[p], dirs)
  BY <1>3, <1>4, <1>6, <1>8, <1>11 DEF OpOk
<1>15. /\ \A j \in Inodes : op2 \in DpOps /\ arg'[p].dp = j => Locks(todo[p], arg[p], j)
       /\ op2 \in ParentOps => arg'[p].dp = i \/ Mentions(todo[p], arg[p], arg'[p].dp)
  BY <1>3, <1>4, <1>11, <1>13
<1> QED
  BY <1>1, <1>7, <1>8, <1>10, <1>11, <1>12, <1>14, <1>15, PairLink

LEMMA LookLink == ASSUME RefInv, RefInv', DirInv, Linked, NEW p \in Procs, Look(p) PROVE Linked'
<1>1. At(p, "look") /\ ~ panicked /\ ~ panicked' /\ itab' = itab /\ dirs' = dirs /\ files' = files
  BY DEF Look, At, tables
<1>2. CASE \E i \in Removable(arg[p].dp, arg[p].name) :
             mem' = Got(mem, i) /\ Rest(p, <<Step("lock", i), Step("unlink", i)>>)
  BY <1>1, <1>2, RemovableIs, ChildLink
<1>3. CASE Rest(p, <<Step("unlock", arg[p].dp), Step("put", arg[p].dp)>>) /\ mem' = mem
  <2>1. PICK d, s : d = Head(todo[p]).i /\ s = <<Step("unlock", d), Step("put", d)>>
    OBVIOUS
  <2>2. "look" \in LastOps /\ "look" # "swap"
    BY DEF LastOps
  <2>3. d \in Inodes /\ todo[p] = <<Step("look", d)>> /\ arg[p].dp = d
    BY <1>1, <2>1, <2>2, LastReady
  <2>4. Rest(p, s)
    BY <1>3, <2>1, <2>3
  <2>5. s \in Seq(StepRec)
    BY <1>1, <2>4, NextScript
  <2>6. Len(s) = 2 /\ s[1].op = "unlock" /\ s[1].i = d /\ s[2].op = "put" /\ s[2].i = d
    BY <2>1 DEF Step
  <2>7. Leaves(s) /\ \A k \in 1 .. Len(s) : s[k].op # "drop" /\ s[k].i = d
    BY <2>5, <2>6 DEF Leaves
  <2> QED
    BY <1>1, <1>3, <2>2, <2>3, <2>4, <2>7, LeaveLink
<1> QED
  BY <1>2, <1>3 DEF Look

\* The rest of a script whose first step is no lock.
TailLinks(s, t, a, b) ==
    /\ \A D, m, q : CallFine(s, a, D, m, q) => CallFine(t, b, D, m, q)
    /\ \A j : /\ DropOn(t, j) => DropOn(s, j) /\ s[1].i # j
              /\ DropOn(s, j) => DropOn(t, j) \/ (s[1].op = "drop" /\ s[1].i = j)
              /\ s[1].op = "drop" => ~ DropOn(t, j)
              /\ Locks(t, b, j) => DropOn(t, j)
              /\ ~ MakeOn(t, j)
              /\ Mentions(t, b, j) => Mentions(s, a, j)
    /\ \A k \in 1 .. Len(t) : t[k].op \notin ParentOps

LEMMA TailLinked ==
    ASSUME NEW s \in Seq(StepRec), s # <<>>, ShapeOk(s), s[1].op # "lock", DropShape(s),
           NEW t, t = Tail(s), NEW a, NEW b
    PROVE  TailLinks(s, t, a, b)
<1>1. t \in Seq(StepRec) /\ Len(t) = Len(s) - 1 /\ Len(s) \in Nat /\ Len(t) \in Nat /\ Len(s) > 0
  BY HeadTailProperties
<1>2. \A k \in 1 .. Len(t) : t[k] = s[k + 1] /\ k + 1 \in 1 .. Len(s) /\ k + 1 # 1 /\ 1 < k + 1
  BY <1>1
<1>3. 1 \in 1 .. Len(s)
  BY <1>1
<1>4. \A k \in 1 .. Len(s) : k # 1 => k - 1 \in 1 .. Len(t) /\ t[k - 1] = s[k]
  <2> SUFFICES ASSUME NEW k \in 1 .. Len(s), k # 1 PROVE k - 1 \in 1 .. Len(t) /\ t[k - 1] = s[k]
    OBVIOUS
  <2>1. k - 1 \in 1 .. Len(t) /\ (k - 1) + 1 = k
    BY <1>1
  <2> QED
    BY <1>2, <2>1
<1>5. \A k \in 1 .. Len(t) : t[k].op \notin ParentOps /\ t[k].op # "lock"
  BY <1>2 DEF ShapeOk
<1>6. DpOps \subseteq ParentOps /\ "make" \in ParentOps /\ "unlink" \in ParentOps
  BY DEF DpOps, ParentOps
<1>7. \A j : Locks(t, b, j) => DropOn(t, j)
  BY <1>5, <1>6 DEF Locks, DropOn
<1>8. \A j : ~ MakeOn(t, j) /\ (Mentions(t, b, j) => Mentions(s, a, j))
  BY <1>2, <1>5, <1>6 DEF MakeOn, Mentions
<1>9. ASSUME NEW j, DropOn(t, j) PROVE DropOn(s, j) /\ s[1].i # j /\ s[1].op # "drop"
  <2>1. PICK k \in 1 .. Len(t) : t[k].op = "drop" /\ t[k].i = j
    BY <1>9 DEF DropOn
  <2>2. s[k + 1].op = "drop" /\ s[k + 1].i = j
    BY <1>2, <2>1
  <2> QED
    BY <1>2, <1>3, <2>2 DEF DropOn, DropShape
<1>10. \A j : DropOn(s, j) => DropOn(t, j) \/ (s[1].op = "drop" /\ s[1].i = j)
  BY <1>4 DEF DropOn
<1>11. DropShape(t)
  <2> SUFFICES ASSUME NEW k \in 1 .. Len(t), t[k].op = "drop", NEW l \in 1 .. Len(t)
               PROVE  /\ t[l].op \notin LastOps \cup {"lock"}
                      /\ t[l].op = "drop" => l = k
                      /\ l < k => t[l].i # t[k].i
    BY DEF DropShape
  <2>1. /\ s[l + 1].op \notin LastOps \cup {"lock"}
        /\ s[l + 1].op = "drop" => l + 1 = k + 1
        /\ l + 1 < k + 1 => s[l + 1].i # s[k + 1].i
    BY <1>2 DEF DropShape
  <2> QED
    BY <1>1, <1>2, <2>1
<1>12. ASSUME NEW D, NEW m, NEW q, CallFine(s, a, D, m, q) PROVE CallFine(t, b, D, m, q)
  <2>1. WorkOk(s, a, D) /\ HasRead(s, m) /\ \A i \in Inodes : Locks(s, a, i) => m[i] # NULL /\ m[i].by = q
    BY <1>12 DEF CallFine
  <2>2. WorkOk(t, b, D)
    <3> SUFFICES ASSUME NEW k \in 1 .. Len(t)
                 PROVE  t[k].op = "drop" => ~ NamedIn(D, t[k].i) /\ t[k].i # Root /\ D[t[k].i] = {}
      BY <1>5, <1>6 DEF WorkOk
    <3>1. PICK l \in 1 .. Len(s) : l = k + 1 /\ t[k] = s[l]
      BY <1>2
    <3>2. s[l].op = "drop" => ~ NamedIn(D, s[l].i) /\ s[l].i # Root /\ D[s[l].i] = {}
      BY <2>1 DEF WorkOk
    <3> QED
      BY <3>1, <3>2
  <2>3. HasRead(t, m)
    BY <1>2, <2>1 DEF HasRead
  <2>4. \A i \in Inodes : Locks(t, b, i) => m[i] # NULL /\ m[i].by = q
    BY <1>7, <1>9, <2>1, LocksMention
  <2> QED
    BY <1>11, <2>2, <2>3, <2>4 DEF CallFine
<1> QED
  BY <1>5, <1>7, <1>8, <1>9, <1>10, <1>12 DEF TailLinks

\* The first step of a script is done, and it is neither a lock nor a drop.
LEMMA TailLink ==
    ASSUME RefInv, RefInv', DirInv, Linked, ~ panicked, ~ panicked', NEW p \in Procs, todo[p] # <<>>,
           NEW op, Head(todo[p]).op = op, op \notin {"lock", "drop"}, Rest(p, Tail(todo[p])), Mild, files' = files,
           \A i \in Inodes : itab[i].links = 0 /\ itab[i].type # "invalid" =>
              itab'[i] = Free \/ (mem'[i] # NULL /\ mem'[i].rc >= 1),
           \A i \in Inodes : mem'[i] = NULL /\ itab'[i] # itab[i] => itab[i].links = 0,
           \A i \in Inodes : mem'[i] # NULL =>
              /\ mem[i] # NULL /\ Owned(mem'[i])
              /\ mem'[i].by = mem[i].by \/ (mem[i].by = p /\ Head(todo[p]).i = i)
    PROVE  Linked'
<1>1. PICK s, t, a, b : s = todo[p] /\ t = Tail(s) /\ a = arg[p] /\ b = arg'[p]
  OBVIOUS
<1>2. s \in Seq(StepRec) /\ s # <<>> /\ Head(s) = s[1] /\ s[1].op = op
  BY <1>1 DEF RefInv, TypesOk
<1>3. ShapeOk(s) /\ CallFine(s, a, dirs, mem, p)
  BY <1>1 DEF DirInv, Linked, CallsFine
<1>4. DropShape(s)
  BY <1>3 DEF CallFine
<1>5. TailLinks(s, t, a, b)
  BY <1>1, <1>2, <1>3, <1>4, TailLinked
<1>6. /\ todo' = [todo EXCEPT ![p] = t] /\ todo'[p] = t /\ \A q \in Procs \ {p} : arg'[q] = arg[q]
  BY <1>1, RestIs
<1>7. \A i \in Inodes : Mentions(t, b, i) => mem'[i] # NULL
  BY <1>1, <1>6, GoneNext
<1>8. t \in Seq(StepRec)
  BY <1>2, <1>1, HeadTailProperties
<1>9. CallFine(t, b, dirs, mem', p)
  <2>1. PICK D, m, m2 : D = dirs /\ m = mem /\ m2 = mem'
    OBVIOUS
  <2>2. CallFine(t, b, D, m, p)
    BY <1>3, <1>5, <2>1 DEF TailLinks
  <2>3. \A k \in 1 .. Len(t) : t[k].op \in ParentOps => b.dp \in Inodes
    BY <1>5 DEF TailLinks
  <2>4. \A i \in Inodes : Mentions(t, b, i) => m2[i] # NULL /\ (NamedIn(D, i) => NamedIn(D, i))
    BY <1>7, <2>1
  <2>5. \A i \in Inodes : Mentions(t, b, i) /\ Loaded(m, i) => m2[i].valid
    BY <1>7, <2>1 DEF Mild
  <2>6. \A i \in Inodes : Locks(t, b, i) => m2[i].by = m[i].by
    <3> SUFFICES ASSUME NEW i \in Inodes, Locks(t, b, i) PROVE m2[i].by = m[i].by
      OBVIOUS
    <3>1. s[1].i # i
      BY <1>5 DEF TailLinks
    <3>2. mem'[i] # NULL
      BY <1>7, LocksMention
    <3>3. Head(todo[p]).i # i
      BY <1>1, <1>2, <3>1
    <3> QED
      BY <2>1, <3>2, <3>3
  <2>7. CallFine(t, b, D, m2, p)
    BY <1>8, <2>2, <2>3, <2>4, <2>5, <2>6, FineStays
  <2> QED
    BY <2>1, <2>7
<1>10. \A i \in Inodes : DropOn(t, i) <=> DropOn(todo[p], i)
  BY <1>1, <1>2, <1>5 DEF TailLinks
<1>11. \A i \in Inodes : ~ MakeOn(t, i) /\ (Mentions(t, arg'[p], i) => Mentions(todo[p], arg[p], i))
  BY <1>1, <1>5 DEF TailLinks
<1>12. CallFine(t, arg'[p], dirs, mem', p)
  BY <1>1, <1>9
<1>13. \A i \in Inodes : mem[i] # NULL /\ mem'[i] # NULL =>
          Owned(mem'[i]) /\ (mem'[i].by = mem[i].by \/ mem[i].by \in {NULL, p})
  OBVIOUS
<1>14. \A i \in Inodes : mem[i] = NULL /\ mem'[i] # NULL => mem'[i] = NewInode /\ itab[i].type # "invalid"
  OBVIOUS
<1> QED
  BY <1>6, <1>10, <1>11, <1>12, <1>13, <1>14, MildLink

LEMMA UnlockLink ==
    ASSUME RefInv, RefInv', DirInv, Linked, NEW p \in Procs, Unlock(p), ~ spoiled'
    PROVE  Linked'
<1>1. /\ At(p, "unlock") /\ Rest(p, Tail(todo[p])) /\ ~ panicked /\ ~ panicked'
      /\ itab' = itab /\ dirs' = dirs /\ files' = files
  BY DEF Unlock, At, tables
<1>2. PICK i : i = Head(todo[p]).i
  OBVIOUS
<1>3. i \in Inodes /\ mem[i] # NULL /\ mem[i] \in MemInode
  BY <1>1, <1>2, PassStep
<1>4. mem \in MemTable /\ todo[p] # <<>> /\ Head(todo[p]).op = "unlock"
  BY <1>1 DEF RefInv, TypesOk, MemTable, At
<1>5. PICK y \in MemInode : y = mem[i]
  BY <1>3
<1>6. PICK x : x = [y EXCEPT !.lock = @ + 1, !.by = NULL]
  OBVIOUS
<1>7. x = [rc |-> y.rc, lock |-> y.lock + 1, by |-> NULL, valid |-> y.valid, e |-> y.e]
  BY <1>6, UnlockedInode, Zenon
<1>8. /\ x.lock = y.lock + 1 /\ x.valid = y.valid /\ x.e = y.e /\ x.rc = y.rc /\ y.lock \in Int
      /\ x.by = NULL
  BY <1>5, <1>7, Zenon DEF MemInode
<1>9. mem' = [mem EXCEPT ![i] = x]
  BY <1>1, <1>2, <1>3, <1>4, <1>5, <1>6 DEF Unlock, MemTable
<1>10. mem'[i] = x /\ \A j \in Inodes : j # i => mem'[j] = mem[j]
  BY <1>3, <1>4, <1>9 DEF MemTable
<1>11. y.by = p /\ Owned(x)
  <2>1. y.by = p
    BY <1>2, <1>5 DEF Unlock
  <2>2. Owned(y) /\ NULL \notin Procs
    BY <1>3, <1>5, NullAssumption DEF Linked, HeldOk
  <2>3. y.lock = 0
    BY <2>1, <2>2 DEF Owned
  <2> QED
    BY <1>8, <2>1, <2>3 DEF Owned
<1>12. Mild
  <2> SUFFICES ASSUME NEW j \in Inodes
               PROVE  mem'[j] # NULL => /\ Loaded(mem, j) => mem'[j].valid /\ mem'[j].e = mem[j].e
                                        /\ ~ Loaded(mem, j) /\ mem'[j].valid => mem'[j].e = itab[j]
    BY <1>1 DEF Mild
  <2>1. CASE j = i
    BY <1>3, <1>5, <1>8, <1>10, <2>1 DEF Loaded
  <2>2. CASE j # i
    BY <1>10, <2>2 DEF Loaded
  <2> QED
    BY <2>1, <2>2
<1>13. \A j \in Inodes : mem'[j] # NULL =>
          /\ mem[j] # NULL /\ Owned(mem'[j])
          /\ mem'[j].by = mem[j].by \/ (mem[j].by = p /\ Head(todo[p]).i = j)
  <2>1. \A j \in Inodes : mem[j] # NULL => Owned(mem[j])
    BY DEF Linked, HeldOk
  <2> QED
    BY <1>2, <1>3, <1>5, <1>10, <1>11, <2>1
<1>14. mem'[i] # NULL
  <2>1. /\ y.e \in [type : Types, links : Int] /\ y.lock + 1 \in Int /\ y.valid \in BOOLEAN
        /\ NULL \in Procs \cup {NULL}
    BY <1>5 DEF MemInode
  <2>2. x \in MemInode
    BY <1>5, <1>7, <2>1, InodeIs
  <2> QED
    BY <1>10, <2>2, NullAssumption
<1>15. \A j \in Inodes : itab[j].links = 0 /\ itab[j].type # "invalid" => mem'[j] # NULL /\ mem'[j].rc >= 1
  BY <1>5, <1>8, <1>10, <1>14 DEF Linked, LinksOk
<1> QED
  BY <1>1, <1>4, <1>12, <1>13, <1>15, TailLink

\* inode_put: an inode that is freed has no links.
LEMMA PutLinked ==
    ASSUME RefInv, Linked, ~ panicked, NEW i \in Inodes, Loaded(mem, i), PutInode(i)
    PROVE  /\ \A j \in Inodes : itab[j].links = 0 /\ itab[j].type # "invalid" =>
                 itab'[j] = Free \/ (mem'[j] # NULL /\ mem'[j].rc >= 1)
           /\ \A j \in Inodes : mem'[j] = NULL /\ itab'[j] # itab[j] => itab[j].links = 0
           /\ \A j \in Inodes : mem'[j] # NULL => mem[j] # NULL /\ Owned(mem'[j]) /\ mem'[j].by = mem[j].by
<1>1. NULL \notin MemInode /\ mem \in MemTable /\ DOMAIN itab = Inodes /\ mem[i] # NULL /\ mem[i].valid
  BY NullAssumption DEF RefInv, TypesOk, MemTable, Loaded
<1>2. PICK y \in MemInode : y = mem[i]
  BY <1>1 DEF MemTable
<1>3. y.e = itab[i] /\ y.rc \in Int
  BY <1>1, <1>2 DEF Linked, HeldOk, MemInode
<1>4. /\ \A j \in Inodes : mem[j] # NULL => Owned(mem[j])
      /\ \A j \in Inodes : itab[j].links = 0 /\ itab[j].type # "invalid" => mem[j] # NULL /\ mem[j].rc >= 1
  BY DEF Linked, HeldOk, LinksOk
<1>5. PICK links : /\ links = itab[i].links
                   /\ IF LastPut(i, links)
                      THEN /\ itab' = [itab EXCEPT ![i] = Free]
                           /\ dirs' = [dirs EXCEPT ![i] = {}]
                           /\ mem' = [mem EXCEPT ![i] = NULL]
                      ELSE /\ mem' = [mem EXCEPT ![i].rc = @ - 1]
                           /\ UNCHANGED <<itab, dirs>>
  BY <1>1, <1>2, <1>3 DEF PutInode
<1>6. CASE LastPut(i, links)
  <2>1. itab'[i] = Free /\ mem'[i] = NULL /\ itab[i].links = 0
    BY <1>1, <1>5, <1>6 DEF MemTable, LastPut
  <2>2. \A j \in Inodes : j # i => mem'[j] = mem[j] /\ itab'[j] = itab[j]
    BY <1>1, <1>5, <1>6 DEF MemTable
  <2> QED
    BY <1>4, <2>1, <2>2
<1>7. CASE ~ LastPut(i, links)
  <2>1. PICK x : x = [y EXCEPT !.rc = @ - 1]
    OBVIOUS
  <2>2. x.lock = y.lock /\ x.by = y.by /\ x.rc = y.rc - 1 /\ x \in MemInode
    BY <1>3, <2>1 DEF MemInode
  <2>3. mem' = [mem EXCEPT ![i] = x] /\ itab' = itab
    BY <1>1, <1>2, <1>5, <1>7, <2>1 DEF MemTable
  <2>4. mem'[i] = x /\ \A j \in Inodes : j # i => mem'[j] = mem[j]
    BY <1>1, <2>3 DEF MemTable
  <2>5. itab[i].links = 0 => y.rc # 1
    BY <1>2, <1>5, <1>7 DEF LastPut
  <2>6. x # NULL /\ Owned(x)
    BY <1>1, <1>2, <1>4, <2>2 DEF Owned
  <2>7. itab[i].links = 0 /\ itab[i].type # "invalid" => x.rc >= 1
    BY <1>2, <1>3, <1>4, <2>2, <2>5
  <2> QED
    BY <1>1, <1>2, <1>4, <2>2, <2>3, <2>4, <2>6, <2>7
<1> QED
  BY <1>6, <1>7

LEMMA PutLink == ASSUME RefInv, RefInv', DirInv, Linked, NEW p \in Procs, Put(p) PROVE Linked'
<1>1. /\ At(p, "put") /\ PutInode(Head(todo[p]).i) /\ Rest(p, Tail(todo[p]))
      /\ ~ panicked /\ ~ panicked' /\ files' = files
  BY DEF Put, At, tables
<1>2. PICK s, i : s = todo[p] /\ i = Head(todo[p]).i
  OBVIOUS
<1>3. s \in Seq(StepRec) /\ s # <<>> /\ Head(s).op = "put"
  BY <1>1, <1>2 DEF At, RefInv, TypesOk
<1>4. 1 \in 1 .. Len(s) /\ s[1] \in StepRec /\ Head(s) = s[1]
  BY <1>3
<1>5. i \in Inodes /\ "put" \in HoldOps
  BY <1>2, <1>3, <1>4 DEF StepRec, HoldOps
<1>6. Loaded(mem, i)
  <2>1. HasRead(s, mem)
    BY <1>2 DEF Linked, CallsFine, CallFine
  <2> QED
    BY <1>2, <1>3, <1>4, <1>5, <2>1 DEF HasRead
<1>7. Mild
  BY <1>1, <1>2, <1>5, <1>6, PutMild DEF Loaded
<1>8. /\ \A j \in Inodes : itab[j].links = 0 /\ itab[j].type # "invalid" =>
            itab'[j] = Free \/ (mem'[j] # NULL /\ mem'[j].rc >= 1)
      /\ \A j \in Inodes : mem'[j] = NULL /\ itab'[j] # itab[j] => itab[j].links = 0
      /\ \A j \in Inodes : mem'[j] # NULL => mem[j] # NULL /\ Owned(mem'[j]) /\ mem'[j].by = mem[j].by
  BY <1>1, <1>2, <1>5, <1>6, PutLinked
<1>9. "put" \notin {"lock", "drop"}
  OBVIOUS
<1> QED
  BY <1>1, <1>2, <1>3, <1>7, <1>8, <1>9, TailLink

\* A call that has returned.
LEMMA EmptyFine ==
    ASSUME NEW a, NEW D, NEW m, NEW q
    PROVE  /\ CallFine(<<>>, a, D, m, q)
           /\ \A j : ~ MakeOn(<<>>, j) /\ ~ DropOn(<<>>, j) /\ ~ Mentions(<<>>, a, j)
  BY DEF CallFine, DropShape, WorkOk, HasRead, Locks, MakeOn, DropOn, Mentions

LEMMA DupLink == ASSUME RefInv, RefInv', Linked, NEW p \in Procs, NEW d \in Fds, Dup(p, d) PROVE Linked'
<1>1. /\ todo[p] = <<>> /\ ~ panicked /\ ~ panicked' /\ itab' = itab /\ dirs' = dirs /\ mem' = mem
      /\ todo' = todo /\ arg' = arg /\ ofiles[p][d] # NULL /\ files' = DupRef(ofiles[p][d])
  BY DEF Dup, May, inodes
<1>2. files \in [Files -> [ref : Nat, ip : Inodes \cup {NULL}]] /\ todo \in [Procs -> Seq(StepRec)]
  BY <1>1 DEF RefInv, TablesOk, TypesOk
<1>3. PICK f : f = ofiles[p][d]
  OBVIOUS
<1>4. f \in Files /\ files[f].ref > 0
  BY <1>1, <1>3, FdFile DEF RefInv
<1>5. \A g \in Files : files'[g].ref > 0 => files[g].ref > 0 /\ files[g].ip = files'[g].ip
  BY <1>1, <1>2, <1>3, <1>4 DEF DupRef
<1>6. PICK s : s = <<>>
  OBVIOUS
<1>7. todo' = [todo EXCEPT ![p] = s]
  BY <1>1, <1>2, <1>6
<1>8. CallFine(s, arg'[p], dirs, mem, p) /\ \A j : ~ MakeOn(s, j) /\ ~ DropOn(s, j) /\ ~ Mentions(s, arg'[p], j)
  BY <1>6, EmptyFine
<1>9. \A j : ~ DropOn(todo[p], j)
  BY <1>1, EmptyFine
<1> QED
  BY <1>1, <1>5, <1>7, <1>8, <1>9, CalmLink

LEMMA CloseLink ==
    ASSUME RefInv, RefInv', Linked, NEW p \in Procs, NEW d \in Fds, Close(p, d)
    PROVE  Linked'
<1>1. /\ todo[p] = <<>> /\ ~ panicked /\ ~ panicked' /\ todo' = todo /\ arg' = arg /\ ofiles[p][d] # NULL
  BY DEF Close, May
<1>2. files \in [Files -> [ref : Nat, ip : Inodes \cup {NULL}]] /\ todo \in [Procs -> Seq(StepRec)]
  BY <1>1 DEF RefInv, TablesOk, TypesOk
<1>3. PICK f : f = ofiles[p][d]
  OBVIOUS
<1>4. f \in Files /\ files[f].ref > 0 /\ files[f].ip \in Inodes
  BY <1>1, <1>3, FdFile DEF RefInv
<1>5. PICK s : s = <<>>
  OBVIOUS
<1>6. todo' = [todo EXCEPT ![p] = s]
  BY <1>1, <1>2, <1>5
<1>7. \A j : ~ MakeOn(s, j) /\ ~ DropOn(s, j) /\ ~ Mentions(s, arg'[p], j)
  BY <1>5, EmptyFine
<1>8. \A j : ~ DropOn(todo[p], j)
  BY <1>1, EmptyFine
<1>9. CASE PutInode(files[f].ip) /\ files' = [files EXCEPT ![f] = Closed]
  <2>1. PICK i \in Inodes : i = files[f].ip
    BY <1>4
  <2>2. Loaded(mem, i)
    BY <1>4, <2>1 DEF Linked, FilesRead
  <2>3. Mild
    BY <1>1, <1>9, <2>1, <2>2, PutMild DEF Loaded
  <2>4. /\ \A j \in Inodes : itab[j].links = 0 /\ itab[j].type # "invalid" =>
              itab'[j] = Free \/ (mem'[j] # NULL /\ mem'[j].rc >= 1)
        /\ \A j \in Inodes : mem'[j] = NULL /\ itab'[j] # itab[j] => itab[j].links = 0
        /\ \A j \in Inodes : mem'[j] # NULL => mem[j] # NULL /\ Owned(mem'[j]) /\ mem'[j].by = mem[j].by
    BY <1>1, <1>9, <2>1, <2>2, PutLinked
  <2>5. \A g \in Files : files'[g].ref > 0 => files[g].ref > 0 /\ files[g].ip = files'[g].ip
    BY <1>2, <1>9 DEF Closed
  <2>6. CallFine(s, arg'[p], dirs, mem', p)
    BY <1>5, EmptyFine
  <2> QED
    BY <1>1, <1>6, <1>7, <1>8, <2>3, <2>4, <2>5, <2>6, MildLink, ZenonT(40)
<1>10. CASE files' = [files EXCEPT ![f].ref = @ - 1] /\ UNCHANGED inodes
  <2>1. \A g \in Files : files'[g].ref > 0 => files[g].ref > 0 /\ files[g].ip = files'[g].ip
    BY <1>2, <1>4, <1>10
  <2>2. CallFine(s, arg'[p], dirs, mem, p)
    BY <1>5, EmptyFine
  <2> QED
    BY <1>1, <1>6, <1>7, <1>8, <1>10, <2>1, <2>2, CalmLink DEF inodes
<1> QED
  BY <1>3, <1>9, <1>10 DEF Close

LEMMA LockLink == ASSUME RefInv, RefInv', DirInv, Linked, NEW p \in Procs, Lock(p) PROVE Linked'
<1>1. /\ At(p, "lock") /\ Rest(p, Tail(todo[p])) /\ ~ panicked /\ ~ panicked'
      /\ itab' = itab /\ dirs' = dirs /\ files' = files
  BY Zenon DEF Lock, At, tables
<1>2. PICK i, s, a : i = Head(todo[p]).i /\ s = todo[p] /\ a = arg[p]
  OBVIOUS
<1>3. PICK op \in Unlockers : s = <<Step("lock", i), Step(op, i)>> /\ Tail(s) = <<Step(op, i)>>
  BY <1>1, <1>2, AtLock
<1>4. /\ Mild /\ i \in Inodes /\ mem[i] # NULL /\ Loaded(mem', i) /\ mem[i].lock \in Int /\ mem[i].lock > 0
      /\ mem'[i].lock = mem[i].lock - 1 /\ mem'[i].by = p /\ mem'[i].rc = mem[i].rc
      /\ \A j \in Inodes : j # i => mem'[j] = mem[j]
  BY <1>2, LockKeeps
<1>5. PICK t : t = <<Step(op, i)>>
  OBVIOUS
<1>6. PairLinks(s, a, op, i) /\ SingleLinks(t, a, op, i)
  BY <1>3, <1>4, <1>5, PairLinked, SingleLinked
<1>7. todo' = [todo EXCEPT ![p] = t] /\ arg' = arg
  <2>1. t # <<>>
    BY <1>5
  <2> QED
    BY <1>1, <1>2, <1>3, <1>5, <2>1, RestIs
<1>8. CallFine(s, a, dirs, mem, p)
  BY <1>2 DEF Linked, CallsFine
<1>9. CallFine(t, a, dirs, mem', p)
  <2>1. PICK D, m, m2 : D = dirs /\ m = mem /\ m2 = mem'
    OBVIOUS
  <2>2. OpOk(op, i, a, D) /\ \A j \in Inodes : op \in DpOps /\ a.dp = j => m[j] # NULL /\ m[j].by = p
    <3>1. CallFine(s, a, D, m, p)
      BY <1>8, <2>1
    <3> QED
      BY <1>6, <3>1 DEF PairLinks
  <2>3. /\ Loaded(m2, i) /\ m2[i] # NULL /\ m2[i].by = p
        /\ \A j \in Inodes : j # i => m2[j] = m[j]
    BY <1>4, <2>1 DEF Loaded
  <2>4. \A j \in Inodes : (op \in ParentOps /\ i = j) \/ (op \in DpOps /\ a.dp = j) => m2[j] # NULL /\ m2[j].by = p
    BY <2>2, <2>3
  <2>5. CallFine(t, a, D, m2, p)
    BY <1>6, <2>2, <2>3, <2>4 DEF SingleLinks
  <2> QED
    BY <2>1, <2>5
<1>10. \A j \in Inodes : /\ DropOn(t, j) <=> DropOn(s, j)
                         /\ MakeOn(t, j) => MakeOn(s, j)
                         /\ Mentions(t, a, j) => Mentions(s, a, j)
  BY <1>6 DEF PairLinks, SingleLinks
<1>11. mem[i].by = NULL /\ Owned(mem'[i])
  <2>1. Owned(mem[i])
    BY <1>4 DEF Linked, HeldOk
  <2>2. mem[i].by = NULL /\ mem[i].lock = 1
    BY <1>4, <2>1 DEF Owned
  <2> QED
    BY <1>4, <2>2 DEF Owned
<1>12. \A j \in Inodes : mem[j] # NULL /\ mem'[j] # NULL =>
          Owned(mem'[j]) /\ (mem'[j].by = mem[j].by \/ mem[j].by \in {NULL, p})
  <2>1. \A j \in Inodes : mem[j] # NULL => Owned(mem[j])
    BY DEF Linked, HeldOk
  <2> QED
    BY <1>4, <1>11, <2>1
<1>13. \A j \in Inodes : itab[j].links = 0 /\ itab[j].type # "invalid" => mem'[j] # NULL /\ mem'[j].rc >= 1
  BY <1>4 DEF Linked, LinksOk, Loaded
<1>14. \A j \in Inodes : mem[j] = NULL => mem'[j] = NULL
  BY <1>4
<1>15. a = arg'[p] /\ s = todo[p] /\ a = arg[p]
  BY <1>2, <1>7
<1>16. CallFine(t, arg'[p], dirs, mem', p)
  BY <1>9, <1>15
<1>17. \A q \in Procs \ {p} : arg'[q] = arg[q]
  BY <1>7
<1>18. \A j \in Inodes : /\ DropOn(t, j) <=> DropOn(todo[p], j)
                         /\ MakeOn(t, j) => MakeOn(todo[p], j)
                         /\ Mentions(t, arg'[p], j) => Mentions(todo[p], arg[p], j)
  BY <1>10, <1>15
<1> QED
  BY <1>1, <1>4, <1>7, <1>12, <1>13, <1>14, <1>16, <1>17, <1>18, MildLink, ZenonT(40)

\* create takes a free inode and waits for its lock.
LEMMA NewLink ==
    ASSUME RefInv, RefInv', DirInv, Linked, ~ panicked, ~ panicked', NEW p \in Procs, At(p, "find"),
           Named(arg[p].dp, arg[p].name) = {},
           NEW i \in Inodes, itab[i].type = "invalid", mem' = Got(mem, i),
           itab' = [itab EXCEPT ![i] = Entry(arg[p].type, 0)], dirs' = dirs, files' = files,
           Rest(p, <<Step("lock", i), Step("make", i)>>)
    PROVE  Linked'
<1>1. PICK d, a, s : d = Head(todo[p]).i /\ a = arg[p] /\ s = <<Step("lock", i), Step("make", i)>>
  OBVIOUS
<1>2. /\ "find" \in LastOps /\ "find" \in ParentOps /\ "find" \in Unlockers
      /\ "make" \in Unlockers /\ "make" \in DpOps /\ "make" \in ParentOps
  BY DEF LastOps, ParentOps, DpOps, Unlockers
<1>3. /\ d \in Inodes /\ todo[p] = <<Step("find", d)>> /\ a.dp = d /\ a \in ParentArg
  BY <1>1, <1>2, LastReady
<1>4. PICK o : o = todo[p]
  OBVIOUS
<1>5. SingleLinks(o, a, "find", d) /\ PairLinks(s, a, "make", i)
  BY <1>1, <1>2, <1>3, <1>4, SingleLinked, PairLinked
<1>6. todo' = [todo EXCEPT ![p] = s] /\ arg' = arg
  <2>1. s # <<>>
    BY <1>1
  <2> QED
    BY <1>1, <2>1, RestIs
<1>7. itab[i].links = 0 /\ mem[i] = NULL
  BY DEF DirInv, EntriesOk, Free, Entry, Linked, HeldOk
<1>8. ~ NamedIn(dirs, i) /\ i # Root /\ dirs[i] = {}
  BY <1>7, LinksZero
<1>9. /\ mem'[i] # NULL
      /\ \A j \in Inodes : mem[j] = NULL /\ mem'[j] # NULL => j = i /\ mem'[j] = NewInode
      /\ \A j \in Inodes : mem[j] # NULL =>
            /\ mem'[j] # NULL /\ mem'[j].by = mem[j].by /\ Owned(mem'[j])
            /\ mem[j].rc >= 1 => mem'[j].rc >= 1
            /\ mem'[j].valid = mem[j].valid /\ mem'[j].e = mem[j].e
  BY GotLinked
<1>10. NewInode.rc = 1 /\ NewInode.valid = FALSE /\ Owned(NewInode)
  BY DEF NewInode, Owned
<1>11. PICK n : n = Entry(a.type, 0) /\ n.type # "invalid" /\ n.links = 0
  <2>1. Entry(a.type, 0).type = a.type /\ Entry(a.type, 0).links = 0
    BY DEF Entry
  <2> QED
    BY <1>3, <2>1 DEF ParentArg
<1>12. itab'[i] = n /\ \A j \in Inodes : j # i => itab'[j] = itab[j]
  BY <1>1, <1>11 DEF RefInv, TypesOk
<1>13. NamesOk' /\ LinksOk'
  <2>1. \A j \in Inodes : itab'[j] = itab[j] \/ (itab[j].links = 0 /\ itab'[j].links = 0)
    BY <1>7, <1>11, <1>12
  <2>2. \A j \in Inodes : itab'[j].links = 0 /\ itab'[j].type # "invalid" => mem'[j] # NULL /\ mem'[j].rc >= 1
    <3> TAKE j \in Inodes
    <3>1. CASE j = i
      BY <1>7, <1>9, <1>10, <3>1
    <3>2. CASE j # i
      BY <1>9, <1>12, <3>2 DEF Linked, LinksOk
    <3> QED
      BY <3>1, <3>2
  <2>3. \A j \in Inodes : DropOn(s, j) <=> DropOn(todo[p], j)
    BY <1>4, <1>5 DEF SingleLinks, PairLinks
  <2>4. \A j \in Inodes : Dropping(todo', j) <=> Dropping(todo, j)
    BY <1>6, <2>3, DropsSame
  <2> QED
    BY <2>1, <2>2, <2>4, SameLinks
<1>14. HeldOk'
  <2> SUFFICES ASSUME NEW j \in Inodes, mem'[j] # NULL
               PROVE  /\ itab'[j].type # "invalid"
                      /\ mem'[j].valid => mem'[j].e = itab'[j]
                      /\ Owned(mem'[j])
    BY DEF HeldOk
  <2>1. CASE j = i
    BY <1>7, <1>9, <1>10, <1>11, <1>12, <2>1
  <2>2. CASE j # i
    BY <1>9, <1>12, <2>2 DEF Linked, HeldOk
  <2> QED
    BY <2>1, <2>2
<1>15. CallFine(s, a, dirs, mem', p)
  <2>1. PICK D, m : D = dirs /\ m = mem'
    OBVIOUS
  <2>2. OpOk("make", i, a, D)
    <3>1. \A x \in dirs[d] : x[1] # a.name
      BY <1>1, <1>3 DEF Named
    <3> QED
      BY <1>3, <1>8, <2>1, <3>1 DEF OpOk
  <2>3. Locks(o, a, d)
    BY <1>2, <1>5 DEF SingleLinks
  <2>4. mem[d] # NULL /\ mem[d].by = p
    BY <1>1, <1>3, <1>4, <2>3 DEF Linked, CallsFine, CallFine
  <2>5. m[d] # NULL /\ m[d].by = p
    BY <1>3, <1>9, <2>1, <2>4
  <2>6. CallFine(s, a, D, m, p)
    BY <1>3, <1>5, <2>2, <2>5 DEF PairLinks
  <2> QED
    BY <2>1, <2>6
<1>16. a = arg'[p] /\ \A q \in Procs \ {p} : arg'[q] = arg[q]
  BY <1>1, <1>6
<1>17. \A j : (MakeOn(s, j) => j = i) /\ (Mentions(s, a, j) => j = i \/ j = d)
  BY <1>3, <1>5 DEF PairLinks
<1>18. ASSUME NEW j \in Inodes, MakeOn(s, j)
       PROVE  FilesOn(files', j) = {} /\ \A q \in Procs \ {p} : ~ Mentions(todo[q], arg[q], j)
  <2>1. j = i
    BY <1>17, <1>18
  <2>2. FilesOn(files', i) = {}
    BY <1>7 DEF Linked, FilesRead, FilesOn, Loaded
  <2>3. \A q \in Procs : ~ Mentions(todo[q], arg[q], i)
    BY <1>7, GoneNow
  <2> QED
    BY <2>1, <2>2, <2>3
<1>19. ASSUME NEW j \in Inodes, NEW q \in Procs \ {p}, MakeOn(todo[q], j), Mentions(s, arg'[p], j)
       PROVE  Mentions(todo[p], arg[p], j)
  <2>1. j # i
    BY <1>7, <1>19, GoneNow, LocksMention
  <2>2. j = d
    BY <1>16, <1>17, <1>19, <2>1
  <2> QED
    BY <1>1, <1>4, <1>5, <2>2 DEF SingleLinks
<1>20. CallFine(s, arg'[p], dirs', mem', p)
  BY <1>15, <1>16
<1>21. \A j \in Inodes : mem[j] # NULL /\ mem'[j] # NULL =>
          (mem[j].valid => mem'[j].valid) /\ (mem'[j].by = mem[j].by \/ mem[j].by \in {NULL, p})
  BY <1>9
<1>22. /\ \A j \in Inodes : dirs'[j] = dirs[j] \/ Locks(todo[p], arg[p], j)
       /\ \A j \in Inodes : NamedIn(dirs', j) => NamedIn(dirs, j) \/ MakeOn(todo[p], j)
  OBVIOUS
<1>23. \A j \in Inodes : MakeOn(s, j) =>
          FilesOn(files', j) = {} /\ \A q \in Procs \ {p} : ~ Mentions(todo[q], arg[q], j)
  BY <1>18
<1>24. \A j \in Inodes, q \in Procs \ {p} :
          MakeOn(todo[q], j) /\ Mentions(s, arg'[p], j) => Mentions(todo[p], arg[p], j)
  BY <1>19
<1>25. \A f \in Files : files'[f].ref > 0 => files[f].ref > 0 /\ files[f].ip = files'[f].ip
  OBVIOUS
<1> QED
  BY <1>6, <1>13, <1>14, <1>16, <1>20, <1>21, <1>22, <1>23, <1>24, <1>25, LinkStep, ZenonT(40)

LEMMA FindLink ==
    ASSUME RefInv, RefInv', DirInv, Linked, NEW p \in Procs, Find(p), ~ spoiled'
    PROVE  Linked'
<1>1. /\ At(p, "find") /\ ~ panicked /\ dirs' = dirs /\ files' = files
      /\ Meets(arg[p].dp, arg[p].name) = Named(arg[p].dp, arg[p].name)
  BY DEF Find, At, tables, Meets
<1>2. CASE panicked'
  <2>1. UNCHANGED <<itab, dirs, mem, files, todo, arg>>
    BY <1>1, <1>2 DEF Find
  <2> QED
    BY <2>1 DEF Linked, NamesOk, LinksOk, HeldOk, CallsFine, NewAlone, FilesRead
<1>3. CASE ~ panicked'
  <2>1. CASE \E i \in Named(arg[p].dp, arg[p].name) :
                /\ mem' = Got(mem, i) /\ itab' = itab
                /\ Rest(p, <<Step("lock", i), Step("exists", i)>>)
    BY <1>1, <1>3, <2>1, ChildLink
  <2> DEFINE free == {i \in Inodes : itab[i].type = "invalid"}
             new == CHOOSE i \in free : \A j \in free : i <= j
  <2>2. CASE /\ Named(arg[p].dp, arg[p].name) = {} /\ free # {}
             /\ itab' = [itab EXCEPT ![new] = Entry(arg[p].type, 0)]
             /\ mem' = Got(mem, new)
             /\ Rest(p, <<Step("lock", new), Step("make", new)>>)
    <3>1. new \in free
      <4>1. free \subseteq Nat
        BY InodesAssumption DEF Inodes
      <4>2. PICK F \in SUBSET Nat : F = free /\ F # {}
        BY <2>2, <4>1
      <4>3. \E i \in F : \A j \in F : i <= j
        BY <4>2, LeastNat
      <4> QED
        BY <4>2, <4>3
    <3>2. PICK i \in Inodes : i = new /\ itab[i].type = "invalid"
      BY <3>1
    <3> QED
      BY <1>1, <1>3, <2>2, <3>2, NewLink
  <2> QED
    BY <1>1, <1>3, <2>1, <2>2 DEF Find
<1> QED
  BY <1>2, <1>3

\* D2 has one entry x more than D, in the directory d; it names an inode that
\* had no entry.
OneMore(D, D2, I, I2, d, x) ==
    /\ d \in Inodes /\ x[2] \in Inodes /\ IsFiniteSet(D[d]) /\ ~ NamedIn(D, x[2]) /\ D2[d] = D[d] \cup {x}
    /\ \A j \in Inodes : j # d => D2[j] = D[j]
    /\ \A j \in Inodes : \A y \in D2[j] : I2[y[2]].type = I[y[2]].type

LEMMA EntryAdded ==
    ASSUME NEW D, NEW D2, NEW I, NEW I2, NEW d, NEW x, OneMore(D, D2, I, I2, d, x)
    PROVE  /\ \A j \in Inodes : NamedIn(D2, j) <=> NamedIn(D, j) \/ j = x[2]
           /\ \A j \in Inodes : j # d => SubsOf(D2, I2, j) = SubsOf(D, I, j)
           /\ Cardinality(SubsOf(D2, I2, d)) = Cardinality(SubsOf(D, I, d)) + Bit(I[x[2]].type = "dir")
           /\ Cardinality(SubsOf(D, I, d)) \in Nat
<1>1. /\ d \in Inodes /\ x[2] \in Inodes /\ IsFiniteSet(D[d]) /\ ~ NamedIn(D, x[2]) /\ D2[d] = D[d] \cup {x}
      /\ \A j \in Inodes : j # d => D2[j] = D[j]
      /\ \A j \in Inodes : \A y \in D2[j] : I2[y[2]].type = I[y[2]].type
  BY DEF OneMore
<1>2. \A j \in Inodes : NamedIn(D2, j) <=> NamedIn(D, j) \/ j = x[2]
  <2> TAKE j \in Inodes
  <2>1. ASSUME NamedIn(D2, j), j # x[2] PROVE NamedIn(D, j)
    <3>1. PICK c \in Inodes : \E y \in D2[c] : y[2] = j
      BY <2>1 DEF NamedIn
    <3>2. PICK y \in D2[c] : y[2] = j
      BY <3>1
    <3>3. y \in D[c]
      BY <1>1, <2>1, <3>2
    <3> QED
      BY <3>2, <3>3 DEF NamedIn
  <2>2. ASSUME NamedIn(D, j) PROVE NamedIn(D2, j)
    BY <1>1, <2>2 DEF NamedIn
  <2>3. NamedIn(D2, x[2])
    BY <1>1 DEF NamedIn
  <2> QED
    BY <2>1, <2>2, <2>3
<1>3. \A j \in Inodes : j # d => SubsOf(D2, I2, j) = SubsOf(D, I, j)
  BY <1>1 DEF SubsOf
<1>4. PICK S : S = SubsOf(D, I, d)
  OBVIOUS
<1>5. IsFiniteSet(S) /\ Cardinality(S) \in Nat
  <2>1. S \subseteq D[d]
    BY <1>4 DEF SubsOf
  <2>2. IsFiniteSet(S)
    BY <1>1, <2>1, FS_Subset
  <2> QED
    BY <2>2, FS_CardinalityType
<1>6. x \notin S
  BY <1>1, <1>4 DEF SubsOf, NamedIn
<1>9. \A y : y \in SubsOf(D2, I2, d) <=> (y \in D[d] \/ y = x) /\ I[y[2]].type = "dir"
  BY <1>1 DEF SubsOf
<1>7. CASE I[x[2]].type = "dir"
  <2>1. SubsOf(D2, I2, d) = S \cup {x}
    BY <1>1, <1>4, <1>7, <1>9 DEF SubsOf
  <2>2. Cardinality(S \cup {x}) = Cardinality(S) + 1
    BY <1>5, <1>6, FS_AddElement
  <2> QED
    BY <1>2, <1>3, <1>4, <1>5, <1>7, <2>1, <2>2 DEF Bit
<1>8. CASE I[x[2]].type # "dir"
  <2>1. SubsOf(D2, I2, d) = S
    BY <1>1, <1>4, <1>8, <1>9 DEF SubsOf
  <2> QED
    BY <1>2, <1>3, <1>4, <1>5, <1>8, <2>1 DEF Bit
<1> QED
  BY <1>7, <1>8

\* A call that works in the directory d has it locked, and nobody takes a
\* link of d away.
AtWork(p, op, i, d) ==
    /\ Locks(todo[p], arg[p], d) /\ Locks(todo[p], arg[p], i)
    /\ mem[d].by = p /\ mem[i].by = p
    /\ \A j : /\ ~ DropOn(todo[p], j)
              /\ MakeOn(todo[p], j) <=> (op = "make" /\ j = i)
              /\ Mentions(todo[p], arg[p], j) <=> (j = i \/ j = d)
    /\ ~ Dropping(todo, d) /\ ~ Dropping(todo, i)
    /\ OpOk(op, i, arg[p], dirs)

LEMMA ParentLocked ==
    ASSUME RefInv, DirInv, Linked, ~ panicked, NEW p \in Procs, NEW op \in DpOps, NEW i \in Inodes,
           NEW d \in Inodes, todo[p] = <<Step(op, i)>>, d = arg[p].dp
    PROVE  AtWork(p, op, i, d)
<1>1. op \in Unlockers /\ op \in ParentOps
  BY DEF DpOps, ParentOps, Unlockers, LastOps
<1>2. PICK o, a : o = todo[p] /\ a = arg[p]
  OBVIOUS
<1>3. SingleLinks(o, a, op, i)
  <2>1. o = <<Step(op, i)>>
    BY <1>2
  <2> QED
    BY <1>1, <2>1, SingleLinked
<1>4. /\ Locks(o, a, d) /\ Locks(o, a, i)
      /\ \A j : ~ DropOn(o, j) /\ (MakeOn(o, j) <=> op = "make" /\ j = i) /\ (Mentions(o, a, j) <=> j = i \/ j = d)
  BY <1>1, <1>2, <1>3 DEF SingleLinks
<1>5. CallFine(o, a, dirs, mem, p) /\ NULL \notin Procs
  BY <1>2, NullAssumption DEF Linked, CallsFine
<1>6. mem[d].by = p /\ mem[i].by = p
  BY <1>4, <1>5 DEF CallFine
<1>7. ASSUME NEW j \in Inodes, mem[j].by = p PROVE ~ Dropping(todo, j)
  <2> SUFFICES ASSUME NEW q \in Procs, DropOn(todo[q], j) PROVE FALSE
    BY DEF Dropping
  <2>1. Locks(todo[q], arg[q], j)
    BY LocksMention
  <2>2. q = p
    BY <1>7, <2>1 DEF Linked, CallsFine, CallFine
  <2> QED
    BY <1>2, <1>4, <2>2
<1>8. OpOk(op, i, a, dirs)
  <2>1. PICK D, m : D = dirs /\ m = mem
    OBVIOUS
  <2>2. CallFine(o, a, D, m, p)
    BY <1>5, <2>1
  <2>3. OpOk(op, i, a, D)
    BY <1>3, <2>2 DEF SingleLinks
  <2> QED
    BY <2>1, <2>3
<1> QED
  BY <1>2, <1>4, <1>6, <1>7, <1>8 DEF AtWork

\* The new inode gets its entry.
LEMMA MakeLink == ASSUME RefInv, RefInv', DirInv, Linked, NEW p \in Procs, Make(p), ~ spoiled' PROVE Linked'
<1>1. /\ At(p, "make") /\ ~ panicked /\ ~ panicked' /\ files' = files
      /\ mem[arg[p].dp].e.links # 0
  BY DEF Make, At, tables
<1>2. PICK i, a, d : i = Head(todo[p]).i /\ a = arg[p] /\ d = a.dp
  OBVIOUS
<1>3. ChildFacts(p, "make", i, d) /\ MakeResult(i, d, a.type)
  BY <1>2, MakeIs
<1>4. /\ i \in Inodes /\ d \in Inodes /\ i # d /\ todo[p] = <<Step("make", i)>>
      /\ Loaded(mem, i) /\ Loaded(mem, d) /\ mem[d].e = itab[d] /\ itab[d].type = "dir"
  BY <1>3 DEF ChildFacts
<1>5. "make" \in DpOps /\ "make" \in LastOps /\ "make" \in ParentOps
  BY DEF DpOps, LastOps, ParentOps
<1>6. a \in ParentArg /\ itab[i].type = a.type /\ a.type # "invalid"
  BY <1>1, <1>2, <1>5, LastReady DEF ParentArg
<1>7. /\ Locks(todo[p], arg[p], d)
      /\ \A j : /\ ~ DropOn(todo[p], j)
                /\ MakeOn(todo[p], j) <=> j = i
                /\ Mentions(todo[p], arg[p], j) <=> (j = i \/ j = d)
      /\ ~ Dropping(todo, d)
      /\ OpOk("make", i, a, dirs)
  <2>1. PICK op \in DpOps : op = "make"
    BY <1>5
  <2>2. todo[p] = <<Step(op, i)>> /\ d = arg[p].dp
    BY <1>2, <1>4, <2>1
  <2>3. AtWork(p, op, i, d)
    BY <1>1, <1>4, <2>2, ParentLocked
  <2> QED
    BY <1>2, <2>1, <2>3 DEF AtWork
<1>8. /\ ~ NamedIn(dirs, i) /\ i # Root /\ dirs[i] = {} /\ \A x \in dirs[d] : x[1] # a.name
  BY <1>2, <1>7 DEF OpOk
<1>9. /\ dirs \in [Inodes -> SUBSET (Names \X Inodes)] /\ itab \in [Inodes -> [type : Types, links : Int]]
      /\ NamesOk /\ LinksOk /\ HeldOk
  BY <1>1 DEF RefInv, TypesOk, Linked
<1>10. PICK x : x = <<a.name, i>> /\ x[1] = a.name /\ x[2] = i
  <2>1. PICK n : n = a.name
    OBVIOUS
  <2>2. <<n, i>>[1] = n /\ <<n, i>>[2] = i
    OBVIOUS
  <2> QED
    BY <2>1, <2>2, Zenon
<1>11. dirs'[d] = dirs[d] \cup {x} /\ \A j \in Inodes : j # d => dirs'[j] = dirs[j]
  BY <1>2, <1>4, <1>9, <1>10, Zenon DEF Make
<1>12. \A j \in Inodes : itab'[j].type = itab[j].type
  BY <1>3, <1>4, <1>6 DEF MakeResult
<1>13. \A j \in Inodes : \A y \in dirs'[j] : (y \in dirs[j] \/ (j = d /\ y = x)) /\ y[2] \in Inodes
  BY <1>4, <1>9, <1>10, <1>11
<1>14. PICK s : /\ Rest(p, s)
                /\ \/ s = <<Step("unlock", d), Step("put", d), Step("open", i)>>
                   \/ s = <<Step("unlock", d), Step("put", d), Step("unlock", i), Step("put", i)>>
  BY <1>2, <1>4, MakeScript, ZenonT(40)
<1>15. Leaves(s) /\ \A k \in 1 .. Len(s) : s[k].op # "drop" /\ (s[k].i = i \/ s[k].i = d)
  <2>1. s \in Seq(StepRec)
    BY <1>1, <1>14, NextScript
  <2>2. CASE s = <<Step("unlock", d), Step("put", d), Step("open", i)>>
    <3>1. /\ Len(s) = 3 /\ s[1].op = "unlock" /\ s[1].i = d /\ s[2].op = "put" /\ s[2].i = d
          /\ s[3].op = "open" /\ s[3].i = i
      BY <2>2 DEF Step
    <3>2. \A k \in 1 .. 3 : k = 1 \/ k = 2 \/ k = 3
      OBVIOUS
    <3> QED
      BY <2>1, <3>1, <3>2 DEF Leaves
  <2>3. CASE s = <<Step("unlock", d), Step("put", d), Step("unlock", i), Step("put", i)>>
    <3>1. /\ Len(s) = 4 /\ s[1].op = "unlock" /\ s[1].i = d /\ s[2].op = "put" /\ s[2].i = d
          /\ s[3].op = "unlock" /\ s[3].i = i /\ s[4].op = "put" /\ s[4].i = i
      BY <2>3 DEF Step
    <3>2. \A k \in 1 .. 4 : k = 1 \/ k = 2 \/ k = 3 \/ k = 4
      OBVIOUS
    <3> QED
      BY <2>1, <3>1, <3>2 DEF Leaves
  <2> QED
    BY <1>14, <2>2, <2>3
<1>16. todo' = [todo EXCEPT ![p] = s] /\ \A q \in Procs \ {p} : arg'[q] = arg[q]
  BY <1>1, <1>14, RestIs
<1>17. /\ CallFine(s, arg'[p], dirs', mem', p)
       /\ \A j : ~ MakeOn(s, j) /\ ~ DropOn(s, j) /\ (Mentions(s, arg'[p], j) => j = i \/ j = d)
  <2>1. PICK b, D, m : b = arg'[p] /\ D = dirs' /\ m = mem'
    OBVIOUS
  <2>2. Loaded(m, i) /\ Loaded(m, d)
    BY <1>3, <1>4, <2>1 DEF MakeResult, Loaded
  <2>3. \A k \in 1 .. Len(s) : s[k].op \in HoldOps => Loaded(m, s[k].i)
    BY <1>15, <2>2
  <2>4. /\ CallFine(s, b, D, m, p)
        /\ \A j : ~ MakeOn(s, j) /\ ~ DropOn(s, j) /\ (Mentions(s, b, j) <=> \E k \in 1 .. Len(s) : s[k].i = j)
    BY <1>15, <2>3, LeavesFine
  <2> QED
    BY <1>15, <2>1, <2>4
<1>18. \A j \in Inodes : Dropping(todo', j) <=> Dropping(todo, j)
  <2>1. \A j \in Inodes : DropOn(s, j) <=> DropOn(todo[p], j)
    BY <1>7, <1>17
  <2> QED
    BY <1>1, <1>16, <2>1, DropsSame
<1>19. NamesOk'
  <2>1. \A c \in Inodes : \A y \in dirs[c] : y[2] # i /\ (c = d => y[1] # a.name)
    BY <1>4, <1>8 DEF NamedIn
  <2>2. ASSUME NEW c \in Inodes, NEW y \in dirs'[c] PROVE itab'[y[2]].type # "invalid"
    BY <1>6, <1>9, <1>10, <1>12, <1>13, <2>2 DEF NamesOk
  <2>3. ASSUME NEW c \in Inodes, NEW y \in dirs'[c], NEW e \in Inodes, NEW z \in dirs'[e],
               y[2] = z[2] \/ (e = c /\ y[1] = z[1])
        PROVE  e = c /\ y = z
    <3>1. CASE y \in dirs[c] /\ z \in dirs[e]
      BY <1>9, <2>3, <3>1 DEF NamesOk
    <3>2. CASE ~ (y \in dirs[c] /\ z \in dirs[e])
      BY <1>10, <1>13, <2>1, <2>3, <3>2
    <3> QED
      BY <3>1, <3>2
  <2> QED
    BY <2>2, <2>3 DEF NamesOk
<1>20. PICK D, D2, I, I2 : D = dirs /\ D2 = dirs' /\ I = itab /\ I2 = itab'
  OBVIOUS
<1>21. IsFiniteSet(D[d])
  BY <1>4, <1>9, <1>20 DEF LinksOk
<1>22. OneMore(D, D2, I, I2, d, x)
  BY <1>4, <1>8, <1>10, <1>11, <1>12, <1>13, <1>20, <1>21 DEF OneMore
<1>23. /\ \A j \in Inodes : NamedIn(D2, j) <=> NamedIn(D, j) \/ j = i
       /\ \A j \in Inodes : j # d => SubsOf(D2, I2, j) = SubsOf(D, I, j)
       /\ Cardinality(SubsOf(D2, I2, d)) = Cardinality(SubsOf(D, I, d)) + Bit(I[i].type = "dir")
       /\ Cardinality(SubsOf(D, I, d)) \in Nat
  BY <1>10, <1>22, EntryAdded
<1>24. IsFiniteSet(D2[d])
  BY <1>11, <1>20, <1>21, FS_AddElement
<1>25. PICK td, td2 : td = todo /\ td2 = todo'
  OBVIOUS
<1>26. I2[i].links = LinksOf(D2, I2, td2, i)
  <2>1. ~ Dropping(td2, i)
    <3>1. itab[i].links = 0
      BY <1>1, <1>4, <1>7, MadeIs
    <3>2. ~ Dropping(todo, i)
      BY <1>4, <3>1, LinksZero
    <3> QED
      BY <1>4, <1>18, <1>25, <3>2
  <2>2. SubsOf(D2, I2, i) = {} /\ NamedIn(D2, i)
    BY <1>4, <1>8, <1>20, <1>23 DEF SubsOf
  <2>3. LinksOf(D2, I2, td2, i) = 1
    BY <1>8, <2>1, <2>2, FS_EmptySet DEF LinksOf, Bit
  <2> QED
    BY <1>3, <1>20, <2>3 DEF MakeResult
<1>27. ASSUME NEW j \in Inodes, j # i
       PROVE  (Bit(NamedIn(D2, j)) = Bit(NamedIn(D, j))) /\ Bit(Dropping(td2, j)) = Bit(Dropping(td, j))
  BY <1>18, <1>23, <1>25, <1>27 DEF Bit
<1>28. PICK n \in Nat, c \in {0, 1} : /\ n = I[d].links /\ n # 0 /\ c = Bit(I[i].type = "dir")
                                     /\ LinksOf(D, I, td, d) = n /\ LinksOf(D2, I2, td2, d) = n + c
                                     /\ I2[d].links = n + c
  <2>1. PICK k \in Nat : k = Cardinality(SubsOf(D, I, d))
    BY <1>23
  <2>2. PICK u, v, w, c : /\ u = Bit(NamedIn(D, d)) /\ v = Bit(d = Root) /\ w = Bit(Dropping(td, d))
                          /\ c = Bit(I[i].type = "dir")
    OBVIOUS
  <2>3. u \in Nat /\ v \in Nat /\ w \in Nat /\ c \in {0, 1}
    BY <2>2, BitIs
  <2>4. LinksOf(D, I, td, d) = u + k + v + w /\ LinksOf(D2, I2, td2, d) = u + (k + c) + v + w
    BY <1>4, <1>23, <1>27, <2>1, <2>2 DEF LinksOf
  <2>5. I[d].links = LinksOf(D, I, td, d)
    BY <1>4, <1>9, <1>20, <1>25 DEF LinksOk
  <2>6. I[d].links # 0
    BY <1>1, <1>2, <1>4, <1>20
  <2>7. I2[d].links = I[d].links + c
    BY <1>3, <1>6, <1>20, <2>2 DEF MakeResult, Bit
  <2>8. u + k + v + w \in Nat /\ u + (k + c) + v + w = (u + k + v + w) + c
    BY <2>1, <2>3
  <2> QED
    BY <2>2, <2>3, <2>4, <2>5, <2>6, <2>7, <2>8
<1>29. ASSUME NEW j \in Inodes, j # i, j # d
       PROVE  I2[j].links = LinksOf(D2, I2, td2, j)
  <2>1. I2[j] = I[j]
    BY <1>3, <1>20, <1>29 DEF MakeResult
  <2>2. I[j].links = LinksOf(D, I, td, j)
    BY <1>9, <1>20, <1>25 DEF LinksOk
  <2>3. SubsOf(D2, I2, j) = SubsOf(D, I, j)
    BY <1>23, <1>29
  <2> QED
    BY <1>27, <1>29, <2>1, <2>2, <2>3 DEF LinksOf
<1>30. d = Root \/ NamedIn(D, d)
  <2> SUFFICES ASSUME d # Root, ~ NamedIn(D, d) PROVE FALSE
    OBVIOUS
  <2>1. D[d] = {} /\ ~ Dropping(td, d)
    BY <1>4, <1>7, <1>9, <1>20, <1>25 DEF LinksOk
  <2>2. SubsOf(D, I, d) = {}
    BY <2>1 DEF SubsOf
  <2>3. LinksOf(D, I, td, d) = 0
    BY <2>1, <2>2, FS_EmptySet DEF LinksOf, Bit
  <2> QED
    BY <1>28, <2>3
<1>31. LinksOk'
  <2>1. ASSUME NEW j \in Inodes
        PROVE  /\ I2[j].links = LinksOf(D2, I2, td2, j)
               /\ IsFiniteSet(D2[j])
               /\ D2[j] # {} => j = Root \/ NamedIn(D2, j)
               /\ NamedIn(D2, j) => j # Root
               /\ I2[j].links = 0 /\ I2[j].type # "invalid" => mem'[j] # NULL /\ mem'[j].rc >= 1
    <3>1. CASE j = i
      <4>1. D2[i] = {} /\ IsFiniteSet({}) /\ I2[i].links = 1
        BY <1>3, <1>4, <1>8, <1>11, <1>20, FS_EmptySet DEF MakeResult
      <4> QED
        BY <1>8, <1>26, <3>1, <4>1
    <3>2. CASE j = d
      BY <1>4, <1>9, <1>20, <1>23, <1>24, <1>28, <1>30, <3>2 DEF LinksOk
    <3>3. CASE j # i /\ j # d
      <4>1. D2[j] = D[j] /\ I2[j] = I[j] /\ mem'[j] = mem[j]
        BY <1>3, <1>11, <1>20, <3>3 DEF MakeResult
      <4> QED
        BY <1>9, <1>20, <1>23, <1>29, <3>3, <4>1 DEF LinksOk
    <3> QED
      BY <3>1, <3>2, <3>3
  <2> QED
    BY <1>20, <1>25, <2>1 DEF LinksOk
<1>32. HeldOk'
  <2> SUFFICES ASSUME NEW j \in Inodes, mem'[j] # NULL
               PROVE  /\ itab'[j].type # "invalid"
                      /\ mem'[j].valid => mem'[j].e = itab'[j]
                      /\ Owned(mem'[j])
    BY DEF HeldOk
  <2>1. /\ itab[j].type # "invalid" /\ Owned(mem[j])
        /\ mem[j].valid => mem[j].e = itab[j]
    BY <1>3, <1>9 DEF HeldOk, MakeResult
  <2>2. mem'[j].valid = mem[j].valid /\ mem'[j].by = mem[j].by /\ mem'[j].lock = mem[j].lock
    BY <1>3 DEF MakeResult
  <2>3. (mem'[j].e = itab'[j]) \/ (mem'[j] = mem[j] /\ itab'[j] = itab[j])
    BY <1>3 DEF MakeResult
  <2> QED
    BY <1>12, <2>1, <2>2, <2>3 DEF Owned
<1>33. \A j \in Inodes : mem[j] # NULL /\ mem'[j] # NULL =>
          (mem[j].valid => mem'[j].valid) /\ (mem'[j].by = mem[j].by \/ mem[j].by \in {NULL, p})
  BY <1>3 DEF MakeResult
<1>34. /\ \A j \in Inodes : dirs'[j] = dirs[j] \/ Locks(todo[p], arg[p], j)
       /\ \A j \in Inodes : NamedIn(dirs', j) => NamedIn(dirs, j) \/ MakeOn(todo[p], j)
  BY <1>7, <1>11, <1>20, <1>23
<1>35. \A j \in Inodes : MakeOn(s, j) =>
          FilesOn(files', j) = {} /\ \A q \in Procs \ {p} : ~ Mentions(todo[q], arg[q], j)
  BY <1>17
<1>36. \A j \in Inodes, q \in Procs \ {p} :
          MakeOn(todo[q], j) /\ Mentions(s, arg'[p], j) => Mentions(todo[p], arg[p], j)
  BY <1>7, <1>17
<1>37. \A f \in Files : files'[f].ref > 0 => files[f].ref > 0 /\ files[f].ip = files'[f].ip
  BY <1>1
<1>38. CallFine(s, arg'[p], dirs', mem', p)
  BY <1>17
<1> QED
  BY <1>1, <1>16, <1>19, <1>31, <1>32, <1>33, <1>34, <1>35, <1>36, <1>37, <1>38, LinkStep

\* Links are natural numbers.
LEMMA LinksNat == ASSUME Linked, NEW i \in Inodes PROVE itab[i].links \in Nat
<1>1. itab[i].links = LinksOf(dirs, itab, todo, i) /\ IsFiniteSet(dirs[i])
  BY DEF Linked, LinksOk
<1>2. Cardinality(SubsOf(dirs, itab, i)) \in Nat
  <2>1. SubsOf(dirs, itab, i) \subseteq dirs[i]
    BY DEF SubsOf
  <2>2. IsFiniteSet(SubsOf(dirs, itab, i))
    BY <1>1, <2>1, FS_Subset
  <2> QED
    BY <2>2, FS_CardinalityType
<1>3. PICK n, x, y, z : /\ n = Cardinality(SubsOf(dirs, itab, i)) /\ x = Bit(NamedIn(dirs, i))
                        /\ y = Bit(i = Root) /\ z = Bit(Dropping(todo, i))
  OBVIOUS
<1>4. n \in Nat /\ x \in Nat /\ y \in Nat /\ z \in Nat
  BY <1>2, <1>3, BitIs
<1>5. itab[i].links = x + n + y + z
  BY <1>1, <1>3 DEF LinksOf
<1> QED
  BY <1>4, <1>5

\* unlinkat finds the inode with a link: it never panics.
LEMMA UnlinkCalm ==
    ASSUME RefInv, DirInv, Linked, NEW p \in Procs, Unlink(p)
    PROVE  ~ panicked'
<1>1. At(p, "unlink") /\ ~ panicked
  BY DEF Unlink, At
<1>2. PICK i, d : i = Head(todo[p]).i /\ d = arg[p].dp
  OBVIOUS
<1>3. PICK op \in DpOps : op = "unlink"
  BY DEF DpOps
<1>4. ChildFacts(p, op, i, d)
  <2>1. At(p, op)
    BY <1>1, <1>3
  <2> QED
    BY <1>1, <1>2, <2>1, ChildReady
<1>5. i \in Inodes /\ d \in Inodes /\ todo[p] = <<Step(op, i)>> /\ Loaded(mem, i)
  BY <1>4 DEF ChildFacts
<1>6. <<arg[p].name, i>> \in dirs[d]
  <2>1. AtWork(p, op, i, d)
    BY <1>1, <1>2, <1>5, ParentLocked
  <2> QED
    BY <1>2, <1>3, <2>1 DEF AtWork, OpOk
<1>7. itab[i].links # 0
  <2>1. <<arg[p].name, i>>[2] = i
    OBVIOUS
  <2> QED
    BY <1>1, <1>5, <1>6, <2>1, NamedLinks
<1>8. itab[i].links \in Nat /\ mem[i].e = itab[i]
  BY <1>5, LinksNat DEF Linked, HeldOk, Loaded
<1>9. ~ (mem[i].e.links < 1)
  BY <1>7, <1>8
<1> QED
  BY <1>2, <1>9 DEF Unlink

\* The entry is taken away, and the link of the inode will be.
LEMMA UnlinkLink == ASSUME RefInv, RefInv', DirInv, Linked, NEW p \in Procs, Unlink(p) PROVE Linked'
<1>1. At(p, "unlink") /\ ~ panicked /\ ~ panicked' /\ files' = files
  BY UnlinkCalm, Zenon DEF Unlink, At, tables
<1>2. PICK i, a, d : i = Head(todo[p]).i /\ a = arg[p] /\ d = a.dp
  OBVIOUS
<1>3. /\ ChildFacts(p, "unlink", i, d)
      /\ \/ Rest(p, Refused(d, i)) /\ UNCHANGED inodes
         \/ /\ Rest(p, UnlinkScript(i, d)) /\ dirs' = Erased(d, a.name, i)
            /\ UnlinkResult(i, d)
  BY <1>1, <1>2, UnlinkIs
<1>4. /\ i \in Inodes /\ d \in Inodes /\ i # d /\ todo[p] = <<Step("unlink", i)>>
      /\ Loaded(mem, i) /\ Loaded(mem, d) /\ mem[d].e = itab[d] /\ itab[d].type = "dir"
  BY <1>3 DEF ChildFacts
<1>5. CASE Rest(p, Refused(d, i)) /\ UNCHANGED inodes
  <2>1. itab' = itab /\ dirs' = dirs /\ mem' = mem
    BY <1>5 DEF inodes
  <2>2. PICK s : s = <<Step("unlock", i), Step("put", i), Step("unlock", d), Step("put", d)>>
    OBVIOUS
  <2>3. Rest(p, s)
    BY <1>5, <2>2 DEF Refused
  <2>4. s \in Seq(StepRec)
    BY <1>1, <2>3, NextScript
  <2>5. /\ Len(s) = 4 /\ s[1].op = "unlock" /\ s[1].i = i /\ s[2].op = "put" /\ s[2].i = i
        /\ s[3].op = "unlock" /\ s[3].i = d /\ s[4].op = "put" /\ s[4].i = d
    BY <2>2 DEF Step
  <2>6. \A k \in 1 .. 4 : k = 1 \/ k = 2 \/ k = 3 \/ k = 4
    OBVIOUS
  <2>7. Leaves(s) /\ \A k \in 1 .. Len(s) : s[k].op # "drop" /\ (s[k].i = i \/ s[k].i = d)
    BY <2>4, <2>5, <2>6 DEF Leaves
  <2>8. "unlink" \in LastOps /\ "unlink" # "swap" /\ "unlink" \in ParentOps
    BY DEF LastOps, ParentOps
  <2> QED
    BY <1>1, <1>2, <1>4, <2>1, <2>3, <2>7, <2>8, LeaveLink
<1>6. CASE /\ Rest(p, UnlinkScript(i, d)) /\ dirs' = Erased(d, a.name, i)
           /\ UnlinkResult(i, d)
  <2>1. /\ Locks(todo[p], arg[p], d) /\ Locks(todo[p], arg[p], i) /\ mem[i].by = p
        /\ \A j : /\ ~ DropOn(todo[p], j) /\ ~ MakeOn(todo[p], j)
                  /\ Mentions(todo[p], arg[p], j) <=> (j = i \/ j = d)
        /\ ~ Dropping(todo, d) /\ ~ Dropping(todo, i)
        /\ OpOk("unlink", i, a, dirs)
    <3>1. PICK op \in DpOps : op = "unlink"
      BY DEF DpOps
    <3>2. todo[p] = <<Step(op, i)>> /\ d = arg[p].dp
      BY <1>2, <1>4, <3>1
    <3>3. AtWork(p, op, i, d)
      BY <1>1, <1>4, <3>2, ParentLocked
    <3> QED
      BY <1>2, <3>1, <3>3 DEF AtWork
  <2>2. PICK x : x = <<a.name, i>> /\ x[2] = i
    <3>1. PICK n : n = a.name
      OBVIOUS
    <3>2. <<n, i>>[2] = i
      OBVIOUS
    <3> QED
      BY <3>1, <3>2
  <2>3. /\ dirs \in [Inodes -> SUBSET (Names \X Inodes)] /\ itab \in [Inodes -> [type : Types, links : Int]]
        /\ NamesOk /\ LinksOk /\ HeldOk
    BY <1>1 DEF RefInv, TypesOk, Linked
  <2>4. x \in dirs[d]
    BY <2>1, <1>2, <2>2 DEF OpOk
  <2>5. dirs'[d] = dirs[d] \ {x} /\ \A j \in Inodes : j # d => dirs'[j] = dirs[j]
    BY <1>4, <1>6, <2>2, <2>3 DEF Erased
  <2>6. \A j \in Inodes : itab'[j].type = itab[j].type
    BY <1>4, <1>6 DEF UnlinkResult
  <2>7. \A j \in Inodes : dirs'[j] \subseteq dirs[j] /\ \A y \in dirs[j] : y[2] \in Inodes
    BY <1>4, <2>3, <2>5
  <2>8. PICK D, D2, I, I2 : D = dirs /\ D2 = dirs' /\ I = itab /\ I2 = itab'
    OBVIOUS
  <2>9. ~ NamedIn(D2, i)
    <3> SUFFICES ASSUME NEW c \in Inodes, NEW y \in D2[c], y[2] = i PROVE FALSE
      BY DEF NamedIn
    <3>1. y \in dirs[c]
      BY <2>7, <2>8
    <3>2. c = d /\ y = x
      BY <1>4, <2>2, <2>3, <2>4, <3>1 DEF NamesOk
    <3> QED
      BY <2>5, <2>8, <3>2
  <2>10. IsFiniteSet(D[d]) /\ IsFiniteSet(D2[d])
    <3>1. IsFiniteSet(D[d])
      BY <1>4, <2>3, <2>8 DEF LinksOk
    <3> QED
      BY <1>4, <2>7, <2>8, <3>1, FS_Subset
  <2>11. OneMore(D2, D, I2, I, d, x)
    <3>1. D[d] = D2[d] \cup {x} /\ \A j \in Inodes : j # d => D[j] = D2[j]
      BY <2>4, <2>5, <2>8
    <3>2. \A j \in Inodes : \A y \in D[j] : I[y[2]].type = I2[y[2]].type
      BY <2>6, <2>7, <2>8
    <3> QED
      BY <1>4, <2>2, <2>9, <2>10, <3>1, <3>2 DEF OneMore
  <2>12. /\ \A j \in Inodes : NamedIn(D, j) <=> NamedIn(D2, j) \/ j = i
         /\ \A j \in Inodes : j # d => SubsOf(D, I, j) = SubsOf(D2, I2, j)
         /\ Cardinality(SubsOf(D, I, d)) = Cardinality(SubsOf(D2, I2, d)) + Bit(I2[i].type = "dir")
         /\ Cardinality(SubsOf(D2, I2, d)) \in Nat
    BY <2>2, <2>11, EntryAdded
  <2>13. PICK s : s = UnlinkScript(i, d)
    OBVIOUS
  <2>14. Rest(p, s) /\ todo' = [todo EXCEPT ![p] = s] /\ todo'[p] = s /\ \A q \in Procs \ {p} : arg'[q] = arg[q]
    BY <1>1, <1>6, <2>13, RestIs
  <2>15. s \in Seq(StepRec)
    BY <1>1, <2>14, NextScript
  <2>16. /\ Len(s) = 5 /\ s[1].op = "unlock" /\ s[1].i = d /\ s[2].op = "put" /\ s[2].i = d
         /\ s[3].op = "drop" /\ s[3].i = i /\ s[4].op = "unlock" /\ s[4].i = i /\ s[5].op = "put" /\ s[5].i = i
    BY <2>13 DEF Step, UnlinkScript
  <2>17. /\ \A k \in 1 .. Len(s) : k = 1 \/ k = 2 \/ k = 3 \/ k = 4 \/ k = 5
         /\ 3 \in 1 .. Len(s)
    BY <2>16
  <2>18. /\ \A k \in 1 .. Len(s) : /\ s[k].op \in {"unlock", "put", "drop"}
                                   /\ s[k].op = "drop" => k = 3
                                   /\ s[k].i = i \/ (s[k].i = d /\ k < 3)
         /\ "drop" \notin ParentOps /\ "unlock" \notin ParentOps /\ "put" \notin ParentOps
         /\ DpOps \subseteq ParentOps /\ {"make", "unlink"} \subseteq ParentOps
    BY <2>16, <2>17 DEF ParentOps, DpOps
  <2>19. \A b, j : /\ ~ MakeOn(s, j)
                   /\ Mentions(s, b, j) => j = i \/ j = d
                   /\ DropOn(s, j) <=> j = i
                   /\ Locks(s, b, j) <=> j = i
    BY <2>16, <2>17, <2>18 DEF MakeOn, Mentions, DropOn, Locks
  <2>20. DropShape(s)
    <3>1. {"unlock", "put", "drop"} \cap (LastOps \cup {"lock"}) = {}
      BY DEF LastOps
    <3>2. \A l \in 1 .. Len(s) : l < 3 => s[l].i # i
      BY <1>4, <2>16, <2>17
    <3> QED
      BY <2>16, <2>17, <2>18, <3>1, <3>2 DEF DropShape
  <2>21. CallFine(s, arg'[p], dirs', mem', p)
    <3>1. PICK b, m : b = arg'[p] /\ m = mem'
      OBVIOUS
    <3>2. Loaded(m, i) /\ Loaded(m, d) /\ m[i] # NULL /\ m[i].by = p
      BY <1>4, <1>6, <2>1, <3>1 DEF UnlinkResult, Loaded
    <3>3. HasRead(s, m)
      BY <2>18, <3>2 DEF HasRead
    <3>4. D2[i] = {}
      BY <1>1, <1>4, <1>6, <2>3, <2>5, <2>8 DEF UnlinkResult, EntriesOk, DirInv
    <3>5. i # Root
      BY <1>4, <2>3, <2>8, <2>12 DEF LinksOk
    <3>6. WorkOk(s, b, D2)
      BY <2>9, <2>17, <2>18, <3>4, <3>5 DEF WorkOk
    <3>7. CallFine(s, b, D2, m, p)
      BY <2>19, <2>20, <3>2, <3>3, <3>6 DEF CallFine
    <3> QED
      BY <2>8, <3>1, <3>7
  <2>22. PICK td, td2 : td = todo /\ td2 = todo'
    OBVIOUS
  <2>23. \A j \in Inodes : Dropping(td2, j) <=> Dropping(td, j) \/ j = i
    <3>1. \A q \in Procs \ {p} : todo'[q] = todo[q]
      BY <1>1, <2>14 DEF RefInv, TypesOk
    <3>2. \A j : ~ DropOn(todo[p], j) /\ (DropOn(todo'[p], j) <=> j = i)
      BY <2>1, <2>14, <2>19
    <3> QED
      BY <2>22, <3>1, <3>2 DEF Dropping
  <2>24. ASSUME NEW j \in Inodes, j # i
         PROVE  (Bit(NamedIn(D2, j)) = Bit(NamedIn(D, j))) /\ Bit(Dropping(td2, j)) = Bit(Dropping(td, j))
    BY <2>12, <2>23, <2>24 DEF Bit
  <2>25. I2[d].links = LinksOf(D2, I2, td2, d)
    <3>1. PICK k \in Nat : k = Cardinality(SubsOf(D2, I2, d))
      BY <2>12
    <3>2. PICK u, v, w, c : /\ u = Bit(NamedIn(D, d)) /\ v = Bit(d = Root) /\ w = Bit(Dropping(td, d))
                            /\ c = Bit(I2[i].type = "dir")
      OBVIOUS
    <3>3. u \in Nat /\ v \in Nat /\ w \in Nat /\ c \in {0, 1}
      BY <3>2, BitIs
    <3>4. LinksOf(D, I, td, d) = u + (k + c) + v + w /\ LinksOf(D2, I2, td2, d) = u + k + v + w
      BY <1>4, <2>12, <2>24, <3>1, <3>2 DEF LinksOf
    <3>5. I[d].links = LinksOf(D, I, td, d)
      BY <1>4, <2>3, <2>8, <2>22 DEF LinksOk
    <3>6. I2[d].links = I[d].links - c
      BY <1>4, <1>6, <2>6, <2>8, <3>2 DEF UnlinkResult, Bit
    <3> QED
      BY <3>1, <3>3, <3>4, <3>5, <3>6
  <2>26. ASSUME NEW j \in Inodes, j # d
         PROVE  I2[j].links = LinksOf(D2, I2, td2, j)
    <3>1. I2[j] = I[j]
      BY <1>6, <2>8, <2>26 DEF UnlinkResult
    <3>2. I[j].links = LinksOf(D, I, td, j)
      BY <2>3, <2>8, <2>22 DEF LinksOk
    <3>3. SubsOf(D2, I2, j) = SubsOf(D, I, j)
      BY <2>12, <2>26
    <3>4. Cardinality(SubsOf(D2, I2, j)) \in Nat
      <4>1. IsFiniteSet(dirs[j]) /\ SubsOf(D, I, j) \subseteq dirs[j]
        BY <2>3, <2>8 DEF LinksOk, SubsOf
      <4> QED
        BY <3>3, <4>1, FS_Subset, FS_CardinalityType
    <3>5. CASE j = i
      <4>1. NamedIn(D, i) /\ ~ NamedIn(D2, i) /\ ~ Dropping(td, i) /\ Dropping(td2, i)
        BY <1>4, <2>1, <2>9, <2>12, <2>22, <2>23
      <4>2. LinksOf(D, I, td, i) = 1 + Cardinality(SubsOf(D, I, i)) + Bit(i = Root) + 0
        BY <4>1 DEF LinksOf, Bit
      <4>3. LinksOf(D2, I2, td2, i) = 0 + Cardinality(SubsOf(D2, I2, i)) + Bit(i = Root) + 1
        BY <4>1 DEF LinksOf, Bit
      <4>4. PICK k \in Nat, v \in Nat : k = Cardinality(SubsOf(D2, I2, i)) /\ v = Bit(i = Root)
        BY <3>4, <3>5, BitIs
      <4> QED
        BY <3>1, <3>2, <3>3, <3>5, <4>2, <4>3, <4>4
    <3>6. CASE j # i
      BY <2>24, <3>1, <3>2, <3>3, <3>6 DEF LinksOf
    <3> QED
      BY <3>5, <3>6
  <2>27. LinksOk'
    <3>1. ASSUME NEW j \in Inodes
          PROVE  /\ I2[j].links = LinksOf(D2, I2, td2, j)
                 /\ IsFiniteSet(D2[j])
                 /\ D2[j] # {} => j = Root \/ NamedIn(D2, j)
                 /\ NamedIn(D2, j) => j # Root
                 /\ I2[j].links = 0 /\ I2[j].type # "invalid" => mem'[j] # NULL /\ mem'[j].rc >= 1
      <4>1. I2[j].links = LinksOf(D2, I2, td2, j)
        BY <2>25, <2>26
      <4>2. IsFiniteSet(D2[j])
        <5>1. IsFiniteSet(dirs[j]) /\ D2[j] \subseteq dirs[j]
          BY <2>3, <2>7, <2>8 DEF LinksOk
        <5> QED
          BY <5>1, FS_Subset
      <4>3. D2[j] # {} => j = Root \/ NamedIn(D2, j)
        <5>1. D2[j] # {} => dirs[j] # {}
          BY <2>7, <2>8
        <5>2. CASE j = i
          <6>1. itab[i].type = "dir" => dirs[i] = {}
            BY <1>6 DEF UnlinkResult
          <6>2. dirs[i] # {} => itab[i].type = "dir"
            BY <1>1, <1>4 DEF DirInv, EntriesOk
          <6> QED
            BY <5>1, <5>2, <6>1, <6>2
        <5>3. CASE j # i
          BY <2>3, <2>8, <2>12, <5>1, <5>3 DEF LinksOk
        <5> QED
          BY <5>2, <5>3
      <4>4. NamedIn(D2, j) => j # Root
        BY <2>3, <2>8, <2>12 DEF LinksOk
      <4>5. I2[j].links = 0 /\ I2[j].type # "invalid" => mem'[j] # NULL /\ mem'[j].rc >= 1
        <5>1. CASE j = d
          <6>1. mem[d].rc >= 1
            <7>1. Len(todo[p]) = 1 /\ 1 \in 1 .. Len(todo[p]) /\ todo[p][1].op = "unlink" /\ "unlink" \in DpOps
              BY <1>4 DEF Step, DpOps
            <7>2. Keeps(todo[p], arg[p], 1, d)
              BY <1>2, <7>1 DEF Keeps
            <7>3. mem[d].rc \in Nat /\ mem[d].rc > 0
              BY <1>1, <1>4, <7>1, <7>2, Referenced
            <7> QED
              BY <7>3
          <6> QED
            BY <1>4, <1>6, <5>1, <6>1 DEF UnlinkResult, Loaded
        <5>2. CASE j # d
          BY <1>6, <2>3, <2>8, <5>2 DEF LinksOk, UnlinkResult
        <5> QED
          BY <5>1, <5>2
      <4> QED
        BY <4>1, <4>2, <4>3, <4>4, <4>5
    <3> QED
      BY <2>8, <2>22, <3>1 DEF LinksOk
  <2>28. NamesOk'
    <3>1. \A c \in Inodes : \A y \in dirs'[c] : y \in dirs[c] /\ y[2] \in Inodes
      BY <2>7
    <3>2. \A c \in Inodes : \A y \in dirs'[c] :
             /\ itab'[y[2]].type # "invalid"
             /\ \A e \in Inodes : \A z \in dirs'[e] : y[2] = z[2] \/ (e = c /\ y[1] = z[1]) => e = c /\ y = z
      BY <2>3, <2>6, <3>1 DEF NamesOk
    <3> QED
      BY <3>2 DEF NamesOk
  <2>29. HeldOk'
    <3> SUFFICES ASSUME NEW j \in Inodes, mem'[j] # NULL
                 PROVE  /\ itab'[j].type # "invalid"
                        /\ mem'[j].valid => mem'[j].e = itab'[j]
                        /\ Owned(mem'[j])
      BY DEF HeldOk
    <3>1. /\ itab[j].type # "invalid" /\ Owned(mem[j])
          /\ mem[j].valid => mem[j].e = itab[j]
      BY <1>6, <2>3 DEF HeldOk, UnlinkResult
    <3>2. mem'[j].valid = mem[j].valid /\ mem'[j].by = mem[j].by /\ mem'[j].lock = mem[j].lock
      BY <1>6 DEF UnlinkResult
    <3>3. (mem'[j].e = itab'[j]) \/ (mem'[j] = mem[j] /\ itab'[j] = itab[j])
      BY <1>6 DEF UnlinkResult
    <3> QED
      BY <2>6, <3>1, <3>2, <3>3 DEF Owned
  <2>30. \A j \in Inodes : mem[j] # NULL /\ mem'[j] # NULL =>
            (mem[j].valid => mem'[j].valid) /\ (mem'[j].by = mem[j].by \/ mem[j].by \in {NULL, p})
    BY <1>6 DEF UnlinkResult
  <2>31. /\ \A j \in Inodes : dirs'[j] = dirs[j] \/ Locks(todo[p], arg[p], j)
         /\ \A j \in Inodes : NamedIn(dirs', j) => NamedIn(dirs, j) \/ MakeOn(todo[p], j)
    BY <2>1, <2>5, <2>8, <2>12
  <2>32. \A j \in Inodes : MakeOn(s, j) =>
            FilesOn(files', j) = {} /\ \A q \in Procs \ {p} : ~ Mentions(todo[q], arg[q], j)
    BY <2>19
  <2>33. \A j \in Inodes, q \in Procs \ {p} :
            MakeOn(todo[q], j) /\ Mentions(s, arg'[p], j) => Mentions(todo[p], arg[p], j)
    BY <2>1, <2>19
  <2>34. \A f \in Files : files'[f].ref > 0 => files[f].ref > 0 /\ files[f].ip = files'[f].ip
    BY <1>1
  <2> QED
    BY <1>1, <2>14, <2>21, <2>27, <2>28, <2>29, <2>30, <2>31, <2>32, <2>33, <2>34, LinkStep, ZenonT(40)
<1> QED
  BY <1>3, <1>5, <1>6, Zenon

\* A link is taken away that no entry stands for any more.
LEMMA DropLink == ASSUME RefInv, RefInv', DirInv, Linked, NEW p \in Procs, Drop(p) PROVE Linked'
<1>1. /\ At(p, "drop") /\ ~ panicked /\ ~ panicked' /\ files' = files /\ dirs' = dirs
      /\ Rest(p, Tail(todo[p]))
  BY DEF Drop, At, tables
<1>2. PICK i, s, t, a, b : i = Head(todo[p]).i /\ s = todo[p] /\ t = Tail(s) /\ a = arg[p] /\ b = arg'[p]
  OBVIOUS
<1>3. /\ i \in Inodes /\ s \in Seq(StepRec) /\ s # <<>> /\ s[1].op = "drop" /\ s[1].i = i
      /\ 1 \in 1 .. Len(s) /\ DropResult(i)
  BY <1>2, DropIs
<1>4. CallFine(s, a, dirs, mem, p) /\ NamesOk /\ LinksOk /\ HeldOk /\ CallsFine
  BY <1>2 DEF Linked, CallsFine
<1>5. TailLinks(s, t, a, b)
  <2>1. ShapeOk(s) /\ DropShape(s) /\ s[1].op # "lock"
    BY <1>1, <1>2, <1>3, <1>4 DEF DirInv, CallFine
  <2> QED
    BY <1>2, <1>3, <2>1, TailLinked
<1>6. todo' = [todo EXCEPT ![p] = t] /\ todo'[p] = t /\ \A q \in Procs \ {p} : arg'[q] = arg[q]
  BY <1>1, <1>2, RestIs
<1>7. t \in Seq(StepRec)
  BY <1>1, <1>2, NextScript
<1>8. DropOn(s, i) /\ \A j : (DropOn(s, j) => j = i) /\ ~ DropOn(t, j) /\ ~ MakeOn(t, j) /\ ~ Locks(t, b, j)
  BY <1>3, <1>5 DEF TailLinks, DropOn
<1>9. \A q \in Procs \ {p} : ~ DropOn(todo[q], i)
  <2> SUFFICES ASSUME NEW q \in Procs \ {p}, DropOn(todo[q], i) PROVE FALSE
    OBVIOUS
  <2>1. Locks(todo[q], arg[q], i) /\ Locks(s, a, i)
    BY <1>8, LocksMention
  <2>2. mem[i].by = q /\ mem[i].by = p
    BY <1>3, <1>4, <2>1 DEF CallsFine, CallFine
  <2> QED
    BY <2>2
<1>10. PICK td, td2, I, I2, D : td = todo /\ td2 = todo' /\ I = itab /\ I2 = itab' /\ D = dirs
  OBVIOUS
<1>11. /\ Dropping(td, i) /\ ~ Dropping(td2, i)
       /\ \A j \in Inodes : j # i => (Dropping(td2, j) <=> Dropping(td, j))
  <2>1. \A q \in Procs \ {p} : td2[q] = td[q]
    BY <1>1, <1>6, <1>10 DEF RefInv, TypesOk
  <2>2. td[p] = s /\ td2[p] = t
    BY <1>2, <1>6, <1>10
  <2> QED
    BY <1>8, <1>9, <1>10, <2>1, <2>2 DEF Dropping
<1>12. \A j \in Inodes : I2[j].type = I[j].type
  BY <1>10, <1>3 DEF DropResult
<1>13. \A j \in Inodes : IsFiniteSet(D[j]) /\ SubsOf(D, I2, j) = SubsOf(D, I, j)
                         /\ Cardinality(SubsOf(D, I, j)) \in Nat
  <2> SUFFICES ASSUME NEW j \in Inodes
               PROVE  /\ IsFiniteSet(D[j]) /\ SubsOf(D, I2, j) = SubsOf(D, I, j)
                      /\ Cardinality(SubsOf(D, I, j)) \in Nat
    OBVIOUS
  <2>1. D[j] \subseteq Names \X Inodes
    BY <1>1, <1>10 DEF RefInv, TypesOk
  <2>2. \A x \in D[j] : x[2] \in Inodes
    BY <2>1
  <2>3. SubsOf(D, I2, j) = SubsOf(D, I, j)
    BY <1>12, <2>2 DEF SubsOf
  <2>4. IsFiniteSet(D[j]) /\ SubsOf(D, I, j) \subseteq D[j]
    BY <1>4, <1>10 DEF LinksOk, SubsOf
  <2> QED
    BY <2>3, <2>4, FS_Subset, FS_CardinalityType
<1>14. ASSUME NEW j \in Inodes PROVE I2[j].links = LinksOf(D, I2, td2, j)
  <2>1. I[j].links = LinksOf(D, I, td, j)
    BY <1>4, <1>10 DEF LinksOk
  <2>2. CASE j = i
    <3>1. PICK k \in Nat, u \in Nat, v \in Nat :
             k = Cardinality(SubsOf(D, I, i)) /\ u = Bit(NamedIn(D, i)) /\ v = Bit(i = Root)
      BY <1>13, <2>2, BitIs
    <3>2. Bit(Dropping(td, i)) = 1 /\ Bit(Dropping(td2, i)) = 0
      BY <1>11 DEF Bit
    <3>3. LinksOf(D, I, td, i) = u + k + v + 1 /\ LinksOf(D, I2, td2, i) = u + k + v + 0
      BY <1>13, <2>2, <3>1, <3>2 DEF LinksOf
    <3>4. I2[i].links = I[i].links - 1
      BY <1>3, <1>10 DEF DropResult
    <3> QED
      BY <2>1, <2>2, <3>1, <3>3, <3>4
  <2>3. CASE j # i
    <3>1. I2[j] = I[j] /\ Bit(Dropping(td2, j)) = Bit(Dropping(td, j))
      BY <1>3, <1>10, <1>11, <2>3 DEF DropResult, Bit
    <3> QED
      BY <1>13, <2>1, <3>1 DEF LinksOf
  <2> QED
    BY <2>2, <2>3
<1>15. mem[i].rc >= 1 /\ mem[i] # NULL
  <2>1. Backed(s, a, OpenBy(p)) /\ Len(s) \in Nat
    BY <1>1, <1>2, <1>3 DEF RefInv, CallOk, TypesOk
  <2>2. "drop" \notin HoldOps
    BY DEF HoldOps, LastOps
  <2>3. i \in OpenBy(p) \/ \E l \in 1 .. Len(s) : Keeps(s, a, l, i)
    <3>1. i \in OpenBy(p) \/ \E l \in 1 + 1 .. Len(s) : Keeps(s, a, l, i)
      BY <1>3, <2>1, <2>2 DEF Backed
    <3>2. \A l \in 1 + 1 .. Len(s) : l \in 1 .. Len(s)
      BY <2>1
    <3> QED
      BY <3>1, <3>2
  <2>4. mem[i] # NULL /\ mem[i].rc \in Nat /\ mem[i].rc > 0
    BY <1>1, <1>2, <1>3, <2>3, Referenced
  <2> QED
    BY <2>4
<1>16. LinksOk'
  <2>1. ASSUME NEW j \in Inodes
        PROVE  /\ I2[j].links = LinksOf(D, I2, td2, j)
               /\ IsFiniteSet(D[j])
               /\ D[j] # {} => j = Root \/ NamedIn(D, j)
               /\ NamedIn(D, j) => j # Root
               /\ I2[j].links = 0 /\ I2[j].type # "invalid" => mem'[j] # NULL /\ mem'[j].rc >= 1
    <3>1. /\ D[j] # {} => j = Root \/ NamedIn(D, j)
          /\ NamedIn(D, j) => j # Root
          /\ I[j].links = 0 /\ I[j].type # "invalid" => mem[j] # NULL /\ mem[j].rc >= 1
      BY <1>4, <1>10 DEF LinksOk
    <3>2. I2[j].links = 0 /\ I2[j].type # "invalid" => mem'[j] # NULL /\ mem'[j].rc >= 1
      <4>1. (mem'[j] = NULL <=> mem[j] = NULL) /\ mem'[j].rc = mem[j].rc /\ (j # i => I2[j] = I[j])
        BY <1>3, <1>10 DEF DropResult
      <4> QED
        BY <1>15, <3>1, <4>1
    <3> QED
      BY <1>13, <1>14, <3>1, <3>2
  <2> QED
    BY <1>1, <1>10, <2>1 DEF LinksOk
<1>17. NamesOk'
  <2>1. \A c \in Inodes : \A y \in dirs[c] : y[2] \in Inodes
    BY <1>1 DEF RefInv, TypesOk
  <2>2. \A c \in Inodes : \A y \in dirs'[c] :
           /\ itab'[y[2]].type # "invalid"
           /\ \A e \in Inodes : \A z \in dirs'[e] : y[2] = z[2] \/ (e = c /\ y[1] = z[1]) => e = c /\ y = z
    BY <1>1, <1>4, <1>10, <1>12, <2>1 DEF NamesOk
  <2> QED
    BY <2>2 DEF NamesOk
<1>18. HeldOk'
  <2> SUFFICES ASSUME NEW j \in Inodes, mem'[j] # NULL
               PROVE  /\ itab'[j].type # "invalid"
                      /\ mem'[j].valid => mem'[j].e = itab'[j]
                      /\ Owned(mem'[j])
    BY DEF HeldOk
  <2>1. /\ itab[j].type # "invalid" /\ Owned(mem[j])
        /\ mem[j].valid => mem[j].e = itab[j]
    BY <1>3, <1>4 DEF HeldOk, DropResult
  <2>2. mem'[j].valid = mem[j].valid /\ mem'[j].by = mem[j].by /\ mem'[j].lock = mem[j].lock
    BY <1>3 DEF DropResult
  <2>3. (mem'[j].e = itab'[j]) \/ (mem'[j] = mem[j] /\ itab'[j] = itab[j])
    BY <1>3 DEF DropResult
  <2> QED
    BY <1>10, <1>12, <2>1, <2>2, <2>3 DEF Owned
<1>19. CallFine(t, arg'[p], dirs', mem', p)
  <2>1. PICK m, m2 : m = mem /\ m2 = mem'
    OBVIOUS
  <2>2. CallFine(t, b, D, m, p)
    BY <1>4, <1>5, <1>10, <2>1 DEF TailLinks
  <2>3. \A k \in 1 .. Len(t) : t[k].op \in ParentOps => b.dp \in Inodes
    BY <1>5 DEF TailLinks
  <2>4. \A j \in Inodes : Mentions(t, b, j) => m2[j] # NULL /\ (NamedIn(D, j) => NamedIn(D, j))
    <3> SUFFICES ASSUME NEW j \in Inodes, Mentions(t, b, j) PROVE m2[j] # NULL
      OBVIOUS
    <3>1. Mentions(todo[p], arg[p], j)
      BY <1>2, <1>5 DEF TailLinks
    <3>2. mem[j] # NULL
      BY <1>1, <3>1, GoneNow
    <3> QED
      BY <1>3, <2>1, <3>2 DEF DropResult
  <2>5. \A j \in Inodes : Mentions(t, b, j) /\ Loaded(m, j) => m2[j].valid
    BY <1>3, <2>1 DEF DropResult, Loaded
  <2>6. \A j \in Inodes : Locks(t, b, j) => m2[j].by = m[j].by
    BY <1>8
  <2>7. \A j \in Inodes : Locks(t, b, j) \/ MakeOn(t, j) => D[j] = D[j]
    OBVIOUS
  <2>8. CallFine(t, b, D, m2, p)
    BY <1>7, <2>2, <2>3, <2>4, <2>5, <2>6, <2>7, FineStays
  <2> QED
    BY <1>1, <1>2, <1>10, <2>1, <2>8
<1>20. \A j \in Inodes : mem[j] # NULL /\ mem'[j] # NULL =>
          (mem[j].valid => mem'[j].valid) /\ (mem'[j].by = mem[j].by \/ mem[j].by \in {NULL, p})
  BY <1>3 DEF DropResult
<1>21. /\ \A j \in Inodes : dirs'[j] = dirs[j] \/ Locks(todo[p], arg[p], j)
       /\ \A j \in Inodes : NamedIn(dirs', j) => NamedIn(dirs, j) \/ MakeOn(todo[p], j)
  BY <1>1
<1>22. \A j \in Inodes : MakeOn(t, j) =>
          FilesOn(files', j) = {} /\ \A q \in Procs \ {p} : ~ Mentions(todo[q], arg[q], j)
  BY <1>8
<1>23. \A j \in Inodes, q \in Procs \ {p} :
          MakeOn(todo[q], j) /\ Mentions(t, arg'[p], j) => Mentions(todo[p], arg[p], j)
  BY <1>2, <1>5 DEF TailLinks
<1>24. \A f \in Files : files'[f].ref > 0 => files[f].ref > 0 /\ files[f].ip = files'[f].ip
  BY <1>1
<1> QED
  BY <1>1, <1>6, <1>16, <1>17, <1>18, <1>19, <1>20, <1>21, <1>22, <1>23, <1>24, LinkStep, ZenonT(40)

\* A step that changes nothing but whether the kernel has panicked.
LEMMA SameLinked ==
    ASSUME Linked, itab' = itab, dirs' = dirs, mem' = mem, files' = files, todo' = todo, arg' = arg
    PROVE  Linked'
<1>1. NamesOk' /\ LinksOk' /\ HeldOk'
  BY DEF Linked, NamesOk, LinksOk, HeldOk
<1>2. CallsFine' /\ NewAlone' /\ FilesRead'
  BY DEF Linked, CallsFine, NewAlone, FilesRead
<1> QED
  BY <1>1, <1>2 DEF Linked

\* mkfs puts one file into the root directory.
LEMMA LinkInit == ASSUME Init PROVE Linked
<1>1. PICK name \in Names : dirs = [i \in Inodes |-> IF i = Root THEN {<<name, 2>>} ELSE {}]
  BY DEF Init
<1>2. /\ itab = [i \in Inodes |-> IF i = Root THEN Entry("dir", 1)
                                  ELSE IF i = 2 THEN Entry("file", 1) ELSE Free]
      /\ mem = [i \in Inodes |-> IF i = Root THEN NewInode ELSE NULL]
      /\ files = [f \in Files |-> Closed]
      /\ todo = [q \in Procs |-> <<>>]
  BY DEF Init
<1>3. Root \in Inodes /\ 2 \in Inodes /\ Root # 2
  BY InodesAssumption DEF Root, Inodes
<1>4. PICK x : x = <<name, 2>> /\ x[2] = 2
  <2>1. <<name, 2>>[2] = 2
    OBVIOUS
  <2> QED
    BY <2>1
<1>5. dirs[Root] = {x} /\ \A d \in Inodes : d # Root => dirs[d] = {}
  BY <1>1, <1>3, <1>4
<1>6. /\ itab[Root] = Entry("dir", 1) /\ itab[2] = Entry("file", 1)
      /\ \A i \in Inodes : i # Root /\ i # 2 => itab[i] = Free
  BY <1>2, <1>3
<1>7. /\ Entry("dir", 1).type = "dir" /\ Entry("file", 1).type = "file" /\ Free.type = "invalid"
      /\ Entry("dir", 1).links = 1 /\ Entry("file", 1).links = 1 /\ Free.links = 0
  BY DEF Free, Entry
<1>8. NamesOk
  BY <1>4, <1>5, <1>6, <1>7 DEF NamesOk
<1>9. PICK D, I, td : D = dirs /\ I = itab /\ td = todo
  OBVIOUS
<1>10. \A i \in Inodes : (NamedIn(D, i) <=> i = 2) /\ ~ Dropping(td, i)
  BY <1>2, <1>3, <1>4, <1>5, <1>9 DEF NamedIn, Dropping, DropOn
<1>11. \A i \in Inodes : SubsOf(D, I, i) = {}
  BY <1>4, <1>5, <1>6, <1>7, <1>9 DEF SubsOf
<1>12. \A i \in Inodes : I[i].links = LinksOf(D, I, td, i)
  <2> SUFFICES ASSUME NEW i \in Inodes PROVE I[i].links = LinksOf(D, I, td, i)
    OBVIOUS
  <2>1. Cardinality(SubsOf(D, I, i)) = 0
    BY <1>11, FS_EmptySet
  <2>2. Bit(NamedIn(D, i)) = (IF i = 2 THEN 1 ELSE 0) /\ Bit(Dropping(td, i)) = 0
    BY <1>10 DEF Bit
  <2>3. LinksOf(D, I, td, i) = (IF i = 2 THEN 1 ELSE 0) + (IF i = Root THEN 1 ELSE 0)
    BY <2>1, <2>2 DEF LinksOf, Bit
  <2> QED
    BY <1>3, <1>6, <1>7, <1>9, <2>3
<1>13. LinksOk
  <2>1. \A i \in Inodes : IsFiniteSet(D[i])
    <3>1. IsFiniteSet({}) /\ IsFiniteSet({x})
      BY FS_EmptySet, FS_Singleton
    <3>2. \A i \in Inodes : D[i] = {x} \/ D[i] = {}
      BY <1>5, <1>9
    <3> QED
      BY <3>1, <3>2
  <2>2. \A i \in Inodes : I[i].links = 0 => I[i].type = "invalid"
    BY <1>6, <1>7, <1>9
  <2>3. \A i \in Inodes : (D[i] # {} => i = Root) /\ (NamedIn(D, i) => i # Root)
    BY <1>3, <1>5, <1>9, <1>10
  <2> QED
    BY <1>9, <1>12, <2>1, <2>2, <2>3 DEF LinksOk
<1>14. HeldOk
  BY <1>2, <1>6, <1>7 DEF HeldOk, NewInode, Owned
<1>15. CallsFine /\ NewAlone
  BY <1>2, EmptyFine DEF CallsFine, NewAlone
<1>16. FilesRead
  BY <1>2 DEF FilesRead, Closed
<1> QED
  BY <1>8, <1>13, <1>14, <1>15, <1>16 DEF Linked

LEMMA LinkNext == ASSUME RefInv, DirInv, LinkInv, [Next]_vars PROVE LinkInv'
<1> SUFFICES ASSUME ~ spoiled' PROVE Linked'
  BY DEF LinkInv
<1>1. RefInv'
  BY RefNext
<1>2. CASE Next
  <2>1. PICK p \in Procs :
          \/ Openat(p) \/ Mkdirat(p) \/ Mknodat(p) \/ Unlinkat(p) \/ Chdir(p) \/ Newfstatat(p)
          \/ \E d \in Fds : Dup(p, d) \/ Close(p, d) \/ Access(p, d)
          \/ Lock(p) \/ Unlock(p) \/ Put(p)
          \/ Find(p) \/ Exists(p) \/ Make(p) \/ Look(p) \/ Unlink(p) \/ Drop(p)
          \/ Open(p) \/ Stat(p) \/ Enter(p) \/ Swap(p)
    BY <1>2 DEF Next
  <2>2. CASE Openat(p) \/ Mkdirat(p) \/ Mknodat(p) \/ Unlinkat(p) \/ Chdir(p) \/ Newfstatat(p)
    <3>1. ~ spoiled
      BY <2>2 DEF Openat, Mkdirat, Mknodat, Unlinkat, Chdir, Newfstatat, Target, Parent, Begin
    <3> QED
      BY <1>1, <2>2, <3>1, CallsLink DEF LinkInv
  <2>3. CASE \E d \in Fds : Dup(p, d)
    <3>1. ~ spoiled
      BY <2>3 DEF Dup
    <3> QED
      BY <1>1, <2>3, <3>1, DupLink DEF LinkInv
  <2>4. CASE \E d \in Fds : Close(p, d)
    <3>1. ~ spoiled
      BY <2>4 DEF Close
    <3> QED
      BY <1>1, <2>4, <3>1, CloseLink DEF LinkInv
  <2>5. CASE \E d \in Fds : Access(p, d)
    <3>1. ~ spoiled
      BY <2>5 DEF Access
    <3> QED
      BY <1>1, <2>5, <3>1, AccessLink DEF LinkInv
  <2>6. CASE Lock(p) \/ Unlock(p) \/ Put(p)
    <3>1. ~ spoiled
      BY <2>6, Zenon DEF Lock, Unlock, Put
    <3> QED
      BY <1>1, <2>6, <3>1, LockLink, UnlockLink, PutLink, Zenon DEF LinkInv
  <2>7. CASE Find(p) \/ Exists(p) \/ Make(p)
    <3>1. ~ spoiled
      BY <2>7, Zenon DEF Find, Exists, Make
    <3> QED
      BY <1>1, <2>7, <3>1, FindLink, ExistsLink, MakeLink, Zenon DEF LinkInv
  <2>8. CASE Look(p) \/ Unlink(p) \/ Drop(p)
    <3>1. ~ spoiled
      BY <2>8 DEF Look, Unlink, Drop
    <3> QED
      BY <1>1, <2>8, <3>1, LookLink, UnlinkLink, DropLink, Zenon DEF LinkInv
  <2>9. CASE Open(p) \/ Stat(p) \/ Enter(p)
    <3>1. ~ spoiled
      BY <2>9 DEF Open, Stat, Enter
    <3> QED
      BY <1>1, <2>9, <3>1, OpenLink, StatLink, EnterLink DEF LinkInv
  <2>10. CASE Swap(p)
    <3>1. ~ spoiled
      BY <2>10 DEF Swap
    <3> QED
      BY <2>10, <3>1, SameLinked DEF LinkInv, Swap, inodes, tables
  <2> QED
    BY <2>1, <2>2, <2>3, <2>4, <2>5, <2>6, <2>7, <2>8, <2>9, <2>10
<1>3. CASE UNCHANGED vars
  BY <1>3, SameLinked DEF vars, LinkInv
<1> QED
  BY <1>2, <1>3

LEMMA SafeInit == ASSUME Init PROVE RefInv /\ DirSafe /\ LinkInv
  BY RefInit, DirSafeInit, LinkInit DEF LinkInv

LEMMA SafeNext ==
    ASSUME RefInv, DirSafe, LinkInv, [Next]_vars
    PROVE  RefInv' /\ DirSafe' /\ LinkInv'
<1>1. RefInv' /\ DirSafe'
  BY RefNext, DirSafeNext
<1>2. CASE spoiled'
  BY <1>1, <1>2 DEF LinkInv
<1>3. CASE ~ spoiled'
  <2>1. ~ dotted
    BY <1>3, DottedNext DEF DirSafe
  <2> QED
    BY <1>1, <2>1, LinkNext DEF DirSafe
<1> QED
  BY <1>1, <1>2, <1>3

LEMMA NoneDangles == ASSUME RefInv, LinkInv PROVE NoDanglingEntry
<1> SUFFICES ASSUME ~ spoiled, NEW d \in Inodes, NEW x \in dirs[d], NEW y \in dirs[d]
             PROVE  itab[x[2]].type # "invalid" /\ (x[1] = y[1] => x = y)
  BY DEF NoDanglingEntry
<1>1. NamesOk
  BY DEF LinkInv, Linked
<1> QED
  BY <1>1 DEF NamesOk

\* create and unlinkat change an entry, the links it stands for and the inode
\* it names under locks that other calls respect: at every moment of every
\* call the entries of directories name inodes in use, and no two entries of
\* one directory have one name, as long as no lock was released by one who
\* did not hold it, no entry was made in a directory that had been removed and
\* create did not meet Dot.
THEOREM NothingDangles == Spec => []NoDanglingEntry
<1>1. Init => RefInv /\ DirSafe /\ LinkInv
  BY SafeInit
<1>2. RefInv /\ DirSafe /\ LinkInv /\ [Next]_vars => (RefInv /\ DirSafe /\ LinkInv)'
  BY SafeNext
<1>3. RefInv /\ LinkInv => NoDanglingEntry
  BY NoneDangles
<1> QED
  BY <1>1, <1>2, <1>3, PTL DEF Spec

\* No two directories name one inode.
LEMMA NamedOnce ==
    ASSUME NamesOk, NEW i \in Inodes
    PROVE  Cardinality({d \in Inodes : \E x \in dirs[d] : x[2] = i}) = Bit(NamedIn(dirs, i))
<1>1. PICK S : S = {d \in Inodes : \E x \in dirs[d] : x[2] = i}
  OBVIOUS
<1>2. CASE S = {}
  <2>1. ~ NamedIn(dirs, i)
    BY <1>1, <1>2 DEF NamedIn
  <2> QED
    BY <1>1, <1>2, <2>1, FS_EmptySet DEF Bit
<1>3. CASE S # {}
  <2>1. PICK d \in Inodes : d \in S
    BY <1>1, <1>3
  <2>2. PICK x \in dirs[d] : x[2] = i
    BY <1>1, <2>1
  <2>3. \A c \in S : c = d
    <3> SUFFICES ASSUME NEW c \in Inodes, NEW y \in dirs[c], y[2] = i PROVE c = d
      BY <1>1
    <3> QED
      BY <2>2 DEF NamesOk
  <2>4. S = {d} /\ NamedIn(dirs, i)
    BY <2>1, <2>2, <2>3 DEF NamedIn
  <2>5. Cardinality({d}) = 1
    BY FS_Singleton
  <2> QED
    BY <1>1, <2>4, <2>5 DEF Bit
<1> QED
  BY <1>2, <1>3

\* Between calls only files, and the pointer to the root, refer to inodes.
LEMMA RefsBetween ==
    ASSUME RefInv, AllReturned, NEW i \in Inodes, Cardinality(References(i)) = 0
    PROVE  References(i) = {}
<1>1. \A q \in Procs : todo[q] \in Seq(StepRec) /\ todo[q] = <<>>
  BY DEF RefInv, TypesOk, AllReturned
<1>2. References(i) = RefsIn(todo, arg, files, i)
  BY <1>1, ReferencesAre
<1>3. \A q \in Procs : HoldsIn(todo[q], arg[q], q) = {}
  BY <1>1 DEF HoldsIn
<1>4. UNION {HoldsIn(todo[q], arg[q], q) : q \in Procs} = {}
  BY <1>3
<1>5. PICK A, B : /\ A = {<<"file", f>> : f \in FilesOn(files, i)} /\ IsFiniteSet(A)
                  /\ B = {<<"root", x>> : x \in {Root} \cap {i}} /\ IsFiniteSet(B)
  <2>1. {<<"root", x>> : x \in {Root} \cap {i}} \subseteq {<<"root", i>>}
    OBVIOUS
  <2>2. IsFiniteSet({<<"root", x>> : x \in {Root} \cap {i}})
    BY <2>1, FS_Singleton, FS_Subset
  <2> QED
    BY <2>1, <2>2, FileTags
<1>6. References(i) = A \cup B
  BY <1>2, <1>4, <1>5 DEF RefsIn
<1> QED
  BY <1>5, <1>6, FS_Union, FS_EmptySet

LEMMA Agree == ASSUME RefInv, DirSafe, LinkInv PROVE LinksAgree
<1> SUFFICES ASSUME AllReturned, NEW i \in Inodes
             PROVE  LET named == Cardinality({d \in Inodes : \E x \in dirs[d] : x[2] = i})
                        subs == Cardinality({x \in dirs[i] : itab[x[2]].type = "dir"})
                    IN /\ ~ dotted /\ mem[i] # NULL /\ mem[i].valid => mem[i].e = itab[i]
                       /\ ~ spoiled =>
                            /\ itab[i].links = named + subs + (IF i = Root THEN 1 ELSE 0)
                            /\ (itab[i].type = "invalid") = (itab[i].links = 0 /\ References(i) = {})
  BY DEF LinksAgree
<1> DEFINE named == Cardinality({d \in Inodes : \E x \in dirs[d] : x[2] = i})
           subs == Cardinality({x \in dirs[i] : itab[x[2]].type = "dir"})
<1>1. /\ ~ panicked /\ Exact /\ (~ dotted => EntriesOk) /\ (~ spoiled => ~ dotted)
      /\ \A q \in Procs : todo[q] = <<>>
  BY DEF AllReturned, DirSafe, DirInv, RefInv
<1>2. \A q \in Procs : \A j : ~ MakeOn(todo[q], j) /\ ~ DropOn(todo[q], j)
  BY <1>1, EmptyFine
<1>3. ~ dotted /\ mem[i] # NULL /\ mem[i].valid => mem[i].e = itab[i]
  BY <1>1, <1>2 DEF EntriesOk, Loaded
<1>4. ASSUME ~ spoiled
      PROVE  itab[i].links = named + subs + (IF i = Root THEN 1 ELSE 0)
  <2>1. NamesOk /\ itab[i].links = LinksOf(dirs, itab, todo, i)
    BY <1>4 DEF LinkInv, Linked, LinksOk
  <2>2. named = Bit(NamedIn(dirs, i))
    BY <2>1, NamedOnce
  <2>3. subs = Cardinality(SubsOf(dirs, itab, i))
    BY DEF SubsOf
  <2>4. Bit(Dropping(todo, i)) = 0
    BY <1>2 DEF Dropping, Bit
  <2>5. Bit(i = Root) = IF i = Root THEN 1 ELSE 0
    BY DEF Bit
  <2>6. named \in Nat /\ subs \in Nat
    <3>1. IsFiniteSet(dirs[i]) /\ SubsOf(dirs, itab, i) \subseteq dirs[i]
      BY <1>4 DEF LinkInv, Linked, LinksOk, SubsOf
    <3> QED
      BY <2>2, <2>3, <3>1, BitIs, FS_Subset, FS_CardinalityType
  <2> HIDE DEF named, subs
  <2> QED
    BY <2>1, <2>2, <2>3, <2>4, <2>5, <2>6 DEF LinksOf
<1>5. ASSUME ~ spoiled
      PROVE  (itab[i].type = "invalid") = (itab[i].links = 0 /\ References(i) = {})
  <2>1. /\ mem[i] # NULL => itab[i].type # "invalid"
        /\ itab[i].links = 0 /\ itab[i].type # "invalid" => mem[i] # NULL /\ mem[i].rc >= 1
    BY <1>5 DEF LinkInv, Linked, HeldOk, LinksOk
  <2>2. Cardinality(References(i)) = IF mem[i] = NULL THEN 0 ELSE mem[i].rc
    BY <1>1 DEF Exact
  <2>3. itab[i].type = "invalid" => itab[i].links = 0
    BY <1>1, <1>5 DEF EntriesOk, Free, Entry
  <2>4. itab[i].type = "invalid" => References(i) = {}
    BY <2>1, <2>2, RefsBetween
  <2>5. itab[i].links = 0 /\ itab[i].type # "invalid" => References(i) # {}
    <3> SUFFICES ASSUME mem[i] # NULL, mem[i].rc >= 1, References(i) = {} PROVE FALSE
      BY <2>1
    <3>1. Cardinality(References(i)) = 0
      BY FS_EmptySet
    <3> QED
      BY <2>2, <3>1
  <2> QED
    BY <2>3, <2>4, <2>5
<1> QED
  BY <1>3, <1>4, <1>5

\* What create, unlinkat and inode_put do to an inode they do in the end to its
\* block and to the entries alike: between calls an inode that has been read
\* is what its block says, unless create met Dot; unless it did, a lock was
\* released by one who did not hold it or an entry was made in a directory
\* that had been removed, its links
\* are the entries that name it, its subdirectories and, for the root
\* directory, one more; and it is free exactly when it has no link and
\* nothing refers to it.
THEOREM LinksAreEntries == Spec => []LinksAgree
<1>1. Init => RefInv /\ DirSafe /\ LinkInv
  BY SafeInit
<1>2. RefInv /\ DirSafe /\ LinkInv /\ [Next]_vars => (RefInv /\ DirSafe /\ LinkInv)'
  BY SafeNext
<1>3. RefInv /\ DirSafe /\ LinkInv => LinksAgree
  BY Agree
<1> QED
  BY <1>1, <1>2, <1>3, PTL DEF Spec
=============================================================================
