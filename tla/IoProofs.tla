------------------------------ MODULE IoProofs ------------------------------
(***************************************************************************)
(* Pipes, for any numbers of processes, files and descriptors: a pipe knows *)
(* which of its ends are open, and is freed exactly when none is; and what  *)
(* is read from it is what was written, in order.  The SD card driver       *)
(* answers a request that meets no other.  And for any image, any sizes of  *)
(* the disk and any calls the files hold what was written to them, and the  *)
(* bitmap marks what they list.                                             *)
(***************************************************************************)
EXTENDS Pipes, SdQueue, FileData, KListTheorems, FiniteSetTheorems

-----------------------------------------------------------------------------
(* Pipes *)

Typed ==
    /\ ptable \in [PipeFiles -> [ref : Nat, pipe : Nat, writable : BOOLEAN]]
    /\ \A f \in PipeFiles : ptable[f].pipe <= Len(pipes)
    /\ pfds \in [Users -> [PipeFds -> PipeFiles \cup {NoPipe}]]
    /\ pipes \in Seq(PipeRecords \cup {NoPipe})
    /\ sent \in Seq(Seq(Nat)) /\ Len(sent) = Len(pipes)

\* The same, but for the reference counts, which may be wrong once sys_pipe2
\* has left a descriptor behind.
Shaped ==
    /\ ptable \in [PipeFiles -> [ref : Int, pipe : Nat, writable : BOOLEAN]]
    /\ \A f \in PipeFiles : ptable[f].pipe <= Len(pipes)
    /\ pfds \in [Users -> [PipeFds -> PipeFiles \cup {NoPipe}]]
    /\ pipes \in Seq(PipeRecords \cup {NoPipe})
    /\ sent \in Seq(Seq(Nat)) /\ Len(sent) = Len(pipes)

\* The descriptors that lead to f.
FdIn(F, f) == {x \in Users \X PipeFds : F[x[1]][x[2]] = f}
Fd(f) == FdIn(pfds, f)

FdTables == [Users -> [PipeFds -> PipeFiles \cup {NoPipe}]]

\* The descriptors once d of process u is set to v.
With(F, u, d, v) == [F EXCEPT ![u][d] = v]

\* Every file counts its descriptors.
Counted == \A f \in PipeFiles : ptable[f].ref = Cardinality(Fd(f))

\* No two files are the same end of a pipe.
OneFilePerEnd ==
    \A f, g \in PipeFiles :
        /\ ptable[f].ref > 0 /\ ptable[g].ref > 0
        /\ ptable[f].pipe # 0 /\ ptable[f].pipe = ptable[g].pipe
        /\ ptable[f].writable = ptable[g].writable
        => f = g

\* File f is the end w of pipe k.
EndOf(f, k, w) == ptable[f].ref > 0 /\ ptable[f].pipe = k /\ ptable[f].writable = w
Open(k, w) == \E f \in PipeFiles : EndOf(f, k, w)

Ends ==
    \A k \in 1 .. Len(pipes) :
        IF pipes[k] = NoPipe THEN ~ Open(k, TRUE) /\ ~ Open(k, FALSE)
        ELSE pipes[k].readopen = Open(k, FALSE) /\ pipes[k].writeopen = Open(k, TRUE)

\* As long as sys_pipe2 has not left a descriptor behind.
IInv == ~ astray => Typed /\ Counted /\ OneFilePerEnd /\ Ends

-----------------------------------------------------------------------------
(* Lemmas on the operators *)

\* fdalloc and file_alloc take the least index, which there is.
LEMMA LeastFact ==
    ASSUME NEW S, S \subseteq Nat, S # {}
    PROVE  Least(S) \in S
<1>1. \E x \in S : \A y \in S : x <= y
  BY LeastExists
<1> QED
  BY <1>1 DEF Least

\* Two elements can be taken from a set of two.
LEMMA TwoElements ==
    ASSUME NEW S, S \subseteq Nat, Cardinality(S) >= 2
    PROVE  /\ Least(S) \in S
           /\ Least(S \ {Least(S)}) \in S \ {Least(S)}
<1>1. S # {}
  BY FS_EmptySet
<1>2. Least(S) \in S
  BY <1>1, LeastFact
<1>3. S \ {Least(S)} # {}
  <2> SUFFICES ASSUME S \ {Least(S)} = {} PROVE FALSE
    OBVIOUS
  <2>1. S = {Least(S)}
    BY <1>2
  <2>2. Cardinality(S) = 1
    BY <2>1, FS_Singleton
  <2> QED
    BY <2>2
<1>4. Least(S \ {Least(S)}) \in S \ {Least(S)}
  BY <1>3, LeastFact
<1> QED
  BY <1>2, <1>4

\* A process has finitely many descriptors, all processes have.
LEMMA FdsAreFinite ==
    ASSUME NEW F, NEW f
    PROVE  IsFiniteSet(FdIn(F, f)) /\ Cardinality(FdIn(F, f)) \in Nat
<1>1. IsFiniteSet(Users \X PipeFds)
  BY SetsAssumption, FS_Product
<1>2. FdIn(F, f) \in SUBSET (Users \X PipeFds)
  BY DEF FdIn
<1>3. IsFiniteSet(FdIn(F, f))
  BY <1>1, <1>2, FS_Subset
<1> QED
  BY <1>3, FS_CardinalityType

\* The file of a descriptor has a reference.
LEMMA FileOfFd ==
    ASSUME Typed, Counted, NEW u \in Users, NEW d \in PipeFds, pfds[u][d] # NoPipe
    PROVE  /\ pfds[u][d] \in PipeFiles
           /\ <<u, d>> \in Fd(pfds[u][d])
           /\ ptable[pfds[u][d]].ref > 0
<1>1. pfds[u][d] \in PipeFiles
  BY DEF Typed
<1>2. <<u, d>> \in Fd(pfds[u][d])
  BY DEF Fd, FdIn
<1>3. Cardinality(Fd(pfds[u][d])) # 0
  BY <1>2, FdsAreFinite, FS_EmptySet DEF Fd
<1>4. Cardinality(Fd(pfds[u][d])) \in Nat
  BY FdsAreFinite DEF Fd
<1> QED
  BY <1>1, <1>2, <1>3, <1>4 DEF Counted

\* What a descriptor that is set adds to the count of its new file and takes
\* from the count of its old one.
LEMMA SetFd ==
    ASSUME NEW F \in FdTables, NEW u \in Users, NEW d \in PipeFds,
           NEW v \in PipeFiles \cup {NoPipe}, F[u][d] # v
    PROVE  /\ With(F, u, d, v) \in FdTables
           /\ \A e \in PipeFds : e # d => With(F, u, d, v)[u][e] = F[u][e]
           /\ Cardinality(FdIn(With(F, u, d, v), v)) = Cardinality(FdIn(F, v)) + 1
           /\ Cardinality(FdIn(With(F, u, d, v), F[u][d])) = Cardinality(FdIn(F, F[u][d])) - 1
           /\ \A f : f # v /\ f # F[u][d] => FdIn(With(F, u, d, v), f) = FdIn(F, f)
<1> DEFINE G == With(F, u, d, v)
<1>0. G = [F EXCEPT ![u] = [F[u] EXCEPT ![d] = v]]
  BY DEF With, FdTables
<1> HIDE DEF G
<1>1. /\ G \in FdTables
      /\ G[u][d] = v
      /\ \A w \in Users, e \in PipeFds : w # u \/ e # d => G[w][e] = F[w][e]
  BY <1>0 DEF FdTables
<1>2. \A x \in Users \X PipeFds : x # <<u, d>> => G[x[1]][x[2]] = F[x[1]][x[2]]
  BY <1>1
<1>3. <<u, d>> \in Users \X PipeFds /\ <<u, d>>[1] = u /\ <<u, d>>[2] = d
  OBVIOUS
<1>4. FdIn(G, v) = FdIn(F, v) \cup {<<u, d>>} /\ <<u, d>> \notin FdIn(F, v)
  BY <1>1, <1>2, <1>3 DEF FdIn
<1>5. FdIn(G, F[u][d]) = FdIn(F, F[u][d]) \ {<<u, d>>} /\ <<u, d>> \in FdIn(F, F[u][d])
  BY <1>1, <1>2, <1>3 DEF FdIn
<1>6. \A f : f # v /\ f # F[u][d] => FdIn(G, f) = FdIn(F, f)
  BY <1>1, <1>2, <1>3 DEF FdIn
<1>7. Cardinality(FdIn(G, v)) = Cardinality(FdIn(F, v)) + 1
  BY <1>4, FdsAreFinite, FS_AddElement
<1>8. Cardinality(FdIn(G, F[u][d])) = Cardinality(FdIn(F, F[u][d])) - 1
  <2> DEFINE S == FdIn(F, F[u][d])
  <2>1. IsFiniteSet(S) /\ <<u, d>> \in S
    BY <1>5, FdsAreFinite
  <2> HIDE DEF S
  <2>2. Cardinality(S \ {<<u, d>>}) = Cardinality(S) - 1
    BY <2>1, FS_RemoveElement
  <2> QED
    BY <1>5, <2>2 DEF S
<1> QED
  BY <1>1, <1>6, <1>7, <1>8 DEF G

-----------------------------------------------------------------------------
(* The actions *)

\* pipeRead and pipeWrite change the counters and the data of one pipe.
LEMMA PipeTouched ==
    ASSUME Typed, Counted, OneFilePerEnd, Ends, UNCHANGED <<ptable, pfds>>,
           NEW k \in 1 .. Len(pipes), pipes[k] # NoPipe, NEW r \in PipeRecords,
           r.readopen = pipes[k].readopen, r.writeopen = pipes[k].writeopen,
           pipes' = [pipes EXCEPT ![k] = r],
           sent' \in Seq(Seq(Nat)), Len(sent') = Len(sent)
    PROVE  Typed' /\ Counted' /\ OneFilePerEnd' /\ Ends'
<1>1. pipes' \in Seq(PipeRecords \cup {NoPipe}) /\ Len(pipes') = Len(pipes)
  BY DEF Typed
<1>2. pipes'[k] = r /\ \A j \in 1 .. Len(pipes) : j # k => pipes'[j] = pipes[j]
  BY DEF Typed
<1>3. Typed'
  BY <1>1 DEF Typed
<1>4. Counted' /\ OneFilePerEnd'
  BY DEF Counted, OneFilePerEnd, Fd, FdIn
<1>5. \A j, w : Open(j, w)' = Open(j, w)
  BY DEF Open, EndOf
<1>6. Ends'
  <2> SUFFICES ASSUME NEW j \in 1 .. Len(pipes)
               PROVE  IF pipes'[j] = NoPipe THEN ~ Open(j, TRUE) /\ ~ Open(j, FALSE)
                      ELSE pipes'[j].readopen = Open(j, FALSE) /\ pipes'[j].writeopen = Open(j, TRUE)
    BY <1>1, <1>5 DEF Ends
  <2>1. CASE j = k
    <3>1. r # NoPipe
      BY SetsAssumption
    <3> QED
      BY <1>2, <2>1, <3>1 DEF Ends
  <2>2. CASE j # k
    BY <1>2, <2>2 DEF Ends
  <2> QED
    BY <2>1, <2>2
<1> QED
  BY <1>3, <1>4, <1>6

\* The u32 counters.
LEMMA Modulo ==
    ASSUME NEW a \in Int
    PROVE  a % Width \in Nat
BY WidthAssumption

\* A descriptor that can be used leads to a pipe.
LEMMA UsablePipe ==
    ASSUME Shaped, NEW u \in Users, NEW d \in PipeFds, NEW w \in BOOLEAN, Usable(u, d, w)
    PROVE  /\ ptable[pfds[u][d]].pipe \in 1 .. Len(pipes)
           /\ pipes[ptable[pfds[u][d]].pipe] \in PipeRecords
<1>1. pfds[u][d] \in PipeFiles
  BY DEF Shaped, Usable
<1> DEFINE k == ptable[pfds[u][d]].pipe
<1>2. k \in Nat /\ k <= Len(pipes) /\ k # 0
  BY <1>1 DEF Shaped, Usable, Lockable
<1>3. pipes[k] # NoPipe
  BY DEF Usable, Lockable
<1>4. Len(pipes) \in Nat
  BY DEF Shaped
<1>5. k \in 1 .. Len(pipes)
  BY <1>2, <1>4
<1>6. pipes[k] \in PipeRecords \cup {NoPipe}
  BY <1>5 DEF Shaped
<1> QED
  BY <1>3, <1>5, <1>6

LEMMA TypedIsShaped == Typed => Shaped
  BY DEF Typed, Shaped

\* What fits and what is there are numbers.
LEMMA RoomFact ==
    ASSUME NEW q \in PipeRecords
    PROVE  Room(q) \in Nat /\ Waiting(q) \in Nat
<1>1. q.nread \in Nat /\ q.nwrite \in Nat /\ PIPESIZE \in Nat
  BY WidthAssumption DEF PipeRecords
<1>2. q.nread + PIPESIZE - q.nwrite \in Int /\ q.nwrite - q.nread \in Int
  BY <1>1
<1>3. (q.nread + PIPESIZE - q.nwrite) % Width \in Nat /\ (q.nwrite - q.nread) % Width \in Nat
  BY <1>2, Modulo
<1> QED
  BY <1>3 DEF Room, Waiting

\* The bytes that pipeWrite stores.
LEMMA FittingFact ==
    ASSUME NEW q \in PipeRecords, NEW n \in Nat, NEW l \in Nat
    PROVE  Fitting(q, n, l) \in Seq(Nat)
<1> DEFINE m == IF n <= Room(q) THEN n ELSE Room(q)
           b == [i \in 1 .. m |-> l + i]
<1>1. m \in Nat
  BY RoomFact
<1> HIDE DEF m
<1>2. b \in [1 .. m -> Nat]
  BY <1>1
<1> HIDE DEF b
<1>3. b \in Seq(Nat)
  BY <1>1, <1>2
<1> QED
  BY <1>3 DEF Fitting, b, m

\* And where it stores them.
LEMMA StoredFact ==
    ASSUME NEW b \in Seq(Nat), NEW w, NEW D \in [0 .. PIPESIZE - 1 -> Nat]
    PROVE  Stored(D, w, b) \in [0 .. PIPESIZE - 1 -> Nat]
<1> DEFINE P == 0 .. Len(b) - 1
           pos(c) == CHOOSE i \in P : Cell(w, i) = c
<1>1. ASSUME NEW c \in {Cell(w, i) : i \in P} PROVE b[pos(c) + 1] \in Nat
  <2>1. \E i \in P : Cell(w, i) = c
    BY <1>1
  <2>2. pos(c) \in P
    BY <2>1
  <2> HIDE DEF pos
  <2>3. pos(c) + 1 \in 1 .. Len(b)
    BY <2>2
  <2> QED
    BY <2>3
<1> HIDE DEF pos, P
<1>2. [c \in DOMAIN D |-> IF c \in {Cell(w, i) : i \in P} THEN b[pos(c) + 1] ELSE D[c]]
          \in [0 .. PIPESIZE - 1 -> Nat]
  BY <1>1
<1> QED
  BY <1>2 DEF pos, P, Stored

\* A write leaves the ends of the pipe as they are.
LEMMA AfterWriteFact ==
    ASSUME NEW q \in PipeRecords, NEW b \in Seq(Nat), NEW n \in Nat
    PROVE  /\ AfterWrite(q, b, n) \in PipeRecords
           /\ AfterWrite(q, b, n).readopen = q.readopen
           /\ AfterWrite(q, b, n).writeopen = q.writeopen
<1>1. q.data \in [0 .. PIPESIZE - 1 -> Nat] /\ q.nwrite \in Nat
  BY DEF PipeRecords
<1>2. Stored(q.data, q.nwrite, b) \in [0 .. PIPESIZE - 1 -> Nat]
  BY <1>1, StoredFact
<1>3. (q.nwrite + Len(b)) % Width \in Nat
  <2>1. Len(b) \in Nat
    OBVIOUS
  <2> QED
    BY <1>1, <2>1, Modulo
<1>4. (Len(b) < n) \in BOOLEAN
  OBVIOUS
<1> QED
  BY <1>2, <1>3, <1>4 DEF AfterWrite, PipeRecords

\* pipeWrite
LEMMA PipeWriteStep ==
    ASSUME Typed, Counted, OneFilePerEnd, Ends,
           NEW u \in Users, NEW d \in PipeFds, NEW n \in 1 .. PIPESIZE + 1, PipeWrite(u, d, n)
    PROVE  Typed' /\ Counted' /\ OneFilePerEnd' /\ Ends'
<1> DEFINE k == ptable[pfds[u][d]].pipe
           p == pipes[k]
           bytes == Fitting(p, n, Len(sent[k]))
           r == AfterWrite(p, bytes, n)
<1>1. pipes' = [pipes EXCEPT ![k] = r] /\ sent' = [sent EXCEPT ![k] = sent[k] \o bytes]
      /\ UNCHANGED <<ptable, pfds>>
  BY DEF PipeWrite
<1>2. k \in 1 .. Len(pipes) /\ p \in PipeRecords
  BY UsablePipe, TypedIsShaped DEF PipeWrite
<1> HIDE DEF k
<1>3. sent[k] \in Seq(Nat) /\ Len(sent[k]) \in Nat
  BY <1>2 DEF Typed
<1>4. n \in Nat
  BY WidthAssumption
<1>5. bytes \in Seq(Nat)
  BY <1>2, <1>3, <1>4, FittingFact
<1> HIDE DEF bytes
<1>6. r \in PipeRecords /\ r.readopen = p.readopen /\ r.writeopen = p.writeopen
  BY <1>2, <1>4, <1>5, AfterWriteFact
<1> HIDE DEF r
<1>7. sent[k] \o bytes \in Seq(Nat)
  BY <1>3, <1>5
<1>8. sent' \in Seq(Seq(Nat)) /\ Len(sent') = Len(sent)
  BY <1>1, <1>2, <1>7 DEF Typed
<1>9. p # NoPipe
  BY <1>2, SetsAssumption
<1> QED
  BY <1>1, <1>2, <1>6, <1>8, <1>9, PipeTouched

\* The bytes that pipeRead takes, and what it leaves as it is.
LEMMA AvailableFact ==
    ASSUME NEW q \in PipeRecords, NEW n \in Nat
    PROVE  Len(Available(q, n)) \in Nat
<1> DEFINE m == IF n <= Waiting(q) THEN n ELSE Waiting(q)
           b == [i \in 1 .. m |-> q.data[Cell(q.nread, i - 1)]]
<1>1. m \in Nat
  BY RoomFact
<1> HIDE DEF m
<1>2. Len(b) = m
  BY <1>1
<1> QED
  BY <1>1, <1>2 DEF Available, m

LEMMA AfterReadFact ==
    ASSUME NEW q \in PipeRecords, NEW m \in Nat, NEW n \in Nat
    PROVE  /\ AfterRead(q, m, n) \in PipeRecords
           /\ AfterRead(q, m, n).readopen = q.readopen
           /\ AfterRead(q, m, n).writeopen = q.writeopen
<1>1. q.nread \in Nat
  BY DEF PipeRecords
<1>2. (q.nread + m) % Width \in Nat
  BY <1>1, Modulo
<1>3. (m < n /\ q.writeopen) \in BOOLEAN
  OBVIOUS
<1> QED
  BY <1>2, <1>3 DEF AfterRead, PipeRecords

\* pipeRead
LEMMA PipeReadStep ==
    ASSUME Typed, Counted, OneFilePerEnd, Ends,
           NEW u \in Users, NEW d \in PipeFds, NEW n \in 1 .. PIPESIZE + 1, PipeRead(u, d, n)
    PROVE  Typed' /\ Counted' /\ OneFilePerEnd' /\ Ends'
<1> DEFINE k == ptable[pfds[u][d]].pipe
           p == pipes[k]
           m == Len(Available(p, n))
           r == AfterRead(p, m, n)
<1>1. pipes' = [pipes EXCEPT ![k] = r] /\ UNCHANGED <<ptable, pfds, sent>>
  BY DEF PipeRead
<1>2. k \in 1 .. Len(pipes) /\ p \in PipeRecords
  BY UsablePipe, TypedIsShaped DEF PipeRead
<1>3. n \in Nat
  BY WidthAssumption
<1>4. m \in Nat
  BY <1>2, <1>3, AvailableFact
<1> HIDE DEF m, k
<1>5. r \in PipeRecords /\ r.readopen = p.readopen /\ r.writeopen = p.writeopen
  BY <1>2, <1>3, <1>4, AfterReadFact
<1> HIDE DEF r
<1>6. p # NoPipe
  BY <1>2, SetsAssumption
<1>7. sent' \in Seq(Seq(Nat)) /\ Len(sent') = Len(sent)
  BY <1>1 DEF Typed
<1> QED
  BY <1>1, <1>2, <1>5, <1>6, <1>7, PipeTouched

\* The references change, and no pipe gains or loses an end.
LEMMA SameEnds ==
    ASSUME Typed, OneFilePerEnd, Ends, UNCHANGED pipes,
           \A g \in PipeFiles :
               /\ ptable'[g].pipe = ptable[g].pipe /\ ptable'[g].writable = ptable[g].writable
               /\ ptable[g].pipe # 0 => (ptable'[g].ref > 0 <=> ptable[g].ref > 0)
    PROVE  OneFilePerEnd' /\ Ends'
<1>1. OneFilePerEnd'
  BY DEF OneFilePerEnd
<1>2. ASSUME NEW k \in 1 .. Len(pipes), NEW w PROVE Open(k, w)' = Open(k, w)
  BY <1>2 DEF Open, EndOf
<1> QED
  BY <1>1, <1>2 DEF Ends

\* dup
LEMMA PipeDupStep ==
    ASSUME Typed, Counted, OneFilePerEnd, Ends,
           NEW u \in Users, NEW d \in PipeFds, PipeDup(u, d)
    PROVE  Typed' /\ Counted' /\ OneFilePerEnd' /\ Ends'
<1>1. pfds[u][d] # NoPipe /\ NoFile(u) # {}
  BY DEF PipeDup
<1>2. PICK f \in PipeFiles : f = pfds[u][d] /\ ptable[f].ref > 0
  BY <1>1, FileOfFd
<1>3. PICK e \in PipeFds : e = Least(NoFile(u)) /\ pfds[u][e] = NoPipe
  BY <1>1, LeastFact, SetsAssumption DEF NoFile
<1>4. /\ pfds' = [pfds EXCEPT ![u][e] = f] /\ ptable' = [ptable EXCEPT ![f].ref = @ + 1]
      /\ UNCHANGED <<pipes, sent>>
  BY <1>2, <1>3 DEF PipeDup
<1>5. /\ pfds' \in [Users -> [PipeFds -> PipeFiles \cup {NoPipe}]]
      /\ Cardinality(Fd(f)') = Cardinality(Fd(f)) + 1
      /\ \A g : g # f /\ g # NoPipe => Fd(g)' = Fd(g)
  <2>1. pfds[u][e] # f /\ pfds \in FdTables
    BY <1>3, SetsAssumption DEF Typed, FdTables
  <2>2. /\ With(pfds, u, e, f) \in FdTables
        /\ Cardinality(FdIn(With(pfds, u, e, f), f)) = Cardinality(FdIn(pfds, f)) + 1
        /\ \A g : g # f /\ g # pfds[u][e] => FdIn(With(pfds, u, e, f), g) = FdIn(pfds, g)
    BY <2>1, SetFd
  <2>3. pfds' = With(pfds, u, e, f)
    BY <1>4 DEF With
  <2> QED
    BY <1>3, <2>2, <2>3 DEF Fd, FdTables
<1>6. /\ ptable' \in [PipeFiles -> [ref : Nat, pipe : Nat, writable : BOOLEAN]]
      /\ ptable'[f].ref = ptable[f].ref + 1
      /\ \A g \in PipeFiles : g # f => ptable'[g] = ptable[g]
      /\ \A g \in PipeFiles : /\ ptable'[g].pipe = ptable[g].pipe
                              /\ ptable'[g].writable = ptable[g].writable
  <2>1. ptable' = [ptable EXCEPT ![f] = [ptable[f] EXCEPT !.ref = ptable[f].ref + 1]]
    BY <1>4
  <2>2. ptable[f] \in [ref : Nat, pipe : Nat, writable : BOOLEAN]
    BY DEF Typed
  <2>3. ptable'[f] = [ptable[f] EXCEPT !.ref = ptable[f].ref + 1]
    BY <2>1 DEF Typed
  <2>4. \A g \in PipeFiles : g # f => ptable'[g] = ptable[g]
    BY <2>1 DEF Typed
  <2>5. /\ ptable'[f] \in [ref : Nat, pipe : Nat, writable : BOOLEAN]
        /\ ptable'[f].ref = ptable[f].ref + 1
        /\ ptable'[f].pipe = ptable[f].pipe /\ ptable'[f].writable = ptable[f].writable
    BY <2>2, <2>3
  <2> QED
    BY <2>1, <2>4, <2>5 DEF Typed
<1>7. Typed'
  BY <1>4, <1>5, <1>6 DEF Typed
<1>8. Counted'
  <2> SUFFICES ASSUME NEW g \in PipeFiles PROVE ptable'[g].ref = Cardinality(Fd(g)')
    BY DEF Counted
  <2>1. g # NoPipe
    BY SetsAssumption
  <2> QED
    BY <1>5, <1>6, <2>1 DEF Counted
<1>9. \A g \in PipeFiles : ptable'[g].ref > 0 <=> ptable[g].ref > 0
  <2> SUFFICES ASSUME NEW g \in PipeFiles PROVE ptable'[g].ref > 0 <=> ptable[g].ref > 0
    OBVIOUS
  <2>1. ptable[f].ref \in Nat
    BY DEF Typed
  <2>2. CASE g = f
    BY <1>2, <1>6, <2>1, <2>2
  <2>3. CASE g # f
    BY <1>6, <2>3
  <2> QED
    BY <2>2, <2>3
<1>10. OneFilePerEnd' /\ Ends'
  BY <1>4, <1>6, <1>9, SameEnds
<1> QED
  BY <1>7, <1>8, <1>10

\* A descriptor of f is closed: f loses one, the other files lose none.
LEMMA FdClosed ==
    ASSUME Typed, NEW u \in Users, NEW d \in PipeFds, NEW f \in PipeFiles, f = pfds[u][d],
           pfds' = [pfds EXCEPT ![u][d] = NoPipe]
    PROVE  /\ pfds' \in FdTables
           /\ Cardinality(Fd(f)') = Cardinality(Fd(f)) - 1
           /\ \A g \in PipeFiles : g # f => Fd(g)' = Fd(g)
<1>1. pfds[u][d] # NoPipe /\ pfds \in FdTables
  BY SetsAssumption DEF Typed, FdTables
<1>2. /\ With(pfds, u, d, NoPipe) \in FdTables
      /\ Cardinality(FdIn(With(pfds, u, d, NoPipe), f)) = Cardinality(FdIn(pfds, f)) - 1
      /\ \A g : g # NoPipe /\ g # f => FdIn(With(pfds, u, d, NoPipe), g) = FdIn(pfds, g)
  BY <1>1, SetFd
<1>3. pfds' = With(pfds, u, d, NoPipe)
  BY DEF With
<1>4. \A g \in PipeFiles : g # NoPipe
  BY SetsAssumption
<1> QED
  BY <1>2, <1>3, <1>4 DEF Fd

\* close of a descriptor that is not the last one of its file.
LEMMA NotTheLast ==
    ASSUME Typed, Counted, OneFilePerEnd, Ends,
           NEW u \in Users, NEW d \in PipeFds, NEW f \in PipeFiles, f = pfds[u][d],
           pfds' = [pfds EXCEPT ![u][d] = NoPipe],
           ptable[f].ref > 0, ptable[f].ref # 1 \/ ptable[f].pipe = 0,
           ptable' = [ptable EXCEPT ![f].ref = @ - 1], UNCHANGED <<pipes, sent>>
    PROVE  Typed' /\ Counted' /\ OneFilePerEnd' /\ Ends'
<1>1. /\ pfds' \in FdTables
      /\ Cardinality(Fd(f)') = Cardinality(Fd(f)) - 1
      /\ \A g \in PipeFiles : g # f => Fd(g)' = Fd(g)
  BY FdClosed
<1>2. ptable[f] \in [ref : Nat, pipe : Nat, writable : BOOLEAN]
  BY DEF Typed
<1>3. /\ ptable'[f] = [ptable[f] EXCEPT !.ref = ptable[f].ref - 1]
      /\ \A g \in PipeFiles : g # f => ptable'[g] = ptable[g]
      /\ DOMAIN ptable' = PipeFiles
      /\ ptable' = [g \in PipeFiles |-> ptable'[g]]
  BY DEF Typed
<1>4. /\ ptable'[f] \in [ref : Nat, pipe : Nat, writable : BOOLEAN]
      /\ ptable'[f].ref = ptable[f].ref - 1
      /\ ptable'[f].pipe = ptable[f].pipe /\ ptable'[f].writable = ptable[f].writable
  BY <1>2, <1>3
<1>5. ptable' \in [PipeFiles -> [ref : Nat, pipe : Nat, writable : BOOLEAN]]
  BY <1>3, <1>4 DEF Typed
<1>6. \A g \in PipeFiles : /\ ptable'[g].pipe = ptable[g].pipe
                           /\ ptable'[g].writable = ptable[g].writable
  BY <1>3, <1>4
<1>7. Typed'
  BY <1>1, <1>5, <1>6 DEF Typed, FdTables
<1>8. Counted'
  BY <1>1, <1>3, <1>4 DEF Counted
<1>9. \A g \in PipeFiles : ptable[g].pipe # 0 => (ptable'[g].ref > 0 <=> ptable[g].ref > 0)
  <2> SUFFICES ASSUME NEW g \in PipeFiles, ptable[g].pipe # 0
               PROVE  ptable'[g].ref > 0 <=> ptable[g].ref > 0
    OBVIOUS
  <2>1. CASE g = f
    BY <1>2, <1>4, <2>1
  <2>2. CASE g # f
    BY <1>3, <2>2
  <2> QED
    BY <2>1, <2>2
<1>10. OneFilePerEnd' /\ Ends'
  BY <1>6, <1>9, SameEnds
<1> QED
  BY <1>7, <1>8, <1>10

\* pipeClose clears the flag of the end that it closes, and frees the pipe if
\* the flag of the other end is not set.
LEMMA AfterCloseFact ==
    ASSUME NEW p \in PipeRecords, NEW w \in BOOLEAN
    PROVE  LET q == AfterClose(Closing(p, w))
           IN  /\ q \in PipeRecords \cup {NoPipe}
               /\ q = NoPipe <=> (IF w THEN ~ p.readopen ELSE ~ p.writeopen)
               /\ q # NoPipe => /\ q.readopen = (p.readopen /\ w)
                               /\ q.writeopen = (p.writeopen /\ ~ w)
<1> DEFINE c == Closing(p, w)
<1>1. (p.writeopen /\ ~ w) \in BOOLEAN /\ (p.readopen /\ w) \in BOOLEAN
  OBVIOUS
<1>2. /\ c \in PipeRecords
      /\ c.readopen = (p.readopen /\ w) /\ c.writeopen = (p.writeopen /\ ~ w)
  BY <1>1 DEF Closing, PipeRecords
<1>3. c # NoPipe
  BY <1>2, SetsAssumption
<1> HIDE DEF c
<1> QED
  BY <1>2, <1>3 DEF AfterClose, c

\* close of the last descriptor of a file, and with it of an end of a pipe.
LEMMA TheLast ==
    ASSUME Typed, Counted, OneFilePerEnd, Ends,
           NEW u \in Users, NEW d \in PipeFds, NEW f \in PipeFiles, f = pfds[u][d],
           pfds' = [pfds EXCEPT ![u][d] = NoPipe], ptable[f].ref = 1,
           NEW k \in 1 .. Len(pipes), k = ptable[f].pipe, pipes[k] # NoPipe,
           NEW w \in BOOLEAN, w = ptable[f].writable,
           ptable' = [ptable EXCEPT ![f] = Shut],
           pipes' = [pipes EXCEPT ![k] = AfterClose(Closing(pipes[k], w))], UNCHANGED sent
    PROVE  Typed' /\ Counted' /\ OneFilePerEnd' /\ Ends'
<1> DEFINE p == pipes[k]
           q == AfterClose(Closing(p, w))
<1>1. /\ pfds' \in FdTables
      /\ Cardinality(Fd(f)') = Cardinality(Fd(f)) - 1
      /\ \A g \in PipeFiles : g # f => Fd(g)' = Fd(g)
  BY FdClosed
<1>2. p \in PipeRecords
  BY DEF Typed
<1>3. /\ q \in PipeRecords \cup {NoPipe}
      /\ q = NoPipe <=> (IF w THEN ~ p.readopen ELSE ~ p.writeopen)
      /\ q # NoPipe => q.readopen = (p.readopen /\ w) /\ q.writeopen = (p.writeopen /\ ~ w)
  BY <1>2, AfterCloseFact
<1> HIDE DEF q
<1>4. /\ pipes' \in Seq(PipeRecords \cup {NoPipe}) /\ Len(pipes') = Len(pipes)
      /\ pipes'[k] = q /\ \A j \in 1 .. Len(pipes) : j # k => pipes'[j] = pipes[j]
  <2>1. pipes' = [pipes EXCEPT ![k] = q]
    BY DEF q
  <2> QED
    BY <1>3, <2>1 DEF Typed
<1> HIDE DEF p
<1>5. /\ ptable'[f] = Shut /\ \A g \in PipeFiles : g # f => ptable'[g] = ptable[g]
      /\ ptable' \in [PipeFiles -> [ref : Nat, pipe : Nat, writable : BOOLEAN]]
  BY DEF Typed, Shut
<1>6. Shut.ref = 0 /\ Shut.pipe = 0
  BY DEF Shut
<1>7. Typed'
  <2>1. Len(pipes) \in Nat
    BY DEF Typed
  <2>2. \A g \in PipeFiles : ptable'[g].pipe <= Len(pipes')
    BY <1>4, <1>5, <1>6, <2>1 DEF Typed
  <2> QED
    BY <1>1, <1>4, <1>5, <2>2 DEF Typed, FdTables
<1>8. Counted'
  <2> SUFFICES ASSUME NEW g \in PipeFiles PROVE ptable'[g].ref = Cardinality(Fd(g)')
    BY DEF Counted
  <2> QED
    BY <1>1, <1>5, <1>6 DEF Counted
<1>9. OneFilePerEnd'
  BY <1>5, <1>6 DEF OneFilePerEnd
<1>10. \A j \in 1 .. Len(pipes), v \in BOOLEAN : j # k \/ v # w => Open(j, v)' = Open(j, v)
  BY <1>5, <1>6 DEF Open, EndOf
<1>11. ~ Open(k, w)'
  BY <1>5, <1>6 DEF Open, EndOf, OneFilePerEnd
<1>12. Open(k, w)
  BY DEF Open, EndOf
<1>13. Ends'
  <2> SUFFICES ASSUME NEW j \in 1 .. Len(pipes)
               PROVE  IF pipes'[j] = NoPipe THEN ~ Open(j, TRUE)' /\ ~ Open(j, FALSE)'
                      ELSE pipes'[j].readopen = Open(j, FALSE)' /\ pipes'[j].writeopen = Open(j, TRUE)'
    BY <1>4 DEF Ends
  <2>1. CASE j # k
    BY <1>4, <1>10, <2>1 DEF Ends
  <2>2. CASE j = k
    <3>1. p.readopen = Open(k, FALSE) /\ p.writeopen = Open(k, TRUE)
      BY DEF Ends, p
    <3>2. CASE w
      <4>1. w = TRUE
        BY <3>2
      <4>2. Open(k, FALSE)' = Open(k, FALSE) /\ Open(k, TRUE)' = FALSE
        BY <4>1, <1>10, <1>11 DEF Open
      <4>3. q = NoPipe => ~ p.readopen
        BY <1>3, <4>1
      <4>4. q # NoPipe => q.readopen = p.readopen /\ q.writeopen = FALSE
        BY <1>2, <1>3, <4>1 DEF PipeRecords
      <4>5. pipes'[j] = q
        BY <1>4, <2>2
      <4>6. CASE q = NoPipe
        <5>1. ~ Open(k, FALSE)' /\ ~ Open(k, TRUE)'
          BY <3>1, <4>2, <4>3, <4>6
        <5> QED
          BY <2>2, <4>5, <4>6, <5>1
      <4>7. CASE q # NoPipe
        <5>1. q.readopen = Open(k, FALSE)' /\ q.writeopen = Open(k, TRUE)'
          BY <3>1, <4>2, <4>4, <4>7
        <5> QED
          BY <2>2, <4>5, <4>7, <5>1
      <4> QED
        BY <4>6, <4>7
    <3>3. CASE ~ w
      <4>1. w = FALSE
        BY <3>3
      <4>2. Open(k, TRUE)' = Open(k, TRUE) /\ Open(k, FALSE)' = FALSE
        BY <4>1, <1>10, <1>11 DEF Open
      <4>3. q = NoPipe => ~ p.writeopen
        BY <1>3, <4>1
      <4>4. q # NoPipe => q.writeopen = p.writeopen /\ q.readopen = FALSE
        BY <1>2, <1>3, <4>1 DEF PipeRecords
      <4>5. pipes'[j] = q
        BY <1>4, <2>2
      <4>6. CASE q = NoPipe
        <5>1. ~ Open(k, TRUE)' /\ ~ Open(k, FALSE)'
          BY <3>1, <4>2, <4>3, <4>6
        <5> QED
          BY <2>2, <4>5, <4>6, <5>1
      <4>7. CASE q # NoPipe
        <5>1. q.writeopen = Open(k, TRUE)' /\ q.readopen = Open(k, FALSE)'
          BY <3>1, <4>2, <4>4, <4>7
        <5> QED
          BY <2>2, <4>5, <4>7, <5>1
      <4> QED
        BY <4>6, <4>7
    <3> QED
      BY <3>2, <3>3
  <2> QED
    BY <2>1, <2>2
<1> QED
  BY <1>7, <1>8, <1>9, <1>13

\* close
LEMMA PipeCloseStep ==
    ASSUME Typed, Counted, OneFilePerEnd, Ends,
           NEW u \in Users, NEW d \in PipeFds, PipeClose(u, d)
    PROVE  Typed' /\ Counted' /\ OneFilePerEnd' /\ Ends'
<1>1. pfds[u][d] # NoPipe
  BY DEF PipeClose
<1>2. PICK f \in PipeFiles : f = pfds[u][d] /\ ptable[f].ref > 0
  BY <1>1, FileOfFd
<1>3. pfds' = [pfds EXCEPT ![u][d] = NoPipe] /\ UNCHANGED sent
  BY DEF PipeClose
<1>4. CASE ptable[f].ref # 1 \/ ptable[f].pipe = 0
  <2>1. ptable' = [ptable EXCEPT ![f].ref = @ - 1] /\ UNCHANGED pipes
    BY <1>2, <1>4 DEF PipeClose
  <2> QED
    BY <1>2, <1>3, <1>4, <2>1, NotTheLast
<1>5. CASE ~ (ptable[f].ref # 1 \/ ptable[f].pipe = 0)
  <2>1. /\ Lockable(f) /\ ptable' = [ptable EXCEPT ![f] = Shut]
        /\ pipes' = [pipes EXCEPT ![ptable[f].pipe] =
                        AfterClose(Closing(pipes[ptable[f].pipe], ptable[f].writable))]
    <3>1. Lockable(f) /\ ptable' = [ptable EXCEPT ![f] = Shut]
      BY <1>2, <1>5 DEF PipeClose
    <3>2. pipes' = [pipes EXCEPT ![ptable[f].pipe] =
                        AfterClose(Closing(@, ptable[f].writable))]
      BY <1>2, <1>5 DEF PipeClose
    <3> QED
      BY <3>1, <3>2
  <2>2. PICK k \in 1 .. Len(pipes) : k = ptable[f].pipe
    <3>1. Len(pipes) \in Nat
      BY DEF Typed
    <3> QED
      BY <1>5, <3>1 DEF Typed
  <2>3. PICK w \in BOOLEAN : w = ptable[f].writable
    BY DEF Typed
  <2>4. pipes[k] # NoPipe /\ pipes' = [pipes EXCEPT ![k] = AfterClose(Closing(pipes[k], w))]
    BY <2>1, <2>2, <2>3 DEF Lockable
  <2> QED
    BY <1>2, <1>3, <1>5, <2>1, <2>2, <2>3, <2>4, TheLast
<1> QED
  BY <1>4, <1>5

\* sys_pipe2
LEMMA Pipe2Step ==
    ASSUME Typed, Counted, OneFilePerEnd, Ends, NEW u \in Users, Pipe2(u)
    PROVE  Typed' /\ Counted' /\ OneFilePerEnd' /\ Ends'
<1>1. NoRef \subseteq Nat /\ NoFile(u) \subseteq Nat
      /\ Cardinality(NoRef) >= 2 /\ Cardinality(NoFile(u)) >= 2
  BY SetsAssumption DEF Pipe2, NoRef, NoFile
<1>2. PICK f0, f1 \in PipeFiles :
        /\ f0 = Least(NoRef) /\ f1 = Least(NoRef \ {f0}) /\ f0 # f1
        /\ ptable[f0].ref = 0 /\ ptable[f1].ref = 0
  <2> DEFINE a == Least(NoRef)
             b == Least(NoRef \ {a})
  <2>1. a \in NoRef /\ b \in NoRef \ {a}
    BY <1>1, TwoElements
  <2> HIDE DEF a, b
  <2>2. a \in PipeFiles /\ b \in PipeFiles /\ ptable[a].ref = 0 /\ ptable[b].ref = 0 /\ a # b
    BY <2>1 DEF NoRef
  <2> QED
    BY <2>2 DEF a, b
<1>3. PICK d0, d1 \in PipeFds :
        /\ d0 = Least(NoFile(u)) /\ d1 = Least(NoFile(u) \ {d0}) /\ d0 # d1
        /\ pfds[u][d0] = NoPipe /\ pfds[u][d1] = NoPipe
  <2> DEFINE a == Least(NoFile(u))
             b == Least(NoFile(u) \ {a})
  <2>1. a \in NoFile(u) /\ b \in NoFile(u) \ {a}
    BY <1>1, TwoElements
  <2> HIDE DEF a, b
  <2>2. a \in PipeFds /\ b \in PipeFds /\ pfds[u][a] = NoPipe /\ pfds[u][b] = NoPipe /\ a # b
    BY <2>1 DEF NoFile
  <2> QED
    BY <2>2 DEF a, b
<1>4. PICK k \in Nat : k = Len(pipes) + 1
  BY DEF Typed
<1> DEFINE e0 == [ref |-> 1, pipe |-> k, writable |-> FALSE]
           e1 == [ref |-> 1, pipe |-> k, writable |-> TRUE]
<1>5. /\ ptable' = [ptable EXCEPT ![f0] = e0, ![f1] = e1]
      /\ pfds' = [pfds EXCEPT ![u][d0] = f0, ![u][d1] = f1]
      /\ pipes' = Append(pipes, EmptyPipe) /\ sent' = Append(sent, <<>>)
  BY <1>2, <1>3, <1>4 DEF Pipe2
<1>6. /\ pfds' \in FdTables
      /\ Cardinality(Fd(f0)') = Cardinality(Fd(f0)) + 1
      /\ Cardinality(Fd(f1)') = Cardinality(Fd(f1)) + 1
      /\ \A g \in PipeFiles : g # f0 /\ g # f1 => Fd(g)' = Fd(g)
  <2> DEFINE F == With(pfds, u, d0, f0)
             G == With(F, u, d1, f1)
  <2>1. \A g \in PipeFiles : g # NoPipe
    BY SetsAssumption
  <2>2. pfds \in FdTables /\ pfds[u][d0] # f0 /\ f0 \in PipeFiles \cup {NoPipe}
    BY <1>3, <2>1 DEF Typed, FdTables
  <2>3. /\ F \in FdTables /\ F[u][d1] = pfds[u][d1]
        /\ Cardinality(FdIn(F, f0)) = Cardinality(FdIn(pfds, f0)) + 1
        /\ \A g : g # f0 /\ g # NoPipe => FdIn(F, g) = FdIn(pfds, g)
    BY <1>3, <2>2, SetFd
  <2> HIDE DEF F
  <2>4. F[u][d1] = NoPipe /\ F[u][d1] # f1 /\ f1 \in PipeFiles \cup {NoPipe}
    BY <1>3, <2>1, <2>3
  <2>5. /\ G \in FdTables
        /\ Cardinality(FdIn(G, f1)) = Cardinality(FdIn(F, f1)) + 1
        /\ \A g : g # f1 /\ g # NoPipe => FdIn(G, g) = FdIn(F, g)
    BY <2>3, <2>4, SetFd
  <2>6. pfds' = G
    BY <1>5 DEF F, G, With
  <2> HIDE DEF G
  <2>7. /\ Cardinality(FdIn(G, f0)) = Cardinality(FdIn(pfds, f0)) + 1
        /\ Cardinality(FdIn(G, f1)) = Cardinality(FdIn(pfds, f1)) + 1
        /\ \A g \in PipeFiles : g # f0 /\ g # f1 => FdIn(G, g) = FdIn(pfds, g)
    BY <1>2, <2>1, <2>3, <2>5
  <2> QED
    BY <2>5, <2>6, <2>7 DEF Fd
<1>7. /\ ptable'[f0] = e0 /\ ptable'[f1] = e1
      /\ \A g \in PipeFiles : g # f0 /\ g # f1 => ptable'[g] = ptable[g]
      /\ ptable' \in [PipeFiles -> [ref : Nat, pipe : Nat, writable : BOOLEAN]]
  BY <1>2, <1>5 DEF Typed
<1>8. EmptyPipe \in PipeRecords /\ EmptyPipe # NoPipe
      /\ EmptyPipe.readopen = TRUE /\ EmptyPipe.writeopen = TRUE
  <2>1. EmptyPipe \in PipeRecords /\ EmptyPipe.readopen = TRUE /\ EmptyPipe.writeopen = TRUE
    BY DEF EmptyPipe, PipeRecords
  <2> QED
    BY <2>1, SetsAssumption
<1>9. /\ pipes' \in Seq(PipeRecords \cup {NoPipe}) /\ Len(pipes') = k
      /\ pipes'[k] = EmptyPipe /\ \A j \in 1 .. Len(pipes) : pipes'[j] = pipes[j]
      /\ sent' \in Seq(Seq(Nat)) /\ Len(sent') = k
  BY <1>4, <1>5, <1>8 DEF Typed
<1>10. \A g \in PipeFiles : ptable[g].pipe \in Nat /\ ptable[g].pipe < k
  BY <1>4 DEF Typed
<1>11. Typed'
  <2>1. \A g \in PipeFiles : ptable'[g].pipe <= k
    BY <1>4, <1>7, <1>10
  <2> QED
    BY <1>6, <1>7, <1>9, <2>1 DEF Typed, FdTables
<1>12. Counted'
  <2> SUFFICES ASSUME NEW g \in PipeFiles PROVE ptable'[g].ref = Cardinality(Fd(g)')
    BY DEF Counted
  <2> QED
    BY <1>2, <1>6, <1>7 DEF Counted
<1>13. OneFilePerEnd'
  BY <1>7, <1>10 DEF OneFilePerEnd
<1>14. \A j \in 1 .. Len(pipes), v \in BOOLEAN : Open(j, v)' = Open(j, v)
  <2> SUFFICES ASSUME NEW j \in 1 .. Len(pipes), NEW v \in BOOLEAN, NEW g \in PipeFiles
               PROVE  EndOf(g, j, v)' <=> EndOf(g, j, v)
    BY DEF Open
  <2>1. j # k
    BY <1>4 DEF Typed
  <2> QED
    BY <1>2, <1>7, <2>1 DEF EndOf
<1>15. Open(k, FALSE)' /\ Open(k, TRUE)'
  BY <1>2, <1>7 DEF Open, EndOf
<1>16. Ends'
  <2> SUFFICES ASSUME NEW j \in 1 .. k
               PROVE  IF pipes'[j] = NoPipe THEN ~ Open(j, TRUE)' /\ ~ Open(j, FALSE)'
                      ELSE pipes'[j].readopen = Open(j, FALSE)' /\ pipes'[j].writeopen = Open(j, TRUE)'
    BY <1>9 DEF Ends
  <2>1. CASE j = k
    BY <1>8, <1>9, <1>15, <2>1
  <2>2. CASE j # k
    <3>1. j \in 1 .. Len(pipes)
      BY <1>4, <2>2 DEF Typed
    <3> QED
      BY <1>9, <1>14, <3>1 DEF Ends
  <2> QED
    BY <2>1, <2>2
<1> QED
  BY <1>11, <1>12, <1>13, <1>16

-----------------------------------------------------------------------------
(* The first theorem *)

\* There is no pipe at the start.
LEMMA IInvInit == PipesInit => IInv
<1> SUFFICES ASSUME PipesInit PROVE Typed /\ Counted /\ OneFilePerEnd /\ Ends
  BY DEF IInv
<1>1. /\ ptable = [f \in PipeFiles |-> Shut] /\ pipes = <<>> /\ sent = <<>>
      /\ pfds = [u \in Users |-> [d \in PipeFds |-> NoPipe]]
  BY DEF PipesInit
<1>2. Shut \in [ref : Nat, pipe : Nat, writable : BOOLEAN] /\ Shut.ref = 0 /\ Shut.pipe = 0
  BY DEF Shut
<1>3. Typed
  BY <1>1, <1>2 DEF Typed
<1>4. Counted
  <2> SUFFICES ASSUME NEW f \in PipeFiles PROVE ptable[f].ref = Cardinality(Fd(f))
    BY DEF Counted
  <2>1. f # NoPipe
    BY SetsAssumption
  <2>2. Fd(f) = {}
    BY <1>1, <2>1 DEF Fd, FdIn
  <2> QED
    BY <1>1, <1>2, <2>2, FS_EmptySet
<1>5. OneFilePerEnd /\ Ends
  BY <1>1, <1>2 DEF OneFilePerEnd, Ends
<1> QED
  BY <1>3, <1>4, <1>5

LEMMA IInvNext == IInv /\ [PipesNext]_pipeVars => IInv'
<1> SUFFICES ASSUME IInv, [PipesNext]_pipeVars, ~ astray'
             PROVE  Typed' /\ Counted' /\ OneFilePerEnd' /\ Ends'
  BY DEF IInv
<1>1. CASE UNCHANGED pipeVars
  BY <1>1 DEF pipeVars, IInv, Typed, Counted, OneFilePerEnd, Ends, Fd, FdIn, Open, EndOf
<1>2. CASE PipesNext
  <2>1. ~ astray
    <3>1. \A u \in Users : Pipe2(u) => UNCHANGED astray
      BY DEF Pipe2
    <3>2. \A u \in Users : ~ Pipe2Fails(u)
      BY DEF Pipe2Fails
    <3>3. \A u \in Users, d \in PipeFds : PipeDup(u, d) \/ PipeClose(u, d) => UNCHANGED astray
      BY DEF PipeDup, PipeClose
    <3>4. \A u \in Users, d \in PipeFds, n \in 1 .. PIPESIZE + 1 :
              PipeWrite(u, d, n) => UNCHANGED astray
      BY DEF PipeWrite
    <3>5. \A u \in Users, d \in PipeFds, n \in 1 .. PIPESIZE + 1 :
              PipeRead(u, d, n) => UNCHANGED astray
      BY DEF PipeRead
    <3> QED
      BY <1>2, <3>1, <3>2, <3>3, <3>4, <3>5 DEF PipesNext
  <2>2. Typed /\ Counted /\ OneFilePerEnd /\ Ends
    BY <2>1 DEF IInv
  <2>3. PICK u \in Users :
          \/ Pipe2(u) \/ Pipe2Fails(u)
          \/ \E d \in PipeFds :
               \/ PipeDup(u, d) \/ PipeClose(u, d)
               \/ \E n \in 1 .. PIPESIZE + 1 : PipeWrite(u, d, n) \/ PipeRead(u, d, n)
    BY <1>2 DEF PipesNext
  <2>4. CASE Pipe2(u)
    BY <2>2, <2>4, Pipe2Step
  <2>5. CASE Pipe2Fails(u)
    BY <2>5 DEF Pipe2Fails
  <2>6. ASSUME NEW d \in PipeFds, PipeDup(u, d)
        PROVE  Typed' /\ Counted' /\ OneFilePerEnd' /\ Ends'
    BY <2>2, <2>6, PipeDupStep
  <2>7. ASSUME NEW d \in PipeFds, PipeClose(u, d)
        PROVE  Typed' /\ Counted' /\ OneFilePerEnd' /\ Ends'
    BY <2>2, <2>7, PipeCloseStep
  <2>8. ASSUME NEW d \in PipeFds, NEW n \in 1 .. PIPESIZE + 1, PipeWrite(u, d, n)
        PROVE  Typed' /\ Counted' /\ OneFilePerEnd' /\ Ends'
    BY <2>2, <2>8, PipeWriteStep
  <2>9. ASSUME NEW d \in PipeFds, NEW n \in 1 .. PIPESIZE + 1, PipeRead(u, d, n)
        PROVE  Typed' /\ Counted' /\ OneFilePerEnd' /\ Ends'
    BY <2>2, <2>9, PipeReadStep
  <2> QED
    BY <2>3, <2>4, <2>5, <2>6, <2>7, <2>8, <2>9
<1> QED
  BY <1>1, <1>2

LEMMA IInvEnds == IInv => EndsAreKnown
<1> SUFFICES ASSUME IInv, ~ astray, NEW k \in DOMAIN pipes
             PROVE  IF pipes[k] = NoPipe THEN ~ Open(k, TRUE) /\ ~ Open(k, FALSE)
                    ELSE pipes[k].readopen = Open(k, FALSE) /\ pipes[k].writeopen = Open(k, TRUE)
  BY DEF EndsAreKnown, Open, EndOf
<1>1. DOMAIN pipes = 1 .. Len(pipes)
  BY DEF IInv, Typed
<1> QED
  BY <1>1 DEF IInv, Ends

\* Whatever the processes do with the descriptors of their pipes (sys_pipe2,
\* dup, close, read and write), and however many of them there are: as long as
\* sys_pipe2 has not run out of descriptors, readopen and writeopen of a pipe
\* say whether a file refers to that end, and the pipe is freed when none does.
THEOREM EndsAreAlwaysKnown == PipesSpec => []EndsAreKnown
<1>1. PipesInit => IInv
  BY IInvInit
<1>2. IInv /\ [PipesNext]_pipeVars => IInv'
  BY IInvNext
<1>3. IInv => EndsAreKnown
  BY IInvEnds
<1> QED
  BY <1>1, <1>2, <1>3, PTL DEF PipesSpec

-----------------------------------------------------------------------------
(* Arithmetic of the u32 counters. *)

\* a is q times n and r over.
Split(a, n, q, r) == a = n * q + r

LEMMA Sizes == /\ PIPESIZE \in Nat /\ PIPESIZE > 0 /\ PIPESIZE < Width
               /\ Width \in Nat /\ Width > 0
  BY WidthAssumption

LEMMA Euclid ==
    ASSUME NEW a \in Int, NEW n \in Nat, n > 0
    PROVE  a % n \in 0 .. n - 1 /\ \E q \in Int : Split(a, n, q, a % n)
<1>1. PICK q \in Int : q = a \div n
  OBVIOUS
<1>2. PICK r \in Int : r = a % n
  OBVIOUS
<1>3. a = n * q + r
  BY <1>1, <1>2
<1>4. r \in 0 .. n - 1
  BY <1>2
<1>5. Split(a, n, q, r)
  BY <1>3 DEF Split
<1> QED
  BY <1>2, <1>4, <1>5

LEMMA Remainder ==
    ASSUME NEW a \in Int, NEW n \in Nat, n > 0, NEW q \in Int, NEW r \in 0 .. n - 1, Split(a, n, q, r)
    PROVE  a % n = r
  BY DEF Split

\* A counter that is reduced at every step is the reduced count of the steps.
LEMMA CountUp ==
    ASSUME NEW a \in Nat, NEW i \in Nat
    PROVE  ((a % Width) + i) % Width = (a + i) % Width
<1>1. PICK r \in Nat, q \in Int : r = a % Width /\ Split(a, Width, q, r)
  <2>1. a \in Int /\ a % Width \in Nat
    BY Sizes, Euclid
  <2> QED
    BY <2>1, Sizes, Euclid
<1>2. r + i \in Int
  OBVIOUS
<1>3. PICK s \in 0 .. Width - 1, p \in Int : s = (r + i) % Width /\ Split(r + i, Width, p, s)
  BY <1>2, Sizes, Euclid
<1>4. Split(a + i, Width, q + p, s)
  BY <1>1, <1>3, Sizes DEF Split
<1>5. (a + i) % Width = s
  <2>1. a + i \in Int /\ q + p \in Int
    OBVIOUS
  <2> QED
    BY <1>4, <2>1, Sizes, Remainder
<1> QED
  BY <1>1, <1>3, <1>5

\* The places of the buffer go round with the counter, also past 2^32.
LEMMA PlaceOf ==
    ASSUME NEW a \in Nat
    PROVE  (a % Width) % PIPESIZE = a % PIPESIZE
<1>1. PICK r \in Int, q \in Int : r = a % Width /\ Split(a, Width, q, r)
  <2>1. a \in Int /\ a % Width \in Int
    BY Sizes, Euclid
  <2> QED
    BY <2>1, Sizes, Euclid
<1>2. PICK w \in Int : Split(Width, PIPESIZE, w, 0)
  <2>1. Width \in Int /\ Width % PIPESIZE = 0
    BY WidthAssumption
  <2> QED
    BY <2>1, Sizes, Euclid
<1>3. PICK s \in 0 .. PIPESIZE - 1, p \in Int : s = r % PIPESIZE /\ Split(r, PIPESIZE, p, s)
  BY Sizes, Euclid
<1>4. PICK v \in Int : v = w * q + p
  OBVIOUS
<1>5. Split(a, PIPESIZE, v, s)
  BY <1>1, <1>2, <1>3, <1>4, Sizes DEF Split
<1>6. a % PIPESIZE = s
  <2>1. a \in Int
    OBVIOUS
  <2> QED
    BY <1>5, <2>1, Sizes, Remainder
<1> QED
  BY <1>1, <1>3, <1>6

\* The difference of two counters in u32 is that of the counts.
LEMMA Difference ==
    ASSUME NEW a \in Int, NEW b \in Int, NEW c \in Int, 0 <= c + a - b, c + a - b < Width
    PROVE  ((a % Width) + c - (b % Width)) % Width = c + a - b
<1>1. PICK x \in Int, q \in Int : x = a % Width /\ Split(a, Width, q, x)
  <2>1. a % Width \in Int
    BY Sizes, Euclid
  <2> QED
    BY <2>1, Sizes, Euclid
<1>2. PICK y \in Int, p \in Int : y = b % Width /\ Split(b, Width, p, y)
  <2>1. b % Width \in Int
    BY Sizes, Euclid
  <2> QED
    BY <2>1, Sizes, Euclid
<1>3. PICK z \in 0 .. Width - 1 : z = c + a - b
  BY Sizes
<1>4. PICK h \in Int : h = x + c - y
  OBVIOUS
<1>5. Split(h, Width, p - q, z)
  BY <1>1, <1>2, <1>3, <1>4, Sizes DEF Split
<1>6. h % Width = z
  <2>1. p - q \in Int
    OBVIOUS
  <2> QED
    BY <1>5, <2>1, Sizes, Remainder
<1> QED
  BY <1>1, <1>2, <1>3, <1>4, <1>6

\* Two counts less than PIPESIZE apart have different places.
LEMMA PlacesDiffer ==
    ASSUME NEW a \in Nat, NEW b \in Nat, a < b, b < a + PIPESIZE
    PROVE  a % PIPESIZE # b % PIPESIZE
<1> SUFFICES ASSUME a % PIPESIZE = b % PIPESIZE PROVE FALSE
  OBVIOUS
<1>0. a \in Int /\ b \in Int
  OBVIOUS
<1>1. PICK r \in 0 .. PIPESIZE - 1, q \in Int : r = a % PIPESIZE /\ Split(a, PIPESIZE, q, r)
  BY <1>0, Sizes, Euclid
<1>2. PICK p \in Int : Split(b, PIPESIZE, p, r)
  BY <1>0, <1>1, Sizes, Euclid
<1>3. PICK d \in Int : d = p - q
  OBVIOUS
<1>4. b - a = PIPESIZE * d
  BY <1>1, <1>2, <1>3, Sizes DEF Split
<1>5. d <= 0 => PIPESIZE * d <= 0
  BY Sizes
<1>6. d >= 1 => PIPESIZE * d >= PIPESIZE
  BY Sizes
<1> QED
  BY <1>4, <1>5, <1>6, Sizes

\* Where the code looks for the byte with a given number.
LEMMA CellOf ==
    ASSUME NEW a \in Nat, NEW i \in Nat
    PROVE  Cell(a % Width, i) = (a + i) % PIPESIZE
<1>1. ((a % Width) + i) % Width = (a + i) % Width
  BY CountUp
<1>2. ((a + i) % Width) % PIPESIZE = (a + i) % PIPESIZE
  BY PlaceOf
<1> QED
  BY <1>1, <1>2 DEF Cell

-----------------------------------------------------------------------------
(* The contents of a pipe. *)

\* The counters are the reduced numbers of bytes written and read, and the
\* bytes between them are in their places.
Buffered(p, S, T) ==
    /\ p.nread = Len(T) % Width /\ p.nwrite = Len(S) % Width
    /\ Len(S) - Len(T) <= PIPESIZE
    /\ \A j \in Nat : Len(T) <= j /\ j < Len(S) => p.data[j % PIPESIZE] = S[j + 1]

\* What was read is the beginning of what was written.
Prefix(S, T) == Len(T) <= Len(S) /\ \A i \in 1 .. Len(T) : T[i] = S[i]

LEMMA WaitingFact ==
    ASSUME NEW p \in PipeRecords, NEW S \in Seq(Nat), NEW T \in Seq(Nat),
           Prefix(S, T), Buffered(p, S, T)
    PROVE  /\ Waiting(p) = Len(S) - Len(T)
           /\ Room(p) = Len(T) + PIPESIZE - Len(S)
<1>1. PICK s \in Nat, t \in Nat : s = Len(S) /\ t = Len(T)
  OBVIOUS
<1>2. t <= s /\ s - t <= PIPESIZE /\ p.nread = t % Width /\ p.nwrite = s % Width
  BY <1>1 DEF Prefix, Buffered
<1>3. PIPESIZE \in Nat /\ Width \in Nat /\ PIPESIZE < Width
  BY WidthAssumption
<1>4. ((s % Width) + 0 - (t % Width)) % Width = 0 + s - t
  <2>1. s \in Int /\ t \in Int /\ 0 \in Int /\ 0 <= 0 + s - t /\ 0 + s - t < Width
    BY <1>2, <1>3
  <2> QED
    BY <2>1, Difference
<1>5. ((t % Width) + PIPESIZE - (s % Width)) % Width = PIPESIZE + t - s
  <2>1. s \in Int /\ t \in Int /\ PIPESIZE \in Int /\ 0 <= PIPESIZE + t - s /\ PIPESIZE + t - s < Width
    BY <1>2, <1>3
  <2> QED
    BY <2>1, Difference
<1>6. s % Width \in Int /\ t % Width \in Int
  BY <1>3, Euclid
<1> QED
  BY <1>1, <1>2, <1>3, <1>4, <1>5, <1>6 DEF Waiting, Room

\* pipeWrite stores the new bytes behind the old ones and over none of them.
LEMMA StoredPlaces ==
    ASSUME NEW D \in [0 .. PIPESIZE - 1 -> Nat], NEW s \in Nat, NEW b \in Seq(Nat),
           Len(b) <= PIPESIZE
    PROVE  /\ \A j \in Nat : j < Len(b) => Stored(D, s % Width, b)[(s + j) % PIPESIZE] = b[j + 1]
           /\ \A i \in Nat : i < s /\ s + Len(b) <= i + PIPESIZE =>
                  Stored(D, s % Width, b)[i % PIPESIZE] = D[i % PIPESIZE]
<1> DEFINE w == s % Width
           P == 0 .. Len(b) - 1
           at(c) == CHOOSE i \in P : Cell(w, i) = c
           N == Stored(D, w, b)
<1>0. PIPESIZE \in Nat /\ PIPESIZE > 0 /\ Len(b) \in Nat
  BY WidthAssumption
<1>1. \A i \in P : i \in Nat /\ Cell(w, i) = (s + i) % PIPESIZE
  BY <1>0, CellOf
<1>2. \A c \in 0 .. PIPESIZE - 1 :
        N[c] = IF c \in {Cell(w, i) : i \in P} THEN b[at(c) + 1] ELSE D[c]
  BY DEF Stored
<1>3. ASSUME NEW i \in Nat PROVE i % PIPESIZE \in 0 .. PIPESIZE - 1
  <2>1. i \in Int
    OBVIOUS
  <2> QED
    BY <1>0, <2>1, Euclid
<1> HIDE DEF N, at, w, P
<1>4. ASSUME NEW j \in Nat, j < Len(b) PROVE N[(s + j) % PIPESIZE] = b[j + 1]
  <2>1. j \in P
    BY <1>0, <1>4 DEF P
  <2>2. PICK c \in 0 .. PIPESIZE - 1 : c = (s + j) % PIPESIZE
    <3>1. s + j \in Nat
      OBVIOUS
    <3> QED
      BY <1>3, <3>1
  <2>3. Cell(w, j) = c
    BY <1>1, <2>1, <2>2
  <2>4. at(c) \in P /\ Cell(w, at(c)) = c
    BY <2>1, <2>3 DEF at
  <2>5. PICK i \in P : i = at(c)
    BY <2>4
  <2>6. i \in Nat /\ i < Len(b) /\ (s + i) % PIPESIZE = (s + j) % PIPESIZE
    <3>1. i \in Nat /\ Cell(w, i) = (s + i) % PIPESIZE
      BY <1>1, <2>5
    <3>2. i < Len(b)
      BY <1>0, <2>5 DEF P
    <3> QED
      BY <2>2, <2>4, <2>5, <3>1, <3>2
  <2>7. i = j
    <3>1. CASE i < j
      <4>1. s + i < s + j /\ s + j < (s + i) + PIPESIZE /\ s + i \in Nat /\ s + j \in Nat
        BY <1>0, <1>4, <2>6, <3>1
      <4> QED
        BY <2>6, <4>1, PlacesDiffer
    <3>2. CASE j < i
      <4>1. s + j < s + i /\ s + i < (s + j) + PIPESIZE /\ s + i \in Nat /\ s + j \in Nat
        BY <1>0, <1>4, <2>6, <3>2
      <4> QED
        BY <2>6, <4>1, PlacesDiffer
    <3> QED
      BY <2>6, <3>1, <3>2
  <2>8. c \in {Cell(w, k) : k \in P}
    BY <2>1, <2>3
  <2> QED
    BY <1>2, <2>2, <2>5, <2>7, <2>8
<1>5. ASSUME NEW i \in Nat, i < s, s + Len(b) <= i + PIPESIZE
      PROVE  N[i % PIPESIZE] = D[i % PIPESIZE]
  <2>1. PICK c \in 0 .. PIPESIZE - 1 : c = i % PIPESIZE
    BY <1>3
  <2>2. ASSUME NEW k \in P PROVE Cell(w, k) # c
    <3>1. k \in Nat /\ k < Len(b) /\ Cell(w, k) = (s + k) % PIPESIZE
      BY <1>0, <1>1 DEF P
    <3>2. i < s + k /\ s + k < i + PIPESIZE /\ s + k \in Nat
      BY <1>0, <1>5, <3>1
    <3>3. i % PIPESIZE # (s + k) % PIPESIZE
      BY <3>2, PlacesDiffer
    <3> QED
      BY <2>1, <3>1, <3>3
  <2>3. c \notin {Cell(w, k) : k \in P}
    BY <2>2
  <2> QED
    BY <1>2, <2>1, <2>3
<1> QED
  BY <1>4, <1>5 DEF N, w

LEMMA WriteKeeps ==
    ASSUME NEW p \in PipeRecords, NEW S \in Seq(Nat), NEW T \in Seq(Nat), NEW n \in Nat,
           NEW b \in Seq(Nat), b = Fitting(p, n, Len(S)), Prefix(S, T), Buffered(p, S, T)
    PROVE  Prefix(S \o b, T) /\ Buffered(AfterWrite(p, b, n), S \o b, T)
<1>0. PIPESIZE \in Nat /\ PIPESIZE > 0 /\ Width \in Nat
  BY WidthAssumption
<1>1. PICK s \in Nat, t \in Nat, m \in Nat : s = Len(S) /\ t = Len(T) /\ m = Len(b)
  OBVIOUS
<1>2. Len(S \o b) = s + m /\ S \o b \in Seq(Nat)
  BY <1>1
<1>3. /\ \A i \in 1 .. s : (S \o b)[i] = S[i]
      /\ \A i \in 1 .. m : (S \o b)[s + i] = b[i]
  BY <1>1
<1>4. t <= s /\ s - t <= PIPESIZE
  BY <1>1 DEF Prefix, Buffered
<1>5. m <= t + PIPESIZE - s
  <2>1. Room(p) = t + PIPESIZE - s
    BY <1>1, WaitingFact
  <2>2. m = IF n <= Room(p) THEN n ELSE Room(p)
    BY <1>1, RoomFact DEF Fitting
  <2> QED
    BY <1>0, <2>1, <2>2
<1>6. Prefix(S \o b, T)
  BY <1>1, <1>2, <1>3, <1>4 DEF Prefix
<1>7. p.data \in [0 .. PIPESIZE - 1 -> Nat] /\ p.nwrite = s % Width /\ p.nread = t % Width
  BY <1>1 DEF PipeRecords, Buffered
<1>8. PICK N : N = Stored(p.data, s % Width, b)
  OBVIOUS
<1>9. PICK q : q = AfterWrite(p, b, n)
  OBVIOUS
<1>10. q.data = N /\ q.nread = t % Width /\ q.nwrite = (s + m) % Width
  <2>1. q.data = N /\ q.nread = p.nread /\ q.nwrite = (p.nwrite + m) % Width
    BY <1>1, <1>7, <1>8, <1>9 DEF AfterWrite, PipeRecords
  <2> QED
    BY <1>7, <2>1, CountUp
<1>11. /\ \A j \in Nat : j < m => N[(s + j) % PIPESIZE] = b[j + 1]
       /\ \A i \in Nat : i < s /\ s + m <= i + PIPESIZE => N[i % PIPESIZE] = p.data[i % PIPESIZE]
  <2>1. Len(b) <= PIPESIZE
    BY <1>0, <1>1, <1>4, <1>5
  <2>2. PICK D \in [0 .. PIPESIZE - 1 -> Nat] : D = p.data
    BY <1>7
  <2>3. /\ \A j \in Nat : j < Len(b) => Stored(D, s % Width, b)[(s + j) % PIPESIZE] = b[j + 1]
        /\ \A i \in Nat : i < s /\ s + Len(b) <= i + PIPESIZE =>
              Stored(D, s % Width, b)[i % PIPESIZE] = D[i % PIPESIZE]
    BY <2>1, StoredPlaces
  <2> QED
    BY <1>1, <1>8, <2>2, <2>3
<1>12. ASSUME NEW j \in Nat, t <= j, j < s + m PROVE N[j % PIPESIZE] = (S \o b)[j + 1]
  <2>1. CASE j < s
    <3>1. s + m <= j + PIPESIZE /\ j + 1 \in 1 .. s
      BY <1>0, <1>5, <1>12, <2>1
    <3>2. p.data[j % PIPESIZE] = S[j + 1]
      BY <1>1, <1>12, <2>1 DEF Buffered
    <3> QED
      BY <1>3, <1>11, <2>1, <3>1, <3>2
  <2>2. CASE ~ (j < s)
    <3>1. PICK i \in Nat : j = s + i /\ i < m
      <4>1. j - s \in Nat /\ j = s + (j - s) /\ j - s < m
        BY <1>12, <2>2
      <4> QED
        BY <4>1
    <3>2. N[(s + i) % PIPESIZE] = b[i + 1]
      BY <1>11, <3>1
    <3>3. i + 1 \in 1 .. m /\ s + (i + 1) = j + 1
      BY <3>1
    <3>4. (S \o b)[j + 1] = b[i + 1]
      BY <1>3, <3>3
    <3> QED
      BY <3>1, <3>2, <3>4
  <2> QED
    BY <2>1, <2>2
<1>13. Buffered(q, S \o b, T)
  <2>1. (s + m) - t <= PIPESIZE
    BY <1>0, <1>5
  <2> QED
    BY <1>1, <1>2, <1>10, <1>12, <2>1 DEF Buffered
<1> QED
  BY <1>6, <1>9, <1>13

LEMMA ReadKeeps ==
    ASSUME NEW p \in PipeRecords, NEW S \in Seq(Nat), NEW T \in Seq(Nat), NEW n \in Nat,
           NEW b, b = Available(p, n), Prefix(S, T), Buffered(p, S, T)
    PROVE  /\ b \in Seq(Nat)
           /\ Prefix(S, T \o b) /\ Buffered(AfterRead(p, Len(b), n), S, T \o b)
<1>0. PIPESIZE \in Nat /\ PIPESIZE > 0 /\ Width \in Nat
  BY WidthAssumption
<1>1. PICK s \in Nat, t \in Nat : s = Len(S) /\ t = Len(T)
  OBVIOUS
<1>2. t <= s /\ s - t <= PIPESIZE /\ p.nread = t % Width /\ p.nwrite = s % Width
  BY <1>1 DEF Prefix, Buffered
<1>3. Waiting(p) = s - t
  BY <1>1, WaitingFact
<1>4. PICK m \in Nat : m <= s - t /\ m = IF n <= Waiting(p) THEN n ELSE Waiting(p)
  <2>1. PICK w \in Nat : w = s - t
    BY <1>2
  <2>2. n <= w \/ w <= n
    OBVIOUS
  <2>3. CASE n <= w
    BY <1>3, <2>1, <2>3
  <2>4. CASE ~ (n <= w)
    BY <1>3, <2>1, <2>2, <2>4
  <2> QED
    BY <2>3, <2>4
<1>5. b = [i \in 1 .. m |-> p.data[Cell(p.nread, i - 1)]]
  BY <1>4 DEF Available
<1>6. ASSUME NEW i \in 1 .. m PROVE b[i] = S[t + i] /\ b[i] \in Nat
  <2>1. i - 1 \in Nat /\ t + (i - 1) \in Nat /\ t <= t + (i - 1) /\ t + (i - 1) < s
        /\ (t + (i - 1)) + 1 = t + i /\ t + i \in 1 .. s
    BY <1>4
  <2>2. Cell(p.nread, i - 1) = (t + (i - 1)) % PIPESIZE
    BY <1>2, <2>1, CellOf
  <2>3. b[i] = p.data[(t + (i - 1)) % PIPESIZE]
    BY <1>5, <2>2
  <2>4. p.data[(t + (i - 1)) % PIPESIZE] = S[(t + (i - 1)) + 1]
    BY <1>1, <2>1 DEF Buffered
  <2>5. b[i] = S[t + i]
    BY <2>1, <2>3, <2>4
  <2>6. S[t + i] \in Nat
    BY <1>1, <2>1
  <2> QED
    BY <2>5, <2>6
<1>7. b \in [1 .. m -> Nat]
  BY <1>5, <1>6
<1>8. b \in Seq(Nat) /\ Len(b) = m
  <2> HIDE DEF Available
  <2>1. b \in Seq(Nat)
    BY <1>7
  <2> QED
    BY <1>7, <2>1
<1>9. Len(T \o b) = t + m /\ \A i \in 1 .. t : (T \o b)[i] = T[i]
  <2>1. PICK c \in Seq(Nat) : c = b
    BY <1>8
  <2>2. Len(T \o c) = Len(T) + Len(c) /\ \A i \in 1 .. Len(T) : (T \o c)[i] = T[i]
    OBVIOUS
  <2> QED
    BY <1>1, <1>8, <2>1, <2>2
<1>10. \A i \in 1 .. m : (T \o b)[t + i] = b[i]
  <2>1. PICK c \in Seq(Nat) : c = b
    BY <1>8
  <2>2. \A i \in 1 .. Len(c) : (T \o c)[Len(T) + i] = c[i]
    OBVIOUS
  <2> QED
    BY <1>1, <1>8, <2>1, <2>2
<1>11. Prefix(S, T \o b)
  <2>1. ASSUME NEW i \in 1 .. t + m PROVE (T \o b)[i] = S[i]
    <3>1. CASE i <= t
      <4>1. i \in 1 .. t
        BY <3>1
      <4> QED
        BY <1>1, <1>9, <4>1 DEF Prefix
    <3>2. CASE ~ (i <= t)
      <4>1. i - t \in 1 .. m /\ t + (i - t) = i
        BY <3>2
      <4> QED
        BY <1>6, <1>10, <4>1
    <3> QED
      BY <3>1, <3>2
  <2>2. t + m <= s
    BY <1>2, <1>4
  <2> QED
    BY <1>1, <1>9, <2>1, <2>2 DEF Prefix
<1>12. PICK q : q = AfterRead(p, m, n)
  OBVIOUS
<1>13. q.data = p.data /\ q.nread = (t + m) % Width /\ q.nwrite = s % Width
  <2>1. q.data = p.data /\ q.nread = (p.nread + m) % Width /\ q.nwrite = p.nwrite
    BY <1>12 DEF AfterRead, PipeRecords
  <2> QED
    BY <1>2, <2>1, CountUp
<1>14. Buffered(q, S, T \o b)
  <2>1. s - (t + m) <= PIPESIZE
    BY <1>0, <1>2
  <2>2. \A j \in Nat : t + m <= j /\ j < s => q.data[j % PIPESIZE] = S[j + 1]
    BY <1>1, <1>13 DEF Buffered
  <2> QED
    BY <1>1, <1>9, <1>13, <2>1, <2>2 DEF Buffered
<1> QED
  BY <1>8, <1>11, <1>12, <1>14

-----------------------------------------------------------------------------
(* All the pipes, also once sys_pipe2 has left a descriptor behind. *)

Fifo ==
    /\ Shaped
    /\ taken \in Seq(Seq(Nat)) /\ Len(taken) = Len(pipes)
    /\ \A k \in 1 .. Len(pipes) :
          /\ Prefix(sent[k], taken[k])
          /\ pipes[k] # NoPipe => Buffered(pipes[k], sent[k], taken[k])

\* A call changes one pipe.
LEMMA OnePipe ==
    ASSUME Fifo, NEW k \in 1 .. Len(pipes), NEW r \in PipeRecords \cup {NoPipe},
           NEW S \in Seq(Nat), NEW T \in Seq(Nat), Prefix(S, T), r # NoPipe => Buffered(r, S, T),
           pipes' = [pipes EXCEPT ![k] = r], sent' = [sent EXCEPT ![k] = S],
           taken' = [taken EXCEPT ![k] = T],
           ptable' \in [PipeFiles -> [ref : Int, pipe : Nat, writable : BOOLEAN]],
           \A f \in PipeFiles : ptable'[f].pipe <= Len(pipes),
           pfds' \in [Users -> [PipeFds -> PipeFiles \cup {NoPipe}]]
    PROVE  Fifo'
<1>1. /\ pipes' \in Seq(PipeRecords \cup {NoPipe}) /\ Len(pipes') = Len(pipes)
      /\ sent' \in Seq(Seq(Nat)) /\ Len(sent') = Len(pipes)
      /\ taken' \in Seq(Seq(Nat)) /\ Len(taken') = Len(pipes)
  BY DEF Fifo, Shaped
<1>2. /\ pipes'[k] = r /\ sent'[k] = S /\ taken'[k] = T
      /\ \A j \in 1 .. Len(pipes) :
            j # k => pipes'[j] = pipes[j] /\ sent'[j] = sent[j] /\ taken'[j] = taken[j]
  BY DEF Fifo, Shaped
<1>3. Shaped'
  BY <1>1 DEF Shaped
<1>4. ASSUME NEW j \in 1 .. Len(pipes)
      PROVE  /\ Prefix(sent'[j], taken'[j])
             /\ pipes'[j] # NoPipe => Buffered(pipes'[j], sent'[j], taken'[j])
  <2>1. CASE j = k
    BY <1>2, <2>1
  <2>2. CASE j # k
    BY <1>2, <2>2 DEF Fifo
  <2> QED
    BY <2>1, <2>2
<1> QED
  BY <1>1, <1>3, <1>4 DEF Fifo

LEMMA WriteFifo ==
    ASSUME Fifo, NEW u \in Users, NEW d \in PipeFds, NEW n \in 1 .. PIPESIZE + 1, PipeWrite(u, d, n)
    PROVE  Fifo'
<1>1. PICK k \in 1 .. Len(pipes) : k = ptable[pfds[u][d]].pipe /\ pipes[k] \in PipeRecords
  BY UsablePipe DEF Fifo, PipeWrite
<1>2. PICK p \in PipeRecords : p = pipes[k] /\ p # NoPipe
  BY <1>1, SetsAssumption
<1>3. PICK S \in Seq(Nat), T \in Seq(Nat) : S = sent[k] /\ T = taken[k]
  BY DEF Fifo, Shaped
<1>4. n \in Nat /\ Len(S) \in Nat
  BY WidthAssumption
<1>5. PICK b \in Seq(Nat) : b = Fitting(p, n, Len(S))
  BY <1>4, FittingFact
<1>6. PICK r \in PipeRecords : r = AfterWrite(p, b, n)
  BY <1>4, AfterWriteFact
<1>7. Prefix(S \o b, T) /\ Buffered(r, S \o b, T)
  BY <1>2, <1>3, <1>4, <1>5, <1>6, WriteKeeps DEF Fifo
<1>8. /\ pipes' = [pipes EXCEPT ![k] = r] /\ sent' = [sent EXCEPT ![k] = S \o b]
      /\ UNCHANGED <<ptable, pfds, taken>>
  BY <1>1, <1>2, <1>3, <1>5, <1>6 DEF PipeWrite
<1>9. taken' = [taken EXCEPT ![k] = T] /\ S \o b \in Seq(Nat)
  BY <1>3, <1>8 DEF Fifo
<1>10. /\ ptable' \in [PipeFiles -> [ref : Int, pipe : Nat, writable : BOOLEAN]]
       /\ \A f \in PipeFiles : ptable'[f].pipe <= Len(pipes)
       /\ pfds' \in [Users -> [PipeFds -> PipeFiles \cup {NoPipe}]]
  BY <1>8 DEF Fifo, Shaped
<1> QED
  BY <1>7, <1>8, <1>9, <1>10, OnePipe

LEMMA ReadFifo ==
    ASSUME Fifo, NEW u \in Users, NEW d \in PipeFds, NEW n \in 1 .. PIPESIZE + 1, PipeRead(u, d, n)
    PROVE  Fifo'
<1>1. PICK k \in 1 .. Len(pipes) : k = ptable[pfds[u][d]].pipe /\ pipes[k] \in PipeRecords
  BY UsablePipe DEF Fifo, PipeRead
<1>2. PICK p \in PipeRecords : p = pipes[k] /\ p # NoPipe
  BY <1>1, SetsAssumption
<1>3. PICK S \in Seq(Nat), T \in Seq(Nat) : S = sent[k] /\ T = taken[k]
  BY DEF Fifo, Shaped
<1>4. n \in Nat
  BY WidthAssumption
<1>5. PICK b : b = Available(p, n)
  OBVIOUS
<1>6. b \in Seq(Nat) /\ Prefix(S, T \o b) /\ Buffered(AfterRead(p, Len(b), n), S, T \o b)
  BY <1>2, <1>3, <1>4, <1>5, ReadKeeps DEF Fifo
<1>7. PICK r \in PipeRecords : r = AfterRead(p, Len(b), n)
  <2>1. Len(b) \in Nat
    BY <1>6
  <2> QED
    BY <1>4, <2>1, AfterReadFact
<1>8. /\ pipes' = [pipes EXCEPT ![k] = r] /\ taken' = [taken EXCEPT ![k] = T \o b]
      /\ UNCHANGED <<ptable, pfds, sent>>
  BY <1>1, <1>2, <1>3, <1>5, <1>7 DEF PipeRead
<1>9. sent' = [sent EXCEPT ![k] = S] /\ T \o b \in Seq(Nat)
  BY <1>3, <1>6, <1>8 DEF Fifo, Shaped
<1>10. /\ ptable' \in [PipeFiles -> [ref : Int, pipe : Nat, writable : BOOLEAN]]
       /\ \A f \in PipeFiles : ptable'[f].pipe <= Len(pipes)
       /\ pfds' \in [Users -> [PipeFds -> PipeFiles \cup {NoPipe}]]
  BY <1>8 DEF Fifo, Shaped
<1> QED
  BY <1>6, <1>7, <1>8, <1>9, <1>10, OnePipe

\* Only references change: dup, and a close that is not the last.
LEMMA SameFifo ==
    ASSUME Fifo, UNCHANGED <<pipes, sent, taken>>,
           ptable' \in [PipeFiles -> [ref : Int, pipe : Nat, writable : BOOLEAN]],
           \A f \in PipeFiles : ptable'[f].pipe = ptable[f].pipe,
           pfds' \in [Users -> [PipeFds -> PipeFiles \cup {NoPipe}]]
    PROVE  Fifo'
<1>1. Shaped'
  BY DEF Fifo, Shaped
<1> QED
  BY <1>1 DEF Fifo

\* Another reference count leaves the file the end of the same pipe.
LEMMA OtherRef ==
    ASSUME NEW P \in [PipeFiles -> [ref : Int, pipe : Nat, writable : BOOLEAN]],
           NEW f \in PipeFiles, NEW x \in Int, NEW Q, Q = [P EXCEPT ![f].ref = x]
    PROVE  /\ Q \in [PipeFiles -> [ref : Int, pipe : Nat, writable : BOOLEAN]]
           /\ \A g \in PipeFiles : Q[g].pipe = P[g].pipe
<1>1. PICK e : e = [P[f] EXCEPT !.ref = x]
  OBVIOUS
<1>2. P[f] \in [ref : Int, pipe : Nat, writable : BOOLEAN]
  OBVIOUS
<1>3. e \in [ref : Int, pipe : Nat, writable : BOOLEAN] /\ e.pipe = P[f].pipe
  BY <1>1, <1>2
<1>4. Q = [P EXCEPT ![f] = e]
  BY <1>1
<1> QED
  BY <1>3, <1>4

LEMMA DupFifo ==
    ASSUME Fifo, NEW u \in Users, NEW d \in PipeFds, PipeDup(u, d)
    PROVE  Fifo'
<1>1. PICK f \in PipeFiles : f = pfds[u][d]
  BY DEF PipeDup, Fifo, Shaped
<1>2. NoFile(u) \subseteq Nat /\ NoFile(u) # {}
  BY SetsAssumption DEF PipeDup, NoFile
<1>3. PICK e \in PipeFds : e = Least(NoFile(u))
  <2>1. Least(NoFile(u)) \in NoFile(u)
    BY <1>2, LeastFact
  <2> QED
    BY <2>1 DEF NoFile
<1>4. /\ pfds' = [pfds EXCEPT ![u][e] = f] /\ ptable' = [ptable EXCEPT ![f].ref = @ + 1]
      /\ UNCHANGED <<pipes, sent, taken>>
  BY <1>1, <1>3 DEF PipeDup
<1>5. pfds' \in [Users -> [PipeFds -> PipeFiles \cup {NoPipe}]]
  BY <1>4 DEF Fifo, Shaped
<1>6. /\ ptable' \in [PipeFiles -> [ref : Int, pipe : Nat, writable : BOOLEAN]]
      /\ \A g \in PipeFiles : ptable'[g].pipe = ptable[g].pipe
  <2>1. ptable[f].ref + 1 \in Int /\ ptable' = [ptable EXCEPT ![f].ref = ptable[f].ref + 1]
    BY <1>4 DEF Fifo, Shaped
  <2>2. ptable \in [PipeFiles -> [ref : Int, pipe : Nat, writable : BOOLEAN]]
    BY DEF Fifo, Shaped
  <2> QED
    BY <2>1, <2>2, OtherRef
<1> QED
  BY <1>4, <1>5, <1>6, SameFifo

LEMMA CloseFifo ==
    ASSUME Fifo, NEW u \in Users, NEW d \in PipeFds, PipeClose(u, d)
    PROVE  Fifo'
<1>1. PICK f \in PipeFiles : f = pfds[u][d]
  BY DEF PipeClose, Fifo, Shaped
<1>2. pfds' = [pfds EXCEPT ![u][d] = NoPipe] /\ UNCHANGED <<sent, taken>>
  BY DEF PipeClose
<1>3. pfds' \in [Users -> [PipeFds -> PipeFiles \cup {NoPipe}]]
  BY <1>2 DEF Fifo, Shaped
<1>4. CASE ptable[f].ref # 1 \/ ptable[f].pipe = 0
  <2>1. ptable' = [ptable EXCEPT ![f].ref = @ - 1] /\ UNCHANGED pipes
    BY <1>1, <1>4 DEF PipeClose
  <2>2. /\ ptable' \in [PipeFiles -> [ref : Int, pipe : Nat, writable : BOOLEAN]]
        /\ \A g \in PipeFiles : ptable'[g].pipe = ptable[g].pipe
    <3>1. ptable[f].ref - 1 \in Int /\ ptable' = [ptable EXCEPT ![f].ref = ptable[f].ref - 1]
      BY <2>1 DEF Fifo, Shaped
    <3>2. ptable \in [PipeFiles -> [ref : Int, pipe : Nat, writable : BOOLEAN]]
      BY DEF Fifo, Shaped
    <3> QED
      BY <3>1, <3>2, OtherRef
  <2> QED
    BY <1>2, <1>3, <2>1, <2>2, SameFifo
<1>5. CASE ~ (ptable[f].ref # 1 \/ ptable[f].pipe = 0)
  <2>1. /\ Lockable(f) /\ ptable' = [ptable EXCEPT ![f] = Shut]
        /\ pipes' = [pipes EXCEPT ![ptable[f].pipe] =
               AfterClose(Closing(pipes[ptable[f].pipe], ptable[f].writable))]
    BY <1>1, <1>5 DEF PipeClose
  <2>2. PICK k \in 1 .. Len(pipes) : k = ptable[f].pipe
    <3>1. Len(pipes) \in Nat
      BY DEF Fifo, Shaped
    <3> QED
      BY <1>5, <3>1 DEF Fifo, Shaped
  <2>3. PICK w \in BOOLEAN : w = ptable[f].writable
    BY DEF Fifo, Shaped
  <2>4. PICK p \in PipeRecords : p = pipes[k] /\ p # NoPipe
    BY <2>1, <2>2 DEF Lockable, Fifo, Shaped
  <2>5. PICK S \in Seq(Nat), T \in Seq(Nat) : S = sent[k] /\ T = taken[k]
    BY DEF Fifo, Shaped
  <2>6. PICK r \in PipeRecords \cup {NoPipe} : r = AfterClose(Closing(p, w))
    BY AfterCloseFact
  <2>7. r # NoPipe => r.nread = p.nread /\ r.nwrite = p.nwrite /\ r.data = p.data
    BY <2>6 DEF AfterClose, Closing, PipeRecords
  <2>8. Prefix(S, T) /\ Buffered(p, S, T)
    BY <2>4, <2>5 DEF Fifo
  <2>9. r # NoPipe => Buffered(r, S, T)
    BY <2>7, <2>8 DEF Buffered
  <2>10. /\ pipes' = [pipes EXCEPT ![k] = r] /\ sent' = [sent EXCEPT ![k] = S]
         /\ taken' = [taken EXCEPT ![k] = T]
    BY <1>2, <2>1, <2>2, <2>3, <2>4, <2>5, <2>6 DEF Fifo, Shaped
  <2>11. Shut \in [ref : Int, pipe : Nat, writable : BOOLEAN] /\ Shut.pipe = 0
    BY DEF Shut
  <2>12. /\ ptable' \in [PipeFiles -> [ref : Int, pipe : Nat, writable : BOOLEAN]]
         /\ \A g \in PipeFiles : ptable'[g].pipe <= Len(pipes)
    <3>1. Len(pipes) \in Nat
      BY DEF Fifo, Shaped
    <3> QED
      BY <2>1, <2>11, <3>1 DEF Fifo, Shaped
  <2> QED
    BY <1>3, <2>8, <2>9, <2>10, <2>12, OnePipe
<1> QED
  BY <1>4, <1>5

\* sys_pipe2 takes the least indices, whether it succeeds or not.
LEMMA Pipe2Fifo ==
    ASSUME Fifo, NEW u \in Users, Pipe2(u)
    PROVE  Fifo'
<1>1. NoRef \subseteq Nat /\ NoFile(u) \subseteq Nat
      /\ Cardinality(NoRef) >= 2 /\ Cardinality(NoFile(u)) >= 2
  BY SetsAssumption DEF Pipe2, NoRef, NoFile
<1>2. PICK f0, f1 \in PipeFiles : f0 = Least(NoRef) /\ f1 = Least(NoRef \ {f0})
  <2>1. Least(NoRef) \in NoRef /\ Least(NoRef \ {Least(NoRef)}) \in NoRef
    BY <1>1, TwoElements
  <2> QED
    BY <2>1 DEF NoRef
<1>3. PICK d0, d1 \in PipeFds : d0 = Least(NoFile(u)) /\ d1 = Least(NoFile(u) \ {d0})
  <2>1. Least(NoFile(u)) \in NoFile(u) /\ Least(NoFile(u) \ {Least(NoFile(u))}) \in NoFile(u)
    BY <1>1, TwoElements
  <2> QED
    BY <2>1 DEF NoFile
<1>4. PICK k \in Nat : k = Len(pipes) + 1
  BY DEF Fifo, Shaped
<1> DEFINE e0 == [ref |-> 1, pipe |-> k, writable |-> FALSE]
           e1 == [ref |-> 1, pipe |-> k, writable |-> TRUE]
<1>5. /\ ptable' = [ptable EXCEPT ![f0] = e0, ![f1] = e1]
      /\ pfds' = [pfds EXCEPT ![u][d0] = f0, ![u][d1] = f1]
      /\ pipes' = Append(pipes, EmptyPipe) /\ sent' = Append(sent, <<>>)
      /\ taken' = Append(taken, <<>>)
  BY <1>2, <1>3, <1>4 DEF Pipe2
<1>6. /\ ptable' \in [PipeFiles -> [ref : Int, pipe : Nat, writable : BOOLEAN]]
      /\ \A g \in PipeFiles : ptable'[g].pipe <= k
  <2>1. /\ e0 \in [ref : Int, pipe : Nat, writable : BOOLEAN] /\ e0.pipe = k
        /\ e1 \in [ref : Int, pipe : Nat, writable : BOOLEAN] /\ e1.pipe = k
    OBVIOUS
  <2> HIDE DEF e0, e1
  <2>2. ptable' \in [PipeFiles -> [ref : Int, pipe : Nat, writable : BOOLEAN]]
    BY <1>5, <2>1 DEF Fifo, Shaped
  <2>3. \A g \in PipeFiles : ptable'[g] \in {e0, e1, ptable[g]}
    BY <1>5 DEF Fifo, Shaped
  <2>4. ASSUME NEW g \in PipeFiles PROVE ptable'[g].pipe <= k
    <3>1. ptable[g].pipe <= Len(pipes) /\ Len(pipes) \in Nat /\ ptable[g].pipe \in Nat
      BY DEF Fifo, Shaped
    <3>2. ptable[g].pipe <= k
      BY <1>4, <3>1
    <3> QED
      BY <2>1, <2>3, <3>2
  <2> QED
    BY <2>2, <2>4
<1>7. pfds' \in [Users -> [PipeFds -> PipeFiles \cup {NoPipe}]]
  BY <1>5 DEF Fifo, Shaped
<1>8. EmptyPipe \in PipeRecords
  BY DEF EmptyPipe, PipeRecords
<1>9. /\ pipes' \in Seq(PipeRecords \cup {NoPipe}) /\ Len(pipes') = k
      /\ pipes'[k] = EmptyPipe /\ \A j \in 1 .. Len(pipes) : pipes'[j] = pipes[j]
  BY <1>4, <1>5, <1>8 DEF Fifo, Shaped
<1>10. /\ sent' \in Seq(Seq(Nat)) /\ Len(sent') = k /\ sent'[k] = <<>>
       /\ \A j \in 1 .. Len(pipes) : sent'[j] = sent[j]
  BY <1>4, <1>5 DEF Fifo, Shaped
<1>11. /\ taken' \in Seq(Seq(Nat)) /\ Len(taken') = k /\ taken'[k] = <<>>
       /\ \A j \in 1 .. Len(pipes) : taken'[j] = taken[j]
  BY <1>4, <1>5 DEF Fifo, Shaped
<1>12. Shaped'
  BY <1>6, <1>7, <1>9, <1>10 DEF Shaped
<1>13. Prefix(<<>>, <<>>) /\ Buffered(EmptyPipe, <<>>, <<>>)
  <2>1. 0 % Width = 0
    BY WidthAssumption
  <2> QED
    BY <2>1, WidthAssumption DEF Prefix, Buffered, EmptyPipe
<1>14. ASSUME NEW j \in 1 .. k
       PROVE  /\ Prefix(sent'[j], taken'[j])
              /\ pipes'[j] # NoPipe => Buffered(pipes'[j], sent'[j], taken'[j])
  <2>1. CASE j = k
    BY <1>9, <1>10, <1>11, <1>13, <2>1
  <2>2. CASE j # k
    <3>1. j \in 1 .. Len(pipes)
      BY <1>4, <2>2 DEF Fifo, Shaped
    <3> QED
      BY <1>9, <1>10, <1>11, <3>1 DEF Fifo
  <2> QED
    BY <2>1, <2>2
<1> QED
  BY <1>9, <1>11, <1>12, <1>14 DEF Fifo

LEMMA Pipe2FailsFifo ==
    ASSUME Fifo, NEW u \in Users, Pipe2Fails(u)
    PROVE  Fifo'
<1>1. NoRef \subseteq Nat /\ NoFile(u) \subseteq Nat /\ NoRef # {} /\ NoFile(u) # {}
  <2>1. Cardinality(NoRef) >= 2 /\ Cardinality(NoFile(u)) = 1
    BY DEF Pipe2Fails
  <2>2. Cardinality({}) = 0
    BY FS_EmptySet
  <2>3. NoRef # {} /\ NoFile(u) # {}
    BY <2>1, <2>2
  <2> QED
    BY <2>3, SetsAssumption DEF NoRef, NoFile
<1>2. PICK f \in PipeFiles : f = Least(NoRef)
  <2>1. Least(NoRef) \in NoRef
    BY <1>1, LeastFact
  <2> QED
    BY <2>1 DEF NoRef
<1>3. PICK d \in PipeFds : d = Least(NoFile(u))
  <2>1. Least(NoFile(u)) \in NoFile(u)
    BY <1>1, LeastFact
  <2> QED
    BY <2>1 DEF NoFile
<1>4. pfds' = [pfds EXCEPT ![u][d] = f] /\ UNCHANGED <<ptable, pipes, sent, taken>>
  BY <1>2, <1>3 DEF Pipe2Fails
<1>5. pfds' \in [Users -> [PipeFds -> PipeFiles \cup {NoPipe}]]
  BY <1>4 DEF Fifo, Shaped
<1>6. ptable' \in [PipeFiles -> [ref : Int, pipe : Nat, writable : BOOLEAN]]
  BY <1>4 DEF Fifo, Shaped
<1> QED
  BY <1>4, <1>5, <1>6, SameFifo

LEMMA FifoInit == PipesInit => Fifo
<1> SUFFICES ASSUME PipesInit PROVE Fifo
  OBVIOUS
<1>1. /\ ptable = [f \in PipeFiles |-> Shut] /\ pipes = <<>> /\ sent = <<>> /\ taken = <<>>
      /\ pfds = [u \in Users |-> [d \in PipeFds |-> NoPipe]]
  BY DEF PipesInit
<1>2. Shut \in [ref : Int, pipe : Nat, writable : BOOLEAN] /\ Shut.pipe = 0
  BY DEF Shut
<1> QED
  BY <1>1, <1>2 DEF Fifo, Shaped

LEMMA FifoNext == Fifo /\ [PipesNext]_pipeVars => Fifo'
<1> SUFFICES ASSUME Fifo, [PipesNext]_pipeVars PROVE Fifo'
  OBVIOUS
<1>1. CASE UNCHANGED pipeVars
  BY <1>1 DEF pipeVars, Fifo, Shaped
<1>2. ASSUME NEW u \in Users, Pipe2(u) \/ Pipe2Fails(u) PROVE Fifo'
  BY <1>2, Pipe2Fifo, Pipe2FailsFifo
<1>3. ASSUME NEW u \in Users, NEW d \in PipeFds, PipeDup(u, d) \/ PipeClose(u, d) PROVE Fifo'
  BY <1>3, DupFifo, CloseFifo
<1>4. ASSUME NEW u \in Users, NEW d \in PipeFds, NEW n \in 1 .. PIPESIZE + 1,
             PipeWrite(u, d, n) \/ PipeRead(u, d, n)
      PROVE  Fifo'
  BY <1>4, WriteFifo, ReadFifo
<1> QED
  BY <1>1, <1>2, <1>3, <1>4 DEF PipesNext

LEMMA FifoFact == Fifo => PipeIsFifo
<1> SUFFICES ASSUME Fifo, NEW k \in DOMAIN pipes
             PROVE  /\ Len(taken[k]) <= Len(sent[k])
                    /\ taken[k] = SubSeq(sent[k], 1, Len(taken[k]))
                    /\ pipes[k] # NoPipe =>
                          /\ Waiting(pipes[k]) = Len(sent[k]) - Len(taken[k])
                          /\ \A i \in 0 .. Waiting(pipes[k]) - 1 :
                                pipes[k].data[Cell(pipes[k].nread, i)] = sent[k][Len(taken[k]) + i + 1]
  BY DEF PipeIsFifo
<1>1. k \in 1 .. Len(pipes)
  BY DEF Fifo, Shaped
<1>2. PICK S \in Seq(Nat), T \in Seq(Nat) : S = sent[k] /\ T = taken[k]
  BY <1>1 DEF Fifo, Shaped
<1>3. Prefix(S, T)
  BY <1>1, <1>2 DEF Fifo
<1>4. T = SubSeq(S, 1, Len(T))
  BY <1>3 DEF Prefix
<1>5. ASSUME pipes[k] # NoPipe
      PROVE  /\ Waiting(pipes[k]) = Len(S) - Len(T)
             /\ \A i \in 0 .. Waiting(pipes[k]) - 1 :
                   pipes[k].data[Cell(pipes[k].nread, i)] = S[Len(T) + i + 1]
  <2>1. PICK p \in PipeRecords : p = pipes[k]
    BY <1>1, <1>5 DEF Fifo, Shaped
  <2>2. Buffered(p, S, T)
    BY <1>1, <1>2, <1>5, <2>1 DEF Fifo
  <2>3. Waiting(p) = Len(S) - Len(T)
    BY <1>3, <2>2, WaitingFact
  <2>4. ASSUME NEW i \in 0 .. Waiting(p) - 1
        PROVE  p.data[Cell(p.nread, i)] = S[Len(T) + i + 1]
    <3>1. PICK t \in Nat : t = Len(T)
      OBVIOUS
    <3>2. i \in Nat /\ t + i \in Nat /\ t <= t + i /\ t + i < Len(S)
      BY <2>3, <2>4, <3>1
    <3>3. Cell(p.nread, i) = (t + i) % PIPESIZE
      BY <2>2, <3>1, <3>2, CellOf DEF Buffered
    <3>4. p.data[(t + i) % PIPESIZE] = S[t + i + 1]
      BY <2>2, <3>1, <3>2 DEF Buffered
    <3> QED
      BY <3>1, <3>3, <3>4
  <2> QED
    BY <2>1, <2>3, <2>4
<1> QED
  BY <1>2, <1>3, <1>4, <1>5 DEF Prefix

\* pipeRead returns what pipeWrite stored, in order and without loss, for every
\* PIPESIZE that divides the range of the counters and however often nread and
\* nwrite pass it (pipe.c).
THEOREM PipesAreFifo == PipesSpec => []PipeIsFifo
<1> QED
  BY FifoInit, FifoNext, FifoFact, PTL DEF PipesSpec

-----------------------------------------------------------------------------
(* The SD card driver *)

Data == Words \cup {Zero, Junk}
Request == [block : SdBlocks \cup {Zero}, dirty : BOOLEAN, valid : BOOLEAN, data : Data, done : Stack]
Command == [op : {"none", "read", "write"}, block : SdBlocks \cup {Zero}, data : Data,
            irq : {"none", "read_rdy", "data_done"}]

SdTyped ==
    /\ where \in [Callers -> {"out", "pushed", "waiting", "returned", "lost"}]
    /\ buf \in [Callers -> Request]
    /\ card \in Command
    /\ platter \in [SdBlocks -> Data]
    /\ handler \in {"none", "tail", "stuck"}

\* The block cache holds the sleep lock of every block of a call.
Locked ==
    \A p \in Callers : where[p] # "out" =>
        /\ buf[p].block \in SdBlocks
        /\ \A q \in Callers : q # p /\ where[q] # "out" => buf[q].block # buf[p].block

\* The card works on the request of p, and what it has answered is so.
Works(p) ==
    /\ card.block = buf[p].block
    /\ card.op = (IF buf[p].dirty THEN "write" ELSE "read")
    /\ card.irq \in {"none", IF buf[p].dirty THEN "data_done" ELSE "read_rdy"}
    /\ buf[p].dirty => card.data = buf[p].data
    /\ card.irq # "none" => platter[card.block] = card.data

\* The only request of the queue is that of p, which has still to start it or
\* has done so: then it waits for it, or has given up, or is gone.
Started1(p) == where[p] \in {"waiting", "returned", "lost"} /\ handler = "none" /\ Works(p)
Serving(p) ==
    /\ queue = <<p>>
    /\ buf[p].valid = buf[p].dirty
    /\ (where[p] = "pushed" /\ card = Quiet) \/ Started1(p)

Alone == (queue = <<>> /\ card = Quiet) \/ \E p \in Callers : Serving(p)

\* What the flags of p say is so.
Told(p) ==
    where[p] \in {"waiting", "returned"} /\ buf[p].valid /\ ~ buf[p].dirty =>
        buf[p].data = platter[buf[p].block]

\* A request that the card has still to be given, or whose buffer is gone, is
\* in the queue.
Served ==
    \A p \in Callers : Told(p) /\ (queue # <<p>> => where[p] \notin {"pushed", "lost"})

SdSound == SdTyped /\ Locked /\ Alone /\ Served

\* Once requests have met each other the rest is not modelled.
SdInv == ~ tangled => SdSound

LEMMA SdInvInit == SdInit => SdInv
<1> SUFFICES ASSUME SdInit PROVE SdSound
  BY DEF SdInv
<1>1. SdTyped
  BY DEF SdInit, SdTyped, Quiet, Request, Command, Data, Stack
<1>2. Locked /\ Served
  BY DEF SdInit, Locked, Served, Told
<1>3. Alone
  BY DEF SdInit, Alone
<1> QED
  BY <1>1, <1>2, <1>3 DEF SdSound

LEMMA OneElement ==
    ASSUME NEW p, NEW q
    PROVE  /\ <<p>> # <<>> /\ (<<p>> = <<q>> => p = q)
           /\ Head(<<p>>) = p /\ Tail(<<p>>) = <<>> /\ Append(<<>>, p) = <<p>>
<1>1. <<p>>[1] = p /\ <<q>>[1] = q /\ Len(<<p>>) = 1 /\ Len(<<>>) = 0
  OBVIOUS
<1>2. Head(<<p>>) = p /\ Tail(<<p>>) = <<>> /\ Append(<<>>, p) = <<p>>
  OBVIOUS
<1> QED
  BY <1>1, <1>2

\* The queue holds the request of p alone.
LEMMA HeadServes ==
    ASSUME SdSound, NEW p \in Callers, queue = <<p>>
    PROVE  Serving(p)
<1>1. PICK q \in Callers : Serving(q)
  BY OneElement DEF SdSound, Alone
<1>2. q = p
  BY <1>1, OneElement DEF Serving
<1> QED
  BY <1>1, <1>2

\* sdrw links the request of a block that nobody else is about.
LEMMA SdRwSound ==
    ASSUME SdSound, NEW p \in Callers, NEW r \in Request, r.block \in SdBlocks, r.valid = r.dirty,
           SdRw(p, r), ~ tangled'
    PROVE  SdSound'
<1>1. queue = <<>> /\ queue' = <<p>> /\ card = Quiet
  <2>1. queue = <<>>
    BY DEF SdRw
  <2>2. card = Quiet
    BY <2>1, OneElement DEF SdSound, Alone, Serving
  <2> QED
    BY <2>1, <2>2, OneElement DEF SdRw
<1>2. /\ where[p] = "out" /\ Unlocked(r.block)
      /\ buf' = [buf EXCEPT ![p] = r] /\ where' = [where EXCEPT ![p] = "pushed"]
      /\ UNCHANGED <<card, platter, handler>>
  BY <1>1 DEF SdRw
<1>3. /\ buf'[p] = r /\ where'[p] = "pushed"
      /\ \A q \in Callers : q # p => buf'[q] = buf[q] /\ where'[q] = where[q]
  BY <1>2 DEF SdSound, SdTyped
<1>4. SdTyped'
  BY <1>2 DEF SdSound, SdTyped
<1>5. \A q \in Callers : where[q] \notin {"pushed", "lost"}
  BY <1>1, OneElement DEF SdSound, Served
<1>6. Locked'
  BY <1>2, <1>3, <1>5 DEF SdSound, Locked, Unlocked
<1>7. Serving(p)'
  BY <1>1, <1>2, <1>3 DEF Serving
<1>8. Served'
  <2> SUFFICES ASSUME NEW q \in Callers
               PROVE  Told(q)' /\ (queue' # <<q>> => where'[q] \notin {"pushed", "lost"})
    BY DEF Served
  <2>1. CASE q = p
    BY <1>1, <1>3, <2>1 DEF Told
  <2>2. CASE q # p
    BY <1>2, <1>3, <1>5, <2>2 DEF SdSound, Served, Told
  <2> QED
    BY <2>1, <2>2
<1> QED
  BY <1>4, <1>6, <1>7, <1>8 DEF SdSound, Alone

\* sd_start gives the card the request, which has it alone.
LEMMA SdStartSound ==
    ASSUME SdSound, NEW p \in Callers, SdStart(p), ~ tangled'
    PROVE  SdSound'
<1>1. /\ where[p] = "pushed" /\ handler = "none" /\ card' = Started(buf[p])
      /\ where' = [where EXCEPT ![p] = "waiting"] /\ UNCHANGED <<buf, queue, platter, handler>>
  BY DEF SdStart
<1>2. Serving(p)
  BY <1>1, HeadServes DEF SdSound, Served
<1>3. /\ where'[p] = "waiting" /\ \A q \in Callers : q # p => where'[q] = where[q]
      /\ buf[p] \in Request
  BY <1>1 DEF SdSound, SdTyped
<1>4. /\ card' \in Command /\ card'.block = buf[p].block /\ card'.irq = "none"
      /\ card'.op = (IF buf[p].dirty THEN "write" ELSE "read")
      /\ buf[p].dirty => card'.data = buf[p].data
  BY <1>1, <1>3 DEF Started, Request, Command, Data
<1>5. SdTyped'
  BY <1>1, <1>4 DEF SdSound, SdTyped
<1>6. Locked'
  BY <1>1, <1>3 DEF SdSound, Locked
<1>7. Serving(p)'
  BY <1>1, <1>2, <1>3, <1>4 DEF Serving, Started1, Works
<1>8. Served'
  <2> SUFFICES ASSUME NEW q \in Callers
               PROVE  Told(q)' /\ (queue' # <<q>> => where'[q] \notin {"pushed", "lost"})
    BY DEF Served
  <2>1. CASE q = p
    <3>1. ~ (buf[p].valid /\ ~ buf[p].dirty)
      BY <1>2 DEF Serving
    <3> QED
      BY <1>1, <1>3, <2>1, <3>1 DEF Told
  <2>2. CASE q # p
    BY <1>1, <1>3, <2>2 DEF SdSound, Served, Told
  <2> QED
    BY <2>1, <2>2
<1> QED
  BY <1>5, <1>6, <1>7, <1>8 DEF SdSound, Alone

\* The caller of an operation goes on to v while its request, but for the
\* semaphore, stays as it is.
Goes(p, v, r) ==
    /\ where' = [where EXCEPT ![p] = v] /\ buf' = [buf EXCEPT ![p] = r]
    /\ UNCHANGED <<queue, card, platter, handler>>
    /\ r \in Request
    /\ r.block = buf[p].block /\ r.data = buf[p].data
    /\ r.dirty = buf[p].dirty /\ r.valid = buf[p].valid

LEMMA GoesOn ==
    ASSUME SdSound, NEW p \in Callers, where[p] \in {"waiting", "returned"},
           NEW v \in {"out", "returned", "lost"}, NEW r, Goes(p, v, r),
           v = "out" => queue # <<p>>, v = "lost" => queue = <<p>>
    PROVE  SdSound'
<1>1. /\ buf'[p] = r /\ where'[p] = v
      /\ \A q \in Callers : q # p => buf'[q] = buf[q] /\ where'[q] = where[q]
  BY DEF Goes, SdSound, SdTyped
<1>2. /\ r.block = buf[p].block /\ r.data = buf[p].data
      /\ r.dirty = buf[p].dirty /\ r.valid = buf[p].valid
      /\ UNCHANGED <<queue, card, platter, handler>>
  BY DEF Goes
<1>3. SdTyped'
  BY DEF Goes, SdSound, SdTyped
<1>4. Locked'
  BY <1>1, <1>2 DEF SdSound, Locked
<1>5. Alone'
  <2>1. CASE queue = <<>> /\ card = Quiet
    BY <1>2, <2>1 DEF Alone
  <2>2. ASSUME NEW q \in Callers, q # p, Serving(q) PROVE Alone'
    BY <1>1, <1>2, <2>2 DEF Alone, Serving, Started1, Works
  <2>3. ASSUME Serving(p) PROVE Alone'
    <3>1. queue = <<p>> /\ handler = "none" /\ Works(p) /\ buf[p].valid = buf[p].dirty
      BY <2>3 DEF Serving, Started1
    <3>2. v \in {"returned", "lost"}
      BY <3>1
    <3>3. Works(p)'
      BY <1>1, <1>2, <3>1 DEF Works
    <3> QED
      BY <1>1, <1>2, <3>1, <3>2, <3>3 DEF Alone, Serving, Started1
  <2> QED
    BY <2>1, <2>2, <2>3 DEF SdSound, Alone
<1>6. Served'
  <2> SUFFICES ASSUME NEW q \in Callers
               PROVE  Told(q)' /\ (queue' # <<q>> => where'[q] \notin {"pushed", "lost"})
    BY DEF Served
  <2>1. CASE q = p
    <3>1. Told(p)
      BY DEF SdSound, Served
    <3>2. Told(p)'
      BY <1>1, <1>2, <3>1 DEF Told
    <3> QED
      BY <1>1, <1>2, <2>1, <3>2
  <2>2. CASE q # p
    BY <1>1, <1>2, <2>2 DEF SdSound, Served, Told
  <2> QED
    BY <2>1, <2>2
<1> QED
  BY <1>3, <1>4, <1>5, <1>6 DEF SdSound

LEMMA SdWaitSound ==
    ASSUME SdSound, NEW p \in Callers, SdWait(p), ~ tangled'
    PROVE  SdSound'
<1>1. PICK r : r = [buf[p] EXCEPT !.done = "empty"]
  OBVIOUS
<1>2. buf[p] \in Request
  BY DEF SdSound, SdTyped
<1>3. /\ r \in Request /\ r.block = buf[p].block /\ r.data = buf[p].data
      /\ r.dirty = buf[p].dirty /\ r.valid = buf[p].valid
  BY <1>1, <1>2 DEF Request, Stack
<1>4. Goes(p, "returned", r) /\ where[p] = "waiting"
  BY <1>1, <1>3 DEF SdWait, Goes
<1> QED
  BY <1>4, GoesOn

\* The same for a caller that leaves its buffer alone.
LEMMA Leaves ==
    ASSUME SdSound, NEW p \in Callers, NEW v, where' = [where EXCEPT ![p] = v],
           UNCHANGED <<buf, queue, card, platter, handler>>
    PROVE  \E r : Goes(p, v, r)
<1>1. buf[p] \in Request /\ buf = [buf EXCEPT ![p] = buf[p]]
  BY DEF SdSound, SdTyped
<1>2. Goes(p, v, buf[p])
  BY <1>1 DEF Goes
<1> QED
  BY <1>2

LEMMA SdAlertedSound ==
    ASSUME SdSound, NEW p \in Callers, SdAlerted(p), ~ tangled'
    PROVE  SdSound'
<1>1. PICK r : Goes(p, "returned", r)
  BY Leaves DEF SdAlerted
<1> QED
  BY <1>1, GoesOn DEF SdAlerted

LEMMA SdReturnSound ==
    ASSUME SdSound, NEW p \in Callers, SdReturn(p), ~ tangled'
    PROVE  SdSound'
<1>1. where[p] = "returned" /\ UNCHANGED <<buf, queue, card, platter, handler>>
  BY DEF SdReturn
<1>2. (\E i \in DOMAIN queue : queue[i] = p) <=> queue = <<p>>
  <2>1. CASE queue = <<>>
    BY <2>1, OneElement
  <2>2. ASSUME NEW q \in Callers, queue = <<q>>
        PROVE  (\E i \in DOMAIN queue : queue[i] = p) <=> queue = <<p>>
    <3>1. 1 \in DOMAIN queue /\ \A i \in DOMAIN queue : queue[i] = q
      BY <2>2
    <3> QED
      BY <2>2, <3>1, OneElement
  <2> QED
    BY <2>1, <2>2 DEF SdSound, Alone, Serving
<1>3. PICK v \in {"out", "lost"} : v = (IF queue = <<p>> THEN "lost" ELSE "out")
  OBVIOUS
<1>4. where' = [where EXCEPT ![p] = v]
  BY <1>2, <1>3 DEF SdReturn
<1>5. PICK r : Goes(p, v, r)
  BY <1>1, <1>4, Leaves
<1> QED
  BY <1>1, <1>3, <1>5, GoesOn

\* The card answers the request that it works on, and the block of no other.
LEMMA CardDoneSound ==
    ASSUME SdSound, CardDone, ~ tangled'
    PROVE  SdSound'
<1>1. card.op # "none" /\ card.irq = "none" /\ UNCHANGED <<where, buf, queue, handler>>
  BY DEF CardDone
<1>2. PICK p \in Callers : Serving(p) /\ Started1(p) /\ Works(p)
  <2>1. card # Quiet
    BY <1>1 DEF Quiet
  <2> QED
    BY <2>1 DEF SdSound, Alone, Serving, Started1
<1>3. card.block \in SdBlocks /\ card.block = buf[p].block /\ card \in Command
  BY <1>2 DEF SdSound, SdTyped, Locked, Works, Started1
<1>4. ASSUME NEW c, NEW h, c \in Command, h \in [SdBlocks -> Data], card' = c, platter' = h,
             c.block = card.block, c.op = card.op, h[c.block] = c.data,
             c.irq = (IF buf[p].dirty THEN "data_done" ELSE "read_rdy"),
             buf[p].dirty => c.data = buf[p].data,
             \A b \in SdBlocks : b # card.block => h[b] = platter[b]
      PROVE  SdSound'
  <2>1. SdTyped'
    BY <1>1, <1>4 DEF SdSound, SdTyped
  <2>2. Locked'
    BY <1>1 DEF SdSound, Locked
  <2>3. Serving(p)'
    BY <1>1, <1>2, <1>3, <1>4 DEF Serving, Started1, Works
  <2>4. Served'
    <3> SUFFICES ASSUME NEW q \in Callers PROVE Told(q)'
      BY <1>1 DEF SdSound, Served
    <3>1. CASE q = p
      BY <1>1, <1>2, <3>1 DEF Told, Serving
    <3>2. CASE q # p
      <4>1. where[q] # "out" => buf[q].block # card.block /\ buf[q].block \in SdBlocks
        BY <1>2, <1>3, <3>2 DEF SdSound, Locked, Started1
      <4> QED
        BY <1>1, <1>4, <4>1 DEF SdSound, Served, Told
    <3> QED
      BY <3>1, <3>2
  <2> QED
    BY <2>1, <2>2, <2>3, <2>4 DEF SdSound, Alone
<1>5. CASE card.op = "read"
  <2>1. /\ card' = [card EXCEPT !.irq = "read_rdy", !.data = platter[card.block]]
        /\ platter' = platter /\ ~ buf[p].dirty
    BY <1>2, <1>5 DEF CardDone, Works
  <2>2. platter \in [SdBlocks -> Data] /\ platter[card.block] \in Data
    BY <1>3 DEF SdSound, SdTyped
  <2>3. /\ card' \in Command /\ card'.block = card.block /\ card'.op = card.op
        /\ card'.irq = "read_rdy" /\ card'.data = platter[card.block]
    BY <1>3, <2>1, <2>2 DEF Command
  <2> QED
    BY <1>4, <2>1, <2>2, <2>3
<1>6. CASE card.op # "read"
  <2>1. /\ card' = [card EXCEPT !.irq = "data_done"] /\ buf[p].dirty
        /\ platter' = [platter EXCEPT ![card.block] = card.data]
    BY <1>2, <1>6 DEF CardDone, Works
  <2>2. card.data \in Data /\ platter \in [SdBlocks -> Data]
    BY <1>3 DEF SdSound, SdTyped, Command
  <2>3. /\ card' \in Command /\ card'.block = card.block /\ card'.op = card.op
        /\ card'.irq = "data_done" /\ card'.data = card.data
    BY <1>3, <2>1 DEF Command
  <2>4. /\ platter' \in [SdBlocks -> Data] /\ platter'[card.block] = card.data
        /\ \A b \in SdBlocks : b # card.block => platter'[b] = platter[b]
    BY <1>3, <2>1, <2>2
  <2>5. card.data = buf[p].data
    BY <1>2, <2>1 DEF Works
  <2>6. /\ card'.irq = (IF buf[p].dirty THEN "data_done" ELSE "read_rdy")
        /\ platter'[card'.block] = card'.data
        /\ buf[p].dirty => card'.data = buf[p].data
    BY <2>1, <2>3, <2>4, <2>5
  <2> QED
    BY <1>4, <2>3, <2>4, <2>6
<1> QED
  BY <1>5, <1>6

\* sd_intr answers the request that the interrupt is about.
LEMMA SdIntrSound ==
    ASSUME SdSound, SdIntr, ~ tangled'
    PROVE  SdSound'
<1>1. card.irq # "none" /\ handler = "none" /\ UNCHANGED <<where, platter>>
  BY DEF SdIntr
<1>2. PICK p \in Callers : Serving(p) /\ Started1(p) /\ Works(p)
  <2>1. card # Quiet
    BY <1>1 DEF Quiet
  <2> QED
    BY <2>1 DEF SdSound, Alone, Serving, Started1
<1>3. PICK r \in Request : r = buf[p]
  BY DEF SdSound, SdTyped
<1>4. queue = <<p>> /\ Head(queue) = p /\ queue # <<>> /\ Tail(queue) = <<>>
  BY <1>2, OneElement DEF Serving
<1>5. /\ card.irq = (IF r.dirty THEN "data_done" ELSE "read_rdy")
      /\ r.dirty \/ ~ r.valid
      /\ r.valid = r.dirty
  BY <1>1, <1>2, <1>3 DEF Works, Serving, Request
<1>6. /\ card' = Quiet /\ buf' = [buf EXCEPT ![p] = Posted(Answered(r))]
      /\ queue' = <<>> /\ handler' \in {"tail", "stuck"}
      /\ where[p] \in {"waiting", "returned"}
  <2>1. where[p] # "lost"
    BY <1>3, <1>4, <1>5 DEF SdIntr
  <2>2. where[p] \in {"waiting", "returned"}
    BY <1>2, <2>1 DEF Started1
  <2>3. card' = Quiet /\ queue' = <<>> /\ handler' \in {"tail", "stuck"}
    BY <1>3, <1>4, <1>5 DEF SdIntr
  <2>4. buf' = [buf EXCEPT ![p] = Posted(Answered(r))]
    BY <1>3, <1>4, <1>5 DEF SdIntr
  <2> QED
    BY <2>2, <2>3, <2>4
<1>7. card.data \in Data
  BY DEF SdSound, SdTyped, Command
<1>8. /\ Answered(r) \in Request /\ Answered(r).block = r.block
      /\ Answered(r).data = platter[r.block]
  <2>1. platter[r.block] = card.data /\ (r.dirty => card.data = r.data)
    BY <1>1, <1>2, <1>3 DEF Works
  <2>2. CASE r.dirty
    <3>1. Answered(r) = [r EXCEPT !.dirty = FALSE]
      BY <2>2 DEF Answered
    <3> QED
      BY <2>1, <2>2, <3>1 DEF Request
  <2>3. CASE ~ r.dirty
    <3>1. Answered(r) = [r EXCEPT !.data = card.data, !.valid = TRUE]
      BY <2>3 DEF Answered
    <3> QED
      BY <1>7, <2>1, <3>1 DEF Request
  <2> QED
    BY <2>2, <2>3
<1>9. PICK a \in Request : a = Posted(Answered(r)) /\ a.block = r.block /\ a.data = platter[r.block]
  <2>1. PICK c \in Request : c = Answered(r) /\ c.block = r.block /\ c.data = platter[r.block]
    BY <1>8
  <2>2. CASE c.done = "empty"
    <3>1. Posted(c) = [c EXCEPT !.done = "unit"]
      BY <2>2 DEF Posted
    <3>2. Posted(c) \in Request /\ Posted(c).block = c.block /\ Posted(c).data = c.data
      BY <3>1 DEF Request, Stack
    <3> QED
      BY <2>1, <3>2
  <2>3. CASE c.done # "empty"
    BY <2>1, <2>3 DEF Posted
  <2> QED
    BY <2>2, <2>3
<1>10. buf'[p] = a /\ \A q \in Callers : q # p => buf'[q] = buf[q]
  BY <1>6, <1>9 DEF SdSound, SdTyped
<1>11. SdTyped'
  <2>1. card' \in Command
    BY <1>6 DEF Quiet, Command, Data
  <2>2. buf' \in [Callers -> Request]
    BY <1>6, <1>9 DEF SdSound, SdTyped
  <2> QED
    BY <1>1, <1>6, <2>1, <2>2 DEF SdSound, SdTyped
<1>12. Locked'
  BY <1>1, <1>3, <1>9, <1>10 DEF SdSound, Locked
<1>13. Alone'
  BY <1>6 DEF Alone
<1>14. Served'
  <2> SUFFICES ASSUME NEW q \in Callers
               PROVE  Told(q)' /\ where'[q] \notin {"pushed", "lost"}
    BY DEF Served
  <2>1. CASE q = p
    BY <1>1, <1>6, <1>9, <1>10, <2>1 DEF Told
  <2>2. CASE q # p
    <3>1. queue # <<q>>
      BY <1>4, <2>2, OneElement
    <3> QED
      BY <1>1, <1>10, <2>2, <3>1 DEF SdSound, Served, Told
  <2> QED
    BY <2>1, <2>2
<1> QED
  BY <1>11, <1>12, <1>13, <1>14 DEF SdSound

\* The end of sd_intr finds no further request.
LEMMA SdIntrTailSound ==
    ASSUME SdSound, SdIntrTail, ~ tangled'
    PROVE  SdSound'
<1>1. queue = <<>> /\ handler' = "none" /\ UNCHANGED <<where, buf, queue, platter, card>>
  BY DEF SdIntrTail
<1>2. card = Quiet
  BY <1>1, OneElement DEF SdSound, Alone, Serving
<1>3. SdTyped' /\ Locked' /\ Served'
  BY <1>1 DEF SdSound, SdTyped, Locked, Served, Told
<1>4. Alone'
  BY <1>1, <1>2 DEF Alone
<1> QED
  BY <1>3, <1>4 DEF SdSound

LEMMA ReadIsTyped ==
    ASSUME NEW b \in SdBlocks, NEW done \in Stack
    PROVE  /\ ReadOf(b, done) \in Request /\ ReadOf(b, done).block \in SdBlocks
           /\ ReadOf(b, done).valid = ReadOf(b, done).dirty
  BY DEF ReadOf, Request, Data

LEMMA WriteIsTyped ==
    ASSUME NEW b \in SdBlocks, NEW w \in Words, NEW done \in Stack
    PROVE  /\ WriteOf(b, w, done) \in Request /\ WriteOf(b, w, done).block \in SdBlocks
           /\ WriteOf(b, w, done).valid = WriteOf(b, w, done).dirty
  BY DEF WriteOf, Request, Data

LEMMA SdInvNext == SdInv /\ [SdNext]_sdVars => SdInv'
<1> SUFFICES ASSUME SdInv, [SdNext]_sdVars, ~ tangled' PROVE SdSound'
  BY DEF SdInv
<1>1. CASE UNCHANGED sdVars
  BY <1>1 DEF sdVars, SdInv, SdSound, SdTyped, Locked, Alone, Serving, Started1, Works, Served, Told
<1>2. CASE SdNext
  <2>1. ~ tangled
    BY <1>2 DEF SdNext, SdRw, SdStart, SdWait, SdAlerted, SdAstray, SdReturn, CardDone, SdIntr, SdIntrTail
  <2>2. SdSound
    BY <2>1 DEF SdInv
  <2>3. ASSUME NEW p \in Callers,
               SdStart(p) \/ SdWait(p) \/ SdAlerted(p) \/ SdAstray(p) \/ SdReturn(p)
        PROVE  SdSound'
    <3>1. ~ SdAstray(p)
      BY DEF SdAstray
    <3> QED
      BY <2>2, <2>3, <3>1, SdStartSound, SdWaitSound, SdAlertedSound, SdReturnSound
  <2>4. ASSUME NEW p \in Callers, NEW b \in SdBlocks, NEW done \in Stack, SdRw(p, ReadOf(b, done))
        PROVE  SdSound'
    <3>1. PICK r \in Request : r = ReadOf(b, done) /\ r.block \in SdBlocks /\ r.valid = r.dirty
      BY ReadIsTyped
    <3> QED
      BY <2>2, <2>4, <3>1, SdRwSound
  <2>5. ASSUME NEW p \in Callers, NEW b \in SdBlocks, NEW done \in Stack, NEW w \in Words,
               SdRw(p, WriteOf(b, w, done))
        PROVE  SdSound'
    <3>1. PICK r \in Request : r = WriteOf(b, w, done) /\ r.block \in SdBlocks /\ r.valid = r.dirty
      BY WriteIsTyped
    <3> QED
      BY <2>2, <2>5, <3>1, SdRwSound
  <2>6. CASE CardDone \/ SdIntr \/ SdIntrTail
    BY <2>2, <2>6, CardDoneSound, SdIntrSound, SdIntrTailSound
  <2> QED
    BY <1>2, <2>3, <2>4, <2>5, <2>6 DEF SdNext
<1> QED
  BY <1>1, <1>2

LEMMA SdInvFaithful == SdInv => SdIsFaithful
  BY DEF SdInv, SdSound, Served, Told, SdIsFaithful

\* For every number of processes and blocks, whatever the stack has left in the
\* semaphores and whoever is killed: as long as no two requests have met and no
\* buffer was answered that is gone (sd.c, sdrw, sd_intr), a buffer whose flags
\* say that its request was served holds the block as it is on the card.
THEOREM TheCardIsFaithful == SdSpec => []SdIsFaithful
<1> QED
  BY SdInvInit, SdInvNext, SdInvFaithful, PTL DEF SdSpec

-----------------------------------------------------------------------------
(* The files: what holds between any two steps of mkfs and of the calls. *)

DataBlocks == NMeta .. NBlocks - 1
Offsets == 0 .. BlockSize - 1

\* The places where an inode lists a block: the indirect block is -1.
Places == -1 .. NDirect + BlockSize - 1
FilePlaces == 0 .. NDirect + BlockSize - 1

\* The block that is listed at place n, or 0.
BlockAt(d, e, n) ==
    IF n = -1 THEN e.indirect
    ELSE IF n < NDirect THEN e.addrs[n]
    ELSE IF e.indirect = 0 \/ d[e.indirect][n - NDirect] = ZeroCell THEN 0
    ELSE d[e.indirect][n - NDirect]

\* The bitmap bm marks the blocks before the first data block and those that
\* the inodes E list, and none is listed twice.
Exact(bm, d, E) ==
    /\ bm \subseteq Blocks /\ 0 .. NMeta - 1 \subseteq bm
    /\ d \in [Blocks -> [Offsets -> Cells]]
    /\ E \in [Inodes -> InodeEntries]
    /\ \A i \in Inodes, n \in Places : BlockAt(d, E[i], n) \in {0} \cup (DataBlocks \cap bm)
    /\ \A i \in Inodes, k \in Offsets : E[i].indirect # 0 => d[E[i].indirect][k] # 0
    /\ \A i, j \in Inodes, m, n \in Places :
         BlockAt(d, E[i], m) # 0 /\ BlockAt(d, E[i], m) = BlockAt(d, E[j], n) => i = j /\ m = n
    /\ \A b \in bm \cap DataBlocks : \E i \in Inodes, n \in Places : BlockAt(d, E[i], n) = b

\* The cell of the file with inode e at offset o.
CellAt(d, e, o) == d[BlockAt(d, e, o \div BlockSize)][o % BlockSize]
InBlock(d, e, o) == BlockAt(d, e, o \div BlockSize) # 0

\* The file with inode e holds f, but for src, which is still to be written at
\* offset off.
FileIs(d, e, f, off, src) ==
    /\ f \in Seq(FileCells)
    /\ e.bytes <= INODE_MAX_BYTES /\ off + Len(src) <= INODE_MAX_BYTES
    /\ Len(f) = IF off + Len(src) > e.bytes THEN off + Len(src) ELSE e.bytes
    /\ \A o \in 0 .. INODE_MAX_BYTES - 1 : o < e.bytes => InBlock(d, e, o)
    /\ \A o \in 0 .. INODE_MAX_BYTES - 1 :
         o < Len(f) =>
           IF off <= o /\ o < off + Len(src) THEN f[o + 1] = src[o - off + 1]
           ELSE InBlock(d, e, o) /\ CellAt(d, e, o) = f[o + 1]

Current == [i \in Inodes |-> Entry(i)]

CallsOk ==
    /\ \A p \in Procs : call[p] # None =>
         call[p] \in Calls /\ entry[call[p].inode] # None /\ mkfs = None
    /\ \A p, q \in Procs : call[p] # None /\ call[q] # None /\ call[p].inode = call[q].inode => p = q

FilesOk ==
    /\ \A i \in Inodes : ~ IsLocked(i) => FileIs(data, Entry(i), files[i], 0, <<>>)
    /\ \A p \in Procs : call[p] # None =>
         FileIs(data, Entry(call[p].inode), files[call[p].inode], call[p].off, call[p].src)

\* What has been allocated in a call lies behind the end of the file, so that
\* the call will sync the inode.
CopiesOk ==
    /\ itab \in [Inodes -> InodeEntries]
    /\ \A i \in Inodes : entry[i] = None \/ entry[i] \in InodeEntries
    /\ \A i \in Inodes : itab[i].type = "invalid" => itab[i] = Invalid /\ entry[i] = None
    /\ \A i \in Inodes : entry[i] # None /\ ~ IsLocked(i) => entry[i] = itab[i]
    /\ \A p \in Procs : call[p] # None =>
         LET i == call[p].inode IN
         /\ entry[i].type = itab[i].type /\ entry[i].bytes = itab[i].bytes
         /\ entry[i] = itab[i] \/ entry[i].bytes < call[p].off

DistinctNames(s) ==
    \A j, k \in DOMAIN s : s[j] # ZeroCell /\ s[k] # ZeroCell /\ s[j][1] = s[k][1] => j = k

NamesOk == \A i \in Inodes : itab[i].type = "dir" => DistinctNames(files[i])

\* The entries that mkfs makes in the root directory.
RootCell(argv, k) == IF k <= 2 THEN DotEntries[k] ELSE <<argv[k - 2].name, k - 1>>

MkfsOk == mkfs # None =>
    LET n == itab[ROOT_INODE_NO].bytes IN
    /\ mkfs \in Makings /\ mkfs.arg \in 1 .. Len(mkfs.argv) + 1 /\ mkfs.arg \in Inodes
    /\ \A i \in Inodes : entry[i] = None
    /\ \A i \in Inodes : itab[i].type = "dir" <=> i = ROOT_INODE_NO
    /\ \A i \in Inodes : i > mkfs.arg => itab[i] = Invalid
    /\ \A i \in Inodes : i <= mkfs.arg => itab[i].type # "invalid"
    /\ n <= mkfs.arg + 1 /\ mkfs.arg + 1 - n <= Len(mkfs.todo)
    /\ \A k \in 1 .. Len(mkfs.todo) :
         IF n + k <= mkfs.arg + 1
         THEN mkfs.todo[k] = <<ROOT_INODE_NO, RootCell(mkfs.argv, n + k)>>
         ELSE mkfs.todo[k][1] # ROOT_INODE_NO /\ mkfs.todo[k][1] <= mkfs.arg
    /\ \A k \in 1 .. n : files[ROOT_INODE_NO][k] = RootCell(mkfs.argv, k)
    /\ \A i \in Inodes, o \in 0 .. INODE_MAX_BYTES - 1 :
         itab[i].bytes <= o /\ InBlock(data, itab[i], o) => CellAt(data, itab[i], o) = ZeroCell

FileTypes ==
    /\ panicked \in BOOLEAN
    /\ call \in [Procs -> Calls \cup {None}]
    /\ files \in [Inodes -> Seq(FileCells)]
    /\ entry \in [Inodes -> InodeEntries \cup {None}]
    /\ mkfs \in Makings \cup {None}

FileInv ==
    Exact(bitmap, data, Current) /\ CallsOk /\ FilesOk /\ CopiesOk /\ NamesOk /\ MkfsOk /\ FileTypes

-----------------------------------------------------------------------------
(* Offsets, blocks and what is in a block. *)

LEMMA DataSizes ==
    /\ BlockSize \in Nat /\ NDirect \in Nat /\ NBlocks \in Nat /\ NMeta \in Nat /\ NInodes \in Nat
    /\ NMeta > 0 /\ NMeta < NBlocks /\ NDirect > 0 /\ BlockSize > 0 /\ NInodes > 1
    /\ INODE_MAX_BYTES \in Nat
<1>1. /\ BlockSize \in Nat /\ NDirect \in Nat /\ NBlocks \in Nat /\ NMeta \in Nat /\ NInodes \in Nat
      /\ NMeta > 0 /\ NMeta < NBlocks /\ NDirect > 0 /\ BlockSize > 0 /\ NInodes > 1
  BY SizeAssumption
<1>2. INODE_MAX_BYTES \in Nat
  BY <1>1 DEF INODE_MAX_BYTES
<1> QED
  BY <1>1, <1>2

LEMMA DivMod ==
    ASSUME NEW o \in Nat
    PROVE  /\ o \div BlockSize \in Nat /\ o % BlockSize \in Nat /\ o % BlockSize < BlockSize
           /\ o = BlockSize * (o \div BlockSize) + (o % BlockSize)
<1>1. BlockSize \in Nat /\ BlockSize > 0
  BY DataSizes
<1>2. PICK q \in Int : q = o \div BlockSize
  BY <1>1
<1>3. PICK r \in Int : r = o % BlockSize
  BY <1>1
<1>4. o = BlockSize * q + r
  BY <1>1, <1>2, <1>3
<1>5. r >= 0 /\ r < BlockSize
  BY <1>1, <1>3
<1>6. q >= 0
  BY <1>1, <1>2
<1> QED
  BY <1>2, <1>3, <1>4, <1>5, <1>6

LEMMA DivUnique ==
    ASSUME NEW o \in Nat, NEW q \in Nat, NEW r \in Nat, r < BlockSize, o = BlockSize * q + r
    PROVE  o \div BlockSize = q /\ o % BlockSize = r
<1>1. BlockSize \in Nat /\ BlockSize > 0
  BY DataSizes
<1> QED
  BY <1>1

\* A greater quotient is a whole block more.
LEMMA BlockStep ==
    ASSUME NEW p \in Nat, NEW q \in Nat, p < q
    PROVE  /\ BlockSize * p \in Nat /\ BlockSize * q \in Nat
           /\ BlockSize * p + BlockSize <= BlockSize * q
<1>1. BlockSize \in Nat /\ BlockSize > 0
  BY DataSizes
<1>2. PICK t \in Nat : q = p + 1 + t
  <2>1. q - p - 1 \in Nat /\ q = p + 1 + (q - p - 1)
    OBVIOUS
  <2> QED
    BY <2>1
<1>3. BlockSize * q = BlockSize * p + BlockSize + BlockSize * t
  BY <1>1, <1>2
<1>4. BlockSize * t \in Nat /\ BlockSize * p \in Nat /\ BlockSize * q \in Nat
  BY <1>1
<1> QED
  BY <1>1, <1>3, <1>4

\* An offset within the greatest size lies in a block of the map.
LEMMA OffsetPlace ==
    ASSUME NEW o \in Nat, o < INODE_MAX_BYTES
    PROVE  o \div BlockSize \in FilePlaces /\ o % BlockSize \in Offsets
<1> DEFINE q == o \div BlockSize
           N == NDirect + BlockSize
<1>1. /\ q \in Nat /\ o % BlockSize \in Nat /\ o % BlockSize < BlockSize
      /\ o = BlockSize * q + (o % BlockSize)
  BY DivMod
<1>2. BlockSize \in Nat /\ NDirect \in Nat /\ N \in Nat /\ INODE_MAX_BYTES = BlockSize * N
  BY DataSizes DEF INODE_MAX_BYTES
<1>3. q < N
  <2>1. CASE N = q
    BY <2>1, <1>1, <1>2
  <2>2. CASE N < q
    <3>1. BlockSize * N \in Nat /\ BlockSize * q \in Nat /\ BlockSize * N + BlockSize <= BlockSize * q
      BY <2>2, <1>1, <1>2, BlockStep
    <3> QED
      BY <3>1, <1>1, <1>2
  <2> QED
    BY <2>1, <2>2, <1>1, <1>2
<1> QED
  BY <1>1, <1>2, <1>3 DEF FilePlaces, Offsets

FileOffsets == 0 .. INODE_MAX_BYTES - 1

LEMMA OffsetsAre ==
    \A o \in FileOffsets : o \in Nat /\ o \div BlockSize \in FilePlaces /\ o % BlockSize \in Offsets
                           /\ o % BlockSize \in Nat
<1> SUFFICES ASSUME NEW o \in FileOffsets
             PROVE  o \in Nat /\ o \div BlockSize \in FilePlaces /\ o % BlockSize \in Offsets
                    /\ o % BlockSize \in Nat
  OBVIOUS
<1>1. o \in Nat /\ o < INODE_MAX_BYTES
  BY DataSizes DEF FileOffsets
<1> QED
  BY <1>1, OffsetPlace, DivMod

\* The rest of a sequence.
LEMMA RestOf ==
    ASSUME NEW S, NEW s \in Seq(S), NEW m \in Nat, m <= Len(s)
    PROVE  /\ SubSeq(s, m + 1, Len(s)) \in Seq(S) /\ Len(SubSeq(s, m + 1, Len(s))) = Len(s) - m
           /\ \A k \in 1 .. Len(s) - m : SubSeq(s, m + 1, Len(s))[k] = s[k + m]
<1>1. Len(s) \in Nat /\ \A k \in m + 1 .. Len(s) : s[k] \in S
  OBVIOUS
<1> QED
  BY <1>1

\* What one turn of the loop copies lies in one block, and is all that the
\* offsets from off on have in that block.
ChunkOk(off, left, n, m, r) ==
    /\ m \in Nat /\ m > 0 /\ m <= left /\ r \in Nat /\ r + m <= BlockSize
    /\ \A o \in Nat : off <= o /\ o < off + m =>
         o \div BlockSize = n /\ o % BlockSize = r + (o - off)
    /\ \A o \in Nat :
         o \div BlockSize = n /\ r <= o % BlockSize /\ o % BlockSize < r + m
         => off <= o /\ o < off + m /\ o % BlockSize = r + (o - off)

LEMMA ChunkFacts ==
    ASSUME NEW off \in Nat, NEW left \in Nat, left > 0
    PROVE  ChunkOk(off, left, off \div BlockSize, Chunk(off, left), off % BlockSize)
<1> DEFINE m == Chunk(off, left)
           q == off \div BlockSize
           r == off % BlockSize
<1>1. q \in Nat /\ r \in Nat /\ r < BlockSize /\ off = BlockSize * q + r
  BY DivMod
<1>2. BlockSize \in Nat /\ BlockSize > 0 /\ BlockSize * q \in Nat
  BY <1>1, DataSizes
<1>3. m \in Nat /\ m > 0 /\ m <= left /\ r + m <= BlockSize
  <2>1. BlockSize - r \in Nat /\ BlockSize - r > 0
    BY <1>1, <1>2
  <2>2. m = IF left < BlockSize - r THEN left ELSE BlockSize - r
    BY DEF Chunk
  <2> HIDE DEF m, r
  <2> QED
    BY <2>1, <2>2, <1>1, <1>2
<1>4. ASSUME NEW o \in Nat, off <= o, o < off + m
      PROVE  o \div BlockSize = q /\ o % BlockSize = r + (o - off)
  <2>1. r + (o - off) \in Nat /\ r + (o - off) < BlockSize
    <3> HIDE DEF m, r, q
    <3> QED
      BY <1>1, <1>2, <1>3, <1>4
  <2>2. o = BlockSize * q + (r + (o - off))
    <3> HIDE DEF m, r, q
    <3> QED
      BY <1>1, <1>2, <1>4
  <2> HIDE DEF m, r, q
  <2> QED
    BY <2>1, <2>2, <1>1, DivUnique
<1>5. ASSUME NEW o \in Nat, o \div BlockSize = q, r <= o % BlockSize, o % BlockSize < r + m
      PROVE  off <= o /\ o < off + m /\ o % BlockSize = r + (o - off)
  <2>1. o % BlockSize \in Nat /\ o = BlockSize * q + (o % BlockSize)
    BY <1>5, DivMod
  <2>2. PICK s \in Nat : s = o % BlockSize
    BY <2>1
  <2> HIDE DEF m, r, q
  <2>3. o = BlockSize * q + s /\ r <= s /\ s < r + m
    BY <2>1, <2>2, <1>5
  <2>4. off <= o /\ o < off + m /\ s = r + (o - off)
    BY <2>3, <1>1, <1>2, <1>3
  <2> QED
    BY <2>4, <2>2
<1> QED
  BY <1>1, <1>3, <1>4, <1>5 DEF ChunkOk

-----------------------------------------------------------------------------
(* Where the blocks of a file are listed, and what an allocation changes.   *)

LEMMA PlacesAre ==
    /\ \A k \in Offsets : NDirect + k \in FilePlaces
    /\ \A n \in FilePlaces : n \in 0 .. NDirect - 1 \/ \E k \in Offsets : n = NDirect + k
    /\ \A n \in Places : n = -1 \/ n \in FilePlaces
    /\ \A n \in FilePlaces : n \in Places /\ n # -1 /\ n \in Nat
    /\ -1 \in Places
<1>1. NDirect \in Nat /\ NDirect > 0 /\ BlockSize \in Nat /\ BlockSize > 0
  BY DataSizes
<1>2. \A k \in Offsets : NDirect + k \in FilePlaces
  BY <1>1 DEF Offsets, FilePlaces
<1>3. ASSUME NEW n \in FilePlaces, n \notin 0 .. NDirect - 1
      PROVE  \E k \in Offsets : n = NDirect + k
  <2>1. n - NDirect \in Offsets /\ n = NDirect + (n - NDirect)
    BY <1>1, <1>3 DEF Offsets, FilePlaces
  <2> QED
    BY <2>1
<1>4. /\ \A n \in Places : n = -1 \/ n \in FilePlaces
      /\ \A n \in FilePlaces : n \in Places /\ n # -1 /\ n \in Nat
      /\ -1 \in Places
  BY <1>1 DEF Places, FilePlaces
<1> QED
  BY <1>2, <1>3, <1>4

LEMMA IndirectAt ==
    ASSUME NEW d, NEW e
    PROVE  BlockAt(d, e, -1) = e.indirect
  BY DEF BlockAt

LEMMA DirectAt ==
    ASSUME NEW d, NEW e, NEW n \in 0 .. NDirect - 1
    PROVE  BlockAt(d, e, n) = e.addrs[n]
<1>1. n # -1 /\ n < NDirect
  BY DataSizes
<1> QED
  BY <1>1 DEF BlockAt

LEMMA ListedAt ==
    ASSUME NEW d, NEW e, NEW k \in Offsets
    PROVE  BlockAt(d, e, NDirect + k) =
             IF e.indirect = 0 \/ d[e.indirect][k] = ZeroCell THEN 0 ELSE d[e.indirect][k]
<1>1. NDirect + k # -1 /\ ~ (NDirect + k < NDirect) /\ (NDirect + k) - NDirect = k
  BY DataSizes DEF Offsets
<1> QED
  BY <1>1 DEF BlockAt

\* What is listed is a data block that is not free, and the blocks of files
\* are no indirect blocks.
LEMMA ListedBlocks ==
    ASSUME NEW bm, NEW d, NEW E, Exact(bm, d, E), NEW i \in Inodes
    PROVE  /\ E[i] \in InodeEntries /\ E[i].indirect \in Blocks
           /\ \A n \in Places : BlockAt(d, E[i], n) \in Blocks
           /\ \A n \in Places : BlockAt(d, E[i], n) # 0 =>
                BlockAt(d, E[i], n) \in DataBlocks /\ BlockAt(d, E[i], n) \in bm
           /\ E[i].indirect # 0 => E[i].indirect \in bm
           /\ \A n \in FilePlaces, j \in Inodes :
                BlockAt(d, E[i], n) # 0 => BlockAt(d, E[i], n) # E[j].indirect
<1>1. E[i] \in InodeEntries
  BY DEF Exact
<1>2. \A n \in Places : BlockAt(d, E[i], n) \in {0} \cup (DataBlocks \cap bm)
  BY DEF Exact
<1>3. 0 \in Blocks /\ bm \subseteq Blocks
  BY DataSizes DEF Exact, Blocks
<1>4. BlockAt(d, E[i], -1) = E[i].indirect /\ -1 \in Places
  BY IndirectAt, PlacesAre
<1>5. ASSUME NEW n \in FilePlaces, NEW j \in Inodes, BlockAt(d, E[i], n) # 0
      PROVE  BlockAt(d, E[i], n) # E[j].indirect
  <2>1. BlockAt(d, E[j], -1) = E[j].indirect /\ n \in Places /\ n # -1
    BY IndirectAt, PlacesAre
  <2>2. BlockAt(d, E[i], n) = BlockAt(d, E[j], -1) => n = -1
    BY <2>1, <1>4, <1>5 DEF Exact
  <2> QED
    BY <2>1, <2>2
<1> QED
  BY <1>1, <1>2, <1>3, <1>4, <1>5

\* A free block b is listed at the empty place n of inode i.
LEMMA ListOne ==
    ASSUME NEW bm, NEW d, NEW E, Exact(bm, d, E),
           NEW i \in Inodes, NEW n \in Places, BlockAt(d, E[i], n) = 0,
           NEW b \in Blocks, b \notin bm,
           NEW d2 \in [Blocks -> [Offsets -> Cells]], NEW E2 \in [Inodes -> InodeEntries],
           \A j \in Inodes, m \in Places :
             BlockAt(d2, E2[j], m) = IF j = i /\ m = n THEN b ELSE BlockAt(d, E[j], m),
           \A j \in Inodes, k \in Offsets : E2[j].indirect # 0 => d2[E2[j].indirect][k] # 0
    PROVE  Exact(bm \cup {b}, d2, E2)
<1>1. b \in DataBlocks /\ b # 0
  <2>1. b \notin 0 .. NMeta - 1
    BY DEF Exact
  <2> QED
    BY <2>1, DataSizes DEF Blocks, DataBlocks
<1>2. bm \cup {b} \subseteq Blocks /\ 0 .. NMeta - 1 \subseteq bm \cup {b}
  BY DEF Exact
<1>3. ASSUME NEW j \in Inodes, NEW m \in Places
      PROVE  BlockAt(d2, E2[j], m) \in {0} \cup (DataBlocks \cap (bm \cup {b}))
  <2>1. BlockAt(d, E[j], m) \in {0} \cup (DataBlocks \cap bm)
    BY DEF Exact
  <2> QED
    BY <2>1, <1>1
<1>4. ASSUME NEW j \in Inodes, NEW l \in Inodes, NEW m \in Places, NEW k \in Places,
             BlockAt(d2, E2[j], m) # 0, BlockAt(d2, E2[j], m) = BlockAt(d2, E2[l], k)
      PROVE  j = l /\ m = k
  <2>1. /\ BlockAt(d, E[j], m) \in {0} \cup (DataBlocks \cap bm)
        /\ BlockAt(d, E[l], k) \in {0} \cup (DataBlocks \cap bm)
    BY DEF Exact
  <2>2. BlockAt(d, E[j], m) # b /\ BlockAt(d, E[l], k) # b
    BY <2>1, <1>1
  <2>3. CASE j = i /\ m = n
    BY <2>3, <2>2, <1>4
  <2>4. CASE l = i /\ k = n
    BY <2>4, <2>2, <1>4
  <2>5. CASE ~ (j = i /\ m = n) /\ ~ (l = i /\ k = n)
    <3>1. BlockAt(d, E[j], m) # 0 /\ BlockAt(d, E[j], m) = BlockAt(d, E[l], k)
      BY <2>5, <1>4
    <3> QED
      BY <3>1 DEF Exact
  <2> QED
    BY <2>3, <2>4, <2>5
<1>5. ASSUME NEW c \in (bm \cup {b}) \cap DataBlocks
      PROVE  \E j \in Inodes, m \in Places : BlockAt(d2, E2[j], m) = c
  <2>1. CASE c = b
    BY <2>1
  <2>2. CASE c # b
    <3>1. PICK j \in Inodes, m \in Places : BlockAt(d, E[j], m) = c
      BY <2>2, <1>5 DEF Exact
    <3>2. c # 0
      BY <1>5, DataSizes DEF DataBlocks
    <3> QED
      BY <3>1, <3>2
  <2> QED
    BY <2>1, <2>2
<1> QED
  BY <1>2, <1>3, <1>4, <1>5 DEF Exact

\* What cache_alloc gives: a free block, cleared, or a PANIC.
Allocated(t, bm, d, e, a) ==
    \/ t = [bitmap |-> bm, data |-> d, e |-> e, addr |-> a, panic |-> TRUE]
    \/ \E b \in Blocks \ bm :
         t = [bitmap |-> bm \cup {b}, data |-> [d EXCEPT ![b] = ZeroBlock], e |-> e,
              addr |-> b, panic |-> FALSE]

LEMMA CacheAllocCases ==
    ASSUME NEW bm, NEW d, NEW e, NEW a
    PROVE  Allocated(CacheAlloc([bitmap |-> bm, data |-> d, e |-> e, addr |-> a, panic |-> FALSE]),
                     bm, d, e, a)
<1> DEFINE st == [bitmap |-> bm, data |-> d, e |-> e, addr |-> a, panic |-> FALSE]
           free == Blocks \ bm
           b == CHOOSE x \in free : \A y \in free : x <= y
           t == CacheAlloc(st)
<1>1. st.bitmap = bm /\ st.data = d
  OBVIOUS
<1>2. CASE free = {}
  <2>1. t = [st EXCEPT !.panic = TRUE]
    BY <1>1, <1>2 DEF CacheAlloc
  <2>2. t = [bitmap |-> bm, data |-> d, e |-> e, addr |-> a, panic |-> TRUE]
    <3> HIDE DEF t
    <3> QED
      BY <2>1
  <2> QED
    BY <2>2 DEF Allocated
<1>3. CASE free # {}
  <2>1. free \subseteq Nat
    BY DataSizes DEF Blocks
  <2>2. \E x \in free : \A y \in free : x <= y
    <3> HIDE DEF free
    <3> QED
      BY <2>1, <1>3, LeastExists
  <2>3. b \in free
    <3> HIDE DEF free
    <3> QED
      BY <2>2
  <2>4. t = [st EXCEPT !.bitmap = @ \cup {b}, !.data[b] = ZeroBlock, !.addr = b]
    BY <1>1, <1>3 DEF CacheAlloc
  <2>5. t = [bitmap |-> bm \cup {b}, data |-> [d EXCEPT ![b] = ZeroBlock], e |-> e,
             addr |-> b, panic |-> FALSE]
    <3> HIDE DEF b, t
    <3> QED
      BY <2>4
  <2> QED
    BY <2>3, <2>5 DEF Allocated
<1> QED
  BY <1>2, <1>3

LEMMA ZeroBlockType == /\ ZeroBlock \in [Offsets -> Cells] /\ ZeroCell \in Cells
                       /\ \A k \in Offsets : ZeroBlock[k] = ZeroCell
  BY DEF ZeroBlock, Offsets, Cells, FileCells

\* What an allocation leaves.
After(bm, d, e, a) == [bitmap |-> bm, data |-> d, e |-> e, addr |-> a, panic |-> FALSE]

LEMMA AfterFields ==
    ASSUME NEW bm, NEW d, NEW e, NEW a
    PROVE  /\ After(bm, d, e, a).bitmap = bm /\ After(bm, d, e, a).data = d
           /\ After(bm, d, e, a).e = e /\ After(bm, d, e, a).addr = a
  BY DEF After

\* The ways through inode_map: the block is there, it is allocated, or the
\* indirect block is allocated before it.
MapCases(bm, d, e, n, t) ==
    \/ BlockAt(d, e, n) # 0 /\ t = After(bm, d, e, BlockAt(d, e, n))
    \/ \E b \in Blocks \ bm :
         /\ n < NDirect /\ BlockAt(d, e, n) = 0
         /\ t = After(bm \cup {b}, [d EXCEPT ![b] = ZeroBlock], [e EXCEPT !.addrs[n] = b], b)
    \/ \E b \in Blocks \ bm, k \in Offsets :
         /\ n = NDirect + k /\ BlockAt(d, e, n) = 0 /\ e.indirect # 0
         /\ t = After(bm \cup {b}, [[d EXCEPT ![b] = ZeroBlock] EXCEPT ![e.indirect][k] = b], e, b)
    \/ \E b \in Blocks \ bm, k \in Offsets : \E c \in Blocks \ (bm \cup {b}) :
         /\ n = NDirect + k /\ BlockAt(d, e, n) = 0 /\ e.indirect = 0
         /\ t = After((bm \cup {b}) \cup {c},
                      [[[d EXCEPT ![b] = ZeroBlock] EXCEPT ![c] = ZeroBlock] EXCEPT ![b][k] = c],
                      [e EXCEPT !.indirect = b], c)

LEMMA MapBlockCases ==
    ASSUME NEW bm, NEW d \in [Blocks -> [Offsets -> Cells]], NEW e \in InodeEntries,
           NEW n \in FilePlaces, 0 \in bm,
           \A k \in Offsets : e.indirect # 0 => d[e.indirect][k] # 0,
           NEW t, t = MapBlock([bitmap |-> bm, data |-> d, e |-> e, addr |-> 0, panic |-> FALSE], n),
           ~ t.panic
    PROVE  MapCases(bm, d, e, n, t)
<1> DEFINE st == [bitmap |-> bm, data |-> d, e |-> e, addr |-> 0, panic |-> FALSE]
<1>0. st.bitmap = bm /\ st.data = d /\ st.e = e /\ ~ st.panic
  OBVIOUS
<1>1. CASE n < NDirect
  <2>0. n \in 0 .. NDirect - 1
    BY <1>1, DataSizes DEF FilePlaces
  <2>1. BlockAt(d, e, n) = e.addrs[n]
    BY <2>0, DirectAt
  <2>2. CASE e.addrs[n] # 0
    <3>1. t = [st EXCEPT !.addr = e.addrs[n]]
      BY <1>0, <1>1, <2>2 DEF MapBlock
    <3>2. t = [bitmap |-> bm, data |-> d, e |-> e, addr |-> BlockAt(d, e, n), panic |-> FALSE]
      BY <3>1, <2>1
    <3> QED
      BY <3>2, <2>1, <2>2 DEF MapCases, After
  <2>3. CASE e.addrs[n] = 0
    <3> DEFINE u == CacheAlloc(st)
    <3>1. t = [u EXCEPT !.e.addrs[n] = u.addr]
      BY <1>0, <1>1, <2>3 DEF MapBlock
    <3>2. Allocated(u, bm, d, e, 0)
      BY CacheAllocCases
    <3>3. ~ u.panic
      <4> HIDE DEF u
      <4>1. ASSUME u = [bitmap |-> bm, data |-> d, e |-> e, addr |-> 0, panic |-> TRUE]
            PROVE  t.panic
        <5>1. t = [bitmap |-> bm, data |-> d, e |-> [e EXCEPT !.addrs[n] = 0], addr |-> 0, panic |-> TRUE]
          BY <3>1, <4>1
        <5> QED
          BY <5>1
      <4> QED
        BY <4>1, <3>2 DEF Allocated
    <3>4. PICK b \in Blocks \ bm :
               u = [bitmap |-> bm \cup {b}, data |-> [d EXCEPT ![b] = ZeroBlock], e |-> e,
                    addr |-> b, panic |-> FALSE]
      <4> HIDE DEF u
      <4> QED
        BY <3>2, <3>3 DEF Allocated
    <3>5. t = [bitmap |-> bm \cup {b}, data |-> [d EXCEPT ![b] = ZeroBlock],
               e |-> [e EXCEPT !.addrs[n] = b], addr |-> b, panic |-> FALSE]
      <4> HIDE DEF u
      <4> QED
        BY <3>1, <3>4
    <3> QED
      BY <3>5, <2>1, <2>3, <1>1 DEF MapCases, After
  <2> QED
    BY <2>2, <2>3
<1>2. CASE ~ (n < NDirect)
  <2>1. PICK k \in Offsets : n = NDirect + k
    BY <1>2, PlacesAre, DataSizes
  <2>2. n - NDirect = k
    BY <2>1, DataSizes DEF Offsets
  <2>3. BlockAt(d, e, n) = IF e.indirect = 0 \/ d[e.indirect][k] = ZeroCell THEN 0 ELSE d[e.indirect][k]
    BY <2>1, ListedAt
  <2> DEFINE v == IF st.e.indirect # 0 THEN st
                  ELSE LET u == CacheAlloc(st) IN [u EXCEPT !.e.indirect = u.addr]
             w == CacheAlloc(v)
  <2>4. t = IF v.panic THEN v
            ELSE IF v.data[v.e.indirect][k] # ZeroCell
            THEN [v EXCEPT !.addr = v.data[v.e.indirect][k]]
            ELSE [w EXCEPT !.data[v.e.indirect][k] = w.addr]
    <3>1. t = IF v.panic THEN v
              ELSE IF v.data[v.e.indirect][n - NDirect] # ZeroCell
              THEN [v EXCEPT !.addr = v.data[v.e.indirect][n - NDirect]]
              ELSE [w EXCEPT !.data[v.e.indirect][n - NDirect] = w.addr]
      BY <1>2, Zenon DEF MapBlock
    <3> HIDE DEF v, w
    <3> QED
      BY <3>1, <2>2
  <2>5. ~ v.panic
    <3> HIDE DEF v, w
    <3> QED
      BY <2>4
  <2>6. CASE e.indirect # 0
    <3>1. v = st
      BY <2>6, <1>0
    <3>2. CASE d[e.indirect][k] # ZeroCell
      <4>1. t = [st EXCEPT !.addr = d[e.indirect][k]]
        <5> HIDE DEF w, v
        <5> QED
          BY <2>4, <2>5, <3>1, <3>2, <1>0
      <4>2. t = [bitmap |-> bm, data |-> d, e |-> e, addr |-> d[e.indirect][k], panic |-> FALSE]
        BY <4>1
      <4>3. BlockAt(d, e, n) = d[e.indirect][k]
        BY <2>3, <2>6, <3>2
      <4>4. d[e.indirect][k] # 0
        BY <2>6
      <4> QED
        BY <4>2, <4>3, <4>4 DEF MapCases, After
    <3>3. CASE d[e.indirect][k] = ZeroCell
      <4>1. t = [w EXCEPT !.data[e.indirect][k] = w.addr]
        <5> HIDE DEF w, v
        <5> QED
          BY <2>4, <2>5, <3>1, <3>3, <1>0
      <4>2. w = CacheAlloc(st)
        BY <3>1
      <4>3. Allocated(w, bm, d, e, 0)
        <5>1. Allocated(CacheAlloc(st), bm, d, e, 0)
          BY CacheAllocCases
        <5> HIDE DEF w, v, st
        <5> QED
          BY <4>2, <5>1
      <4>4. ASSUME w = [bitmap |-> bm, data |-> d, e |-> e, addr |-> 0, panic |-> TRUE]
            PROVE  t.panic
        <5> HIDE DEF w
        <5>1. t = [bitmap |-> bm, data |-> [d EXCEPT ![e.indirect][k] = 0], e |-> e, addr |-> 0,
                   panic |-> TRUE]
          BY <4>1, <4>4
        <5> QED
          BY <5>1
      <4>5. PICK b \in Blocks \ bm :
                 w = [bitmap |-> bm \cup {b}, data |-> [d EXCEPT ![b] = ZeroBlock], e |-> e,
                      addr |-> b, panic |-> FALSE]
        <5> HIDE DEF w, v, st
        <5> QED
          BY <4>3, <4>4 DEF Allocated
      <4>6. t = [bitmap |-> bm \cup {b},
                 data |-> [[d EXCEPT ![b] = ZeroBlock] EXCEPT ![e.indirect][k] = b],
                 e |-> e, addr |-> b, panic |-> FALSE]
        <5> HIDE DEF w
        <5> QED
          BY <4>1, <4>5
      <4> QED
        BY <4>6, <2>1, <2>3, <2>6, <3>3 DEF MapCases, After
    <3> QED
      BY <3>2, <3>3
  <2>7. CASE e.indirect = 0
    <3> DEFINE u == CacheAlloc(st)
    <3>1. v = [u EXCEPT !.e.indirect = u.addr]
      BY <2>7, <1>0
    <3>2. Allocated(u, bm, d, e, 0)
      BY CacheAllocCases
    <3>3. u = [bitmap |-> bm, data |-> d, e |-> e, addr |-> 0, panic |-> TRUE] => v.panic
      <4> HIDE DEF u, v
      <4> QED
        BY <3>1
    <3>4. PICK b \in Blocks \ bm :
               u = [bitmap |-> bm \cup {b}, data |-> [d EXCEPT ![b] = ZeroBlock], e |-> e,
                    addr |-> b, panic |-> FALSE]
      <4> HIDE DEF u, v
      <4> QED
        BY <3>2, <3>3, <2>5 DEF Allocated
    <3> DEFINE d1 == [d EXCEPT ![b] = ZeroBlock]
               e1 == [e EXCEPT !.indirect = b]
    <3>5. v = [bitmap |-> bm \cup {b}, data |-> d1, e |-> e1, addr |-> b, panic |-> FALSE]
      <4> HIDE DEF u, v
      <4> QED
        BY <3>1, <3>4
    <3>6. e1.indirect = b
      BY DEF InodeEntries
    <3>7. d1[b][k] = ZeroCell
      BY ZeroBlockType
    <3>8. t = [w EXCEPT !.data[b][k] = w.addr]
      <4>1. v.data[v.e.indirect][k] = ZeroCell /\ v.e.indirect = b
        <5> HIDE DEF d1, e1, v
        <5> QED
          BY <3>5, <3>6, <3>7
      <4> HIDE DEF d1, e1, v, w
      <4> QED
        BY <2>4, <2>5, <4>1
    <3>9. Allocated(w, bm \cup {b}, d1, e1, b)
      <4>1. w = CacheAlloc([bitmap |-> bm \cup {b}, data |-> d1, e |-> e1, addr |-> b, panic |-> FALSE])
        <5> HIDE DEF d1, e1, v
        <5> QED
          BY <3>5
      <4>2. Allocated(CacheAlloc([bitmap |-> bm \cup {b}, data |-> d1, e |-> e1, addr |-> b,
                                  panic |-> FALSE]), bm \cup {b}, d1, e1, b)
        BY CacheAllocCases
      <4> HIDE DEF d1, e1, v, w
      <4> QED
        BY <4>1, <4>2
    <3>10. ASSUME w = [bitmap |-> bm \cup {b}, data |-> d1, e |-> e1, addr |-> b, panic |-> TRUE]
           PROVE  t.panic
      <4> HIDE DEF w, d1, e1
      <4>1. t = [bitmap |-> bm \cup {b}, data |-> [d1 EXCEPT ![b][k] = b], e |-> e1, addr |-> b,
                 panic |-> TRUE]
        BY <3>8, <3>10
      <4> DEFINE d3 == [d1 EXCEPT ![b][k] = b]
      <4>2. t = [bitmap |-> bm \cup {b}, data |-> d3, e |-> e1, addr |-> b, panic |-> TRUE]
        BY <4>1
      <4> HIDE DEF d3
      <4> QED
        BY <4>2
    <3>11. PICK c \in Blocks \ (bm \cup {b}) :
               w = [bitmap |-> (bm \cup {b}) \cup {c}, data |-> [d1 EXCEPT ![c] = ZeroBlock], e |-> e1,
                    addr |-> c, panic |-> FALSE]
      <4> HIDE DEF d1, e1, w
      <4> QED
        BY <3>9, <3>10 DEF Allocated
    <3>12. t = [bitmap |-> (bm \cup {b}) \cup {c},
                data |-> [[d1 EXCEPT ![c] = ZeroBlock] EXCEPT ![b][k] = c],
                e |-> e1, addr |-> c, panic |-> FALSE]
      <4> HIDE DEF d1, e1, w
      <4> QED
        BY <3>8, <3>11
    <3> QED
      BY <3>12, <2>1, <2>3, <2>7 DEF MapCases, After
  <2> QED
    BY <2>6, <2>7
<1> QED
  BY <1>1, <1>2

\* A block that nobody lists is cleared: d1 is what the disk holds then.
ClearedOk(d, E, b, d1) ==
    /\ b # 0 /\ d1 \in [Blocks -> [Offsets -> Cells]] /\ d1[b] = ZeroBlock
    /\ \A x \in Blocks : x # b => d1[x] = d[x]
    /\ \A j \in Inodes : E[j].indirect # b
    /\ \A j \in Inodes, m \in Places : BlockAt(d1, E[j], m) = BlockAt(d, E[j], m)
    /\ \A j \in Inodes, k \in Offsets : E[j].indirect # 0 => d1[E[j].indirect][k] # 0

LEMMA ClearFree ==
    ASSUME NEW bm, NEW d, NEW E, Exact(bm, d, E), NEW b \in Blocks \ bm
    PROVE  ClearedOk(d, E, b, [d EXCEPT ![b] = ZeroBlock])
<1> DEFINE d1 == [d EXCEPT ![b] = ZeroBlock]
<1>1. d \in [Blocks -> [Offsets -> Cells]] /\ 0 \in bm
  BY DataSizes DEF Exact
<1>2. /\ b # 0 /\ d1 \in [Blocks -> [Offsets -> Cells]] /\ d1[b] = ZeroBlock
      /\ \A x \in Blocks : x # b => d1[x] = d[x]
  BY <1>1, ZeroBlockType
<1> HIDE DEF d1
<1>3. \A j \in Inodes : E[j].indirect # b /\ E[j].indirect \in Blocks
  BY <1>2, ListedBlocks
<1>4. ASSUME NEW j \in Inodes, NEW m \in Places
      PROVE  BlockAt(d1, E[j], m) = BlockAt(d, E[j], m)
  <2>1. d1[E[j].indirect] = d[E[j].indirect]
    BY <1>2, <1>3
  <2> QED
    BY <2>1 DEF BlockAt
<1>5. ASSUME NEW j \in Inodes, NEW k \in Offsets, E[j].indirect # 0
      PROVE  d1[E[j].indirect][k] # 0
  <2>1. d1[E[j].indirect] = d[E[j].indirect]
    BY <1>2, <1>3
  <2> QED
    BY <2>1, <1>5 DEF Exact
<1> QED
  BY <1>2, <1>3, <1>4, <1>5 DEF d1, ClearedOk

\* Block b is at place n of inode i, and nothing else has changed.
Linked(d, E, i, n, b, d2, E2) ==
    \A j \in Inodes, m \in Places :
      BlockAt(d2, E2[j], m) = IF j = i /\ m = n THEN b ELSE BlockAt(d, E[j], m)

LEMMA LinkDirect ==
    ASSUME NEW bm, NEW d, NEW E, Exact(bm, d, E), NEW i \in Inodes,
           NEW n \in 0 .. NDirect - 1, BlockAt(d, E[i], n) = 0, NEW b \in Blocks \ bm
    PROVE  LET d2 == [d EXCEPT ![b] = ZeroBlock]
               E2 == [E EXCEPT ![i] = [E[i] EXCEPT !.addrs[n] = b]]
           IN  Exact(bm \cup {b}, d2, E2) /\ Linked(d, E, i, n, b, d2, E2)
<1> DEFINE d2 == [d EXCEPT ![b] = ZeroBlock]
           e2 == [E[i] EXCEPT !.addrs[n] = b]
           E2 == [E EXCEPT ![i] = e2]
<1>1. /\ b # 0 /\ d2 \in [Blocks -> [Offsets -> Cells]] /\ d2[b] = ZeroBlock
      /\ \A x \in Blocks : x # b => d2[x] = d[x]
      /\ \A j \in Inodes, m \in Places : BlockAt(d2, E[j], m) = BlockAt(d, E[j], m)
      /\ \A j \in Inodes, k \in Offsets : E[j].indirect # 0 => d2[E[j].indirect][k] # 0
  BY ClearFree DEF ClearedOk
<1>2. E \in [Inodes -> InodeEntries] /\ E[i] \in InodeEntries
  BY DEF Exact
<1>3. /\ e2 \in InodeEntries /\ e2.indirect = E[i].indirect /\ e2.addrs[n] = b
      /\ \A m \in 0 .. NDirect - 1 : m # n => e2.addrs[m] = E[i].addrs[m]
  BY <1>2 DEF InodeEntries
<1>4. n \in FilePlaces /\ n \in Places
  BY DataSizes DEF FilePlaces, Places
<1> HIDE DEF e2, d2
<1>5. E2 \in [Inodes -> InodeEntries] /\ E2[i] = e2 /\ \A j \in Inodes : j # i => E2[j] = E[j]
  BY <1>2, <1>3
<1> HIDE DEF E2
<1>6. ASSUME NEW m \in Places
      PROVE  BlockAt(d2, e2, m) = IF m = n THEN b ELSE BlockAt(d2, E[i], m)
  <2>1. CASE m = -1
    <3>1. m # n
      BY <2>1, DataSizes
    <3>2. BlockAt(d2, e2, -1) = e2.indirect /\ BlockAt(d2, E[i], -1) = E[i].indirect
      BY IndirectAt
    <3> QED
      BY <2>1, <3>1, <3>2, <1>3
  <2>2. CASE m \in 0 .. NDirect - 1
    <3>1. BlockAt(d2, e2, m) = e2.addrs[m] /\ BlockAt(d2, E[i], m) = E[i].addrs[m]
      BY <2>2, DirectAt
    <3> QED
      BY <2>2, <3>1, <1>3
  <2>3. CASE \E k \in Offsets : m = NDirect + k
    <3>1. PICK k \in Offsets : m = NDirect + k
      BY <2>3
    <3>2. m # n
      BY <3>1, DataSizes DEF Offsets
    <3>3. BlockAt(d2, e2, m) = BlockAt(d2, E[i], m)
      BY <3>1, <1>3, ListedAt
    <3> QED
      BY <3>2, <3>3
  <2> QED
    BY <2>1, <2>2, <2>3, PlacesAre
<1>7. \A j \in Inodes, m \in Places :
        BlockAt(d2, E2[j], m) = IF j = i /\ m = n THEN b ELSE BlockAt(d, E[j], m)
  BY <1>1, <1>5, <1>6
<1>8. \A j \in Inodes, k \in Offsets : E2[j].indirect # 0 => d2[E2[j].indirect][k] # 0
  BY <1>1, <1>3, <1>5
<1>9. Exact(bm \cup {b}, d2, E2)
  BY <1>1, <1>4, <1>5, <1>7, <1>8, ListOne
<1> QED
  BY <1>7, <1>9 DEF Linked, d2, e2, E2

LEMMA LinkIndirect ==
    ASSUME NEW bm, NEW d, NEW E, Exact(bm, d, E), NEW i \in Inodes,
           E[i].indirect = 0, NEW b \in Blocks \ bm
    PROVE  LET d2 == [d EXCEPT ![b] = ZeroBlock]
               E2 == [E EXCEPT ![i] = [E[i] EXCEPT !.indirect = b]]
           IN  Exact(bm \cup {b}, d2, E2) /\ Linked(d, E, i, -1, b, d2, E2)
<1> DEFINE d2 == [d EXCEPT ![b] = ZeroBlock]
           e2 == [E[i] EXCEPT !.indirect = b]
           E2 == [E EXCEPT ![i] = e2]
<1>1. /\ b # 0 /\ d2 \in [Blocks -> [Offsets -> Cells]] /\ d2[b] = ZeroBlock
      /\ \A x \in Blocks : x # b => d2[x] = d[x]
      /\ \A j \in Inodes, m \in Places : BlockAt(d2, E[j], m) = BlockAt(d, E[j], m)
      /\ \A j \in Inodes, k \in Offsets : E[j].indirect # 0 => d2[E[j].indirect][k] # 0
  BY ClearFree DEF ClearedOk
<1>2. E \in [Inodes -> InodeEntries] /\ E[i] \in InodeEntries
  BY DEF Exact
<1>3. e2 \in InodeEntries /\ e2.indirect = b /\ e2.addrs = E[i].addrs
  BY <1>2 DEF InodeEntries
<1> HIDE DEF e2, d2
<1>5. E2 \in [Inodes -> InodeEntries] /\ E2[i] = e2 /\ \A j \in Inodes : j # i => E2[j] = E[j]
  BY <1>2, <1>3
<1> HIDE DEF E2
<1>6. ASSUME NEW m \in Places
      PROVE  BlockAt(d2, e2, m) = IF m = -1 THEN b ELSE BlockAt(d2, E[i], m)
  <2>1. CASE m = -1
    <3>2. BlockAt(d2, e2, -1) = e2.indirect
      BY IndirectAt
    <3> QED
      BY <2>1, <3>2, <1>3
  <2>2. CASE m \in 0 .. NDirect - 1
    <3>1. BlockAt(d2, e2, m) = e2.addrs[m] /\ BlockAt(d2, E[i], m) = E[i].addrs[m]
      BY <2>2, DirectAt
    <3>2. m # -1
      BY <2>2, DataSizes
    <3> QED
      BY <3>2, <3>1, <1>3
  <2>3. CASE \E k \in Offsets : m = NDirect + k
    <3>1. PICK k \in Offsets : m = NDirect + k
      BY <2>3
    <3>2. m # -1
      BY <3>1, DataSizes DEF Offsets
    <3>3. BlockAt(d2, E[i], m) = 0
      BY <3>1, ListedAt
    <3>4. BlockAt(d2, e2, m) = 0
      <4>1. d2[e2.indirect][k] = ZeroCell
        BY <1>1, <1>3, ZeroBlockType
      <4> QED
        BY <3>1, <4>1, ListedAt
    <3> QED
      BY <3>2, <3>3, <3>4
  <2> QED
    BY <2>1, <2>2, <2>3, PlacesAre
<1>7. \A j \in Inodes, m \in Places :
        BlockAt(d2, E2[j], m) = IF j = i /\ m = -1 THEN b ELSE BlockAt(d, E[j], m)
  BY <1>1, <1>5, <1>6
<1>8. ASSUME NEW j \in Inodes, NEW k \in Offsets
      PROVE  E2[j].indirect # 0 => d2[E2[j].indirect][k] # 0
  <2>1. CASE j = i
    <3>1. d2[E2[j].indirect][k] = ZeroCell
      BY <2>1, <1>1, <1>3, <1>5, ZeroBlockType
    <3>2. ZeroCell # 0
      BY NullAssumption, DataSizes DEF Blocks
    <3> QED
      BY <3>1, <3>2
  <2>2. CASE j # i
    BY <2>2, <1>1, <1>5
  <2> QED
    BY <2>1, <2>2
<1>9. Exact(bm \cup {b}, d2, E2)
  <2>1. BlockAt(d, E[i], -1) = 0 /\ -1 \in Places
    BY IndirectAt, PlacesAre
  <2> QED
    BY <2>1, <1>1, <1>5, <1>7, <1>8, ListOne
<1> QED
  BY <1>7, <1>9 DEF Linked, d2, e2, E2

LEMMA LinkListed ==
    ASSUME NEW bm, NEW d, NEW E, Exact(bm, d, E), NEW i \in Inodes,
           E[i].indirect # 0, NEW k \in Offsets, BlockAt(d, E[i], NDirect + k) = 0,
           NEW b \in Blocks \ bm
    PROVE  LET d2 == [[d EXCEPT ![b] = ZeroBlock] EXCEPT ![E[i].indirect][k] = b]
           IN  Exact(bm \cup {b}, d2, E) /\ Linked(d, E, i, NDirect + k, b, d2, E)
<1> DEFINE d1 == [d EXCEPT ![b] = ZeroBlock]
           x == E[i].indirect
           d2 == [d1 EXCEPT ![x][k] = b]
<1>1. /\ b # 0 /\ d1 \in [Blocks -> [Offsets -> Cells]]
      /\ \A j \in Inodes, m \in Places : BlockAt(d1, E[j], m) = BlockAt(d, E[j], m)
      /\ \A j \in Inodes, l \in Offsets : E[j].indirect # 0 => d1[E[j].indirect][l] # 0
  BY ClearFree DEF ClearedOk
<1>2. E \in [Inodes -> InodeEntries] /\ x \in Blocks
  <2>1. E \in [Inodes -> InodeEntries]
    BY DEF Exact
  <2> QED
    BY <2>1, ListedBlocks
<1>3. b \in Cells
  BY DEF Cells
<1> HIDE DEF d1
<1>4. /\ d2 \in [Blocks -> [Offsets -> Cells]] /\ d2[x][k] = b
      /\ \A l \in Offsets : l # k => d2[x][l] = d1[x][l]
      /\ \A y \in Blocks : y # x => d2[y] = d1[y]
  BY <1>1, <1>2, <1>3
<1> HIDE DEF d2
<1>5. ASSUME NEW j \in Inodes, j # i
      PROVE  E[j].indirect # 0 => E[j].indirect # x
  <2>1. BlockAt(d, E[j], -1) = E[j].indirect /\ BlockAt(d, E[i], -1) = x /\ -1 \in Places
    BY IndirectAt, PlacesAre
  <2> QED
    BY <2>1, <1>5 DEF Exact
<1>6. ASSUME NEW j \in Inodes, j # i, NEW m \in Places
      PROVE  BlockAt(d2, E[j], m) = BlockAt(d1, E[j], m)
  <2>1. E[j].indirect \in Blocks
    BY ListedBlocks
  <2>2. E[j].indirect = 0 \/ d2[E[j].indirect] = d1[E[j].indirect]
    BY <2>1, <1>4, <1>5, <1>6
  <2> QED
    BY <2>2 DEF BlockAt
<1>7. ASSUME NEW m \in Places
      PROVE  BlockAt(d2, E[i], m) = IF m = NDirect + k THEN b ELSE BlockAt(d1, E[i], m)
  <2>1. CASE m = -1
    <3>1. m # NDirect + k
      BY <2>1, DataSizes DEF Offsets
    <3>2. BlockAt(d2, E[i], -1) = x /\ BlockAt(d1, E[i], -1) = x
      BY IndirectAt
    <3> QED
      BY <2>1, <3>1, <3>2
  <2>2. CASE m \in 0 .. NDirect - 1
    <3>1. BlockAt(d2, E[i], m) = E[i].addrs[m] /\ BlockAt(d1, E[i], m) = E[i].addrs[m]
      BY <2>2, DirectAt
    <3>2. m # NDirect + k
      BY <2>2, DataSizes DEF Offsets
    <3> QED
      BY <3>1, <3>2
  <2>3. CASE \E l \in Offsets : m = NDirect + l
    <3>1. PICK l \in Offsets : m = NDirect + l
      BY <2>3
    <3>2. m = NDirect + k <=> l = k
      BY <3>1, DataSizes DEF Offsets
    <3>3. BlockAt(d2, E[i], m) = IF d2[x][l] = ZeroCell THEN 0 ELSE d2[x][l]
      BY <3>1, ListedAt
    <3>4. BlockAt(d1, E[i], m) = IF d1[x][l] = ZeroCell THEN 0 ELSE d1[x][l]
      BY <3>1, ListedAt
    <3>5. b # ZeroCell
      BY NullAssumption
    <3> QED
      BY <3>2, <3>3, <3>4, <3>5, <1>4
  <2> QED
    BY <2>1, <2>2, <2>3, PlacesAre
<1>8. \A j \in Inodes, m \in Places :
        BlockAt(d2, E[j], m) = IF j = i /\ m = NDirect + k THEN b ELSE BlockAt(d, E[j], m)
  BY <1>1, <1>6, <1>7
<1>9. ASSUME NEW j \in Inodes, NEW l \in Offsets
      PROVE  E[j].indirect # 0 => d2[E[j].indirect][l] # 0
  <2>1. E[j].indirect \in Blocks
    BY ListedBlocks
  <2> QED
    BY <2>1, <1>1, <1>4
<1>10. Exact(bm \cup {b}, d2, E)
  <2>1. NDirect + k \in Places
    BY PlacesAre
  <2> QED
    BY <2>1, <1>1, <1>2, <1>4, <1>8, <1>9, ListOne
<1> QED
  BY <1>8, <1>10 DEF Linked, d1, d2

\* What inode_map does for place n of inode i: t is what it leaves, E2 the
\* inodes then.
MapOkIn(d, E, i, n, t, E2) ==
    /\ Exact(t.bitmap, t.data, E2)
    /\ E2[i].type = E[i].type /\ E2[i].bytes = E[i].bytes
    /\ t.addr # 0 /\ BlockAt(t.data, E2[i], n) = t.addr
    /\ \A j \in Inodes, m \in FilePlaces : j # i \/ m # n =>
         BlockAt(t.data, E2[j], m) = BlockAt(d, E[j], m)
    /\ \A j \in Inodes, m \in FilePlaces : BlockAt(d, E[j], m) # 0 =>
         t.data[BlockAt(d, E[j], m)] = d[BlockAt(d, E[j], m)]
    /\ BlockAt(d, E[i], n) # 0 => E2 = E /\ t.addr = BlockAt(d, E[i], n)
    /\ BlockAt(d, E[i], n) = 0 => t.data[t.addr] = ZeroBlock

MapOk(d, E, i, n, t) == MapOkIn(d, E, i, n, t, [E EXCEPT ![i] = t.e])

LEMMA MapBlockFacts ==
    ASSUME NEW bm, NEW d, NEW E, Exact(bm, d, E), NEW i \in Inodes, NEW n \in FilePlaces,
           NEW t, t = MapBlock([bitmap |-> bm, data |-> d, e |-> E[i], addr |-> 0, panic |-> FALSE], n),
           ~ t.panic
    PROVE  MapOk(d, E, i, n, t)
<1> DEFINE e == E[i]
           d1(b) == [d EXCEPT ![b] = ZeroBlock]
<1>0. t = MapBlock([bitmap |-> bm, data |-> d, e |-> e, addr |-> 0, panic |-> FALSE], n)
  OBVIOUS
<1>1. /\ d \in [Blocks -> [Offsets -> Cells]] /\ e \in InodeEntries /\ 0 \in bm
      /\ E \in [Inodes -> InodeEntries] /\ bm \subseteq Blocks
      /\ \A k \in Offsets : e.indirect # 0 => d[e.indirect][k] # 0
  BY DataSizes DEF Exact
<1>2. n \in Places /\ n # -1
  BY PlacesAre
<1>3. [E EXCEPT ![i] = E[i]] = E
  BY <1>1
<1>4. \A j \in Inodes, m \in FilePlaces : BlockAt(d, E[j], m) \in Blocks /\ m \in Places
  BY ListedBlocks, PlacesAre
<1>5. \A j \in Inodes, m \in FilePlaces : BlockAt(d, E[j], m) # 0 =>
        BlockAt(d, E[j], m) \in bm /\ \A l \in Inodes : BlockAt(d, E[j], m) # E[l].indirect
  BY ListedBlocks, PlacesAre
<1>6. MapCases(bm, d, e, n, t)
  <2> HIDE DEF e
  <2> QED
    BY <1>0, <1>1, MapBlockCases
<1>7. CASE /\ BlockAt(d, e, n) # 0
           /\ t = After(bm, d, e, BlockAt(d, e, n))
  <2>1. t.bitmap = bm /\ t.data = d /\ t.e = E[i] /\ t.addr = BlockAt(d, E[i], n)
    BY <1>7, AfterFields
  <2> QED
    BY <2>1, <1>3, <1>7 DEF MapOk, MapOkIn
<1>8. ASSUME NEW b \in Blocks \ bm, n < NDirect, BlockAt(d, e, n) = 0,
             t = After(bm \cup {b}, [d EXCEPT ![b] = ZeroBlock], [e EXCEPT !.addrs[n] = b], b)
      PROVE  MapOk(d, E, i, n, t)
  <2> DEFINE d2 == [d EXCEPT ![b] = ZeroBlock]
             e2 == [E[i] EXCEPT !.addrs[n] = b]
             E2 == [E EXCEPT ![i] = e2]
  <2>1. t.bitmap = bm \cup {b} /\ t.data = d2 /\ t.e = e2 /\ t.addr = b
    BY <1>8, AfterFields
  <2>2. Exact(bm \cup {b}, d2, E2) /\ Linked(d, E, i, n, b, d2, E2)
    <3>1. n \in 0 .. NDirect - 1
      BY <1>8, DataSizes DEF FilePlaces
    <3> QED
      BY <3>1, <1>8, LinkDirect
  <2>3. b # 0 /\ d2[b] = ZeroBlock /\ \A x \in Blocks : x # b => d2[x] = d[x]
    BY ClearFree DEF ClearedOk
  <2>4. e2.type = e.type /\ e2.bytes = e.bytes
    BY <1>1 DEF InodeEntries
  <2> HIDE DEF d2, e2
  <2>5. E2[i] = e2
    BY <1>1
  <2> HIDE DEF E2
  <2>6. \A j \in Inodes, m \in FilePlaces :
          BlockAt(d2, E2[j], m) = IF j = i /\ m = n THEN b ELSE BlockAt(d, E[j], m)
    BY <2>2, <1>4 DEF Linked
  <2>7. BlockAt(d2, e2, n) = b
    BY <2>5, <2>6
  <2>8. \A j \in Inodes, m \in FilePlaces : BlockAt(d, E[j], m) # 0 =>
          d2[BlockAt(d, E[j], m)] = d[BlockAt(d, E[j], m)]
    BY <2>3, <1>4, <1>5
  <2>9. E2 = [E EXCEPT ![i] = t.e]
    BY <2>1 DEF E2
  <2>10. BlockAt(d, E[i], n) = 0
    BY <1>8
  <2> QED
    <3>1. E2[i].type = E[i].type /\ E2[i].bytes = E[i].bytes
      BY <2>4, <2>5
    <3>2. MapOkIn(d, E, i, n, t, E2)
      BY <2>1, <2>2, <2>3, <2>6, <2>8, <2>10, <3>1 DEF MapOkIn
    <3> QED
      BY <3>2, <2>9 DEF MapOk
<1>9. ASSUME NEW b \in Blocks \ bm, NEW k \in Offsets,
             n = NDirect + k, BlockAt(d, e, n) = 0, e.indirect # 0,
             t = After(bm \cup {b}, [[d EXCEPT ![b] = ZeroBlock] EXCEPT ![e.indirect][k] = b], e, b)
      PROVE  MapOk(d, E, i, n, t)
  <2> DEFINE u == [d EXCEPT ![b] = ZeroBlock]
             d2 == [u EXCEPT ![E[i].indirect][k] = b]
  <2>1. t.bitmap = bm \cup {b} /\ t.data = d2 /\ t.e = E[i] /\ t.addr = b
    BY <1>9, AfterFields
  <2>2. Exact(bm \cup {b}, d2, E) /\ Linked(d, E, i, n, b, d2, E)
    BY <1>9, LinkListed
  <2>21. ClearedOk(d, E, b, u)
    BY ClearFree DEF ClearedOk
  <2>3. /\ b # 0 /\ u \in [Blocks -> [Offsets -> Cells]] /\ u[b] = ZeroBlock
        /\ \A x \in Blocks : x # b => u[x] = d[x]
        /\ \A j \in Inodes : E[j].indirect # b
    <3> HIDE DEF u
    <3> QED
      BY <2>21 DEF ClearedOk
  <2> HIDE DEF u
  <2>4. \A x \in Blocks : x # E[i].indirect => d2[x] = u[x]
    BY <2>3
  <2> HIDE DEF d2
  <2>5. d2[b] = ZeroBlock
    BY <2>3, <2>4
  <2>6. \A j \in Inodes, m \in FilePlaces :
          BlockAt(d2, E[j], m) = IF j = i /\ m = n THEN b ELSE BlockAt(d, E[j], m)
    BY <2>2, <1>4 DEF Linked
  <2>8. \A j \in Inodes, m \in FilePlaces : BlockAt(d, E[j], m) # 0 =>
          d2[BlockAt(d, E[j], m)] = d[BlockAt(d, E[j], m)]
    BY <2>3, <2>4, <1>4, <1>5
  <2>9. E = [E EXCEPT ![i] = t.e]
    BY <2>1, <1>3
  <2>10. BlockAt(d, E[i], n) = 0
    BY <1>9
  <2> QED
    <3>2. MapOkIn(d, E, i, n, t, E)
      BY <2>1, <2>2, <2>3, <2>5, <2>6, <2>8, <2>10 DEF MapOkIn
    <3> QED
      BY <3>2, <2>9 DEF MapOk
<1>10. ASSUME NEW b \in Blocks \ bm, NEW k \in Offsets, NEW c \in Blocks \ (bm \cup {b}),
              n = NDirect + k, BlockAt(d, e, n) = 0, e.indirect = 0,
              t = After((bm \cup {b}) \cup {c},
                        [[[d EXCEPT ![b] = ZeroBlock] EXCEPT ![c] = ZeroBlock] EXCEPT ![b][k] = c],
                        [e EXCEPT !.indirect = b], c)
       PROVE  MapOk(d, E, i, n, t)
  <2> DEFINE u == [d EXCEPT ![b] = ZeroBlock]
             e2 == [E[i] EXCEPT !.indirect = b]
             E2 == [E EXCEPT ![i] = e2]
             v == [u EXCEPT ![c] = ZeroBlock]
             d2 == [v EXCEPT ![b][k] = c]
             b2 == bm \cup {b}
  <2>1. t.bitmap = b2 \cup {c} /\ t.data = d2 /\ t.e = e2 /\ t.addr = c
    BY <1>10, AfterFields
  <2>2. Exact(b2, u, E2) /\ Linked(d, E, i, -1, b, u, E2)
    BY <1>10, LinkIndirect
  <2>3. b # 0 /\ u \in [Blocks -> [Offsets -> Cells]] /\ \A x \in Blocks : x # b => u[x] = d[x]
    BY ClearFree DEF ClearedOk
  <2>4. e2.type = e.type /\ e2.bytes = e.bytes /\ e2.indirect = b
    BY <1>1 DEF InodeEntries
  <2> HIDE DEF u, e2
  <2>5. E2[i] = e2
    BY <1>1
  <2>6. E2 = [E EXCEPT ![i] = t.e]
    BY <2>1
  <2> HIDE DEF E2
  <2>7. \A j \in Inodes, m \in FilePlaces : BlockAt(u, E2[j], m) = BlockAt(d, E[j], m)
    <3> SUFFICES ASSUME NEW j \in Inodes, NEW m \in FilePlaces
                 PROVE  BlockAt(u, E2[j], m) = BlockAt(d, E[j], m)
      OBVIOUS
    <3>1. m \in Places /\ m # -1
      BY PlacesAre
    <3> QED
      BY <3>1, <2>2 DEF Linked
  <2>8. Exact(b2 \cup {c}, d2, E2) /\ Linked(u, E2, i, n, c, d2, E2)
    <3>1. E2[i].indirect = b /\ E2[i].indirect # 0 /\ BlockAt(u, E2[i], NDirect + k) = 0
      BY <2>3, <2>4, <2>5, <2>7, <1>10
    <3>2. c \in Blocks \ b2
      OBVIOUS
    <3> HIDE DEF b2
    <3>3. LET w == [[u EXCEPT ![c] = ZeroBlock] EXCEPT ![E2[i].indirect][k] = c]
          IN  Exact(b2 \cup {c}, w, E2) /\ Linked(u, E2, i, NDirect + k, c, w, E2)
      BY <3>1, <3>2, <2>2, LinkListed
    <3> QED
      BY <3>1, <3>3, <1>10
  <2>9. /\ c # 0 /\ v \in [Blocks -> [Offsets -> Cells]] /\ v[c] = ZeroBlock
        /\ \A x \in Blocks : x # c => v[x] = u[x]
    <3>1. c \in Blocks \ b2
      OBVIOUS
    <3> HIDE DEF b2
    <3>2. ClearedOk(u, E2, c, v)
      BY <3>1, <2>2, ClearFree
    <3> HIDE DEF v
    <3> QED
      BY <3>2 DEF ClearedOk
  <2> HIDE DEF v
  <2>10. \A x \in Blocks : x # b => d2[x] = v[x]
    BY <2>9
  <2>11. c # b /\ c \notin bm
    OBVIOUS
  <2> HIDE DEF d2
  <2>12. d2[c] = ZeroBlock
    BY <2>9, <2>10, <2>11
  <2>13. \A j \in Inodes, m \in FilePlaces :
          BlockAt(d2, E2[j], m) = IF j = i /\ m = n THEN c ELSE BlockAt(d, E[j], m)
    BY <2>7, <2>8, <1>4 DEF Linked
  <2>14. \A j \in Inodes, m \in FilePlaces : BlockAt(d, E[j], m) # 0 =>
          d2[BlockAt(d, E[j], m)] = d[BlockAt(d, E[j], m)]
    BY <2>3, <2>9, <2>10, <2>11, <1>4, <1>5
  <2>16. BlockAt(d, E[i], n) = 0
    BY <1>10
  <2> QED
    <3>1. E2[i].type = E[i].type /\ E2[i].bytes = E[i].bytes
      BY <2>4, <2>5
    <3>2. MapOkIn(d, E, i, n, t, E2)
      BY <2>1, <2>8, <2>9, <2>12, <2>13, <2>14, <2>16, <3>1 DEF MapOkIn
    <3> QED
      BY <3>2, <2>6 DEF MapOk
<1> QED
  BY <1>6, <1>7, <1>8, <1>9, <1>10 DEF MapCases

\* One block of a file gets new contents: no inode lists anything else.
PutOk(bm, d, E, x, blk, d2) ==
    /\ Exact(bm, d2, E) /\ d2[x] = blk
    /\ \A y \in Blocks : y # x => d2[y] = d[y]
    /\ \A j \in Inodes, m \in Places : BlockAt(d2, E[j], m) = BlockAt(d, E[j], m)

LEMMA PutBlock ==
    ASSUME NEW bm, NEW d, NEW E, Exact(bm, d, E), NEW i \in Inodes, NEW n \in FilePlaces,
           BlockAt(d, E[i], n) # 0, NEW blk \in [Offsets -> Cells]
    PROVE  PutOk(bm, d, E, BlockAt(d, E[i], n), blk, [d EXCEPT ![BlockAt(d, E[i], n)] = blk])
<1> DEFINE x == BlockAt(d, E[i], n)
           d2 == [d EXCEPT ![x] = blk]
<1>1. x \in Blocks /\ \A j \in Inodes : x # E[j].indirect /\ E[j].indirect \in Blocks
  BY ListedBlocks, PlacesAre
<1>2. d \in [Blocks -> [Offsets -> Cells]]
  BY DEF Exact
<1> HIDE DEF x
<1>3. /\ d2 \in [Blocks -> [Offsets -> Cells]] /\ d2[x] = blk
      /\ \A y \in Blocks : y # x => d2[y] = d[y]
  BY <1>1, <1>2
<1> HIDE DEF d2
<1>4. \A j \in Inodes : d2[E[j].indirect] = d[E[j].indirect]
  BY <1>1, <1>3
<1>5. \A j \in Inodes, m \in Places : BlockAt(d2, E[j], m) = BlockAt(d, E[j], m)
  BY <1>4 DEF BlockAt
<1>6. Exact(bm, d2, E)
  BY <1>3, <1>4, <1>5 DEF Exact
<1>7. PutOk(bm, d, E, x, blk, d2)
  BY <1>3, <1>5, <1>6 DEF PutOk
<1> QED
  BY <1>7 DEF x, d2

-----------------------------------------------------------------------------
(* What a file holds, before and after a block of some file is written. *)

\* The cell at offset o is what it was.
SameCell(d, e, d2, e2, o) ==
    /\ InBlock(d2, e2, o) <=> InBlock(d, e, o)
    /\ InBlock(d, e, o) => CellAt(d2, e2, o) = CellAt(d, e, o)

\* The block that inode_map gives for place n of inode i holds what it held, or
\* zeroes if it is new.
OldBlock(d, E, i, n, t) ==
    /\ t.data[t.addr] \in [Offsets -> Cells]
    /\ \A k \in Offsets :
         t.data[t.addr][k] = IF BlockAt(d, E[i], n) = 0 THEN ZeroCell ELSE d[BlockAt(d, E[i], n)][k]

LEMMA MapBlockOld ==
    ASSUME NEW bm, NEW d, NEW E, Exact(bm, d, E), NEW i \in Inodes, NEW n \in FilePlaces,
           NEW t, t = MapBlock([bitmap |-> bm, data |-> d, e |-> E[i], addr |-> 0, panic |-> FALSE], n),
           ~ t.panic
    PROVE  OldBlock(d, E, i, n, t)
<1> DEFINE E2 == [E EXCEPT ![i] = t.e]
<1>1. MapOkIn(d, E, i, n, t, E2)
  BY MapBlockFacts DEF MapOk
<1>2. d \in [Blocks -> [Offsets -> Cells]] /\ BlockAt(d, E[i], n) \in Blocks
  BY ListedBlocks, PlacesAre DEF Exact
<1> HIDE DEF E2
<1>3. CASE BlockAt(d, E[i], n) = 0
  BY <1>1, <1>3, ZeroBlockType DEF MapOkIn, OldBlock
<1>4. CASE BlockAt(d, E[i], n) # 0
  <2>1. t.addr = BlockAt(d, E[i], n) /\ t.data[t.addr] = d[t.addr]
    BY <1>1, <1>4 DEF MapOkIn
  <2> QED
    BY <2>1, <1>2, <1>4 DEF OldBlock
<1> QED
  BY <1>3, <1>4

\* Place n of inode i has been mapped, and its block written with blk.
BlockPut(d, E, i, n, t, blk, d2, E2) ==
    /\ Exact(t.bitmap, d2, E2)
    /\ E2[i].type = E[i].type /\ E2[i].bytes = E[i].bytes
    /\ \A j \in Inodes : j # i => E2[j] = E[j]
    /\ BlockAt(d, E[i], n) # 0 => E2 = E
    /\ \A j \in Inodes, o \in FileOffsets :
         j # i \/ o \div BlockSize # n => SameCell(d, E[j], d2, E2[j], o)
    /\ \A o \in FileOffsets : o \div BlockSize = n =>
         InBlock(d2, E2[i], o) /\ CellAt(d2, E2[i], o) = blk[o % BlockSize]

LEMMA MapAndPut ==
    ASSUME NEW bm, NEW d, NEW E, Exact(bm, d, E), NEW i \in Inodes, NEW n \in FilePlaces,
           NEW t, t = MapBlock([bitmap |-> bm, data |-> d, e |-> E[i], addr |-> 0, panic |-> FALSE], n),
           ~ t.panic, NEW blk \in [Offsets -> Cells]
    PROVE  BlockPut(d, E, i, n, t, blk, [t.data EXCEPT ![t.addr] = blk], [E EXCEPT ![i] = t.e])
<1> DEFINE E2 == [E EXCEPT ![i] = t.e]
           d2 == [t.data EXCEPT ![t.addr] = blk]
<1>1. MapOkIn(d, E, i, n, t, E2)
  BY MapBlockFacts DEF MapOk
<1>2. \A j \in Inodes : j # i => E2[j] = E[j]
  BY DEF Exact
<1> HIDE DEF E2
<1>3. /\ Exact(t.bitmap, t.data, E2) /\ t.addr # 0 /\ BlockAt(t.data, E2[i], n) = t.addr
      /\ E2[i].type = E[i].type /\ E2[i].bytes = E[i].bytes
      /\ BlockAt(d, E[i], n) # 0 => E2 = E
  BY <1>1 DEF MapOkIn
<1>4. /\ Exact(t.bitmap, d2, E2) /\ d2[t.addr] = blk
      /\ \A y \in Blocks : y # t.addr => d2[y] = t.data[y]
      /\ \A j \in Inodes, m \in Places : BlockAt(d2, E2[j], m) = BlockAt(t.data, E2[j], m)
  <2>1. PutOk(t.bitmap, t.data, E2, BlockAt(t.data, E2[i], n), blk,
              [t.data EXCEPT ![BlockAt(t.data, E2[i], n)] = blk])
    BY <1>3, PutBlock
  <2>2. PutOk(t.bitmap, t.data, E2, t.addr, blk, d2)
    BY <2>1, <1>3
  <2> QED
    BY <2>2 DEF PutOk
<1>41. \A j \in Inodes, m \in Places :
         BlockAt(t.data, E2[j], m) # 0 /\ BlockAt(t.data, E2[j], m) = BlockAt(t.data, E2[i], n)
         => j = i /\ m = n
  <2>1. n \in Places
    BY PlacesAre
  <2> DEFINE td == t.data
             tb == t.bitmap
  <2>0. Exact(tb, td, E2)
    BY <1>3
  <2> HIDE DEF td, tb
  <2>2. \A k, j \in Inodes, m, l \in Places :
          BlockAt(td, E2[k], m) # 0 /\ BlockAt(td, E2[k], m) = BlockAt(td, E2[j], l)
          => k = j /\ m = l
    BY <2>0, Zenon DEF Exact
  <2> QED
    BY <2>1, <2>2 DEF td
<1>5. \A j \in Inodes, m \in FilePlaces : j # i \/ m # n =>
        /\ BlockAt(d2, E2[j], m) = BlockAt(d, E[j], m)
        /\ BlockAt(d, E[j], m) # 0 => d2[BlockAt(d, E[j], m)] = d[BlockAt(d, E[j], m)]
  <2> SUFFICES ASSUME NEW j \in Inodes, NEW m \in FilePlaces, j # i \/ m # n
               PROVE  /\ BlockAt(d2, E2[j], m) = BlockAt(d, E[j], m)
                      /\ BlockAt(d, E[j], m) # 0 => d2[BlockAt(d, E[j], m)] = d[BlockAt(d, E[j], m)]
    OBVIOUS
  <2>1. m \in Places /\ n \in Places /\ BlockAt(d, E[j], m) \in Blocks
    BY ListedBlocks, PlacesAre
  <2>2. BlockAt(t.data, E2[j], m) = BlockAt(d, E[j], m)
    BY <1>1 DEF MapOkIn
  <2>3. BlockAt(d, E[j], m) # 0 => BlockAt(d, E[j], m) # t.addr
    BY <2>1, <2>2, <1>3, <1>41
  <2>4. BlockAt(d, E[j], m) # 0 => t.data[BlockAt(d, E[j], m)] = d[BlockAt(d, E[j], m)]
    BY <1>1 DEF MapOkIn
  <2> QED
    BY <2>1, <2>2, <2>3, <2>4, <1>4
<1>6. BlockAt(d2, E2[i], n) = t.addr
  BY <1>3, <1>4, PlacesAre
<1> HIDE DEF d2
<1>7. ASSUME NEW j \in Inodes, NEW o \in FileOffsets, j # i \/ o \div BlockSize # n
      PROVE  SameCell(d, E[j], d2, E2[j], o)
  <2>1. o \div BlockSize \in FilePlaces
    BY OffsetsAre
  <2> QED
    BY <2>1, <1>5, <1>7 DEF SameCell, InBlock, CellAt
<1>8. ASSUME NEW o \in FileOffsets, o \div BlockSize = n
      PROVE  InBlock(d2, E2[i], o) /\ CellAt(d2, E2[i], o) = blk[o % BlockSize]
  BY <1>3, <1>4, <1>6, <1>8 DEF InBlock, CellAt
<1>9. BlockPut(d, E, i, n, t, blk, d2, E2)
  BY <1>2, <1>3, <1>4, <1>7, <1>8 DEF BlockPut
<1> QED
  BY <1>9 DEF d2, E2

\* A file stays what it is when its cells are what they were.
LEMMA FileStays ==
    ASSUME NEW d, NEW e, NEW d2, NEW e2, NEW f, NEW off, NEW src, FileIs(d, e, f, off, src),
           e2.bytes = e.bytes, \A o \in FileOffsets : SameCell(d, e, d2, e2, o)
    PROVE  FileIs(d2, e2, f, off, src)
  BY DEF FileIs, SameCell, FileOffsets

\* The places of an inode do not depend on its size and its type.
LEMMA ExactOf ==
    ASSUME NEW bm, NEW d, NEW E, Exact(bm, d, E), NEW E2 \in [Inodes -> InodeEntries],
           \A i \in Inodes : E2[i].addrs = E[i].addrs /\ E2[i].indirect = E[i].indirect
    PROVE  Exact(bm, d, E2) /\ \A i \in Inodes, n \in Places : BlockAt(d, E2[i], n) = BlockAt(d, E[i], n)
<1>1. \A i \in Inodes, n \in Places : BlockAt(d, E2[i], n) = BlockAt(d, E[i], n)
  BY DEF BlockAt
<1> QED
  BY <1>1 DEF Exact

-----------------------------------------------------------------------------
(* What the steps of the calls and of mkfs make of a file. *)

\* What is known of a file's length and offsets.
LEMMA FileSizes ==
    ASSUME NEW d, NEW e, NEW f, NEW off \in Nat, NEW src \in Seq(FileCells), FileIs(d, e, f, off, src),
           e.bytes \in Nat
    PROVE  /\ f \in Seq(FileCells) /\ Len(f) \in Nat /\ Len(src) \in Nat
           /\ Len(f) <= INODE_MAX_BYTES /\ e.bytes <= Len(f) /\ off + Len(src) <= Len(f)
           /\ INODE_MAX_BYTES \in Nat
<1>1. /\ f \in Seq(FileCells) /\ e.bytes <= INODE_MAX_BYTES /\ off + Len(src) <= INODE_MAX_BYTES
      /\ Len(f) = IF off + Len(src) > e.bytes THEN off + Len(src) ELSE e.bytes
  BY DEF FileIs
<1>2. Len(f) \in Nat /\ Len(src) \in Nat /\ INODE_MAX_BYTES \in Nat
  BY <1>1, DataSizes
<1> QED
  BY <1>1, <1>2

\* The block blk has the first m cells of src from r on, else those of old.
Filled(blk, old, m, r, src) ==
    \A k \in Offsets : blk[k] = IF k \in r .. r + m - 1 THEN src[k - r + 1] ELSE old[k]

\* After a turn of inode_write's loop.
TurnOk(E, i, f, off, src, d2, E2, m) ==
    /\ FileIs(d2, E2[i], f, off + m, SubSeq(src, m + 1, Len(src)))
    /\ SubSeq(src, m + 1, Len(src)) \in Seq(FileCells) /\ off + m \in Nat
    /\ E2 = E \/ E2[i].bytes < off + m

\* WriteBlock.
LEMMA TurnWrites ==
    ASSUME NEW d, NEW E, NEW i \in Inodes, NEW off \in Nat, NEW src \in Seq(FileCells), src # <<>>,
           NEW f, FileIs(d, E[i], f, off, src), E[i].bytes \in Nat,
           NEW t, NEW blk, NEW d2, NEW E2,
           NEW n, OldBlock(d, E, i, n, t), BlockPut(d, E, i, n, t, blk, d2, E2),
           NEW m, NEW r, ChunkOk(off, Len(src), n, m, r),
           Filled(blk, t.data[t.addr], m, r, src)
    PROVE  TurnOk(E, i, f, off, src, d2, E2, m)
<1> DEFINE rest == SubSeq(src, m + 1, Len(src))
<1>1. /\ f \in Seq(FileCells) /\ Len(f) \in Nat /\ Len(src) \in Nat
      /\ Len(f) <= INODE_MAX_BYTES /\ E[i].bytes <= Len(f) /\ off + Len(src) <= Len(f)
      /\ INODE_MAX_BYTES \in Nat
  BY FileSizes
<1>2. Len(src) > 0
  BY <1>1
<1>3. /\ m \in Nat /\ m > 0 /\ m <= Len(src) /\ r \in Nat /\ r + m <= BlockSize
      /\ \A o \in Nat : off <= o /\ o < off + m => o \div BlockSize = n /\ o % BlockSize = r + (o - off)
      /\ \A o \in Nat :
           o \div BlockSize = n /\ r <= o % BlockSize /\ o % BlockSize < r + m
           => off <= o /\ o < off + m /\ o % BlockSize = r + (o - off)
  BY DEF ChunkOk
<1>4. /\ rest \in Seq(FileCells) /\ Len(rest) = Len(src) - m
      /\ \A k \in 1 .. Len(rest) : rest[k] = src[k + m]
  <2>1. /\ rest \in Seq(FileCells) /\ Len(rest) = Len(src) - m
        /\ \A k \in 1 .. Len(src) - m : rest[k] = src[k + m]
    BY <1>3, RestOf
  <2> HIDE DEF rest
  <2> QED
    BY <2>1
<1> HIDE DEF rest
<1>5. /\ E2[i].bytes = E[i].bytes
      /\ BlockAt(d, E[i], n) # 0 => E2 = E
      /\ \A o \in FileOffsets : o \div BlockSize # n => SameCell(d, E[i], d2, E2[i], o)
      /\ \A o \in FileOffsets : o \div BlockSize = n =>
           InBlock(d2, E2[i], o) /\ CellAt(d2, E2[i], o) = blk[o % BlockSize]
  BY DEF BlockPut
<1>6. \A o \in FileOffsets : o \in Nat /\ o % BlockSize \in Offsets
  BY OffsetsAre
<1>61. \A o \in FileOffsets : o < Len(f) /\ off <= o /\ o < off + Len(src) => f[o + 1] = src[o - off + 1]
  BY DEF FileIs, FileOffsets
<1>7. \A o \in FileOffsets : /\ InBlock(d, E[i], o) => InBlock(d2, E2[i], o)
                             /\ InBlock(d, E[i], o) /\ ~ (off <= o /\ o < off + m)
                                  => CellAt(d2, E2[i], o) = CellAt(d, E[i], o)
  <2> SUFFICES ASSUME NEW o \in FileOffsets, InBlock(d, E[i], o)
               PROVE  /\ InBlock(d2, E2[i], o)
                      /\ ~ (off <= o /\ o < off + m) => CellAt(d2, E2[i], o) = CellAt(d, E[i], o)
    OBVIOUS
  <2>1. CASE o \div BlockSize # n
    BY <2>1, <1>5 DEF SameCell
  <2>2. CASE o \div BlockSize = n
    <3>1. InBlock(d2, E2[i], o) /\ CellAt(d2, E2[i], o) = blk[o % BlockSize]
      BY <2>2, <1>5
    <3>2. ASSUME ~ (off <= o /\ o < off + m)
          PROVE  CellAt(d2, E2[i], o) = CellAt(d, E[i], o)
      <4>1. ~ (r <= o % BlockSize /\ o % BlockSize < r + m)
        BY <3>2, <2>2, <1>3, <1>6
      <4>2. o % BlockSize \in Offsets /\ o % BlockSize \in Int
        BY <1>6, DataSizes DEF Offsets
      <4>3. blk[o % BlockSize] = t.data[t.addr][o % BlockSize]
        BY <4>1, <4>2, <1>3 DEF Filled
      <4>4. t.data[t.addr][o % BlockSize] = d[BlockAt(d, E[i], n)][o % BlockSize]
        BY <4>2, <2>2 DEF OldBlock, InBlock
      <4> QED
        BY <3>1, <4>3, <4>4, <2>2 DEF CellAt
    <3> QED
      BY <3>1, <3>2
  <2> QED
    BY <2>1, <2>2
<1>8. \A o \in FileOffsets : off <= o /\ o < off + m =>
        InBlock(d2, E2[i], o) /\ CellAt(d2, E2[i], o) = src[o - off + 1]
  <2> SUFFICES ASSUME NEW o \in FileOffsets, off <= o, o < off + m
               PROVE  InBlock(d2, E2[i], o) /\ CellAt(d2, E2[i], o) = src[o - off + 1]
    OBVIOUS
  <2>1. o \div BlockSize = n /\ o % BlockSize = r + (o - off) /\ o \in Nat /\ o % BlockSize \in Offsets
    BY <1>3, <1>6
  <2>2. o % BlockSize \in r .. r + m - 1 /\ (o % BlockSize) - r + 1 = o - off + 1
    <3>1. PICK x \in Nat : x = o % BlockSize
      BY <2>1, <1>3
    <3>2. x = r + (o - off) /\ o \in Nat
      BY <2>1, <3>1
    <3>3. x \in r .. r + m - 1 /\ x - r + 1 = o - off + 1
      <4>1. r \in Nat /\ m \in Nat /\ off <= o /\ o < off + m
        BY <1>3
      <4> QED
        BY <3>2, <4>1
    <3> QED
      BY <3>1, <3>3
  <2> QED
    BY <2>1, <2>2, <1>5 DEF Filled
<1>9. FileIs(d2, E2[i], f, off + m, rest)
  <2>1. off + m + Len(rest) = off + Len(src)
    BY <1>1, <1>3, <1>4
  <2>2. Len(f) = IF off + Len(src) > E[i].bytes THEN off + Len(src) ELSE E[i].bytes
    BY DEF FileIs
  <2>3. ASSUME NEW o \in 0 .. INODE_MAX_BYTES - 1, o < E2[i].bytes
        PROVE  InBlock(d2, E2[i], o)
    BY <2>3, <1>5, <1>7 DEF FileIs, FileOffsets
  <2>4. ASSUME NEW o \in 0 .. INODE_MAX_BYTES - 1, o < Len(f), off + m <= o, o < off + m + Len(rest)
        PROVE  f[o + 1] = rest[o - (off + m) + 1]
    <3>1. f[o + 1] = src[o - off + 1]
      <4>1. off <= o /\ o < off + Len(src)
        BY <2>1, <2>4, <1>1, <1>3
      <4> QED
        BY <4>1, <2>4, <1>61 DEF FileOffsets
    <3>2. o - (off + m) + 1 \in 1 .. Len(rest) /\ o - (off + m) + 1 + m = o - off + 1
      BY <2>4, <1>1, <1>3, <1>4
    <3> QED
      BY <3>1, <3>2, <1>4
  <2>5. ASSUME NEW o \in 0 .. INODE_MAX_BYTES - 1, o < Len(f), ~ (off + m <= o /\ o < off + m + Len(rest))
        PROVE  InBlock(d2, E2[i], o) /\ CellAt(d2, E2[i], o) = f[o + 1]
    <3>1. CASE off <= o /\ o < off + m
      <4>1. f[o + 1] = src[o - off + 1]
        BY <2>5, <3>1, <1>1, <1>3, <1>61 DEF FileOffsets
      <4> QED
        BY <3>1, <4>1, <1>8 DEF FileOffsets
    <3>2. CASE ~ (off <= o /\ o < off + m)
      <4>1. ~ (off <= o /\ o < off + Len(src))
        BY <2>1, <2>5, <3>2, <1>1, <1>3
      <4>2. InBlock(d, E[i], o) /\ CellAt(d, E[i], o) = f[o + 1]
        BY <4>1, <2>5 DEF FileIs
      <4> QED
        BY <4>2, <3>2, <1>7 DEF FileOffsets
    <3> QED
      BY <3>1, <3>2
  <2>6. E2[i].bytes <= INODE_MAX_BYTES
    BY <1>1, <1>5
  <2> QED
    BY <2>1, <2>2, <2>3, <2>4, <2>5, <2>6, <1>1, <1>5 DEF FileIs
<1>10. E2 = E \/ E2[i].bytes < off + m
  <2>1. CASE off < E[i].bytes
    <3>1. off \in 0 .. INODE_MAX_BYTES - 1 /\ off \div BlockSize = n
      BY <2>1, <1>1, <1>3
    <3>2. InBlock(d, E[i], off)
      BY <3>1, <2>1 DEF FileIs
    <3> QED
      BY <3>1, <3>2, <1>5 DEF InBlock
  <2>2. CASE ~ (off < E[i].bytes)
    BY <2>2, <1>3, <1>5
  <2> QED
    BY <2>1, <2>2
<1>11. off + m \in Nat
  BY <1>3
<1> QED
  BY <1>4, <1>9, <1>10, <1>11 DEF rest, TurnOk

\* EndWrite: everything has been written, and the size is set.
LEMMA SizeIsSet ==
    ASSUME NEW d, NEW e \in InodeEntries, NEW f, NEW off \in Nat, FileIs(d, e, f, off, <<>>),
           NEW e2, e2 = IF e.bytes < off THEN [e EXCEPT !.bytes = off] ELSE e
    PROVE  FileIs(d, e2, f, 0, <<>>) /\ e2 \in InodeEntries
<1>1. e.bytes \in Nat
  BY DEF InodeEntries
<1>2. e2 \in InodeEntries /\ e2.addrs = e.addrs /\ e2.indirect = e.indirect
  BY DEF InodeEntries
<1>3. /\ f \in Seq(FileCells) /\ e.bytes <= INODE_MAX_BYTES /\ off <= INODE_MAX_BYTES
      /\ Len(f) = IF off > e.bytes THEN off ELSE e.bytes
      /\ \A o \in 0 .. INODE_MAX_BYTES - 1 : o < Len(f) => InBlock(d, e, o) /\ CellAt(d, e, o) = f[o + 1]
  BY <1>1 DEF FileIs
<1>4. e2.bytes = Len(f) /\ Len(f) <= INODE_MAX_BYTES /\ Len(f) \in Nat
  BY <1>1, <1>3 DEF InodeEntries
<1>5. \A o \in 0 .. INODE_MAX_BYTES - 1 :
        (InBlock(d, e2, o) <=> InBlock(d, e, o)) /\ CellAt(d, e2, o) = CellAt(d, e, o)
  BY <1>2 DEF InBlock, CellAt, BlockAt
<1>6. ASSUME NEW o \in 0 .. INODE_MAX_BYTES - 1, o < Len(f)
      PROVE  InBlock(d, e2, o) /\ CellAt(d, e2, o) = f[o + 1]
  BY <1>3, <1>5, <1>6
<1>7. FileIs(d, e2, f, 0, <<>>)
  BY <1>3, <1>4, <1>6, DataSizes DEF FileIs
<1> QED
  BY <1>2, <1>7

\* StartWrite: what is to be written is in the history already.
Planned(d, e, f, off, src, g) ==
    /\ FileIs(d, e, g, off, src) /\ g \in Seq(FileCells)
    /\ Len(g) = IF Len(f) > off + Len(src) THEN Len(f) ELSE off + Len(src)
    /\ \A k \in 1 .. Len(g) : g[k] = IF k \in off + 1 .. off + Len(src) THEN src[k - off] ELSE f[k]

LEMMA WriteIsPlanned ==
    ASSUME NEW d, NEW e \in InodeEntries, NEW f, FileIs(d, e, f, 0, <<>>),
           NEW off \in Nat, NEW src \in Seq(FileCells),
           off <= e.bytes, off + Len(src) <= INODE_MAX_BYTES
    PROVE  Planned(d, e, f, off, src, Overwrite(f, off, src))
<1> DEFINE n == IF Len(f) > off + Len(src) THEN Len(f) ELSE off + Len(src)
           g == Overwrite(f, off, src)
<1>1. e.bytes \in Nat /\ <<>> \in Seq(FileCells)
  BY DEF InodeEntries
<1>2. /\ f \in Seq(FileCells) /\ Len(f) \in Nat /\ Len(f) = e.bytes /\ Len(f) <= INODE_MAX_BYTES
      /\ \A o \in 0 .. INODE_MAX_BYTES - 1 : o < e.bytes => InBlock(d, e, o)
      /\ \A o \in 0 .. INODE_MAX_BYTES - 1 : o < Len(f) => InBlock(d, e, o) /\ CellAt(d, e, o) = f[o + 1]
  <2>1. /\ f \in Seq(FileCells) /\ Len(f) = IF 0 + Len(<<>>) > e.bytes THEN 0 + Len(<<>>) ELSE e.bytes
        /\ e.bytes <= INODE_MAX_BYTES
        /\ \A o \in 0 .. INODE_MAX_BYTES - 1 : o < e.bytes => InBlock(d, e, o)
    BY DEF FileIs
  <2>2. Len(<<>>) = 0
    OBVIOUS
  <2>3. \A o \in 0 .. INODE_MAX_BYTES - 1 : o < Len(f) => InBlock(d, e, o) /\ CellAt(d, e, o) = f[o + 1]
    BY <2>2 DEF FileIs
  <2> QED
    BY <2>1, <2>2, <2>3, <1>1
<1>3. Len(src) \in Nat /\ n \in Nat /\ \A k \in 1 .. Len(src) : src[k] \in FileCells
  BY <1>2
<1>4. g = [k \in 1 .. n |-> IF k \in off + 1 .. off + Len(src) THEN src[k - off] ELSE f[k]]
  BY DEF Overwrite
<1>5. \A k \in 1 .. n :
        (IF k \in off + 1 .. off + Len(src) THEN src[k - off] ELSE f[k]) \in FileCells
  <2> SUFFICES ASSUME NEW k \in 1 .. n
               PROVE  (IF k \in off + 1 .. off + Len(src) THEN src[k - off] ELSE f[k]) \in FileCells
    OBVIOUS
  <2>1. CASE k \in off + 1 .. off + Len(src)
    <3>1. k - off \in 1 .. Len(src)
      BY <2>1, <1>3
    <3> QED
      BY <3>1, <2>1, <1>3
  <2>2. CASE k \notin off + 1 .. off + Len(src)
    <3>1. k \in 1 .. Len(f)
      BY <2>2, <1>2, <1>3
    <3> QED
      BY <3>1, <2>2, <1>2
  <2> QED
    BY <2>1, <2>2
<1>6. g \in Seq(FileCells) /\ Len(g) = n
  BY <1>3, <1>4, <1>5
<1>7. \A k \in 1 .. n : g[k] = IF k \in off + 1 .. off + Len(src) THEN src[k - off] ELSE f[k]
  BY <1>4
<1>71. n <= INODE_MAX_BYTES
  BY <1>2, <1>3, DataSizes
<1> HIDE DEF g
<1>8. FileIs(d, e, g, off, src)
  <2>1. ASSUME NEW o \in 0 .. INODE_MAX_BYTES - 1, o < Len(g), off <= o, o < off + Len(src)
        PROVE  g[o + 1] = src[o - off + 1]
    <3>1. o + 1 \in off + 1 .. off + Len(src) /\ o + 1 \in 1 .. n /\ o + 1 - off = o - off + 1
      BY <2>1, <1>3, <1>6
    <3> QED
      BY <3>1, <1>7
  <2>2. ASSUME NEW o \in 0 .. INODE_MAX_BYTES - 1, o < Len(g), ~ (off <= o /\ o < off + Len(src))
        PROVE  InBlock(d, e, o) /\ CellAt(d, e, o) = g[o + 1]
    <3>1. o + 1 \notin off + 1 .. off + Len(src) /\ o + 1 \in 1 .. n /\ o < Len(f)
      BY <2>2, <1>2, <1>3, <1>6
    <3>2. g[o + 1] = f[o + 1]
      BY <3>1, <1>7
    <3> QED
      BY <3>1, <3>2, <1>2
  <2>3. Len(g) = IF off + Len(src) > e.bytes THEN off + Len(src) ELSE e.bytes
    BY <1>1, <1>2, <1>3, <1>6
  <2> QED
    BY <2>1, <2>2, <2>3, <1>2, <1>6 DEF FileIs
<1>9. Planned(d, e, f, off, src, g)
  BY <1>6, <1>7, <1>8 DEF Planned
<1> QED
  BY <1>9 DEF g

\* A file that nobody writes.
Settled(d, e, f) ==
    /\ f \in Seq(FileCells) /\ Len(f) = e.bytes /\ Len(f) \in Nat /\ Len(f) <= INODE_MAX_BYTES
    /\ \A o \in FileOffsets : o < Len(f) => InBlock(d, e, o) /\ CellAt(d, e, o) = f[o + 1]

LEMMA SettledIs ==
    ASSUME NEW d, NEW e, e.bytes \in Nat, NEW f
    PROVE  FileIs(d, e, f, 0, <<>>) <=> Settled(d, e, f)
<1>1. Len(<<>>) = 0 /\ \A n \in Nat : 0 + 0 > n <=> FALSE
  OBVIOUS
<1>2. ASSUME FileIs(d, e, f, 0, <<>>)
      PROVE  Settled(d, e, f)
  <2>1. /\ f \in Seq(FileCells) /\ e.bytes <= INODE_MAX_BYTES
        /\ Len(f) = IF 0 + Len(<<>>) > e.bytes THEN 0 + Len(<<>>) ELSE e.bytes
    BY <1>2 DEF FileIs
  <2>2. \A o \in FileOffsets : o < Len(f) => InBlock(d, e, o) /\ CellAt(d, e, o) = f[o + 1]
    BY <1>1, <1>2 DEF FileIs, FileOffsets
  <2> QED
    BY <1>1, <2>1, <2>2 DEF Settled
<1>3. ASSUME Settled(d, e, f)
      PROVE  FileIs(d, e, f, 0, <<>>)
  <2>1. 0 + Len(<<>>) <= INODE_MAX_BYTES
    BY <1>1, DataSizes
  <2> QED
    BY <1>1, <1>3, <2>1 DEF Settled, FileIs, FileOffsets
<1> QED
  BY <1>2, <1>3

\* What lies in the blocks of a file behind its end is zero.
ZeroTail(d, e) ==
    \A o \in FileOffsets : e.bytes <= o /\ InBlock(d, e, o) => CellAt(d, e, o) = ZeroCell

\* IAppend.
AppendOk(d2, e3, g) == Settled(d2, e3, g) /\ ZeroTail(d2, e3)

LEMMA CellIsAppended ==
    ASSUME NEW d, NEW E, NEW i \in Inodes, NEW f, NEW off \in Nat, off = E[i].bytes,
           off < INODE_MAX_BYTES, Settled(d, E[i], f), ZeroTail(d, E[i]), NEW cell \in FileCells,
           NEW t, NEW blk, NEW d2, NEW E2, NEW n, NEW r \in Offsets, ChunkOk(off, 1, n, 1, r),
           OldBlock(d, E, i, n, t), BlockPut(d, E, i, n, t, blk, d2, E2),
           Filled(blk, t.data[t.addr], 1, r, <<cell>>),
           NEW e3, e3.bytes = off + 1, e3.addrs = E2[i].addrs, e3.indirect = E2[i].indirect
    PROVE  AppendOk(d2, e3, Append(f, cell))
<1> DEFINE g == Append(f, cell)
<1>1. /\ f \in Seq(FileCells) /\ Len(f) = off
      /\ \A o \in FileOffsets : o < off => InBlock(d, E[i], o) /\ CellAt(d, E[i], o) = f[o + 1]
  BY DEF Settled
<1>2. e3.addrs = E2[i].addrs /\ e3.indirect = E2[i].indirect /\ e3.bytes = off + 1
  OBVIOUS
<1>3. /\ g \in Seq(FileCells) /\ Len(g) = off + 1 /\ g[off + 1] = cell
      /\ \A k \in 1 .. off : g[k] = f[k]
  BY <1>1
<1> HIDE DEF g
<1>4. \A o \in FileOffsets :
        (InBlock(d2, e3, o) <=> InBlock(d2, E2[i], o)) /\ CellAt(d2, e3, o) = CellAt(d2, E2[i], o)
  BY <1>2 DEF InBlock, CellAt, BlockAt
<1>5. /\ \A o \in FileOffsets : o \div BlockSize # n => SameCell(d, E[i], d2, E2[i], o)
      /\ \A o \in FileOffsets : o \div BlockSize = n =>
           InBlock(d2, E2[i], o) /\ CellAt(d2, E2[i], o) = blk[o % BlockSize]
  BY DEF BlockPut
<1>6. /\ INODE_MAX_BYTES \in Nat /\ off \in FileOffsets
      /\ \A o \in FileOffsets : o \in Nat /\ o % BlockSize \in Offsets /\ o % BlockSize \in Nat
      /\ \A o \in FileOffsets :
           o \div BlockSize = n /\ o % BlockSize = r => o = off
      /\ off \div BlockSize = n /\ off % BlockSize = r
      /\ \A k \in Offsets : k # r => blk[k] = t.data[t.addr][k]
      /\ blk[r] = cell
  <2>1. INODE_MAX_BYTES \in Nat /\ off \in FileOffsets
    BY DataSizes DEF FileOffsets
  <2>2. ASSUME NEW o \in FileOffsets
        PROVE  o \in Nat /\ o % BlockSize \in Offsets /\ o % BlockSize \in Nat
    BY OffsetsAre
  <2>3. ASSUME NEW o \in FileOffsets, o \div BlockSize = n, o % BlockSize = r
        PROVE  o = off
    <3>1. o \in Nat /\ r \in Nat
      BY <2>2, DataSizes DEF Offsets
    <3>2. off <= o /\ o < off + 1
      BY <2>3, <3>1 DEF ChunkOk
    <3> QED
      BY <3>1, <3>2
  <2>4. off \div BlockSize = n /\ off % BlockSize = r
    <3>1. off <= off /\ off < off + 1 /\ off - off = 0 /\ r + 0 = r
      BY DataSizes DEF Offsets
    <3> QED
      BY <3>1 DEF ChunkOk
  <2>5. \A k \in Offsets : k # r => blk[k] = t.data[t.addr][k]
    <3>1. \A k \in Offsets : k # r => k \notin r .. r + 1 - 1
      BY DataSizes DEF Offsets
    <3> QED
      BY <3>1 DEF Filled
  <2>6. blk[r] = cell
    <3>1. r \in r .. r + 1 - 1 /\ r - r + 1 = 1 /\ <<cell>>[1] = cell
      BY DataSizes DEF Offsets
    <3> QED
      BY <3>1 DEF Filled
  <2> QED
    BY <2>1, <2>2, <2>3, <2>4, <2>5, <2>6
\* Another cell keeps its contents, or is zero in a new block.
<1>7. ASSUME NEW o \in FileOffsets, o # off
      PROVE  /\ InBlock(d, E[i], o) => InBlock(d2, e3, o) /\ CellAt(d2, e3, o) = CellAt(d, E[i], o)
             /\ InBlock(d2, e3, o) /\ ~ InBlock(d, E[i], o) => CellAt(d2, e3, o) = ZeroCell
  <2>1. CASE o \div BlockSize # n
    BY <2>1, <1>4, <1>5 DEF SameCell
  <2>2. CASE o \div BlockSize = n
    <3>1. InBlock(d2, e3, o) /\ CellAt(d2, e3, o) = blk[o % BlockSize]
      BY <2>2, <1>4, <1>5
    <3>2. o % BlockSize # r /\ o % BlockSize \in Offsets
      BY <2>2, <1>6, <1>7
    <3>3. blk[o % BlockSize] = t.data[t.addr][o % BlockSize]
      BY <3>2, <1>6
    <3>4. t.data[t.addr][o % BlockSize] =
            IF BlockAt(d, E[i], n) = 0 THEN ZeroCell ELSE d[BlockAt(d, E[i], n)][o % BlockSize]
      BY <3>2 DEF OldBlock
    <3> QED
      BY <3>1, <3>3, <3>4, <2>2 DEF InBlock, CellAt
  <2> QED
    BY <2>1, <2>2
<1>8. InBlock(d2, e3, off) /\ CellAt(d2, e3, off) = cell
  <2>1. InBlock(d2, e3, off) /\ CellAt(d2, e3, off) = blk[r]
    BY <1>4, <1>5, <1>6
  <2> QED
    BY <2>1, <1>6
<1>9. ASSUME NEW o \in FileOffsets, o < Len(g)
      PROVE  InBlock(d2, e3, o) /\ CellAt(d2, e3, o) = g[o + 1]
  <2>1. CASE o = off
    BY <2>1, <1>3, <1>8
  <2>2. CASE o # off
    <3>1. o \in Nat /\ o < off + 1
      BY <1>3, <1>6, <1>9
    <3>2. o < off /\ o + 1 \in 1 .. off
      BY <3>1, <2>2
    <3> QED
      BY <3>2, <2>2, <1>1, <1>3, <1>7
  <2> QED
    BY <2>1, <2>2
<1>10. ZeroTail(d2, e3)
  <2> SUFFICES ASSUME NEW o \in FileOffsets, off + 1 <= o, InBlock(d2, e3, o)
               PROVE  CellAt(d2, e3, o) = ZeroCell
    BY <1>2 DEF ZeroTail
  <2>1. o # off /\ off <= o
    BY <1>6
  <2> QED
    BY <2>1, <1>7 DEF ZeroTail
<1>11. Settled(d2, e3, g)
  <2>1. off + 1 \in Nat /\ off + 1 <= INODE_MAX_BYTES
    BY <1>6
  <2> QED
    BY <2>1, <1>2, <1>3, <1>9 DEF Settled
<1> QED
  BY <1>10, <1>11 DEF g, AppendOk

-----------------------------------------------------------------------------
(* inode_read and inode_lookup. *)

LEMMA MappedAt ==
    ASSUME NEW e, NEW n \in FilePlaces
    PROVE  Mapped(e, n) = BlockAt(data, e, n)
  BY DataSizes DEF Mapped, BlockAt, FilePlaces

\* inode_read of a file that nobody writes.
ReadOk(s, f, off, count) ==
    LET n == (IF off + count < Len(f) THEN off + count ELSE Len(f)) - off IN
    n \in Nat /\ off + n <= Len(f) /\ s = [k \in 1 .. n |-> f[off + k]]

LEMMA ReadIs ==
    ASSUME NEW e \in InodeEntries, NEW f, Settled(data, e, f), NEW off \in 0 .. e.bytes, NEW count \in Nat
    PROVE  ReadOk(InodeRead(e, off, count), f, off, count)
<1> DEFINE n == (IF off + count < Len(f) THEN off + count ELSE Len(f)) - off
<1>1. e.bytes \in Nat /\ e.bytes = Len(f) /\ Len(f) <= INODE_MAX_BYTES /\ INODE_MAX_BYTES \in Nat
  BY DataSizes DEF InodeEntries, Settled
<1>2. n \in Nat /\ off + n <= Len(f) /\ Clamp(e, off, count) = n
  BY <1>1 DEF Clamp
<1> HIDE DEF n
<1>3. ASSUME NEW k \in 1 .. n
      PROVE  LET o == off + k - 1 IN data[Mapped(e, o \div BlockSize)][o % BlockSize] = f[off + k]
  <2> DEFINE o == off + k - 1
  <2>1. o \in FileOffsets /\ o < Len(f) /\ o \in Nat /\ o < INODE_MAX_BYTES /\ o + 1 = off + k
    BY <1>1, <1>2 DEF FileOffsets
  <2> HIDE DEF o
  <2>2. CellAt(data, e, o) = f[off + k]
    BY <2>1 DEF Settled
  <2>3. Mapped(e, o \div BlockSize) = BlockAt(data, e, o \div BlockSize)
    BY <2>1, OffsetPlace, MappedAt
  <2>4. data[Mapped(e, o \div BlockSize)][o % BlockSize] = f[off + k]
    BY <2>2, <2>3 DEF CellAt
  <2> QED
    BY <2>4 DEF o
<1>4. InodeRead(e, off, count) = [k \in 1 .. n |-> f[off + k]]
  BY <1>2, <1>3, Zenon DEF InodeRead
<1> QED
  BY <1>2, <1>4 DEF n, ReadOk

\* inode_lookup: the entry of that name, if there is one.
LEMMA LookupIs ==
    ASSUME NEW e \in InodeEntries, NEW f, Settled(data, e, f), DistinctNames(f), NEW name
    PROVE  \/ /\ InodeLookup(e, name) = -1
              /\ \A k \in 1 .. Len(f) : f[k] # ZeroCell => f[k][1] # name
           \/ /\ InodeLookup(e, name) + 1 \in 1 .. Len(f) /\ InodeLookup(e, name) \in Nat
              /\ InodeLookup(e, name) < e.bytes
<1> DEFINE s == InodeRead(e, 0, e.bytes)
           at == {k \in DOMAIN s : s[k] # ZeroCell /\ s[k][1] = name}
<1>1. f \in Seq(FileCells) /\ Len(f) \in Nat /\ Len(f) = e.bytes /\ f = [k \in 1 .. Len(f) |-> f[k]]
  BY DEF Settled
<1>2. s = f
  <2>1. 0 \in 0 .. e.bytes /\ e.bytes \in Nat
    BY <1>1
  <2>2. ReadOk(s, f, 0, e.bytes)
    BY <2>1, ReadIs
  <2> HIDE DEF s
  <2>3. s = [k \in 1 .. Len(f) |-> f[0 + k]]
    BY <2>2, <1>1 DEF ReadOk
  <2>4. \A k \in 1 .. Len(f) : 0 + k = k
    BY <1>1
  <2>5. s = [k \in 1 .. Len(f) |-> f[k]]
    BY <2>3, <2>4
  <2> QED
    BY <2>5, <1>1
<1>3. InodeLookup(e, name) = IF at = {} THEN -1 ELSE (CHOOSE k \in at : \A j \in at : k <= j) - 1
  BY DEF InodeLookup
<1>4. at = {k \in 1 .. Len(f) : f[k] # ZeroCell /\ f[k][1] = name} /\ at \subseteq 1 .. Len(f)
  <2> HIDE DEF s
  <2> QED
    BY <1>1, <1>2
<1> HIDE DEF at
<1>5. CASE at = {}
  BY <1>3, <1>4, <1>5
<1>6. CASE at # {}
  <2>1. PICK k \in at : TRUE
    BY <1>6
  <2>2. \A j \in at : j = k
    BY <1>1, <1>4, <2>1 DEF DistinctNames
  <2>3. k \in Nat /\ k \in 1 .. Len(f)
    BY <1>4, <1>1
  <2>4. \A j \in at : k <= j
    BY <2>2, <2>3
  <2>5. (CHOOSE x \in at : \A j \in at : x <= j) \in at
    BY <2>1, <2>4
  <2>6. InodeLookup(e, name) = k - 1
    BY <1>3, <1>6, <2>2, <2>5
  <2> QED
    BY <2>3, <2>6, <1>1
<1> QED
  BY <1>5, <1>6

-----------------------------------------------------------------------------
(* The actions preserve the invariant. *)

LEMMA FreshType ==
    ASSUME NEW type \in Types
    PROVE  Fresh(type) \in InodeEntries /\ Fresh(type).type = type /\ Fresh(type).bytes = 0
           /\ Fresh(type).addrs = Invalid.addrs /\ Fresh(type).indirect = Invalid.indirect
<1>1. 0 \in Blocks
  BY DataSizes DEF Blocks
<1> QED
  BY <1>1 DEF Fresh, Invalid, InodeEntries

LEMMA InvalidIs == /\ Invalid \in InodeEntries /\ Invalid.type = "invalid" /\ Invalid.bytes = 0
                   /\ Invalid.indirect = 0 /\ \A n \in 0 .. NDirect - 1 : Invalid.addrs[n] = 0
                   /\ \A d : \A n \in Places : BlockAt(d, Invalid, n) = 0
<1>1. /\ Invalid \in InodeEntries /\ Invalid.type = "invalid" /\ Invalid.bytes = 0
      /\ Invalid.indirect = 0 /\ \A n \in 0 .. NDirect - 1 : Invalid.addrs[n] = 0
  <2>1. "invalid" \in Types
    BY DEF Types
  <2>2. Invalid.indirect = 0 /\ \A n \in 0 .. NDirect - 1 : Invalid.addrs[n] = 0
    BY DEF Invalid, Fresh
  <2> QED
    BY <2>1, <2>2, FreshType DEF Invalid
<1>2. \A d : \A n \in Places : BlockAt(d, Invalid, n) = 0
  BY <1>1, DataSizes DEF BlockAt, Places
<1> QED
  BY <1>1, <1>2

\* The inodes as the calls see them.
LEMMA CurrentIs ==
    ASSUME CopiesOk
    PROVE  /\ Current \in [Inodes -> InodeEntries]
           /\ \A i \in Inodes : Current[i] = Entry(i) /\ Entry(i) \in InodeEntries
           /\ \A i \in Inodes : Entry(i).bytes \in Nat /\ Entry(i).bytes = itab[i].bytes
                /\ Entry(i).type = itab[i].type
           /\ \A i \in Inodes : ~ IsLocked(i) => Entry(i) = itab[i]
<1>1. \A i \in Inodes : Entry(i) \in InodeEntries
  BY DEF CopiesOk, Entry
<1>2. \A i \in Inodes : Entry(i).bytes \in Nat
  BY <1>1 DEF InodeEntries
<1>3. \A i \in Inodes : ~ IsLocked(i) => Entry(i) = itab[i]
  BY DEF CopiesOk, Entry
<1>4. \A i \in Inodes : IsLocked(i) => Entry(i).bytes = itab[i].bytes /\ Entry(i).type = itab[i].type
  BY DEF CopiesOk, Entry, IsLocked
<1> QED
  BY <1>1, <1>2, <1>3, <1>4 DEF Current

\* Nobody writes an inode that is free; the root is an inode.
LEMMA FreeIsUnlocked ==
    ASSUME CopiesOk, CallsOk, NEW i \in Inodes, itab[i].type = "invalid"
    PROVE  ~ IsLocked(i) /\ entry[i] = None /\ itab[i] = Invalid /\ Entry(i) = Invalid
  BY DEF CopiesOk, CallsOk, IsLocked, Entry

LEMMA RootIs == ROOT_INODE_NO \in Inodes /\ ROOT_INODE_NO = 1
  BY DataSizes DEF ROOT_INODE_NO, Inodes

\* A step that works on inode i leaves the other files alone.
OthersOk(i) ==
    /\ \A j \in Inodes : j # i => Entry(j)' = Entry(j) /\ files'[j] = files[j]
    /\ \A j \in Inodes, o \in FileOffsets : j # i => SameCell(data, Entry(j), data', Entry(j), o)
    /\ \A p \in Procs : call'[p] # None /\ call'[p].inode # i => call'[p] = call[p]
    /\ \A p \in Procs : call[p] # None /\ call[p].inode # i => call'[p] = call[p]

LEMMA OthersStay ==
    ASSUME FilesOk, NEW i \in Inodes, OthersOk(i),
           FileTypes', ~ IsLocked(i)' => FileIs(data', Entry(i)', files'[i], 0, <<>>),
           \A p \in Procs : call'[p] # None /\ call'[p].inode = i =>
             FileIs(data', Entry(i)', files'[i], call'[p].off, call'[p].src)
    PROVE  FilesOk'
<1>1. ASSUME NEW j \in Inodes, ~ IsLocked(j)'
      PROVE  FileIs(data', Entry(j)', files'[j], 0, <<>>)
  <2>1. CASE j = i
    BY <2>1, <1>1
  <2>2. CASE j # i
    <3>1. ~ IsLocked(j)
      BY <2>2, <1>1 DEF OthersOk, IsLocked
    <3>2. FileIs(data, Entry(j), files[j], 0, <<>>)
      BY <3>1 DEF FilesOk
    <3>3. Entry(j)' = Entry(j) /\ files'[j] = files[j]
          /\ \A o \in FileOffsets : SameCell(data, Entry(j), data', Entry(j), o)
      BY <2>2 DEF OthersOk
    <3>4. FileIs(data', Entry(j), files[j], 0, <<>>)
      BY <3>2, <3>3, FileStays
    <3> QED
      BY <3>3, <3>4
  <2> QED
    BY <2>1, <2>2
<1>2. ASSUME NEW p \in Procs, call'[p] # None, NEW j \in Inodes, j = call'[p].inode
      PROVE  FileIs(data', Entry(j)', files'[j], call'[p].off, call'[p].src)
  <2>1. CASE j = i
    BY <2>1, <1>2
  <2>2. CASE j # i
    <3>1. call'[p] = call[p]
      BY <2>2, <1>2 DEF OthersOk
    <3>3. FileIs(data, Entry(j), files[j], call[p].off, call[p].src)
      BY <3>1, <1>2 DEF FilesOk
    <3>4. Entry(j)' = Entry(j) /\ files'[j] = files[j]
          /\ \A o \in FileOffsets : SameCell(data, Entry(j), data', Entry(j), o)
      BY <2>2 DEF OthersOk
    <3>5. FileIs(data', Entry(j), files[j], call[p].off, call[p].src)
      BY <3>3, <3>4, FileStays
    <3> QED
      BY <3>1, <3>4, <3>5
  <2> QED
    BY <2>1, <2>2
<1>3. \A p \in Procs : call'[p] # None => call'[p].inode \in Inodes
  BY DEF FileTypes, Calls
<1> QED
  BY <1>1, <1>2, <1>3 DEF FilesOk, Entry

\* A call that ends in panic changes nothing else.
LEMMA OnlyPanic ==
    ASSUME FileInv, panicked' = TRUE, UNCHANGED <<mkfs, bitmap, data, itab, entry, call, files>>
    PROVE  FileInv'
<1>1. (Exact(bitmap, data, Current) /\ CallsOk /\ FilesOk /\ CopiesOk /\ NamesOk /\ MkfsOk)'
  BY DEF FileInv, Current, Entry, CallsOk, FilesOk, IsLocked, CopiesOk, NamesOk, MkfsOk
<1>2. FileTypes'
  BY DEF FileInv, FileTypes
<1> QED
  BY <1>1, <1>2 DEF FileInv

LEMMA InodeAllocKeeps ==
    ASSUME FileInv, NEW p \in Procs, NEW type \in {"regular", "dir"}, InodeAlloc(p, type)
    PROVE  FileInv'
<1> DEFINE free == {i \in Inodes : itab[i].type = "invalid"}
<1>1. CASE free = {}
  BY <1>1, OnlyPanic DEF InodeAlloc
<1>2. CASE free # {}
  <2>1. free \subseteq Nat
    BY DataSizes DEF Inodes
  <2>2. PICK i \in free : i = CHOOSE x \in free : \A y \in free : x <= y
    <3> HIDE DEF free
    <3>1. \E x \in free : \A y \in free : x <= y
      BY <2>1, <1>2, LeastExists
    <3> QED
      BY <3>1
  <2>3. /\ itab' = [itab EXCEPT ![i] = Fresh(type)] /\ entry' = [entry EXCEPT ![i] = Fresh(type)]
        /\ files' = [files EXCEPT ![i] = <<>>] /\ mkfs = None
        /\ panicked' = panicked /\ UNCHANGED <<mkfs, bitmap, data, call>>
    BY <1>2, <2>2 DEF InodeAlloc, May
  <2>4. i \in Inodes /\ itab[i].type = "invalid"
    BY <2>2
  <2> HIDE DEF free
  <2>5. /\ Exact(bitmap, data, Current) /\ CallsOk /\ FilesOk /\ CopiesOk /\ NamesOk /\ FileTypes
        /\ itab \in [Inodes -> InodeEntries] /\ entry \in [Inodes -> InodeEntries \cup {None}]
        /\ files \in [Inodes -> Seq(FileCells)]
    BY DEF FileInv, CopiesOk, FileTypes
  <2>6. ~ IsLocked(i) /\ entry[i] = None /\ itab[i] = Invalid /\ Entry(i) = Invalid
    BY <2>4, <2>5, FreeIsUnlocked
  <2>7. type \in Types /\ type # "invalid"
    BY DEF Types
  <2>8. /\ Fresh(type) \in InodeEntries /\ Fresh(type).type = type /\ Fresh(type).bytes = 0
        /\ Fresh(type).addrs = Invalid.addrs /\ Fresh(type).indirect = Invalid.indirect
        /\ Fresh(type) # None
    BY <2>7, FreshType, NullAssumption
  <2>9. /\ itab' \in [Inodes -> InodeEntries] /\ itab'[i] = Fresh(type)
        /\ entry' \in [Inodes -> InodeEntries \cup {None}] /\ entry'[i] = Fresh(type)
        /\ files' \in [Inodes -> Seq(FileCells)] /\ files'[i] = <<>>
        /\ \A j \in Inodes : j # i => itab'[j] = itab[j] /\ entry'[j] = entry[j] /\ files'[j] = files[j]
    <3>1. <<>> \in Seq(FileCells)
      OBVIOUS
    <3>2. itab' \in [Inodes -> InodeEntries] /\ itab'[i] = Fresh(type)
          /\ \A j \in Inodes : j # i => itab'[j] = itab[j]
      BY <2>3, <2>4, <2>5, <2>8
    <3>3. entry' \in [Inodes -> InodeEntries \cup {None}] /\ entry'[i] = Fresh(type)
          /\ \A j \in Inodes : j # i => entry'[j] = entry[j]
      BY <2>3, <2>4, <2>5, <2>8
    <3>4. files' \in [Inodes -> Seq(FileCells)] /\ files'[i] = <<>>
          /\ \A j \in Inodes : j # i => files'[j] = files[j]
      BY <3>1, <2>3, <2>4, <2>5
    <3> QED
      BY <3>2, <3>3, <3>4
  <2>10. FileTypes'
    BY <2>3, <2>5, <2>9 DEF FileTypes
  <2>11. /\ \A j \in Inodes : (IsLocked(j) <=> IsLocked(j)')
         /\ \A j \in Inodes : j # i => Entry(j)' = Entry(j)
         /\ Entry(i)' = Fresh(type)
    BY <2>3, <2>8, <2>9 DEF IsLocked, Entry
  <2>12. \A q \in Procs : call[q] # None => call[q].inode \in Inodes /\ call[q].inode # i
    BY <2>4, <2>5, <2>6 DEF CallsOk, Calls, IsLocked
  <2>13. CopiesOk'
    <3>1. \A j \in Inodes : entry'[j] = None \/ entry'[j] \in InodeEntries
      BY <2>9
    <3>2. \A j \in Inodes : itab'[j].type = "invalid" => itab'[j] = Invalid /\ entry'[j] = None
      BY <2>5, <2>7, <2>8, <2>9 DEF CopiesOk
    <3>3. \A j \in Inodes : entry'[j] # None /\ ~ IsLocked(j)' => entry'[j] = itab'[j]
      BY <2>5, <2>9, <2>11 DEF CopiesOk
    <3>4. \A q \in Procs : call'[q] # None =>
            LET j == call'[q].inode IN
            /\ entry'[j].type = itab'[j].type /\ entry'[j].bytes = itab'[j].bytes
            /\ entry'[j] = itab'[j] \/ entry'[j].bytes < call'[q].off
      BY <2>3, <2>5, <2>9, <2>12 DEF CopiesOk
    <3> QED
      BY <2>9, <3>1, <3>2, <3>3, <3>4 DEF CopiesOk
  <2>14. CallsOk'
    BY <2>3, <2>5, <2>9, <2>12 DEF CallsOk
  <2>15. Exact(bitmap, data, Current)'
    <3>1. \A j \in Inodes : Current'[j] = Entry(j)' /\ Current[j] = Entry(j)
      BY DEF Current
    <3>2. Current' \in [Inodes -> InodeEntries]
      BY <2>13 DEF CopiesOk, Current, Entry
    <3>3. \A j \in Inodes : Current'[j].addrs = Current[j].addrs
            /\ Current'[j].indirect = Current[j].indirect
      BY <3>1, <2>6, <2>8, <2>11
    <3>4. Exact(bitmap, data, Current')
      BY <3>2, <3>3, <2>5, ExactOf
    <3> QED
      BY <3>4, <2>3
  <2>16. FilesOk'
    <3>1. FileIs(data', Entry(i)', files'[i], 0, <<>>)
      <4>1. Settled(data', Fresh(type), <<>>)
        BY <2>8, DataSizes DEF Settled, FileOffsets
      <4> QED
        BY <4>1, <2>8, <2>9, <2>11, SettledIs
    <3>2. OthersOk(i)
      BY <2>3, <2>9, <2>11, <2>12 DEF OthersOk, SameCell
    <3>3. \A q \in Procs : call'[q] # None => call'[q].inode # i
      BY <2>3, <2>12
    <3> QED
      BY <3>1, <3>2, <3>3, <2>5, <2>4, <2>10, OthersStay
  <2>17. NamesOk'
    <3>1. DistinctNames(<<>>)
      BY DEF DistinctNames
    <3> QED
      BY <3>1, <2>5, <2>9 DEF NamesOk
  <2>18. MkfsOk'
    BY <2>3 DEF MkfsOk
  <2> QED
    BY <2>10, <2>13, <2>14, <2>15, <2>16, <2>17, <2>18 DEF FileInv
<1> QED
  BY <1>1, <1>2

\* inode_write begins: i is an inode that nobody writes, and is p's from now on.
LEMMA StartWriteKeeps ==
    ASSUME FileInv, NEW p \in Procs, call[p] = None, mkfs = None, NEW i \in Inodes, ~ IsLocked(i),
           itab[i].type # "invalid", NEW off \in Nat, NEW src \in Seq(FileCells),
           off <= Entry(i).bytes, off + Len(src) <= INODE_MAX_BYTES,
           itab[i].type = "dir" => DistinctNames(Overwrite(files[i], off, src)),
           StartWrite(p, i, off, src)
    PROVE  FileInv'
<1> DEFINE c == [inode |-> i, off |-> off, src |-> src]
<1>1. /\ entry' = [entry EXCEPT ![i] = Entry(i)] /\ call' = [call EXCEPT ![p] = c]
      /\ files' = [files EXCEPT ![i] = Overwrite(files[i], off, src)]
      /\ UNCHANGED <<mkfs, bitmap, data, itab, panicked>>
  BY DEF StartWrite
<1>2. c \in Calls /\ c # None /\ c.inode = i /\ c.off = off /\ c.src = src
  BY NullAssumption DEF Calls
<1> HIDE DEF c
<1>3. /\ Exact(bitmap, data, Current) /\ CallsOk /\ FilesOk /\ CopiesOk /\ NamesOk /\ FileTypes
      /\ itab \in [Inodes -> InodeEntries] /\ entry \in [Inodes -> InodeEntries \cup {None}]
      /\ files \in [Inodes -> Seq(FileCells)] /\ call \in [Procs -> Calls \cup {None}]
  BY DEF FileInv, CopiesOk, FileTypes
<1>4. Entry(i) = itab[i] /\ itab[i] \in InodeEntries /\ itab[i] # None /\ Entry(i).bytes \in Nat
  BY <1>3, CurrentIs, NullAssumption
<1>5. FileIs(data, Entry(i), files[i], 0, <<>>)
  BY <1>3 DEF FilesOk
<1>6. /\ FileIs(data, Entry(i), Overwrite(files[i], off, src), off, src)
      /\ Overwrite(files[i], off, src) \in Seq(FileCells)
  BY <1>4, <1>5, WriteIsPlanned DEF Planned
<1>7. /\ entry' \in [Inodes -> InodeEntries \cup {None}] /\ entry'[i] = itab[i]
      /\ \A j \in Inodes : j # i => entry'[j] = entry[j]
  BY <1>1, <1>3, <1>4
<1>8. /\ files' \in [Inodes -> Seq(FileCells)] /\ files'[i] = Overwrite(files[i], off, src)
      /\ \A j \in Inodes : j # i => files'[j] = files[j]
  BY <1>1, <1>3, <1>6
<1>9. /\ call' \in [Procs -> Calls \cup {None}] /\ call'[p] = c
      /\ \A q \in Procs : q # p => call'[q] = call[q]
  BY <1>1, <1>2, <1>3
<1>10. FileTypes'
  BY <1>1, <1>3, <1>7, <1>8, <1>9 DEF FileTypes
<1>11. \A j \in Inodes : Entry(j)' = Entry(j)
  BY <1>1, <1>4, <1>7 DEF Entry
<1>12. \A q \in Procs : call[q] # None => call[q].inode # i /\ q # p
  BY DEF IsLocked
<1>13. IsLocked(i)' /\ \A j \in Inodes : j # i => (IsLocked(j)' <=> IsLocked(j))
  BY <1>2, <1>9, <1>12 DEF IsLocked
<1>14. CallsOk'
  <2>1. \A q \in Procs : call'[q] # None =>
          call'[q] \in Calls /\ entry'[call'[q].inode] # None /\ mkfs' = None
    <3>1. \A q \in Procs : call'[q] # None => q = p \/ (call[q] # None /\ call'[q] = call[q])
      BY <1>9
    <3>2. \A q \in Procs : call[q] # None => call[q] \in Calls /\ call[q].inode \in Inodes
            /\ entry[call[q].inode] # None
      BY <1>3 DEF CallsOk, Calls
    <3> QED
      BY <3>1, <3>2, <1>1, <1>2, <1>4, <1>7, <1>9, <1>12
  <2>2. \A q, r \in Procs : call'[q] # None /\ call'[r] # None /\ call'[q].inode = call'[r].inode => q = r
    BY <1>2, <1>3, <1>9, <1>12 DEF CallsOk
  <2> QED
    BY <2>1, <2>2 DEF CallsOk
<1>15. CopiesOk'
  <2>1. \A j \in Inodes : entry'[j] = None \/ entry'[j] \in InodeEntries
    BY <1>7
  <2>2. \A j \in Inodes : itab'[j].type = "invalid" => itab'[j] = Invalid /\ entry'[j] = None
    BY <1>1, <1>3, <1>7 DEF CopiesOk
  <2>3. \A j \in Inodes : entry'[j] # None /\ ~ IsLocked(j)' => entry'[j] = itab'[j]
    BY <1>1, <1>3, <1>7, <1>13 DEF CopiesOk
  <2>4. \A q \in Procs : call'[q] # None =>
          LET j == call'[q].inode IN
          /\ entry'[j].type = itab'[j].type /\ entry'[j].bytes = itab'[j].bytes
          /\ entry'[j] = itab'[j] \/ entry'[j].bytes < call'[q].off
    <3>1. \A q \in Procs : call[q] # None => call[q].inode \in Inodes
      BY <1>3 DEF CallsOk, Calls
    <3>2. \A q \in Procs : call[q] # None =>
            LET j == call[q].inode IN
            /\ entry[j].type = itab[j].type /\ entry[j].bytes = itab[j].bytes
            /\ entry[j] = itab[j] \/ entry[j].bytes < call[q].off
      BY <1>3 DEF CopiesOk
    <3>3. \A q \in Procs : call'[q] # None =>
            q = p \/ (call[q] # None /\ call'[q] = call[q] /\ entry'[call[q].inode] = entry[call[q].inode])
      BY <3>1, <1>7, <1>9, <1>12
    <3> QED
      BY <3>2, <3>3, <1>1, <1>2, <1>7, <1>9
  <2> QED
    BY <1>1, <1>3, <2>1, <2>2, <2>3, <2>4 DEF CopiesOk
<1>16. Exact(bitmap, data, Current)'
  <2>1. Current' = Current
    BY <1>11 DEF Current
  <2> QED
    BY <2>1, <1>1, <1>3
<1>17. FilesOk'
  <2>1. \A q \in Procs : call'[q] # None /\ call'[q].inode = i => q = p
    BY <1>9, <1>12
  <2>2. OthersOk(i)
    BY <1>1, <1>2, <1>8, <1>9, <1>11, <1>12 DEF OthersOk, SameCell
  <2>3. FileIs(data', Entry(i)', files'[i], off, src)
    BY <1>1, <1>6, <1>8, <1>11
  <2>4. \A q \in Procs : call'[q] # None /\ call'[q].inode = i =>
          FileIs(data', Entry(i)', files'[i], call'[q].off, call'[q].src)
    BY <2>1, <2>3, <1>2, <1>9
  <2> QED
    BY <1>3, <1>10, <1>13, <2>2, <2>4, OthersStay
<1>18. NamesOk'
  BY <1>1, <1>3, <1>8 DEF NamesOk
<1>19. MkfsOk'
  BY <1>1 DEF MkfsOk
<1> QED
  BY <1>10, <1>14, <1>15, <1>16, <1>17, <1>18, <1>19 DEF FileInv

LEMMA InodeWriteKeeps ==
    ASSUME FileInv, NEW p \in Procs, NEW i \in Inodes, NEW off \in 0 .. INODE_MAX_BYTES,
           NEW src \in BoundedSeq(Written, MaxWrite), Write(p, i, off, src)
    PROVE  FileInv'
<1>1. off \in Nat /\ src \in Seq(FileCells)
  <2>1. src \in Seq(Written)
    BY DataSizes, SizeAssumption DEF BoundedSeq, SeqOf
  <2>2. Written \subseteq FileCells
    BY NameAssumption DEF FileCells
  <2> QED
    BY <2>1, <2>2, DataSizes
<1>2. Entry(i).type = itab[i].type
  BY CurrentIs DEF FileInv
<1> QED
  BY <1>1, <1>2, StartWriteKeeps DEF Write, May

\* inode_insert adds one entry, whose name no other has.
LEMMA InodeInsertKeeps ==
    ASSUME FileInv, NEW p \in Procs, NEW i \in Inodes, NEW name \in Names, InodeInsert(p, i, name, i)
    PROVE  FileInv'
<1> DEFINE src == <<<<name, i>>>>
           f == files[i]
           off == Entry(i).bytes
           g == Overwrite(f, off, src)
<1>1. /\ CopiesOk /\ FilesOk /\ NamesOk /\ Entry(i) \in InodeEntries /\ off \in Nat
      /\ Entry(i).type = itab[i].type /\ f \in Seq(FileCells)
  BY CurrentIs DEF FileInv, FileTypes
<1>2. /\ call[p] = None /\ mkfs = None /\ ~ IsLocked(i) /\ Entry(i).type = "dir"
      /\ InodeLookup(Entry(i), name) = -1 /\ off < INODE_MAX_BYTES /\ StartWrite(p, i, off, src)
  BY DEF InodeInsert, May, Absent
<1>3. FileIs(data, Entry(i), f, 0, <<>>) /\ DistinctNames(f)
  BY <1>1, <1>2 DEF FilesOk, NamesOk
<1>4. Settled(data, Entry(i), f) /\ Len(f) = off
  BY <1>1, <1>3, SettledIs DEF Settled
<1>5. \A k \in 1 .. off : f[k] # ZeroCell => f[k][1] # name
  <2> HIDE DEF f
  <2> QED
    BY <1>1, <1>2, <1>3, <1>4, LookupIs
<1>6. src \in Seq(FileCells) /\ Len(src) = 1 /\ src[1] = <<name, i>>
  BY DEF FileCells
<1>7. /\ off + Len(src) <= INODE_MAX_BYTES /\ off <= Entry(i).bytes
  BY <1>1, <1>2, <1>6, DataSizes
<1>8. /\ g \in Seq(FileCells) /\ Len(g) = off + 1
      /\ \A k \in 1 .. Len(g) : g[k] = IF k \in off + 1 .. off + 1 THEN src[k - off] ELSE f[k]
  <2> HIDE DEF src
  <2>1. /\ g \in Seq(FileCells) /\ Len(g) = IF Len(f) > off + Len(src) THEN Len(f) ELSE off + Len(src)
        /\ \A k \in 1 .. Len(g) : g[k] = IF k \in off + 1 .. off + Len(src) THEN src[k - off] ELSE f[k]
    <3> HIDE DEF f
    <3>1. Planned(data, Entry(i), f, off, src, g)
      BY <1>1, <1>3, <1>6, <1>7, WriteIsPlanned
    <3> HIDE DEF g
    <3> QED
      BY <3>1 DEF Planned
  <2> HIDE DEF g, f
  <2> QED
    BY <2>1, <1>1, <1>4, <1>6
<1>9. DistinctNames(g)
  <2> HIDE DEF g, src, f
  <2>1. off + 1 - off = 1
    BY <1>1
  <2>2. g[off + 1] = <<name, i>>
    BY <1>1, <1>6, <1>8, <2>1
  <2>3. \A k \in 1 .. off : g[k] = f[k]
    BY <1>1, <1>8
  <2>4. DOMAIN g = 1 .. off + 1 /\ DOMAIN f = 1 .. off /\ 1 .. off + 1 = (1 .. off) \cup {off + 1}
    BY <1>1, <1>4, <1>8
  <2>5. <<name, i>>[1] = name
    OBVIOUS
  <2> HIDE DEF off
  <2> QED
    BY <2>2, <2>3, <2>4, <2>5, <1>3, <1>5 DEF DistinctNames
<1> HIDE DEF src, off
<1> QED
  BY <1>1, <1>2, <1>6, <1>7, <1>9, StartWriteKeeps

\* inode_remove zeroes one entry.
LEMMA InodeRemoveKeeps ==
    ASSUME FileInv, NEW p \in Procs, NEW i \in Inodes, NEW name \in Names, InodeRemove(p, i, name)
    PROVE  FileInv'
<1> DEFINE src == <<ZeroCell>>
           f == files[i]
           off == InodeLookup(Entry(i), name)
           g == Overwrite(f, off, src)
<1>1. /\ CopiesOk /\ FilesOk /\ NamesOk /\ Entry(i) \in InodeEntries /\ Entry(i).bytes \in Nat
      /\ Entry(i).type = itab[i].type /\ f \in Seq(FileCells)
  BY CurrentIs DEF FileInv, FileTypes
<1>2. /\ call[p] = None /\ mkfs = None /\ ~ IsLocked(i) /\ Entry(i).type = "dir"
      /\ off # -1 /\ StartWrite(p, i, off, src)
  BY DEF InodeRemove, May
<1>3. FileIs(data, Entry(i), f, 0, <<>>) /\ DistinctNames(f)
  BY <1>1, <1>2 DEF FilesOk, NamesOk
<1>4. Settled(data, Entry(i), f) /\ Len(f) = Entry(i).bytes /\ Len(f) <= INODE_MAX_BYTES
  BY <1>1, <1>3, SettledIs DEF Settled
<1>5. off \in Nat /\ off < Entry(i).bytes
  <2> HIDE DEF f
  <2> QED
    BY <1>1, <1>2, <1>3, <1>4, LookupIs
<1>6. src \in Seq(FileCells) /\ Len(src) = 1 /\ src[1] = ZeroCell
  BY DEF FileCells
<1>7. off + Len(src) <= INODE_MAX_BYTES /\ off <= Entry(i).bytes
  BY <1>1, <1>4, <1>5, <1>6, DataSizes
<1>8. /\ g \in Seq(FileCells) /\ Len(g) = Len(f)
      /\ \A k \in 1 .. Len(g) : g[k] = IF k \in off + 1 .. off + 1 THEN src[k - off] ELSE f[k]
  <2> HIDE DEF src, off
  <2>1. /\ g \in Seq(FileCells) /\ Len(g) = IF Len(f) > off + Len(src) THEN Len(f) ELSE off + Len(src)
        /\ \A k \in 1 .. Len(g) : g[k] = IF k \in off + 1 .. off + Len(src) THEN src[k - off] ELSE f[k]
    <3> HIDE DEF f
    <3>1. Planned(data, Entry(i), f, off, src, g)
      BY <1>1, <1>3, <1>5, <1>6, <1>7, WriteIsPlanned
    <3> HIDE DEF g
    <3> QED
      BY <3>1 DEF Planned
  <2> HIDE DEF g, f
  <2> QED
    BY <2>1, <1>1, <1>4, <1>5, <1>6
<1>9. DistinctNames(g)
  <2> HIDE DEF g, src, f, off
  <2>1. \A k \in 1 .. Len(f) : g[k] = ZeroCell \/ g[k] = f[k]
    BY <1>1, <1>5, <1>6, <1>8
  <2>2. DOMAIN g = 1 .. Len(f) /\ DOMAIN f = 1 .. Len(f)
    BY <1>1, <1>8
  <2> QED
    BY <2>1, <2>2, <1>3 DEF DistinctNames
<1> HIDE DEF src, off
<1> QED
  BY <1>1, <1>2, <1>5, <1>6, <1>7, <1>9, StartWriteKeeps

LEMMA WriteBlockKeeps ==
    ASSUME FileInv, NEW p \in Procs, WriteBlock(p)
    PROVE  FileInv'
<1>0. PICK i \in Inodes : i = call[p].inode
  BY DEF WriteBlock, FileInv, CallsOk, Calls
<1> DEFINE c == call[p]
           n == c.off \div BlockSize
           st == MapBlock([bitmap |-> bitmap, data |-> data, e |-> entry[i],
                           addr |-> 0, panic |-> FALSE], n)
           m == Chunk(c.off, Len(c.src))
           o == c.off % BlockSize
           rest == SubSeq(c.src, m + 1, Len(c.src))
           blk == [k \in Offsets |->
                     IF k \in o .. o + m - 1 THEN c.src[k - o + 1] ELSE st.data[st.addr][k]]
<1>1. CASE st.panic
  BY <1>0, <1>1, OnlyPanic DEF WriteBlock
<1>2. CASE ~ st.panic
  <2>1. /\ c # None /\ c.src # <<>>
        /\ bitmap' = st.bitmap
        /\ data' = [st.data EXCEPT ![st.addr] =
             [k \in DOMAIN ZeroBlock \cup (o .. o + m - 1) |->
                IF k \in o .. o + m - 1 THEN c.src[k - o + 1] ELSE st.data[st.addr][k]]]
        /\ entry' = [entry EXCEPT ![i] = st.e]
        /\ call' = [call EXCEPT ![p].off = c.off + m, ![p].src = rest]
        /\ panicked' = panicked /\ UNCHANGED <<mkfs, itab, files>>
    BY <1>0, <1>2 DEF WriteBlock
  <2>2. /\ Exact(bitmap, data, Current) /\ CallsOk /\ FilesOk /\ CopiesOk /\ NamesOk /\ FileTypes
        /\ itab \in [Inodes -> InodeEntries] /\ entry \in [Inodes -> InodeEntries \cup {None}]
        /\ files \in [Inodes -> Seq(FileCells)] /\ call \in [Procs -> Calls \cup {None}]
    BY DEF FileInv, CopiesOk, FileTypes
  <2>3. /\ i \in Inodes /\ c.inode = i /\ c.off \in Nat /\ c.src \in Seq(FileCells) /\ mkfs = None
        /\ entry[i] # None /\ entry[i] \in InodeEntries
    BY <1>0, <2>1, <2>2 DEF CallsOk, Calls, CopiesOk
  <2>4. Current[i] = entry[i] /\ Entry(i) = entry[i] /\ Entry(i).bytes \in Nat
    BY <2>2, <2>3, CurrentIs DEF Entry
  <2>5. FileIs(data, Entry(i), files[i], c.off, c.src)
    BY <2>1, <2>2, <2>3 DEF FilesOk
  <2> HIDE DEF c
  <2>6. /\ n \in FilePlaces /\ ChunkOk(c.off, Len(c.src), n, m, o)
        /\ m \in Nat /\ m > 0 /\ o \in Nat /\ o + m <= BlockSize
    <3>1. /\ files[i] \in Seq(FileCells) /\ Len(c.src) \in Nat /\ Len(files[i]) <= INODE_MAX_BYTES
          /\ c.off + Len(c.src) <= Len(files[i]) /\ Len(files[i]) \in Nat /\ INODE_MAX_BYTES \in Nat
      BY <2>3, <2>4, <2>5, FileSizes
    <3>2. Len(c.src) > 0 /\ c.off < INODE_MAX_BYTES
      BY <2>1, <2>3, <3>1
    <3>3. ChunkOk(c.off, Len(c.src), n, m, o)
      BY <2>3, <3>1, <3>2, ChunkFacts
    <3>4. n \in FilePlaces
      BY <3>2, <2>3, OffsetPlace
    <3> HIDE DEF m, o, n
    <3> QED
      BY <3>3, <3>4 DEF ChunkOk
  <2>7. DOMAIN ZeroBlock \cup (o .. o + m - 1) = Offsets
    <3> HIDE DEF o, m
    <3>1. DOMAIN ZeroBlock = Offsets
      BY DEF ZeroBlock, Offsets
    <3> QED
      BY <3>1, <2>6, DataSizes DEF Offsets
  <2>8. data' = [st.data EXCEPT ![st.addr] = blk]
    BY <2>1, <2>7
  <2> HIDE DEF n
  <2>9. st = MapBlock([bitmap |-> bitmap, data |-> data, e |-> Current[i],
                       addr |-> 0, panic |-> FALSE], n)
    BY <2>4
  <2> HIDE DEF st
  <2>10. OldBlock(data, Current, i, n, st)
    BY <1>2, <2>2, <2>3, <2>6, <2>9, MapBlockOld
  <2>11. blk \in [Offsets -> Cells]
    <3>1. \A k \in Offsets : st.data[st.addr][k] \in Cells
      BY <2>10 DEF OldBlock
    <3>2. ASSUME NEW k \in o .. o + m - 1
          PROVE  c.src[k - o + 1] \in Cells
      <4>1. m <= Len(c.src) /\ Len(c.src) \in Nat
        BY <2>3, <2>6 DEF ChunkOk
      <4> HIDE DEF m, o
      <4>2. k - o + 1 \in 1 .. Len(c.src)
        BY <2>6, <4>1
      <4> QED
        BY <2>3, <4>2 DEF Cells
    <3> HIDE DEF m, o
    <3> QED
      BY <3>1, <3>2
  <2> DEFINE E2 == [Current EXCEPT ![i] = st.e]
  <2>12. BlockPut(data, Current, i, n, st, blk, data', E2)
    <3> HIDE DEF blk
    <3> QED
      BY <1>2, <2>2, <2>3, <2>6, <2>8, <2>9, <2>11, MapAndPut
  <2>13. /\ FileIs(data', E2[i], files[i], c.off + m, rest)
         /\ rest \in Seq(FileCells) /\ c.off + m \in Nat
         /\ E2 = Current \/ E2[i].bytes < c.off + m
    <3> HIDE DEF E2
    <3>1. FileIs(data, Current[i], files[i], c.off, c.src) /\ Current[i].bytes \in Nat
      BY <2>4, <2>5
    <3>3. Filled(blk, st.data[st.addr], m, o, c.src)
      BY DEF Filled
    <3>4. c.src # <<>> /\ c.off \in Nat /\ c.src \in Seq(FileCells) /\ ChunkOk(c.off, Len(c.src), n, m, o)
      BY <2>1, <2>3, <2>6
    <3> HIDE DEF m, o, blk, rest
    <3>5. TurnOk(Current, i, files[i], c.off, c.src, data', E2, m)
      BY <2>10, <2>12, <3>1, <3>3, <3>4, TurnWrites
    <3> QED
      BY <3>5 DEF TurnOk, rest
  <2>14. E2[i] = st.e /\ E2 \in [Inodes -> InodeEntries] /\ Exact(bitmap', data', E2)
         /\ E2[i].type = Entry(i).type /\ E2[i].bytes = Entry(i).bytes
         /\ \A j \in Inodes : j # i => E2[j] = Current[j]
    <3>1. Exact(st.bitmap, data', E2)
      BY <2>12 DEF BlockPut
    <3>2. E2 \in [Inodes -> InodeEntries]
      BY <3>1 DEF Exact
    <3>3. E2[i].type = Entry(i).type /\ E2[i].bytes = Entry(i).bytes
      BY <2>4, <2>12 DEF BlockPut
    <3>4. E2[i] = st.e /\ \A j \in Inodes : j # i => E2[j] = Current[j]
      <4>1. Current \in [Inodes -> InodeEntries]
        BY <2>2 DEF Exact
      <4> HIDE DEF Current
      <4> QED
        BY <4>1, <2>3
    <3> QED
      BY <3>1, <3>2, <3>3, <3>4, <2>1
  <2> DEFINE c2 == [c EXCEPT !.off = c.off + m, !.src = rest]
  <2> HIDE DEF E2, rest
  <2>15. /\ c2 \in Calls /\ c2 # None /\ c2.inode = i /\ c2.off = c.off + m /\ c2.src = rest
         /\ call' = [call EXCEPT ![p] = c2]
    <3>1. c \in Calls
      BY <2>1, <2>2 DEF c
    <3>2. call' = [call EXCEPT ![p] = c2]
      BY <2>1, <2>2 DEF c
    <3>3. c.off + m \in Nat /\ rest \in Seq(FileCells)
      BY <2>13
    <3> HIDE DEF m
    <3>4. c2 \in Calls /\ c2.inode = c.inode /\ c2.off = c.off + m /\ c2.src = rest
      BY <3>1, <3>3 DEF Calls
    <3> QED
      BY <3>2, <3>4, <2>3, NullAssumption
  <2> HIDE DEF c2
  <2>16. /\ call' \in [Procs -> Calls \cup {None}] /\ call'[p] = c2
         /\ \A q \in Procs : q # p => call'[q] = call[q]
    BY <2>2, <2>15
  <2>17. /\ entry' \in [Inodes -> InodeEntries \cup {None}] /\ entry'[i] = E2[i]
         /\ E2[i] \in InodeEntries /\ E2[i] # None
         /\ \A j \in Inodes : j # i => entry'[j] = entry[j]
    BY <2>1, <2>2, <2>3, <2>14, NullAssumption
  <2>18. FileTypes'
    BY <2>1, <2>2, <2>16, <2>17 DEF FileTypes
  <2>19. \A j \in Inodes : Entry(j)' = E2[j]
    <3>1. \A j \in Inodes : j # i => Entry(j)' = Entry(j) /\ Current[j] = Entry(j)
      BY <2>1, <2>17 DEF Entry, Current
    <3>2. Entry(i)' = E2[i]
      BY <2>3, <2>17 DEF Entry
    <3> QED
      BY <3>1, <3>2, <2>14
  <2>20. \A q \in Procs : call[q] # None /\ call[q].inode = i => q = p
    BY <1>0, <2>1, <2>2 DEF CallsOk, c
  <2>21. \A q \in Procs : call[q] # None => call[q] \in Calls /\ call[q].inode \in Inodes
           /\ entry[call[q].inode] # None
    BY <2>2 DEF CallsOk, Calls
  <2>22. \A j \in Inodes : IsLocked(j)' <=> IsLocked(j)
    BY <1>0, <2>1, <2>15, <2>16 DEF IsLocked, c
  <2>23. CallsOk'
    <3>1. \A q \in Procs : call'[q] # None =>
            call'[q] \in Calls /\ entry'[call'[q].inode] # None /\ mkfs' = None
      BY <2>1, <2>3, <2>15, <2>16, <2>17, <2>20, <2>21
    <3>2. \A q \in Procs : (call'[q] # None <=> call[q] # None)
            /\ (call[q] # None => call'[q].inode = call[q].inode)
      BY <1>0, <2>1, <2>15, <2>16 DEF c
    <3>3. \A q, r \in Procs : call'[q] # None /\ call'[r] # None /\ call'[q].inode = call'[r].inode => q = r
      BY <3>2, <2>2 DEF CallsOk
    <3> QED
      BY <3>1, <3>3 DEF CallsOk
  <2>24. CopiesOk'
    <3>1. \A j \in Inodes : entry'[j] = None \/ entry'[j] \in InodeEntries
      BY <2>17
    <3>2. \A j \in Inodes : itab'[j].type = "invalid" => itab'[j] = Invalid /\ entry'[j] = None
      BY <2>1, <2>2, <2>3, <2>17 DEF CopiesOk
    <3>3. \A j \in Inodes : entry'[j] # None /\ ~ IsLocked(j)' => entry'[j] = itab'[j]
      <4>1. IsLocked(i)
        BY <1>0, <2>1 DEF IsLocked, c
      <4> QED
        BY <4>1, <2>1, <2>2, <2>17, <2>22 DEF CopiesOk
    <3>4. \A q \in Procs : call'[q] # None =>
            LET j == call'[q].inode IN
            /\ entry'[j].type = itab'[j].type /\ entry'[j].bytes = itab'[j].bytes
            /\ entry'[j] = itab'[j] \/ entry'[j].bytes < call'[q].off
      <4>1. \A q \in Procs : call[q] # None =>
              LET j == call[q].inode IN
              /\ entry[j].type = itab[j].type /\ entry[j].bytes = itab[j].bytes
              /\ entry[j] = itab[j] \/ entry[j].bytes < call[q].off
        BY <2>2 DEF CopiesOk
      <4>2. ASSUME NEW q \in Procs, q # p, call'[q] # None
            PROVE  LET j == call'[q].inode IN
                   /\ entry'[j].type = itab'[j].type /\ entry'[j].bytes = itab'[j].bytes
                   /\ entry'[j] = itab'[j] \/ entry'[j].bytes < call'[q].off
        <5>1. call'[q] = call[q] /\ call[q].inode \in Inodes /\ call[q].inode # i
          BY <4>2, <2>16, <2>20, <2>21
        <5>2. entry'[call[q].inode] = entry[call[q].inode]
          BY <5>1, <2>17
        <5> QED
          BY <5>1, <5>2, <4>1, <4>2, <2>1
      <4>3. /\ entry'[i].type = itab'[i].type /\ entry'[i].bytes = itab'[i].bytes
            /\ entry'[i] = itab'[i] \/ entry'[i].bytes < c2.off
        <5>1. /\ entry[i].type = itab[i].type /\ entry[i].bytes = itab[i].bytes
              /\ entry[i] = itab[i] \/ entry[i].bytes < c.off
          BY <1>0, <4>1, <2>1 DEF c
        <5>2. E2[i] = entry[i] \/ E2[i].bytes < c2.off
          BY <2>4, <2>13, <2>15
        <5>3. c.off < c2.off /\ entry[i].bytes \in Nat /\ c2.off \in Nat /\ c.off \in Nat
          BY <2>3, <2>4, <2>6, <2>13, <2>15
        <5> QED
          BY <5>1, <5>2, <5>3, <2>1, <2>4, <2>14, <2>17
      <4> QED
        BY <4>2, <4>3, <2>15, <2>16
    <3> QED
      BY <2>1, <2>2, <3>1, <3>2, <3>3, <3>4 DEF CopiesOk
  <2>25. Exact(bitmap, data, Current)'
    <3>1. Current' = E2
      <4>1. Current' = [j \in Inodes |-> Entry(j)']
        BY DEF Current
      <4> QED
        BY <4>1, <2>14, <2>19
    <3> QED
      BY <3>1, <2>14
  <2>26. FilesOk'
    <3>1. OthersOk(i)
      <4>1. \A j \in Inodes : j # i => Entry(j)' = Entry(j) /\ files'[j] = files[j]
        BY <2>1, <2>14, <2>19 DEF Current
      <4>2. \A j \in Inodes, x \in FileOffsets : j # i => SameCell(data, Entry(j), data', Entry(j), x)
        <5>1. \A j \in Inodes, x \in FileOffsets : j # i => SameCell(data, Current[j], data', E2[j], x)
          BY <2>12 DEF BlockPut
        <5> QED
          BY <5>1, <2>14 DEF Current
      <4>3. \A q \in Procs : call'[q] # None /\ call'[q].inode # i => call'[q] = call[q]
        BY <2>15, <2>16
      <4>4. \A q \in Procs : call[q] # None /\ call[q].inode # i => call'[q] = call[q]
        BY <1>0, <2>16 DEF c
      <4> QED
        BY <4>1, <4>2, <4>3, <4>4 DEF OthersOk
    <3>2. \A q \in Procs : call'[q] # None /\ call'[q].inode = i => call'[q] = c2
      BY <2>16, <2>20
    <3>3. FileIs(data', Entry(i)', files'[i], c2.off, c2.src)
      BY <2>1, <2>3, <2>13, <2>15, <2>19
    <3>4. IsLocked(i)'
      BY <2>15, <2>16 DEF IsLocked
    <3>5. \A q \in Procs : call'[q] # None /\ call'[q].inode = i =>
            FileIs(data', Entry(i)', files'[i], call'[q].off, call'[q].src)
      BY <3>2, <3>3
    <3> QED
      BY <3>1, <3>4, <3>5, <2>2, <2>3, <2>18, OthersStay
  <2>27. NamesOk'
    BY <2>1, <2>2 DEF NamesOk
  <2>28. MkfsOk'
    BY <2>1, <2>3 DEF MkfsOk
  <2> QED
    BY <2>18, <2>23, <2>24, <2>25, <2>26, <2>27, <2>28 DEF FileInv
<1> QED
  BY <1>1, <1>2

LEMMA EndWriteKeeps ==
    ASSUME FileInv, NEW p \in Procs, EndWrite(p)
    PROVE  FileInv'
<1>0. PICK i \in Inodes : i = call[p].inode
  BY DEF EndWrite, FileInv, CallsOk, Calls
<1> DEFINE c == call[p]
           e2 == IF entry[i].bytes < c.off THEN [entry[i] EXCEPT !.bytes = c.off] ELSE entry[i]
<1>1. /\ c # None /\ c.src = <<>>
      /\ call' = [call EXCEPT ![p] = None]
      /\ UNCHANGED <<mkfs, bitmap, data, files, panicked>>
  BY DEF EndWrite
<1>2. /\ Exact(bitmap, data, Current) /\ CallsOk /\ FilesOk /\ CopiesOk /\ NamesOk /\ FileTypes
      /\ itab \in [Inodes -> InodeEntries] /\ entry \in [Inodes -> InodeEntries \cup {None}]
      /\ files \in [Inodes -> Seq(FileCells)] /\ call \in [Procs -> Calls \cup {None}]
  BY DEF FileInv, CopiesOk, FileTypes
<1>3. /\ c.off \in Nat /\ mkfs = None /\ c.inode = i
      /\ entry[i] # None /\ entry[i] \in InodeEntries /\ Entry(i) = entry[i]
  BY <1>0, <1>1, <1>2 DEF CallsOk, Calls, CopiesOk, Entry
<1>4. FileIs(data, entry[i], files[i], c.off, <<>>)
  BY <1>0, <1>1, <1>2, <1>3 DEF FilesOk
<1>5. /\ entry[i].type = itab[i].type /\ entry[i].bytes = itab[i].bytes
      /\ entry[i] = itab[i] \/ entry[i].bytes < c.off
  BY <1>0, <1>1, <1>2 DEF CopiesOk
<1>6. FileIs(data, e2, files[i], 0, <<>>) /\ e2 \in InodeEntries
  <2> HIDE DEF c
  <2> QED
    BY <1>3, <1>4, SizeIsSet
<1>7. e2.addrs = entry[i].addrs /\ e2.indirect = entry[i].indirect /\ e2.type = entry[i].type
  <2> HIDE DEF c
  <2> QED
    BY <1>3 DEF InodeEntries
<1>8. entry' = [entry EXCEPT ![i] = e2] /\ itab' = [itab EXCEPT ![i] = e2]
  <2>1. CASE entry[i].bytes < c.off
    <3>1. entry' = [entry EXCEPT ![i].bytes = c.off] /\ itab' = [itab EXCEPT ![i] = e2]
      BY <1>0, <2>1 DEF EndWrite, Grown
    <3> QED
      BY <3>1, <2>1, <1>2
  <2>2. CASE ~ (entry[i].bytes < c.off)
    <3>1. UNCHANGED <<entry, itab>>
      BY <1>0, <2>2 DEF EndWrite
    <3>2. entry[i] = itab[i] /\ e2 = entry[i]
      BY <2>2, <1>5
    <3> HIDE DEF e2
    <3> QED
      BY <3>1, <3>2, <1>2
  <2> QED
    BY <2>1, <2>2
<1> HIDE DEF e2, c
<1>9. /\ entry' \in [Inodes -> InodeEntries \cup {None}] /\ entry'[i] = e2 /\ e2 # None
      /\ itab' \in [Inodes -> InodeEntries] /\ itab'[i] = e2
      /\ \A j \in Inodes : j # i => entry'[j] = entry[j] /\ itab'[j] = itab[j]
  BY <1>2, <1>6, <1>8, NullAssumption
<1>10. /\ call' \in [Procs -> Calls \cup {None}] /\ call'[p] = None
       /\ \A q \in Procs : q # p => call'[q] = call[q]
  BY <1>1, <1>2
<1>11. FileTypes'
  BY <1>1, <1>2, <1>9, <1>10 DEF FileTypes
<1>12. Entry(i)' = e2 /\ \A j \in Inodes : j # i => Entry(j)' = Entry(j)
  BY <1>9 DEF Entry
<1>13. \A q \in Procs : call[q] # None /\ call[q].inode = i => q = p
  BY <1>0, <1>1, <1>2 DEF CallsOk, c
<1>14. ~ IsLocked(i)' /\ \A j \in Inodes : j # i => (IsLocked(j)' <=> IsLocked(j))
  BY <1>0, <1>10, <1>13 DEF IsLocked
<1>15. \A q \in Procs : call'[q] # None => q # p /\ call[q] # None /\ call'[q] = call[q]
         /\ call[q].inode \in Inodes /\ call[q].inode # i
  BY <1>2, <1>10, <1>13 DEF CallsOk, Calls
<1>16. CallsOk'
  <2>1. \A q \in Procs : call'[q] # None =>
          call'[q] \in Calls /\ entry'[call'[q].inode] # None /\ mkfs' = None
    BY <1>1, <1>2, <1>3, <1>9, <1>15 DEF CallsOk
  <2>2. \A q, r \in Procs : call'[q] # None /\ call'[r] # None /\ call'[q].inode = call'[r].inode => q = r
    BY <1>2, <1>15 DEF CallsOk
  <2> QED
    BY <2>1, <2>2 DEF CallsOk
<1>17. CopiesOk'
  <2>1. \A j \in Inodes : entry'[j] = None \/ entry'[j] \in InodeEntries
    BY <1>9
  <2>2. \A j \in Inodes : itab'[j].type = "invalid" => itab'[j] = Invalid /\ entry'[j] = None
    <3>1. \A j \in Inodes : itab[j].type = "invalid" => itab[j] = Invalid /\ entry[j] = None
      BY <1>2 DEF CopiesOk
    <3>2. itab'[i].type # "invalid"
      BY <3>1, <1>3, <1>5, <1>7, <1>9
    <3> QED
      BY <3>1, <3>2, <1>9
  <2>3. \A j \in Inodes : entry'[j] # None /\ ~ IsLocked(j)' => entry'[j] = itab'[j]
    BY <1>2, <1>9, <1>14 DEF CopiesOk
  <2>4. \A q \in Procs : call'[q] # None =>
          LET j == call'[q].inode IN
          /\ entry'[j].type = itab'[j].type /\ entry'[j].bytes = itab'[j].bytes
          /\ entry'[j] = itab'[j] \/ entry'[j].bytes < call'[q].off
    BY <1>2, <1>9, <1>15 DEF CopiesOk
  <2> QED
    BY <1>9, <2>1, <2>2, <2>3, <2>4 DEF CopiesOk
<1>18. Exact(bitmap, data, Current)'
  <2>1. \A j \in Inodes : Current'[j] = Entry(j)' /\ Current[j] = Entry(j)
    BY DEF Current
  <2>2. Current' \in [Inodes -> InodeEntries]
    BY <1>17 DEF CopiesOk, Current, Entry
  <2>3. \A j \in Inodes : Current'[j].addrs = Current[j].addrs
          /\ Current'[j].indirect = Current[j].indirect
    BY <2>1, <1>3, <1>7, <1>12
  <2>4. Exact(bitmap, data, Current')
    BY <2>2, <2>3, <1>2, ExactOf
  <2> QED
    BY <2>4, <1>1
<1>19. FilesOk'
  <2>1. OthersOk(i)
    BY <1>1, <1>3, <1>10, <1>12, <1>15 DEF OthersOk, SameCell, c
  <2>2. FileIs(data', Entry(i)', files'[i], 0, <<>>)
    BY <1>1, <1>6, <1>12
  <2> QED
    BY <2>1, <2>2, <1>2, <1>11, <1>15, OthersStay
<1>20. NamesOk'
  BY <1>1, <1>2, <1>5, <1>7, <1>9 DEF NamesOk
<1>21. MkfsOk'
  BY <1>1, <1>3 DEF MkfsOk
<1> QED
  BY <1>11, <1>16, <1>17, <1>18, <1>19, <1>20, <1>21 DEF FileInv

LEMMA RebootKeeps ==
    ASSUME FileInv, Reboot
    PROVE  FileInv'
<1>1. /\ \A q \in Procs : call[q] = None
      /\ entry' = [i \in Inodes |-> None]
      /\ UNCHANGED <<mkfs, bitmap, data, itab, call, files, panicked>>
  BY DEF Reboot
<1>2. /\ Exact(bitmap, data, Current) /\ FilesOk /\ CopiesOk /\ NamesOk /\ MkfsOk /\ FileTypes
  BY DEF FileInv
<1>3. \A i \in Inodes : entry'[i] = None /\ ~ IsLocked(i) /\ ~ IsLocked(i)'
  BY <1>1 DEF IsLocked
<1>4. \A i \in Inodes : Entry(i) = itab[i] /\ Entry(i)' = itab[i]
  BY <1>1, <1>2, <1>3, CurrentIs DEF Entry
<1>5. FileTypes'
  BY <1>1, <1>2 DEF FileTypes
<1>6. CallsOk' /\ CopiesOk' /\ NamesOk'
  BY <1>1, <1>2, <1>3 DEF CallsOk, CopiesOk, NamesOk
<1>7. Exact(bitmap, data, Current)'
  <2>1. Current' = Current
    BY <1>4 DEF Current
  <2> QED
    BY <2>1, <1>1, <1>2
<1>8. FilesOk'
  <2>1. \A i \in Inodes : FileIs(data, itab[i], files[i], 0, <<>>)
    BY <1>2, <1>3, <1>4 DEF FilesOk
  <2> QED
    BY <2>1, <1>1, <1>4 DEF FilesOk
<1>9. MkfsOk'
  BY <1>1, <1>2, <1>3 DEF MkfsOk
<1> QED
  BY <1>5, <1>6, <1>7, <1>8, <1>9 DEF FileInv

\* The blocks that an inode lists, and where.
LEMMA ListedIs ==
    ASSUME NEW e \in InodeEntries,
           \A k \in Offsets : e.indirect # 0 => data[e.indirect][k] # 0
    PROVE  \A x : x \in Listed(e) <=>
             \E n \in Places : BlockAt(data, e, n) # 0 /\ x = <<n, BlockAt(data, e, n)>>
<1> DEFINE ind == IF e.indirect = 0 THEN {} ELSE {k \in DOMAIN ZeroBlock : data[e.indirect][k] # ZeroCell}
           S1 == {<<n, e.addrs[n]>> : n \in {m \in DOMAIN e.addrs : e.addrs[m] # 0}}
           S2 == {<<NDirect + k, data[e.indirect][k]>> : k \in ind}
           S3 == IF e.indirect = 0 THEN {} ELSE {<<-1, e.indirect>>}
<1>1. Listed(e) = S1 \cup S2 \cup S3
  BY DEF Listed
<1>2. DOMAIN e.addrs = 0 .. NDirect - 1 /\ DOMAIN ZeroBlock = Offsets
  BY DEF InodeEntries, ZeroBlock, Offsets
<1>3. \A x : x \in S1 <=> \E n \in 0 .. NDirect - 1 : BlockAt(data, e, n) # 0 /\ x = <<n, BlockAt(data, e, n)>>
  BY <1>2, DirectAt
<1>4. \A k \in Offsets : BlockAt(data, e, NDirect + k) # 0 <=> k \in ind
  BY <1>2, ListedAt
<1>5. \A k \in ind : k \in Offsets /\ BlockAt(data, e, NDirect + k) = data[e.indirect][k]
  BY <1>2, ListedAt
<1>6. \A x : x \in S2 <=>
        \E k \in Offsets : BlockAt(data, e, NDirect + k) # 0 /\ x = <<NDirect + k, BlockAt(data, e, NDirect + k)>>
  <2> HIDE DEF ind
  <2>1. \A x : x \in S2 <=> \E k \in ind : x = <<NDirect + k, data[e.indirect][k]>>
    OBVIOUS
  <2>2. \A x : x \in S2 <=> \E k \in ind : x = <<NDirect + k, BlockAt(data, e, NDirect + k)>>
    BY <2>1, <1>5
  <2> HIDE DEF S2
  <2> QED
    BY <2>2, <1>4, <1>5
<1>7. \A x : x \in S3 <=> BlockAt(data, e, -1) # 0 /\ x = <<-1, BlockAt(data, e, -1)>>
  BY IndirectAt
<1> HIDE DEF S1, S2, S3
<1>8. ASSUME NEW x, x \in Listed(e)
      PROVE  \E n \in Places : BlockAt(data, e, n) # 0 /\ x = <<n, BlockAt(data, e, n)>>
  <2>1. CASE x \in S1
    <3>1. PICK n \in 0 .. NDirect - 1 : BlockAt(data, e, n) # 0 /\ x = <<n, BlockAt(data, e, n)>>
      BY <2>1, <1>3
    <3>2. n \in Places
      BY DataSizes DEF Places
    <3> QED
      BY <3>1, <3>2
  <2>2. CASE x \in S2
    <3>1. PICK k \in Offsets : BlockAt(data, e, NDirect + k) # 0 /\ x = <<NDirect + k, BlockAt(data, e, NDirect + k)>>
      BY <2>2, <1>6
    <3>2. NDirect + k \in Places
      BY PlacesAre
    <3> QED
      BY <3>1, <3>2
  <2>3. CASE x \in S3
    BY <2>3, <1>7, PlacesAre
  <2> QED
    BY <2>1, <2>2, <2>3, <1>1, <1>8
<1>9. ASSUME NEW n \in Places, BlockAt(data, e, n) # 0
      PROVE  <<n, BlockAt(data, e, n)>> \in Listed(e)
  <2>1. CASE n = -1
    BY <2>1, <1>1, <1>7, <1>9
  <2>2. CASE n # -1
    <3>1. n \in 0 .. NDirect - 1 \/ \E k \in Offsets : n = NDirect + k
      BY <2>2, PlacesAre
    <3> QED
      BY <3>1, <1>1, <1>3, <1>6, <1>9
  <2> QED
    BY <2>1, <2>2
<1> QED
  BY <1>8, <1>9

LEMMA AddressesAre ==
    ASSUME NEW e \in InodeEntries,
           \A k \in Offsets : e.indirect # 0 => data[e.indirect][k] # 0
    PROVE  \A b : b \in Addresses(e) <=> \E n \in Places : BlockAt(data, e, n) # 0 /\ b = BlockAt(data, e, n)
<1>1. \A b : b \in Addresses(e) <=> \E x \in Listed(e) : b = x[2]
  BY DEF Addresses
<1>2. \A n, b : <<n, b>>[2] = b
  OBVIOUS
<1>3. \A x : x \in Listed(e) <=>
        \E n \in Places : BlockAt(data, e, n) # 0 /\ x = <<n, BlockAt(data, e, n)>>
  BY ListedIs
<1>4. ASSUME NEW b, b \in Addresses(e)
      PROVE  \E n \in Places : BlockAt(data, e, n) # 0 /\ b = BlockAt(data, e, n)
  <2>1. PICK x \in Listed(e) : b = x[2]
    BY <1>1, <1>4
  <2>2. PICK n \in Places : BlockAt(data, e, n) # 0 /\ x = <<n, BlockAt(data, e, n)>>
    BY <1>3
  <2> QED
    BY <2>1, <2>2
<1>5. ASSUME NEW n \in Places, BlockAt(data, e, n) # 0
      PROVE  BlockAt(data, e, n) \in Addresses(e)
  <2>1. <<n, BlockAt(data, e, n)>> \in Listed(e)
    BY <1>3, <1>5
  <2> QED
    BY <2>1, <1>1, <1>2
<1> QED
  BY <1>4, <1>5

\* An inode is cleared: its blocks are free, and no other file has changed.
LEMMA ClearKeeps ==
    ASSUME Exact(bitmap, data, Current), NEW i \in Inodes
    PROVE  LET e == Current[i]
               E2 == [Current EXCEPT ![i] = Invalid]
           IN  /\ Exact(bitmap \ Cleared(e), Wiped(e), E2)
               /\ \A j \in Inodes, o \in FileOffsets :
                    j # i => SameCell(data, Current[j], Wiped(e), Current[j], o)
<1> DEFINE e == Current[i]
           E == Current
           E2 == [E EXCEPT ![i] = Invalid]
           d2 == Wiped(e)
           b2 == bitmap \ Cleared(e)
<1>0. Exact(bitmap, data, E)
  OBVIOUS
<1> HIDE DEF E
<1>1. /\ bitmap \subseteq Blocks /\ 0 .. NMeta - 1 \subseteq bitmap
      /\ data \in [Blocks -> [Offsets -> Cells]] /\ E \in [Inodes -> InodeEntries]
      /\ \A j \in Inodes, n \in Places : BlockAt(data, E[j], n) \in {0} \cup (DataBlocks \cap bitmap)
      /\ \A j \in Inodes, k \in Offsets : E[j].indirect # 0 => data[E[j].indirect][k] # 0
      /\ \A b \in bitmap \cap DataBlocks : \E j \in Inodes, n \in Places : BlockAt(data, E[j], n) = b
  BY <1>0 DEF Exact
<1>2. \A j, k \in Inodes, m, n \in Places :
        BlockAt(data, E[j], m) # 0 /\ BlockAt(data, E[j], m) = BlockAt(data, E[k], n) => j = k /\ m = n
  BY <1>0, Zenon DEF Exact
<1>3. e = E[i] /\ e \in InodeEntries
  BY <1>1 DEF E
<1> HIDE DEF e
<1>4. \A b : b \in Cleared(e) <=> \E n \in Places : BlockAt(data, E[i], n) # 0 /\ b = BlockAt(data, E[i], n)
  BY <1>1, <1>3, AddressesAre DEF Cleared
<1>5. \A j \in Inodes : E2[j] = IF j = i THEN Invalid ELSE E[j]
  BY <1>1
<1>6. E2 \in [Inodes -> InodeEntries]
  BY <1>1, InvalidIs
<1> HIDE DEF E2
<1>7. d2 \in [Blocks -> [Offsets -> Cells]] /\ \A b \in Blocks : b # e.indirect \/ b = 0 => d2[b] = data[b]
  BY <1>1, ZeroBlockType DEF Wiped
<1> HIDE DEF d2
<1>8. \A j \in Inodes : j # i /\ E[j].indirect # 0 => d2[E[j].indirect] = data[E[j].indirect]
  <2> SUFFICES ASSUME NEW j \in Inodes, j # i, E[j].indirect # 0
               PROVE  d2[E[j].indirect] = data[E[j].indirect]
    OBVIOUS
  <2>1. BlockAt(data, E[j], -1) = E[j].indirect /\ BlockAt(data, E[i], -1) = e.indirect /\ -1 \in Places
    BY <1>3, IndirectAt, PlacesAre
  <2>2. E[j].indirect # e.indirect
    BY <2>1, <1>2
  <2>3. E[j].indirect \in Blocks
    BY <1>1 DEF InodeEntries
  <2> QED
    BY <2>2, <2>3, <1>7
<1>9. \A j \in Inodes, n \in Places : j # i => BlockAt(d2, E[j], n) = BlockAt(data, E[j], n)
  BY <1>8 DEF BlockAt
<1>10. \A j \in Inodes, n \in Places :
         BlockAt(d2, E2[j], n) = IF j = i THEN 0 ELSE BlockAt(data, E[j], n)
  BY <1>5, <1>9, InvalidIs
<1>11. Exact(b2, d2, E2)
  <2>1. 0 .. NMeta - 1 \subseteq b2
    <3>1. \A b \in Cleared(e) : b \in DataBlocks
      BY <1>1, <1>4
    <3>2. \A b \in 0 .. NMeta - 1 : b \notin DataBlocks
      BY DataSizes DEF DataBlocks
    <3> QED
      BY <3>1, <3>2, <1>1
  <2>2. \A j \in Inodes, n \in Places : BlockAt(d2, E2[j], n) \in {0} \cup (DataBlocks \cap b2)
    <3> SUFFICES ASSUME NEW j \in Inodes, NEW n \in Places, j # i, BlockAt(data, E[j], n) # 0
                 PROVE  BlockAt(data, E[j], n) \in DataBlocks \cap b2
      BY <1>10
    <3>1. BlockAt(data, E[j], n) \in DataBlocks \cap bitmap
      BY <1>1
    <3>2. BlockAt(data, E[j], n) \notin Cleared(e)
      BY <1>2, <1>4
    <3> QED
      BY <3>1, <3>2
  <2>3. \A j \in Inodes, k \in Offsets : E2[j].indirect # 0 => d2[E2[j].indirect][k] # 0
    BY <1>1, <1>5, <1>8, InvalidIs
  <2>4. \A j, k \in Inodes, m, n \in Places :
          BlockAt(d2, E2[j], m) # 0 /\ BlockAt(d2, E2[j], m) = BlockAt(d2, E2[k], n) => j = k /\ m = n
    BY <1>2, <1>10
  <2>5. ASSUME NEW b \in b2 \cap DataBlocks
        PROVE  \E j \in Inodes, n \in Places : BlockAt(d2, E2[j], n) = b
    <3>1. PICK j \in Inodes, n \in Places : BlockAt(data, E[j], n) = b
      BY <1>1
    <3>2. b # 0
      BY DataSizes DEF DataBlocks
    <3>3. j # i
      BY <3>1, <3>2, <1>4
    <3> QED
      BY <3>1, <3>3, <1>10
  <2> HIDE DEF b2
  <2>6. b2 \subseteq Blocks
    BY <1>1 DEF b2
  <2> QED
    BY <1>6, <1>7, <2>1, <2>2, <2>3, <2>4, <2>5, <2>6 DEF Exact
<1>12. ASSUME NEW j \in Inodes, NEW o \in FileOffsets, j # i
       PROVE  SameCell(data, E[j], d2, E[j], o)
  <2>1. o \div BlockSize \in FilePlaces
    BY OffsetsAre
  <2>2. PICK n \in FilePlaces : n = o \div BlockSize
    BY <2>1
  <2>3. n \in Places
    BY PlacesAre
  <2>4. BlockAt(d2, E[j], n) = BlockAt(data, E[j], n)
    BY <2>3, <1>9, <1>12
  <2>5. BlockAt(data, E[j], n) # 0 =>
          d2[BlockAt(data, E[j], n)] = data[BlockAt(data, E[j], n)]
    <3>1. BlockAt(data, E[j], n) # 0 => BlockAt(data, E[j], n) # E[i].indirect
      BY <1>0, ListedBlocks
    <3>2. BlockAt(data, E[j], n) \in Blocks
      BY <1>0, <2>3, ListedBlocks
    <3> QED
      BY <3>1, <3>2, <1>3, <1>7
  <2> QED
    BY <2>2, <2>4, <2>5 DEF SameCell, InBlock, CellAt
<1> QED
  BY <1>11, <1>12 DEF E, E2, d2, e

LEMMA InodeFreeKeeps ==
    ASSUME FileInv, NEW p \in Procs, NEW i \in Inodes, InodeFree(p, i)
    PROVE  FileInv'
<1>1. /\ mkfs = None /\ ~ IsLocked(i)
      /\ bitmap' = bitmap \ Cleared(Entry(i)) /\ data' = Wiped(Entry(i))
      /\ itab' = [itab EXCEPT ![i] = Invalid]
      /\ entry' = [entry EXCEPT ![i] = None]
      /\ files' = [files EXCEPT ![i] = <<>>]
      /\ UNCHANGED <<mkfs, call, panicked>>
  BY DEF InodeFree, May
<1>2. /\ Exact(bitmap, data, Current) /\ CallsOk /\ FilesOk /\ CopiesOk /\ NamesOk /\ FileTypes
      /\ itab \in [Inodes -> InodeEntries] /\ entry \in [Inodes -> InodeEntries \cup {None}]
      /\ files \in [Inodes -> Seq(FileCells)] /\ call \in [Procs -> Calls \cup {None}]
  BY DEF FileInv, CopiesOk, FileTypes
<1>3. /\ itab' \in [Inodes -> InodeEntries] /\ itab'[i] = Invalid
      /\ \A j \in Inodes : j # i => itab'[j] = itab[j]
  BY <1>1, <1>2, InvalidIs
<1>4. /\ entry' \in [Inodes -> InodeEntries \cup {None}] /\ entry'[i] = None
      /\ \A j \in Inodes : j # i => entry'[j] = entry[j]
  BY <1>1, <1>2
<1>5. /\ files' \in [Inodes -> Seq(FileCells)] /\ files'[i] = <<>>
      /\ \A j \in Inodes : j # i => files'[j] = files[j]
  <2>1. <<>> \in Seq(FileCells)
    OBVIOUS
  <2> QED
    BY <2>1, <1>1, <1>2
<1>6. FileTypes'
  BY <1>1, <1>2, <1>4, <1>5 DEF FileTypes
<1>7. Entry(i)' = Invalid /\ \A j \in Inodes : j # i => Entry(j)' = Entry(j)
  BY <1>3, <1>4 DEF Entry
<1>8. \A q \in Procs : call[q] # None => call[q] \in Calls /\ call[q].inode \in Inodes /\ call[q].inode # i
  BY <1>1, <1>2 DEF CallsOk, Calls, IsLocked
<1>9. \A j \in Inodes : IsLocked(j)' <=> IsLocked(j)
  BY <1>1 DEF IsLocked
<1>10. CallsOk'
  BY <1>1, <1>2, <1>4, <1>8 DEF CallsOk
<1>11. CopiesOk'
  <2>1. \A j \in Inodes : entry'[j] = None \/ entry'[j] \in InodeEntries
    BY <1>4
  <2>2. \A j \in Inodes : itab'[j].type = "invalid" => itab'[j] = Invalid /\ entry'[j] = None
    BY <1>2, <1>3, <1>4 DEF CopiesOk
  <2>3. \A j \in Inodes : entry'[j] # None /\ ~ IsLocked(j)' => entry'[j] = itab'[j]
    BY <1>2, <1>3, <1>4, <1>9 DEF CopiesOk
  <2>4. \A q \in Procs : call'[q] # None =>
          LET j == call'[q].inode IN
          /\ entry'[j].type = itab'[j].type /\ entry'[j].bytes = itab'[j].bytes
          /\ entry'[j] = itab'[j] \/ entry'[j].bytes < call'[q].off
    BY <1>1, <1>2, <1>3, <1>4, <1>8 DEF CopiesOk
  <2> QED
    BY <1>3, <2>1, <2>2, <2>3, <2>4 DEF CopiesOk
<1>12. /\ Current \in [Inodes -> InodeEntries] /\ Current[i] = Entry(i)
       /\ \A j \in Inodes : Current[j] = Entry(j)
  BY <1>2, CurrentIs
<1>13. Current' = [Current EXCEPT ![i] = Invalid]
  <2>1. Current' = [j \in Inodes |-> Entry(j)']
    BY DEF Current
  <2> QED
    BY <2>1, <1>7, <1>12
<1>14. LET e == Current[i]
           E2 == [Current EXCEPT ![i] = Invalid]
       IN  /\ Exact(bitmap \ Cleared(e), Wiped(e), E2)
           /\ \A j \in Inodes, o \in FileOffsets :
                j # i => SameCell(data, Current[j], Wiped(e), Current[j], o)
  BY <1>2, ClearKeeps
<1>15. Exact(bitmap, data, Current)'
  BY <1>1, <1>12, <1>13, <1>14
<1>16. FilesOk'
  <2>1. FileIs(data', Entry(i)', files'[i], 0, <<>>)
    <3>1. Settled(data', Invalid, <<>>)
      BY InvalidIs, DataSizes DEF Settled, FileOffsets
    <3> QED
      BY <3>1, <1>5, <1>7, InvalidIs, SettledIs
  <2>2. OthersOk(i)
    <3>1. \A j \in Inodes, o \in FileOffsets : j # i => SameCell(data, Entry(j), data', Entry(j), o)
      BY <1>1, <1>12, <1>14
    <3> QED
      BY <3>1, <1>1, <1>5, <1>7 DEF OthersOk
  <2>3. \A q \in Procs : call'[q] # None => call'[q].inode # i
    BY <1>1, <1>8
  <2> QED
    BY <2>1, <2>2, <2>3, <1>2, <1>6, OthersStay
<1>17. NamesOk'
  BY <1>2, <1>3, <1>5, InvalidIs DEF NamesOk
<1>18. MkfsOk'
  BY <1>1 DEF MkfsOk
<1> QED
  BY <1>6, <1>10, <1>11, <1>15, <1>16, <1>17, <1>18 DEF FileInv

-----------------------------------------------------------------------------
(* The steps of mkfs. *)

\* While mkfs is running there are no calls, and nothing is in memory.
LEMMA WhileMkfs ==
    ASSUME FileInv, mkfs # None
    PROVE  /\ \A p \in Procs : call[p] = None
           /\ \A i \in Inodes : entry[i] = None /\ ~ IsLocked(i) /\ Entry(i) = itab[i]
           /\ Current = itab /\ Exact(bitmap, data, itab) /\ itab \in [Inodes -> InodeEntries]
           /\ files \in [Inodes -> Seq(FileCells)]
           /\ \A i \in Inodes : itab[i].bytes \in Nat /\ Settled(data, itab[i], files[i])
           /\ mkfs \in Makings
           /\ mkfs.arg \in Nat /\ mkfs.argv \in Images /\ mkfs.todo \in Seq(Inodes \X FileCells)
           /\ NamesOk /\ FileTypes /\ MkfsOk
<1>1. /\ Exact(bitmap, data, Current) /\ CallsOk /\ FilesOk /\ NamesOk /\ FileTypes /\ MkfsOk
      /\ itab \in [Inodes -> InodeEntries] /\ files \in [Inodes -> Seq(FileCells)]
  BY DEF FileInv, CopiesOk, FileTypes
<1>2. \A p \in Procs : call[p] = None
  BY <1>1 DEF CallsOk
<1>3. \A i \in Inodes : entry[i] = None /\ ~ IsLocked(i) /\ Entry(i) = itab[i]
  BY <1>1, <1>2 DEF MkfsOk, IsLocked, Entry
<1>4. Current = itab
  BY <1>1, <1>3 DEF Current
<1>5. mkfs \in Makings
  BY <1>1 DEF MkfsOk
<1>6. mkfs.arg \in Nat /\ mkfs.argv \in Images /\ mkfs.todo \in Seq(Inodes \X FileCells)
  BY <1>5 DEF Makings
<1>7. \A i \in Inodes : itab[i].bytes \in Nat
  BY <1>1 DEF InodeEntries
<1>8. \A i \in Inodes : Settled(data, itab[i], files[i])
  BY <1>1, <1>3, <1>7, SettledIs DEF FilesOk
<1> QED
  BY <1>1, <1>2, <1>3, <1>4, <1>5, <1>6, <1>7, <1>8

\* What is left to show of a step of mkfs.
LEMMA MkfsStep ==
    ASSUME FileInv, mkfs # None, UNCHANGED <<entry, call, panicked>>,
           Exact(bitmap', data', itab'), files' \in [Inodes -> Seq(FileCells)],
           \A i \in Inodes : Settled(data', itab'[i], files'[i]),
           \A i \in Inodes : itab'[i].type = "invalid" => itab'[i] = Invalid,
           \A i \in Inodes : itab'[i].type = "dir" => DistinctNames(files'[i]),
           mkfs' \in Makings \cup {None}, MkfsOk'
    PROVE  FileInv'
<1>1. /\ \A p \in Procs : call[p] = None
      /\ \A i \in Inodes : entry[i] = None
      /\ FileTypes
  BY WhileMkfs
<1>2. itab' \in [Inodes -> InodeEntries]
  BY DEF Exact
<1>3. \A i \in Inodes : Entry(i)' = itab'[i] /\ ~ IsLocked(i)' /\ entry'[i] = None
  BY <1>1 DEF Entry, IsLocked
<1>4. Current' = itab'
  <2>1. Current' = [i \in Inodes |-> Entry(i)']
    BY DEF Current
  <2> QED
    BY <2>1, <1>2, <1>3
<1>5. \A i \in Inodes : itab'[i].bytes \in Nat
  BY <1>2 DEF InodeEntries
<1>6. FilesOk'
  <2>1. \A i \in Inodes : FileIs(data', itab'[i], files'[i], 0, <<>>)
    BY <1>5, SettledIs
  <2> QED
    BY <2>1, <1>1, <1>3 DEF FilesOk
<1>7. CallsOk'
  BY <1>1 DEF CallsOk
<1>8. CopiesOk'
  BY <1>1, <1>2, <1>3 DEF CopiesOk
<1>9. FileTypes'
  BY <1>1 DEF FileTypes
<1>10. NamesOk'
  BY DEF NamesOk
<1>11. Exact(bitmap, data, Current)'
  BY <1>4
<1> QED
  BY <1>6, <1>7, <1>8, <1>9, <1>10, <1>11 DEF FileInv

\* The root has all its entries when a file has been appended.
LEMMA TodoIsDone ==
    ASSUME FileInv, mkfs # None, mkfs.todo = <<>>
    PROVE  /\ itab[ROOT_INODE_NO].bytes = mkfs.arg + 1 /\ mkfs.arg \in 1 .. Len(mkfs.argv) + 1
           /\ mkfs.arg \in Nat /\ Len(mkfs.argv) \in Nat
<1>1. /\ itab[ROOT_INODE_NO].bytes \in Nat /\ mkfs.arg \in Nat /\ mkfs.argv \in Images /\ MkfsOk
  BY WhileMkfs, RootIs
<1>2. /\ itab[ROOT_INODE_NO].bytes <= mkfs.arg + 1
      /\ mkfs.arg + 1 - itab[ROOT_INODE_NO].bytes <= Len(mkfs.todo)
      /\ mkfs.arg \in 1 .. Len(mkfs.argv) + 1
  BY <1>1 DEF MkfsOk
<1>3. Len(<<>>) = 0
  OBVIOUS
<1>4. Len(mkfs.argv) \in Nat
  <2>1. mkfs.argv \in Seq([name : Names, bytes : Seq(Bytes)])
    BY <1>1, ImageAssumption
  <2> QED
    BY <2>1
<1> QED
  BY <1>1, <1>2, <1>3, <1>4

LEMMA ArgvIs ==
    ASSUME NEW argv \in Images
    PROVE  /\ Len(argv) \in Nat /\ DOMAIN argv = 1 .. Len(argv)
           /\ \A x, y \in 1 .. Len(argv) : argv[x].name = argv[y].name => x = y
<1> DEFINE S == [name : Names, bytes : Seq(Bytes)]
<1>1. argv \in Seq(S) /\ \A x, y \in DOMAIN argv : argv[x].name = argv[y].name => x = y
  BY ImageAssumption
<1> HIDE DEF S
<1>2. Len(argv) \in Nat /\ DOMAIN argv = 1 .. Len(argv)
  BY <1>1
<1> QED
  BY <1>1, <1>2

\* The file that the loop of main makes next.
LEMMA ArgumentIs ==
    ASSUME NEW argv \in Images, NEW k \in 1 .. Len(argv)
    PROVE  argv[k].name \in Names /\ argv[k].bytes \in Seq(Bytes) /\ argv[k] \in [name : Names, bytes : Seq(Bytes)]
<1>1. argv \in Seq([name : Names, bytes : Seq(Bytes)])
  BY ImageAssumption
<1>2. argv[k] \in [name : Names, bytes : Seq(Bytes)]
  <2> DEFINE S == [name : Names, bytes : Seq(Bytes)]
  <2>1. argv \in Seq(S)
    BY <1>1
  <2> HIDE DEF S
  <2>2. argv[k] \in S
    BY <2>1
  <2> QED
    BY <2>2 DEF S
<1> QED
  BY <1>2

LEMMA RootCellIs ==
    ASSUME NEW argv, NEW x \in Nat, x > 0
    PROVE  RootCell(argv, x + 2) = <<argv[x].name, x + 1>>
<1>1. ~ (x + 2 <= 2) /\ (x + 2) - 2 = x /\ (x + 2) - 1 = x + 1
  OBVIOUS
<1> QED
  BY <1>1 DEF RootCell

LEMMA MkfsFileKeeps ==
    ASSUME FileInv, MkfsFile
    PROVE  FileInv'
<1> DEFINE R == ROOT_INODE_NO
           arg == mkfs.arg
           f == mkfs.argv[arg]
           i == arg + 1
           todo == [k \in 1 .. Len(f.bytes) + 1 |->
                      IF k = 1 THEN <<R, <<f.name, i>>>> ELSE <<i, f.bytes[k - 1]>>]
<1>1. /\ mkfs # None /\ mkfs.todo = <<>> /\ arg \in DOMAIN mkfs.argv /\ i \in Inodes
      /\ itab' = [itab EXCEPT ![i] = Fresh("regular")]
      /\ mkfs' = [mkfs EXCEPT !.arg = i, !.todo = todo]
      /\ UNCHANGED <<bitmap, data, entry, call, files, calls, panicked>>
  BY DEF MkfsFile
<1>2. /\ Exact(bitmap, data, itab) /\ itab \in [Inodes -> InodeEntries]
      /\ files \in [Inodes -> Seq(FileCells)]
      /\ \A j \in Inodes : itab[j].bytes \in Nat /\ Settled(data, itab[j], files[j])
      /\ \A j \in Inodes : entry[j] = None
      /\ mkfs \in Makings /\ arg \in Nat /\ mkfs.argv \in Images /\ NamesOk /\ MkfsOk
  BY <1>1, WhileMkfs
<1>3. /\ itab[R].bytes = arg + 1 /\ arg \in 1 .. Len(mkfs.argv) + 1 /\ Len(mkfs.argv) \in Nat
  BY <1>1, TodoIsDone
<1>4. /\ arg \in 1 .. Len(mkfs.argv)
      /\ f.name \in Names /\ f.bytes \in Seq(Bytes)
  <2>1. mkfs.argv \in Seq([name : Names, bytes : Seq(Bytes)])
    BY <1>2, ImageAssumption
  <2>2. arg \in 1 .. Len(mkfs.argv)
    BY <1>1, <2>1
  <2> QED
    BY <2>2, <1>2, ArgumentIs
<1>5. R \in Inodes /\ R = 1 /\ i # R
  BY <1>2, <1>3, RootIs
<1>6. /\ todo \in Seq(Inodes \X FileCells) /\ Len(todo) = Len(f.bytes) + 1 /\ Len(f.bytes) \in Nat
      /\ todo[1] = <<R, <<f.name, i>>>>
      /\ \A k \in 2 .. Len(f.bytes) + 1 : todo[k][1] = i
  <2> HIDE DEF i, f, R
  <2>1. Len(f.bytes) \in Nat /\ \A k \in 1 .. Len(f.bytes) : f.bytes[k] \in FileCells
    BY <1>4 DEF FileCells
  <2>2. <<f.name, i>> \in FileCells
    BY <1>1, <1>4 DEF FileCells
  <2>3. \A k \in 1 .. Len(f.bytes) + 1 :
          (IF k = 1 THEN <<R, <<f.name, i>>>> ELSE <<i, f.bytes[k - 1]>>) \in Inodes \X FileCells
    <3> SUFFICES ASSUME NEW k \in 1 .. Len(f.bytes) + 1, k # 1
                 PROVE  f.bytes[k - 1] \in FileCells
      BY <1>1, <1>5, <2>2
    <3>1. k - 1 \in 1 .. Len(f.bytes)
      BY <2>1
    <3> QED
      BY <3>1, <2>1
  <2>4. todo \in Seq(Inodes \X FileCells) /\ Len(todo) = Len(f.bytes) + 1
    BY <2>1, <2>3
  <2>5. todo[1] = <<R, <<f.name, i>>>>
    BY <2>1
  <2>6. \A k \in 2 .. Len(f.bytes) + 1 : todo[k] = <<i, f.bytes[k - 1]>>
    BY <2>1
  <2> HIDE DEF todo
  <2> QED
    BY <2>1, <2>4, <2>5, <2>6
<1> HIDE DEF todo
<1>7. /\ itab[i] = Invalid
      /\ itab[i].type = "invalid"
  <2>1. i > arg
    BY <1>2
  <2>2. itab[i] = Invalid
    BY <2>1, <1>1, <1>2 DEF MkfsOk
  <2> QED
    BY <2>2, InvalidIs
<1>8. /\ Fresh("regular") \in InodeEntries /\ Fresh("regular").type = "regular"
      /\ Fresh("regular").bytes = 0
      /\ Fresh("regular").addrs = Invalid.addrs /\ Fresh("regular").indirect = Invalid.indirect
  BY FreshType DEF Types
<1>9. /\ itab' \in [Inodes -> InodeEntries] /\ itab'[i] = Fresh("regular")
      /\ \A j \in Inodes : j # i => itab'[j] = itab[j]
  BY <1>1, <1>2, <1>8
<1>10. /\ mkfs' \in Makings /\ mkfs' # None /\ mkfs'.argv = mkfs.argv /\ mkfs'.arg = i /\ mkfs'.todo = todo
  <2>1. i \in Nat
    BY <1>2
  <2>2. mkfs' \in Makings /\ mkfs'.argv = mkfs.argv /\ mkfs'.arg = i /\ mkfs'.todo = todo
    <3> HIDE DEF i
    <3> QED
      BY <2>1, <1>1, <1>2, <1>6 DEF Makings
  <2> QED
    BY <2>2, NullAssumption
<1>11. Exact(bitmap', data', itab')
  <2>1. \A j \in Inodes : itab'[j].addrs = itab[j].addrs /\ itab'[j].indirect = itab[j].indirect
    BY <1>7, <1>8, <1>9
  <2>2. Exact(bitmap, data, itab')
    BY <2>1, <1>2, <1>9, ExactOf
  <2> QED
    BY <2>2, <1>1
<1>12. \A j \in Inodes : Settled(data', itab'[j], files'[j])
  <2>1. Settled(data, Invalid, files[i])
    BY <1>1, <1>2, <1>7
  <2>2. Len(files[i]) = 0
    BY <2>1, InvalidIs DEF Settled
  <2>3. Settled(data, Fresh("regular"), files[i])
    BY <2>1, <2>2, <1>8 DEF Settled, FileOffsets
  <2> QED
    BY <2>3, <1>1, <1>2, <1>9
<1>13. \A j \in Inodes : itab'[j].type = "invalid" => itab'[j] = Invalid
  <2>1. \A j \in Inodes : itab[j].type = "invalid" => itab[j] = Invalid
    BY DEF FileInv, CopiesOk
  <2> QED
    BY <2>1, <1>8, <1>9
<1>14. \A j \in Inodes : itab'[j].type = "dir" => DistinctNames(files'[j])
  BY <1>1, <1>2, <1>8, <1>9 DEF NamesOk
<1>15. MkfsOk'
  <2> DEFINE n == itab[R].bytes
  <2>1. n = arg + 1 /\ itab'[R].bytes = n /\ n \in Nat
    BY <1>2, <1>3, <1>5, <1>9
  <2>2. mkfs'.arg \in 1 .. Len(mkfs'.argv) + 1 /\ mkfs'.arg \in Inodes
    BY <1>1, <1>2, <1>3, <1>4, <1>10
  <2>3. \A j \in Inodes : entry'[j] = None
    BY <1>1, <1>2
  <2>4. \A j \in Inodes : itab'[j].type = "dir" <=> j = R
    <3>1. \A j \in Inodes : itab[j].type = "dir" <=> j = R
      BY <1>1, <1>2 DEF MkfsOk
    <3> QED
      BY <3>1, <1>5, <1>8, <1>9
  <2>5. \A j \in Inodes : j > mkfs'.arg => itab'[j] = Invalid
    <3>1. \A j \in Inodes : j > arg => itab[j] = Invalid
      BY <1>1, <1>2 DEF MkfsOk
    <3>2. \A j \in Inodes : j \in Nat
      BY DataSizes DEF Inodes
    <3> QED
      BY <3>1, <3>2, <1>2, <1>9, <1>10
  <2>6. \A j \in Inodes : j <= mkfs'.arg => itab'[j].type # "invalid"
    <3>1. \A j \in Inodes : j <= arg => itab[j].type # "invalid"
      BY <1>1, <1>2 DEF MkfsOk
    <3>2. \A j \in Inodes : j \in Nat
      BY DataSizes DEF Inodes
    <3>3. \A j \in Inodes : j <= i => j = i \/ j <= arg
      BY <3>2, <1>2
    <3>4. itab'[i].type # "invalid"
      BY <1>8, <1>9
    <3> QED
      BY <3>1, <3>3, <3>4, <1>9, <1>10
  <2>7. n <= mkfs'.arg + 1 /\ mkfs'.arg + 1 - n <= Len(mkfs'.todo)
    <3>1. Len(mkfs'.todo) \in Nat /\ Len(mkfs'.todo) >= 1
      BY <1>6, <1>10
    <3>2. n <= i + 1 /\ i + 1 - n = 1
      BY <2>1, <1>2
    <3> QED
      BY <3>1, <3>2, <1>10
  <2>8. \A k \in 1 .. Len(mkfs'.todo) :
          IF n + k <= mkfs'.arg + 1
          THEN mkfs'.todo[k] = <<R, RootCell(mkfs'.argv, n + k)>>
          ELSE mkfs'.todo[k][1] # R /\ mkfs'.todo[k][1] <= mkfs'.arg
    <3> SUFFICES ASSUME NEW k \in 1 .. Len(todo)
                 PROVE  IF n + k <= i + 1
                        THEN todo[k] = <<R, RootCell(mkfs.argv, n + k)>>
                        ELSE todo[k][1] # R /\ todo[k][1] <= i
      BY <1>10
    <3>1. CASE k = 1
      <4>1. n + k = arg + 2 /\ n + k <= i + 1 /\ n + k > 2 /\ n + k - 2 = arg /\ n + k - 1 = i
        BY <3>1, <2>1, <1>2, <1>3
      <4>2. RootCell(mkfs.argv, n + k) = <<f.name, i>>
        <5>1. n + k = arg + 2 /\ arg \in Nat /\ arg > 0
          BY <4>1, <1>2, <1>3
        <5>2. RootCell(mkfs.argv, arg + 2) = <<mkfs.argv[arg].name, arg + 1>>
          BY <5>1, RootCellIs
        <5> HIDE DEF n
        <5> QED
          BY <5>1, <5>2
      <4> QED
        BY <4>1, <4>2, <3>1, <1>6
    <3>2. CASE k # 1
      <4>1. k \in 2 .. Len(f.bytes) + 1 /\ ~ (n + k <= i + 1) /\ i <= i
        BY <3>2, <2>1, <1>2, <1>6
      <4> QED
        BY <4>1, <1>5, <1>6
    <3> QED
      BY <3>1, <3>2
  <2>9. \A k \in 1 .. n : files'[R][k] = RootCell(mkfs'.argv, k)
    BY <1>1, <1>2, <1>10 DEF MkfsOk
  <2>10. \A j \in Inodes, o \in 0 .. INODE_MAX_BYTES - 1 :
           itab'[j].bytes <= o /\ InBlock(data', itab'[j], o) => CellAt(data', itab'[j], o) = ZeroCell
    <3>1. \A j \in Inodes, o \in 0 .. INODE_MAX_BYTES - 1 :
            itab[j].bytes <= o /\ InBlock(data, itab[j], o) => CellAt(data, itab[j], o) = ZeroCell
      BY <1>1, <1>2 DEF MkfsOk
    <3>2. ASSUME NEW o \in 0 .. INODE_MAX_BYTES - 1
          PROVE  ~ InBlock(data, Fresh("regular"), o)
      <4>1. o \div BlockSize \in Places
        BY OffsetsAre, PlacesAre DEF FileOffsets
      <4>2. BlockAt(data, Fresh("regular"), o \div BlockSize) = BlockAt(data, Invalid, o \div BlockSize)
        BY <1>8 DEF BlockAt
      <4> QED
        BY <4>1, <4>2, InvalidIs DEF InBlock
    <3> QED
      BY <3>1, <3>2, <1>1, <1>9
  <2> HIDE DEF n, i, arg, f
  <2> QED
    BY <2>1, <2>2, <2>3, <2>4, <2>5, <2>6, <2>7, <2>8, <2>9, <2>10, <1>10 DEF MkfsOk
<1> QED
  BY <1>1, <1>2, <1>10, <1>11, <1>12, <1>13, <1>14, <1>15, MkfsStep

\* No two entries of the root have the same name.
LEMMA RootNames ==
    ASSUME NEW argv \in Images, NEW j \in 1 .. Len(argv) + 2, NEW k \in 1 .. Len(argv) + 2,
           RootCell(argv, j)[1] = RootCell(argv, k)[1]
    PROVE  j = k
<1>1. Len(argv) \in Nat /\ \A x, y \in 1 .. Len(argv) : argv[x].name = argv[y].name => x = y
  BY ArgvIs
<1>3. DotEntries[1][1] = Dot /\ DotEntries[2][1] = DotDot /\ Dot # DotDot
  BY DEF DotEntries, Dot, DotDot
<1>4. ASSUME NEW x \in 1 .. Len(argv) + 2
      PROVE  \/ x \in {1, 2} /\ RootCell(argv, x) = DotEntries[x]
             \/ /\ x - 2 \in 1 .. Len(argv) /\ RootCell(argv, x)[1] = argv[x - 2].name
                /\ argv[x - 2].name \in Names
  <2>1. CASE x <= 2
    BY <2>1, <1>1 DEF RootCell
  <2>2. CASE ~ (x <= 2)
    <3>1. x - 2 \in 1 .. Len(argv)
      BY <2>2, <1>1
    <3>2. RootCell(argv, x) = <<argv[x - 2].name, x - 1>>
      BY <2>2 DEF RootCell
    <3> QED
      BY <3>1, <3>2, ArgumentIs
  <2> QED
    BY <2>1, <2>2
<1>5. \A x \in {1, 2} : DotEntries[x][1] \notin Names
  BY <1>3, NameAssumption
<1>6. CASE j \in {1, 2} /\ k \in {1, 2} /\ RootCell(argv, j) = DotEntries[j] /\ RootCell(argv, k) = DotEntries[k]
  BY <1>3, <1>6
<1>7. CASE j \in {1, 2} /\ RootCell(argv, j) = DotEntries[j] /\ RootCell(argv, k)[1] \in Names
  BY <1>5, <1>7
<1>8. CASE k \in {1, 2} /\ RootCell(argv, k) = DotEntries[k] /\ RootCell(argv, j)[1] \in Names
  BY <1>5, <1>8
<1>9. CASE /\ j - 2 \in 1 .. Len(argv) /\ RootCell(argv, j)[1] = argv[j - 2].name
           /\ k - 2 \in 1 .. Len(argv) /\ RootCell(argv, k)[1] = argv[k - 2].name
  <2>1. j - 2 = k - 2
    BY <1>1, <1>9
  <2> QED
    BY <2>1
<1> QED
  BY <1>4, <1>6, <1>7, <1>8, <1>9

\* The first of what is to be appended.
LEMMA TodoHead ==
    ASSUME NEW todo \in Seq(Inodes \X FileCells), todo # <<>>
    PROVE  /\ Head(todo) = todo[1] /\ todo[1][1] \in Inodes /\ todo[1][2] \in FileCells
           /\ Tail(todo) \in Seq(Inodes \X FileCells) /\ Len(todo) \in Nat /\ Len(todo) > 0
           /\ Len(Tail(todo)) = Len(todo) - 1
           /\ \A k \in 1 .. Len(todo) - 1 : Tail(todo)[k] = todo[k + 1]
<1> DEFINE S == Inodes \X FileCells
<1>1. todo \in Seq(S)
  OBVIOUS
<1> HIDE DEF S
<1>2. /\ Head(todo) = todo[1] /\ todo[1] \in S
      /\ Tail(todo) \in Seq(S) /\ Len(todo) \in Nat /\ Len(todo) > 0
      /\ Len(Tail(todo)) = Len(todo) - 1
      /\ \A k \in 1 .. Len(todo) - 1 : Tail(todo)[k] = todo[k + 1]
  BY <1>1
<1> QED
  BY <1>2 DEF S

LEMMA IAppendKeeps ==
    ASSUME FileInv, IAppend
    PROVE  FileInv'
<1> DEFINE R == ROOT_INODE_NO
           arg == mkfs.arg
           n == itab[R].bytes
<1>1. PICK i \in Inodes, cell \in FileCells : i = mkfs.todo[1][1] /\ cell = mkfs.todo[1][2]
  <2>1. mkfs # None /\ mkfs.todo # <<>>
    BY DEF IAppend
  <2> QED
    BY <2>1, WhileMkfs, TodoHead
<1> DEFINE off == itab[i].bytes
           q == off \div BlockSize
           r == off % BlockSize
           st == MapBlock([bitmap |-> bitmap, data |-> data, e |-> itab[i], addr |-> 0,
                           panic |-> FALSE], q)
           blk == [st.data[st.addr] EXCEPT ![r] = cell]
           E2 == [itab EXCEPT ![i] = st.e]
           e3 == [st.e EXCEPT !.bytes = off + 1]
<1>2. mkfs # None /\ mkfs.todo # <<>>
  BY DEF IAppend
<1>3. /\ \A j \in Inodes : entry[j] = None
      /\ Exact(bitmap, data, itab) /\ itab \in [Inodes -> InodeEntries]
      /\ files \in [Inodes -> Seq(FileCells)]
      /\ \A j \in Inodes : itab[j].bytes \in Nat /\ Settled(data, itab[j], files[j])
      /\ mkfs \in Makings /\ arg \in Nat /\ mkfs.argv \in Images
      /\ mkfs.todo \in Seq(Inodes \X FileCells) /\ NamesOk /\ MkfsOk
  BY <1>2, WhileMkfs
<1>4. /\ Head(mkfs.todo) = mkfs.todo[1]
      /\ Tail(mkfs.todo) \in Seq(Inodes \X FileCells) /\ Len(mkfs.todo) \in Nat /\ Len(mkfs.todo) > 0
      /\ Len(Tail(mkfs.todo)) = Len(mkfs.todo) - 1
      /\ \A k \in 1 .. Len(mkfs.todo) - 1 : Tail(mkfs.todo)[k] = mkfs.todo[k + 1]
  BY <1>2, <1>3, TodoHead
<1>5. /\ off < INODE_MAX_BYTES /\ ~ st.panic
      /\ bitmap' = st.bitmap
      /\ data' = [st.data EXCEPT ![st.addr][r] = cell]
      /\ itab' = [itab EXCEPT ![i] = e3]
      /\ files' = [files EXCEPT ![i] = Append(files[i], cell)]
      /\ mkfs' = [mkfs EXCEPT !.todo = Tail(mkfs.todo)]
      /\ UNCHANGED <<entry, call, panicked>>
  BY <1>1, <1>4 DEF IAppend
<1>6. R \in Inodes /\ R = 1
  BY RootIs
<1>7. off \in Nat /\ q \in FilePlaces /\ r \in Offsets /\ r \in Nat
  <2>1. off \in FileOffsets
    BY <1>3, <1>5, DataSizes DEF FileOffsets
  <2> QED
    BY <2>1, OffsetsAre
<1>8. OldBlock(data, itab, i, q, st) /\ st.data[st.addr] \in [Offsets -> Cells]
  <2>1. OldBlock(data, itab, i, q, st)
    <3> HIDE DEF q
    <3>1. st = MapBlock([bitmap |-> bitmap, data |-> data, e |-> itab[i], addr |-> 0, panic |-> FALSE], q)
      OBVIOUS
    <3> HIDE DEF st
    <3> QED
      BY <3>1, <1>3, <1>5, <1>7, MapBlockOld
  <2> QED
    BY <2>1 DEF OldBlock
<1>9. blk \in [Offsets -> Cells]
  <2>1. cell \in Cells
    BY DEF Cells
  <2> HIDE DEF st, r
  <2> QED
    BY <2>1, <1>7, <1>8
<1>10. data' = [st.data EXCEPT ![st.addr] = blk]
  <2> HIDE DEF st, r
  <2> QED
    BY <1>5
<1>11. BlockPut(data, itab, i, q, st, blk, data', E2)
  <2> HIDE DEF q, blk
  <2>1. st = MapBlock([bitmap |-> bitmap, data |-> data, e |-> itab[i], addr |-> 0, panic |-> FALSE], q)
    OBVIOUS
  <2> HIDE DEF st
  <2>2. ~ st.panic
    BY <1>5
  <2> HIDE DEF off, r
  <2>3. BlockPut(data, itab, i, q, st, blk, [st.data EXCEPT ![st.addr] = blk], [itab EXCEPT ![i] = st.e])
    BY <2>1, <2>2, <1>3, <1>7, <1>9, MapAndPut
  <2> QED
    BY <2>3, <1>10
<1>12. /\ Exact(bitmap', data', E2) /\ E2 \in [Inodes -> InodeEntries] /\ E2[i] = st.e
       /\ E2[i] \in InodeEntries /\ E2[i].type = itab[i].type
       /\ \A j \in Inodes : j # i => E2[j] = itab[j]
       /\ \A j \in Inodes, o \in FileOffsets : j # i => SameCell(data, itab[j], data', E2[j], o)
  <2> HIDE DEF E2, st, q, blk
  <2>1. Exact(st.bitmap, data', E2)
    BY <1>11 DEF BlockPut
  <2>2. E2 \in [Inodes -> InodeEntries]
    BY <2>1 DEF Exact
  <2>3. /\ E2[i].type = itab[i].type
        /\ \A j \in Inodes : j # i => E2[j] = itab[j]
        /\ \A j \in Inodes, o \in FileOffsets : j # i => SameCell(data, itab[j], data', E2[j], o)
    BY <1>11 DEF BlockPut
  <2>4. E2[i] = st.e
    BY <1>3 DEF E2
  <2> QED
    BY <2>1, <2>2, <2>3, <2>4, <1>5
<1>13. e3 = [E2[i] EXCEPT !.bytes = off + 1]
  BY <1>12
<1> HIDE DEF st, blk, E2
<1>14. /\ e3 \in InodeEntries /\ e3.bytes = off + 1 /\ e3.type = itab[i].type
       /\ e3.addrs = E2[i].addrs /\ e3.indirect = E2[i].indirect
  BY <1>7, <1>12, <1>13 DEF InodeEntries
<1> HIDE DEF e3
<1>15. Settled(data', e3, Append(files[i], cell)) /\ ZeroTail(data', e3)
  <2>1. Settled(data, itab[i], files[i]) /\ ZeroTail(data, itab[i])
    BY <1>2, <1>3 DEF MkfsOk, ZeroTail, FileOffsets
  <2>2. ChunkOk(off, 1, q, 1, r)
    <3>1. ChunkOk(off, 1, q, Chunk(off, 1), r)
      BY <1>7, ChunkFacts
    <3>2. Chunk(off, 1) = 1
      <4> HIDE DEF q, r, off
      <4> QED
        BY <3>1 DEF ChunkOk
    <3> QED
      BY <3>1, <3>2
  <2>3. Filled(blk, st.data[st.addr], 1, r, <<cell>>)
    <3> HIDE DEF r
    <3>1. \A k \in Offsets : k \in r .. r + 1 - 1 <=> k = r
      BY <1>7, DataSizes DEF Offsets
    <3>2. r - r + 1 = 1 /\ <<cell>>[1] = cell
      BY <1>7
    <3>3. blk = [st.data[st.addr] EXCEPT ![r] = cell]
      BY DEF blk
    <3> QED
      BY <3>1, <3>2, <3>3, <1>7, <1>8 DEF Filled
  <2>4. off = itab[i].bytes /\ off < INODE_MAX_BYTES
    BY <1>5
  <2> HIDE DEF off, q, r
  <2>5. AppendOk(data', e3, Append(files[i], cell))
    BY <2>1, <2>2, <2>3, <2>4, <1>7, <1>8, <1>11, <1>14, CellIsAppended
  <2> QED
    BY <2>5 DEF AppendOk
<1>16. /\ itab' \in [Inodes -> InodeEntries] /\ itab'[i] = e3
       /\ \A j \in Inodes : j # i => itab'[j] = itab[j]
  BY <1>3, <1>5, <1>14
<1>17. /\ files' \in [Inodes -> Seq(FileCells)] /\ files'[i] = Append(files[i], cell)
       /\ \A j \in Inodes : j # i => files'[j] = files[j]
  <2>1. Append(files[i], cell) \in Seq(FileCells)
    BY <1>15 DEF Settled
  <2> QED
    BY <2>1, <1>3, <1>5
<1>18. Exact(bitmap', data', itab')
  <2>1. \A j \in Inodes : itab'[j].addrs = E2[j].addrs /\ itab'[j].indirect = E2[j].indirect
    BY <1>12, <1>14, <1>16
  <2> QED
    BY <2>1, <1>12, <1>16, ExactOf
<1>19. \A j \in Inodes, o \in FileOffsets : j # i => SameCell(data, itab[j], data', itab[j], o)
  BY <1>12
<1>20. \A j \in Inodes : Settled(data', itab'[j], files'[j])
  <2> SUFFICES ASSUME NEW j \in Inodes, j # i
               PROVE  Settled(data', itab[j], files[j])
    BY <1>15, <1>16, <1>17
  <2> QED
    BY <1>3, <1>19 DEF Settled, SameCell
<1>21. \A j \in Inodes : itab'[j].type = "invalid" => itab'[j] = Invalid
  <2>1. \A j \in Inodes : itab[j].type = "invalid" => itab[j] = Invalid
    BY DEF FileInv, CopiesOk
  <2>2. itab[i].type # "invalid"
    <3>1. i <= arg
      <4>1. 1 \in 1 .. Len(mkfs.todo)
        BY <1>4
      <4>2. IF n + 1 <= arg + 1
            THEN mkfs.todo[1] = <<R, RootCell(mkfs.argv, n + 1)>>
            ELSE mkfs.todo[1][1] # R /\ mkfs.todo[1][1] <= arg
        BY <4>1, <1>2, <1>3 DEF MkfsOk
      <4>3. arg \in 1 .. Len(mkfs.argv) + 1
        BY <1>2, <1>3 DEF MkfsOk
      <4> QED
        BY <4>2, <4>3, <1>1, <1>6
    <3> QED
      BY <3>1, <1>2, <1>3 DEF MkfsOk
  <2> QED
    BY <2>1, <2>2, <1>14, <1>16
<1>22. /\ mkfs' \in Makings /\ mkfs' # None /\ mkfs'.argv = mkfs.argv /\ mkfs'.arg = arg
       /\ mkfs'.todo = Tail(mkfs.todo)
  <2>1. mkfs' \in Makings /\ mkfs'.argv = mkfs.argv /\ mkfs'.arg = arg /\ mkfs'.todo = Tail(mkfs.todo)
    BY <1>3, <1>4, <1>5 DEF Makings
  <2> QED
    BY <2>1, NullAssumption
<1>23. /\ n \in Nat /\ n <= arg + 1 /\ arg + 1 - n <= Len(mkfs.todo) /\ arg \in 1 .. Len(mkfs.argv) + 1
       /\ arg \in Inodes
       /\ \A k \in 1 .. Len(mkfs.todo) :
            IF n + k <= arg + 1
            THEN mkfs.todo[k] = <<R, RootCell(mkfs.argv, n + k)>>
            ELSE mkfs.todo[k][1] # R /\ mkfs.todo[k][1] <= arg
       /\ \A k \in 1 .. n : files[R][k] = RootCell(mkfs.argv, k)
       /\ \A j \in Inodes : itab[j].type = "dir" <=> j = R
       /\ Len(mkfs.argv) \in Nat
  <2>1. mkfs.argv \in Seq([name : Names, bytes : Seq(Bytes)])
    BY <1>3, ImageAssumption
  <2>2. Len(mkfs.argv) \in Nat
    BY <2>1
  <2>3. n \in Nat
    BY <1>3, <1>6
  <2> QED
    BY <2>2, <2>3, <1>2, <1>3 DEF MkfsOk
\* Either an entry of the root is appended, or a byte of another file when the
\* root has all its entries.
<1>24. \/ i = R /\ n + 1 <= arg + 1 /\ cell = RootCell(mkfs.argv, n + 1)
       \/ i # R /\ n = arg + 1
  <2>1. 1 \in 1 .. Len(mkfs.todo)
    BY <1>4
  <2>2. IF n + 1 <= arg + 1
        THEN mkfs.todo[1] = <<R, RootCell(mkfs.argv, n + 1)>>
        ELSE mkfs.todo[1][1] # R /\ mkfs.todo[1][1] <= arg
    BY <2>1, <1>23
  <2>3. CASE n + 1 <= arg + 1
    BY <2>2, <2>3, <1>1
  <2>4. CASE ~ (n + 1 <= arg + 1)
    BY <2>2, <2>4, <1>1, <1>3, <1>23
  <2> QED
    BY <2>3, <2>4
<1> DEFINE n2 == IF i = R THEN n + 1 ELSE n
<1>25. itab'[R].bytes = n2 /\ n2 \in Nat /\ n2 <= arg + 1 /\ Len(files'[R]) = n2
       /\ DOMAIN files'[R] = 1 .. n2
  <2>1. itab'[R].bytes = n2
    BY <1>6, <1>14, <1>16
  <2>2. n2 \in Nat /\ n2 <= arg + 1
    BY <1>3, <1>23, <1>24
  <2>3. files'[R] \in Seq(FileCells) /\ Len(files'[R]) = n2
    BY <2>1, <1>6, <1>20 DEF Settled
  <2> HIDE DEF n2
  <2> QED
    BY <2>1, <2>2, <2>3
<1>26. \A k \in 1 .. n2 : files'[R][k] = RootCell(mkfs.argv, k)
  <2>1. CASE i # R
    BY <2>1, <1>6, <1>17, <1>23
  <2>2. CASE i = R
    <3>1. files[R] \in Seq(FileCells) /\ Len(files[R]) = n /\ files'[R] = Append(files[R], cell)
      BY <2>2, <1>3, <1>6, <1>17 DEF Settled
    <3>2. cell = RootCell(mkfs.argv, n + 1) /\ n2 = n + 1 /\ n \in Nat
      BY <2>2, <1>23, <1>24
    <3>3. files'[R][n + 1] = cell /\ \A k \in 1 .. n : files'[R][k] = files[R][k]
      <4> HIDE DEF n
      <4> QED
        BY <3>1, <3>2
    <3>4. \A k \in 1 .. n2 : k \in 1 .. n \/ k = n + 1
      <4> HIDE DEF n
      <4> QED
        BY <3>2
    <3> QED
      BY <3>2, <3>3, <3>4, <1>23
  <2> QED
    BY <2>1, <2>2
<1>27. \A j \in Inodes : itab'[j].type = "dir" <=> j = R
  BY <1>14, <1>16, <1>23
<1>28. \A j \in Inodes : itab'[j].type = "dir" => DistinctNames(files'[j])
  <2>1. \A k \in 1 .. n2 : k \in 1 .. Len(mkfs.argv) + 2
    BY <1>3, <1>23, <1>25
  <2>2. \A k, l \in 1 .. n2 : files'[R][k][1] = files'[R][l][1] => k = l
    <3> SUFFICES ASSUME NEW k \in 1 .. n2, NEW l \in 1 .. n2, files'[R][k][1] = files'[R][l][1]
                 PROVE  k = l
      OBVIOUS
    <3>1. RootCell(mkfs.argv, k)[1] = RootCell(mkfs.argv, l)[1]
      BY <1>26
    <3> HIDE DEF n2
    <3> QED
      BY <2>1, <3>1, <1>3, RootNames
  <2>3. DistinctNames(files'[R])
    BY <2>2, <1>25 DEF DistinctNames
  <2> QED
    BY <2>3, <1>27
<1>29. MkfsOk'
  <2>1. \A j \in Inodes : j > mkfs'.arg => itab'[j] = Invalid
    <3>1. \A j \in Inodes : j > arg => itab[j] = Invalid
      BY <1>2, <1>3 DEF MkfsOk
    <3>2. itab[i].type # "invalid"
      <4>1. \A j \in Inodes : j <= arg => itab[j].type # "invalid"
        BY <1>2, <1>3 DEF MkfsOk
      <4>2. i <= arg
        BY <1>1, <1>4, <1>6, <1>23, <1>24
      <4> QED
        BY <4>1, <4>2
    <3> QED
      BY <3>1, <3>2, <1>16, <1>22, InvalidIs
  <2>2. \A j \in Inodes : j <= mkfs'.arg => itab'[j].type # "invalid"
    <3>1. \A j \in Inodes : j <= arg => itab[j].type # "invalid"
      BY <1>2, <1>3 DEF MkfsOk
    <3> QED
      BY <3>1, <1>14, <1>16, <1>22
  <2>3. arg + 1 - n2 <= Len(Tail(mkfs.todo))
    <3>1. CASE i = R
      <4>1. n2 = n + 1
        BY <3>1
      <4> HIDE DEF n2, n, arg
      <4> QED
        BY <4>1, <1>3, <1>4, <1>23
    <3>2. CASE i # R
      <4>1. n2 = arg + 1
        BY <3>2, <1>24
      <4> HIDE DEF n2, n, arg
      <4> QED
        BY <4>1, <1>3, <1>4
    <3> QED
      BY <3>1, <3>2
  <2>4. \A k \in 1 .. Len(Tail(mkfs.todo)) :
          IF n2 + k <= arg + 1
          THEN Tail(mkfs.todo)[k] = <<R, RootCell(mkfs.argv, n2 + k)>>
          ELSE Tail(mkfs.todo)[k][1] # R /\ Tail(mkfs.todo)[k][1] <= arg
    <3> SUFFICES ASSUME NEW k \in 1 .. Len(mkfs.todo) - 1
                 PROVE  IF n2 + k <= arg + 1
                        THEN mkfs.todo[k + 1] = <<R, RootCell(mkfs.argv, n2 + k)>>
                        ELSE mkfs.todo[k + 1][1] # R /\ mkfs.todo[k + 1][1] <= arg
      BY <1>4
    <3>1. k + 1 \in 1 .. Len(mkfs.todo) /\ k \in Nat
      BY <1>4
    <3>2. IF n + (k + 1) <= arg + 1
          THEN mkfs.todo[k + 1] = <<R, RootCell(mkfs.argv, n + (k + 1))>>
          ELSE mkfs.todo[k + 1][1] # R /\ mkfs.todo[k + 1][1] <= arg
      BY <3>1, <1>23
    <3>3. CASE i = R
      <4>1. n2 + k = n + (k + 1)
        <5>1. n2 = n + 1
          BY <3>3
        <5> HIDE DEF n2, n
        <5> QED
          BY <5>1, <3>1, <1>23
      <4> HIDE DEF n2
      <4> QED
        BY <3>2, <4>1
    <3>4. CASE i # R
      <4>1. ~ (n + (k + 1) <= arg + 1) /\ ~ (n2 + k <= arg + 1)
        BY <3>1, <3>4, <1>3, <1>23, <1>24
      <4> HIDE DEF n2
      <4> QED
        BY <3>2, <4>1
    <3> QED
      BY <3>3, <3>4
  <2>5. \A j \in Inodes : ZeroTail(data', itab'[j])
    <3>1. ZeroTail(data', itab'[i])
      BY <1>15, <1>16
    <3>2. ASSUME NEW j \in Inodes, j # i
          PROVE  ZeroTail(data', itab'[j])
      <4>1. ZeroTail(data, itab[j])
        BY <1>2, <1>3 DEF MkfsOk, ZeroTail, FileOffsets
      <4> QED
        BY <3>2, <4>1, <1>16, <1>19 DEF ZeroTail, SameCell
    <3> QED
      BY <3>1, <3>2
  <2>6. \A j \in Inodes : entry'[j] = None
    BY <1>3, <1>5
  <2>7. \A j \in Inodes, o \in 0 .. INODE_MAX_BYTES - 1 :
          itab'[j].bytes <= o /\ InBlock(data', itab'[j], o) => CellAt(data', itab'[j], o) = ZeroCell
    BY <2>5 DEF ZeroTail, FileOffsets
  <2> HIDE DEF n2, n, arg
  <2>8. itab'[R].bytes <= mkfs'.arg + 1 /\ mkfs'.arg + 1 - itab'[R].bytes <= Len(mkfs'.todo)
    BY <2>3, <1>22, <1>25
  <2>9. \A k \in 1 .. Len(mkfs'.todo) :
          IF itab'[R].bytes + k <= mkfs'.arg + 1
          THEN mkfs'.todo[k] = <<R, RootCell(mkfs'.argv, itab'[R].bytes + k)>>
          ELSE mkfs'.todo[k][1] # R /\ mkfs'.todo[k][1] <= mkfs'.arg
    BY <2>4, <1>22, <1>25
  <2>10. mkfs'.arg \in 1 .. Len(mkfs'.argv) + 1 /\ mkfs'.arg \in Inodes
    BY <1>22, <1>23
  <2>11. \A k \in 1 .. itab'[R].bytes : files'[R][k] = RootCell(mkfs'.argv, k)
    BY <1>22, <1>25, <1>26
  <2> QED
    BY <2>1, <2>2, <2>6, <2>7, <2>8, <2>9, <2>10, <2>11, <1>22, <1>27 DEF MkfsOk
<1> QED
  BY <1>2, <1>5, <1>17, <1>18, <1>20, <1>21, <1>22, <1>28, <1>29, MkfsStep

\* The size n of the root, rounded up to m: the last cell of the file and those
\* that are added are in block q.
RoundOk(n, q, m) ==
    /\ n \in Nat /\ n > 0 /\ m \in Nat /\ n <= m /\ m <= INODE_MAX_BYTES
    /\ \A o \in FileOffsets : n <= o + 1 /\ o < m => o \div BlockSize = q

LEMMA RoundedUp ==
    ASSUME NEW n \in Nat, n <= INODE_MAX_BYTES, n % BlockSize # 0
    PROVE  /\ RoundOk(n, n \div BlockSize, (n \div BlockSize + 1) * BlockSize)
           /\ (n \div BlockSize + 1) * BlockSize - n = BlockSize - (n % BlockSize)
<1> DEFINE q == n \div BlockSize
           r == n % BlockSize
           m == (q + 1) * BlockSize
           top == NDirect + BlockSize
<1>1. /\ q \in Nat /\ r \in Nat /\ r < BlockSize /\ n = BlockSize * q + r
      /\ r > 0
  BY DivMod
<1>2. /\ BlockSize \in Nat /\ BlockSize > 0 /\ top \in Nat
      /\ INODE_MAX_BYTES \in Nat /\ INODE_MAX_BYTES = BlockSize * top
  BY DataSizes DEF INODE_MAX_BYTES
<1> HIDE DEF q, r, top
<1>3. m = BlockSize * q + BlockSize /\ BlockSize * q \in Nat
  BY <1>1, <1>2
<1> HIDE DEF m
<1>4. q < top
  <2> SUFFICES ASSUME ~ (q < top) PROVE FALSE
    OBVIOUS
  <2>1. q = top \/ top < q
    BY <1>1, <1>2
  <2>2. CASE q = top
    BY <2>2, <1>1, <1>2
  <2>3. CASE top < q
    <3>1. BlockSize * top + BlockSize <= BlockSize * q /\ BlockSize * top \in Nat
      BY <2>3, <1>1, <1>2, BlockStep
    <3> QED
      BY <3>1, <1>1, <1>2, <1>3
  <2> QED
    BY <2>1, <2>2, <2>3
<1>5. m <= INODE_MAX_BYTES
  <2>1. BlockSize * q + BlockSize <= BlockSize * top
    BY <1>1, <1>2, <1>4, BlockStep
  <2> QED
    BY <2>1, <1>2, <1>3
<1>6. ASSUME NEW o \in FileOffsets, n <= o + 1, o < m
      PROVE  o \div BlockSize = q
  <2>1. o \in Nat
    BY OffsetsAre
  <2>2. PICK b \in Nat : b = BlockSize * q
    BY <1>3
  <2>3. o - b \in Nat /\ o - b < BlockSize /\ o = b + (o - b)
    BY <2>1, <2>2, <1>1, <1>2, <1>3, <1>6
  <2> QED
    BY <2>1, <2>2, <2>3, <1>1, DivUnique
<1>7. n > 0 /\ m \in Nat /\ n <= m /\ m - n = BlockSize - r
  <2>1. PICK b \in Nat : b = BlockSize * q
    BY <1>3
  <2> QED
    BY <2>1, <1>1, <1>2, <1>3
<1>8. RoundOk(n, q, m)
  BY <1>5, <1>6, <1>7 DEF RoundOk
<1> QED
  BY <1>7, <1>8 DEF q, r, m

LEMMA SizeIsRounded ==
    ASSUME NEW d, NEW e, NEW f, Settled(d, e, f), ZeroTail(d, e), NEW n, n = e.bytes,
           NEW q, NEW m, RoundOk(n, q, m), NEW e2, e2.bytes = m,
           e2.addrs = e.addrs, e2.indirect = e.indirect,
           NEW z \in Seq({ZeroCell}), Len(z) = m - n
    PROVE  Settled(d, e2, f \o z) /\ (DistinctNames(f) => DistinctNames(f \o z))
<1> DEFINE g == f \o z
<1>1. /\ n \in Nat /\ n > 0 /\ m \in Nat /\ n <= m /\ m <= INODE_MAX_BYTES /\ INODE_MAX_BYTES \in Nat
      /\ \A o \in FileOffsets : n <= o + 1 /\ o < m => o \div BlockSize = q
  BY DataSizes DEF RoundOk
<1>2. /\ f \in Seq(FileCells) /\ Len(f) = n
      /\ \A o \in FileOffsets : o < n => InBlock(d, e, o) /\ CellAt(d, e, o) = f[o + 1]
  BY DEF Settled
<1>3. z \in Seq(FileCells)
  BY DEF FileCells
<1>4. /\ g \in Seq(FileCells) /\ Len(g) = m
      /\ \A k \in 1 .. n : g[k] = f[k]
      /\ \A k \in n + 1 .. m : g[k] = ZeroCell
      /\ DOMAIN g = 1 .. m /\ DOMAIN f = 1 .. n
  BY <1>1, <1>2, <1>3
<1> HIDE DEF g
<1>5. \A o \in FileOffsets :
        (InBlock(d, e2, o) <=> InBlock(d, e, o)) /\ CellAt(d, e2, o) = CellAt(d, e, o)
  BY DEF InBlock, CellAt, BlockAt
<1>6. ASSUME NEW o \in FileOffsets, o < m
      PROVE  InBlock(d, e2, o) /\ CellAt(d, e2, o) = g[o + 1]
  <2>1. o \in Nat /\ FileOffsets = 0 .. INODE_MAX_BYTES - 1
    BY OffsetsAre DEF FileOffsets
  <2>2. CASE o < n
    <3>1. o + 1 \in 1 .. n
      BY <2>1, <2>2, <1>1
    <3> QED
      BY <3>1, <2>2, <1>2, <1>4, <1>5
  <2>3. CASE ~ (o < n)
    <3>1. n - 1 \in FileOffsets /\ n - 1 < n /\ n <= (n - 1) + 1 /\ n - 1 < m
      BY <2>1, <1>1
    <3>2. o + 1 \in n + 1 .. m /\ n <= o + 1 /\ n <= o
      BY <2>1, <2>3, <1>1, <1>6
    <3>3. (n - 1) \div BlockSize = q /\ o \div BlockSize = q
      BY <3>1, <3>2, <1>1, <1>6
    <3>4. InBlock(d, e, n - 1)
      BY <3>1, <1>2
    <3>5. InBlock(d, e, o)
      BY <3>3, <3>4 DEF InBlock
    <3>6. CellAt(d, e, o) = ZeroCell
      BY <3>2, <3>5 DEF ZeroTail
    <3> QED
      BY <3>2, <3>5, <3>6, <1>4, <1>5
  <2> QED
    BY <2>2, <2>3
<1>7. Settled(d, e2, g)
  BY <1>1, <1>4, <1>6 DEF Settled
<1>8. ASSUME DistinctNames(f)
      PROVE  DistinctNames(g)
  <2>1. \A k \in 1 .. m : g[k] # ZeroCell => k \in 1 .. n /\ g[k] = f[k]
    BY <1>1, <1>4
  <2> QED
    BY <2>1, <1>4, <1>8 DEF DistinctNames
<1> QED
  BY <1>7, <1>8 DEF g

LEMMA MkfsEndKeeps ==
    ASSUME FileInv, MkfsEnd
    PROVE  FileInv'
<1> DEFINE R == ROOT_INODE_NO
           n == itab[R].bytes
           m == (n \div BlockSize + 1) * BlockSize
           z == [k \in 1 .. BlockSize - (n % BlockSize) |-> ZeroCell]
           e2 == [itab[R] EXCEPT !.bytes = m]
<1>1. /\ mkfs # None /\ mkfs.todo = <<>> /\ mkfs.arg \notin DOMAIN mkfs.argv
      /\ itab' = [itab EXCEPT ![R] = e2]
      /\ files' = [files EXCEPT ![R] = files[R] \o z]
      /\ mkfs' = None
      /\ UNCHANGED <<bitmap, data, entry, call, panicked>>
  BY DEF MkfsEnd
<1>2. /\ Exact(bitmap, data, itab) /\ itab \in [Inodes -> InodeEntries]
      /\ files \in [Inodes -> Seq(FileCells)]
      /\ \A j \in Inodes : itab[j].bytes \in Nat /\ Settled(data, itab[j], files[j])
      /\ mkfs.argv \in Images /\ NamesOk /\ MkfsOk
  BY <1>1, WhileMkfs
<1>3. R \in Inodes
  BY RootIs
<1>4. n \in Nat /\ n <= INODE_MAX_BYTES /\ n % BlockSize # 0
  <2>1. /\ n = mkfs.arg + 1 /\ mkfs.arg \in 1 .. Len(mkfs.argv) + 1 /\ mkfs.arg \in Nat
        /\ Len(mkfs.argv) \in Nat
    BY <1>1, TodoIsDone
  <2>2. DOMAIN mkfs.argv = 1 .. Len(mkfs.argv)
    BY <1>2, ArgvIs
  <2>3. mkfs.arg = Len(mkfs.argv) + 1
    BY <2>1, <2>2, <1>1
  <2>4. n = Len(mkfs.argv) + 2
    BY <2>1, <2>3
  <2>5. (Len(mkfs.argv) + 2) % BlockSize # 0
    BY <1>2, ImageAssumption
  <2>6. n \in Nat /\ n <= INODE_MAX_BYTES
    BY <1>2, <1>3 DEF Settled
  <2> HIDE DEF n
  <2> QED
    BY <2>4, <2>5, <2>6
<1>5. RoundOk(n, n \div BlockSize, m) /\ m - n = BlockSize - (n % BlockSize)
  <2> HIDE DEF n
  <2> QED
    BY <1>4, RoundedUp
<1>6. z \in Seq({ZeroCell}) /\ Len(z) = m - n /\ m \in Nat
  <2>1. PICK l \in Nat : l = BlockSize - (n % BlockSize)
    <3>1. n \in Nat /\ m \in Nat /\ n <= m
      BY <1>5 DEF RoundOk
    <3> HIDE DEF m, n
    <3>2. m - n \in Nat
      BY <3>1
    <3> QED
      BY <3>2, <1>5
  <2>2. z = [k \in 1 .. l |-> ZeroCell] /\ l = m - n
    BY <2>1, <1>5
  <2>3. m \in Nat
    BY <1>5 DEF RoundOk
  <2> HIDE DEF z, m, n
  <2> QED
    BY <2>2, <2>3
<1>7. /\ e2 \in InodeEntries /\ e2.bytes = m /\ e2.type = itab[R].type
      /\ e2.addrs = itab[R].addrs /\ e2.indirect = itab[R].indirect
  <2> HIDE DEF m
  <2> QED
    BY <1>2, <1>3, <1>6 DEF InodeEntries
<1> HIDE DEF e2, z
<1>8. /\ Settled(data, e2, files[R] \o z)
      /\ DistinctNames(files[R]) => DistinctNames(files[R] \o z)
  <2>1. Settled(data, itab[R], files[R]) /\ ZeroTail(data, itab[R]) /\ n = itab[R].bytes
    BY <1>1, <1>2, <1>3 DEF MkfsOk, ZeroTail, FileOffsets
  <2> DEFINE q == n \div BlockSize
  <2>2. RoundOk(n, q, m)
    BY <1>5
  <2> HIDE DEF q, m, n
  <2> QED
    BY <2>1, <2>2, <1>6, <1>7, SizeIsRounded
<1> HIDE DEF n, m
<1>9. /\ itab' \in [Inodes -> InodeEntries] /\ itab'[R] = e2
      /\ \A j \in Inodes : j # R => itab'[j] = itab[j]
  BY <1>1, <1>2, <1>3, <1>7
<1>10. /\ files' \in [Inodes -> Seq(FileCells)] /\ files'[R] = files[R] \o z
       /\ \A j \in Inodes : j # R => files'[j] = files[j]
  <2>1. files[R] \o z \in Seq(FileCells)
    BY <1>8 DEF Settled
  <2> QED
    BY <2>1, <1>1, <1>2, <1>3
<1>11. Exact(bitmap', data', itab')
  <2>1. \A j \in Inodes : itab'[j].addrs = itab[j].addrs /\ itab'[j].indirect = itab[j].indirect
    BY <1>7, <1>9
  <2>2. Exact(bitmap, data, itab')
    BY <2>1, <1>2, <1>9, ExactOf
  <2> QED
    BY <2>2, <1>1
<1>12. \A j \in Inodes : Settled(data', itab'[j], files'[j])
  BY <1>1, <1>2, <1>8, <1>9, <1>10
<1>13. \A j \in Inodes : itab'[j].type = "invalid" => itab'[j] = Invalid
  <2>1. \A j \in Inodes : itab[j].type = "invalid" => itab[j] = Invalid
    BY DEF FileInv, CopiesOk
  <2>2. itab[R].type # "invalid"
    <3>1. itab[R].type = "dir"
      BY <1>1, <1>2, <1>3 DEF MkfsOk
    <3> QED
      BY <3>1
  <2> QED
    BY <2>1, <2>2, <1>7, <1>9
<1>14. \A j \in Inodes : itab'[j].type = "dir" => DistinctNames(files'[j])
  BY <1>2, <1>7, <1>8, <1>9, <1>10 DEF NamesOk
<1>15. MkfsOk'
  BY <1>1 DEF MkfsOk
<1> QED
  BY <1>1, <1>10, <1>11, <1>12, <1>13, <1>14, <1>15, MkfsStep

-----------------------------------------------------------------------------
(* The invariant. *)

LEMMA InitHolds == Init => FileInv
<1> SUFFICES ASSUME Init PROVE FileInv
  OBVIOUS
<1> DEFINE R == ROOT_INODE_NO
           todo == [k \in 1 .. 2 |-> <<R, DotEntries[k]>>]
<1>1. PICK argv \in Images : mkfs = [argv |-> argv, arg |-> 1, todo |-> todo]
  BY DEF Init
<1>2. /\ bitmap = 0 .. NMeta - 1
      /\ data = [b \in Blocks |-> IF b = 0 THEN [ZeroBlock EXCEPT ![0] = "super"] ELSE ZeroBlock]
      /\ itab = [i \in Inodes |-> IF i = R THEN Fresh("dir") ELSE Invalid]
      /\ files = [i \in Inodes |-> <<>>]
      /\ entry = [i \in Inodes |-> None]
      /\ call = [p \in Procs |-> None]
      /\ panicked = FALSE
  BY DEF Init, BAlloc
<1>3. R \in Inodes /\ R = 1
  BY RootIs
<1>4. /\ Fresh("dir") \in InodeEntries /\ Fresh("dir").type = "dir" /\ Fresh("dir").bytes = 0
      /\ Fresh("dir").addrs = Invalid.addrs /\ Fresh("dir").indirect = Invalid.indirect
      /\ Invalid \in InodeEntries /\ Invalid.type = "invalid" /\ Invalid.bytes = 0
      /\ Invalid.indirect = 0 /\ \A d : \A n \in Places : BlockAt(d, Invalid, n) = 0
  BY FreshType, InvalidIs DEF Types
<1>5. /\ itab \in [Inodes -> InodeEntries]
      /\ \A i \in Inodes : itab[i].bytes = 0 /\ itab[i].addrs = Invalid.addrs /\ itab[i].indirect = 0
      /\ itab[R].type = "dir"
      /\ \A i \in Inodes : i # R => itab[i] = Invalid
  BY <1>2, <1>3, <1>4
<1>6. \A i \in Inodes, n \in Places : BlockAt(data, itab[i], n) = 0
  <2> SUFFICES ASSUME NEW i \in Inodes, NEW n \in Places
               PROVE  BlockAt(data, itab[i], n) = BlockAt(data, Invalid, n)
    BY <1>4
  <2> QED
    BY <1>4, <1>5 DEF BlockAt
<1>7. data \in [Blocks -> [Offsets -> Cells]]
  <2>1. [ZeroBlock EXCEPT ![0] = "super"] \in [Offsets -> Cells]
    BY ZeroBlockType DEF Cells
  <2> QED
    BY <2>1, <1>2, ZeroBlockType
<1>8. \A i \in Inodes : Entry(i) = itab[i] /\ ~ IsLocked(i) /\ entry[i] = None
  <2>1. \A p \in Procs : call[p] = None
    BY <1>2
  <2> QED
    BY <2>1, <1>2 DEF Entry, IsLocked
<1>9. Current = itab
  BY <1>5, <1>8 DEF Current
<1>10. Exact(bitmap, data, Current)
  <2>1. bitmap \subseteq Blocks /\ bitmap \cap DataBlocks = {} /\ 0 .. NMeta - 1 \subseteq bitmap
    BY <1>2, DataSizes DEF Blocks, DataBlocks
  <2> QED
    BY <2>1, <1>5, <1>6, <1>7, <1>9 DEF Exact
<1>11. CallsOk
  BY <1>2 DEF CallsOk
<1>12. FilesOk
  <2>1. ASSUME NEW i \in Inodes
        PROVE  FileIs(data, Entry(i), files[i], 0, <<>>)
    <3>1. /\ <<>> \in Seq(FileCells) /\ Len(<<>>) = 0 /\ files[i] = <<>>
          /\ INODE_MAX_BYTES \in Nat /\ 0 <= INODE_MAX_BYTES
      BY <1>2, DataSizes
    <3>2. \A o \in FileOffsets : ~ (o < 0)
      BY OffsetsAre
    <3>3. Settled(data, itab[i], files[i])
      BY <3>1, <3>2, <1>5 DEF Settled
    <3> QED
      BY <3>3, <1>5, <1>8, SettledIs
  <2>2. \A p \in Procs : call[p] = None
    BY <1>2
  <2> QED
    BY <2>1, <2>2 DEF FilesOk
<1>13. CopiesOk
  <2>1. \A i \in Inodes : itab[i].type = "invalid" => itab[i] = Invalid
    BY <1>5
  <2>2. \A p \in Procs : call[p] = None
    BY <1>2
  <2> QED
    BY <2>1, <2>2, <1>5, <1>8 DEF CopiesOk
<1>14. NamesOk
  BY <1>2 DEF NamesOk, DistinctNames
<1>15. /\ todo \in Seq(Inodes \X FileCells) /\ Len(todo) = 2
       /\ \A k \in 1 .. 2 : todo[k] = <<R, DotEntries[k]>>
  <2>1. \A k \in 1 .. 2 : DotEntries[k] \in FileCells
    BY <1>3 DEF DotEntries, FileCells
  <2>2. \A k \in 1 .. 2 : <<R, DotEntries[k]>> \in Inodes \X FileCells
    BY <2>1, <1>3
  <2> DEFINE S == Inodes \X FileCells
  <2> HIDE DEF S
  <2>3. \A k \in 1 .. 2 : <<R, DotEntries[k]>> \in S
    BY <2>2 DEF S
  <2>4. todo \in Seq(S) /\ Len(todo) = 2
    BY <2>3
  <2> QED
    BY <2>4 DEF S
<1> HIDE DEF todo
<1>16. mkfs \in Makings
  BY <1>1, <1>15 DEF Makings
<1>17. MkfsOk
  <2>1. /\ mkfs.argv = argv /\ mkfs.arg = 1 /\ mkfs.todo = todo
        /\ Len(argv) \in Nat
    BY <1>1, ArgvIs
  <2>2. 1 \in 1 .. Len(mkfs.argv) + 1 /\ \A i \in Inodes : i \in Nat /\ i >= 1
    BY <2>1, DataSizes DEF Inodes
  <2>3. itab[R].bytes = 0
    BY <1>3, <1>5
  <2>4. 0 <= 1 + 1 /\ 1 + 1 - 0 <= 2
    OBVIOUS
  <2>5. \A k \in 1 .. 2 : 0 + k <= 1 + 1 /\ todo[k] = <<R, RootCell(argv, 0 + k)>>
    <3>1. \A k \in 1 .. 2 : 0 + k = k /\ k <= 2
      OBVIOUS
    <3> QED
      BY <3>1, <1>15 DEF RootCell
  <2>6. \A i \in Inodes : itab[i].type = "dir" <=> i = R
    BY <1>4, <1>5
  <2>7. \A i \in Inodes : i > 1 => itab[i] = Invalid
    BY <2>2, <1>3, <1>5
  <2>8. \A i \in Inodes : i <= 1 => itab[i].type # "invalid"
    BY <2>2, <1>3, <1>5
  <2>9. \A i \in Inodes, o \in 0 .. INODE_MAX_BYTES - 1 : ~ InBlock(data, itab[i], o)
    BY <1>6, OffsetsAre, PlacesAre DEF InBlock, FileOffsets
  <2>10. \A k \in 1 .. 0 : files[R][k] = RootCell(argv, k)
    OBVIOUS
  <2> HIDE DEF R
  <2> QED
    BY <2>1, <2>2, <2>3, <2>4, <2>5, <2>6, <2>7, <2>8, <2>9, <2>10, <1>3, <1>8, <1>15, <1>16
    DEF MkfsOk, R
<1>18. FileTypes
  <2>1. <<>> \in Seq(FileCells)
    OBVIOUS
  <2> QED
    BY <2>1, <1>2, <1>16 DEF FileTypes
<1> QED
  BY <1>10, <1>11, <1>12, <1>13, <1>14, <1>17, <1>18 DEF FileInv

LEMMA InvStep == FileInv /\ [Next]_vars => FileInv'
<1> SUFFICES ASSUME FileInv, [Next]_vars PROVE FileInv'
  OBVIOUS
<1>1. CASE MkfsFile
  BY <1>1, MkfsFileKeeps
<1>2. CASE IAppend
  BY <1>2, IAppendKeeps
<1>3. CASE MkfsEnd
  BY <1>3, MkfsEndKeeps
<1>4. ASSUME NEW p \in Procs, NEW type \in {"regular", "dir"}, InodeAlloc(p, type)
      PROVE  FileInv'
  BY <1>4, InodeAllocKeeps
<1>5. ASSUME NEW p \in Procs, NEW i \in Inodes, NEW off \in 0 .. INODE_MAX_BYTES,
             NEW src \in BoundedSeq(Written, MaxWrite), Write(p, i, off, src)
      PROVE  FileInv'
  BY <1>5, InodeWriteKeeps
<1>6. ASSUME NEW p \in Procs, NEW i \in Inodes, NEW name \in Names,
             InodeInsert(p, i, name, i) \/ InodeRemove(p, i, name)
      PROVE  FileInv'
  BY <1>6, InodeInsertKeeps, InodeRemoveKeeps
<1>7. ASSUME NEW p \in Procs, NEW i \in Inodes, InodeFree(p, i)
      PROVE  FileInv'
  BY <1>7, InodeFreeKeeps
<1>8. ASSUME NEW p \in Procs, WriteBlock(p)
      PROVE  FileInv'
  BY <1>8, WriteBlockKeeps
<1>9. ASSUME NEW p \in Procs, EndWrite(p)
      PROVE  FileInv'
  BY <1>9, EndWriteKeeps
<1>10. CASE Reboot
  BY <1>10, RebootKeeps
<1>11. CASE UNCHANGED vars
  <2>1. UNCHANGED <<mkfs, bitmap, data, itab, entry, call, files, panicked>>
    BY <1>11 DEF vars
  <2>2. \A i \in Inodes : Entry(i)' = Entry(i) /\ (IsLocked(i)' <=> IsLocked(i))
    BY <2>1 DEF Entry, IsLocked
  <2>3. Current' = Current
    BY <2>1, <2>2 DEF Current
  <2>4. Exact(bitmap, data, Current)'
    BY <2>1, <2>3 DEF FileInv
  <2>5. FileTypes'
    BY <2>1 DEF FileInv, FileTypes
  <2>6. CallsOk'
    BY <2>1 DEF FileInv, CallsOk
  <2>7. FilesOk'
    <3>1. call \in [Procs -> Calls \cup {None}]
      BY DEF FileInv, FileTypes
    <3>2. \A p \in Procs : call[p] # None => call[p].inode \in Inodes
      BY <3>1 DEF Calls
    <3> QED
      BY <2>1, <2>2, <3>2 DEF FileInv, FilesOk
  <2>8. CopiesOk'
    BY <2>1, <2>2 DEF FileInv, CopiesOk
  <2>9. NamesOk'
    BY <2>1 DEF FileInv, NamesOk
  <2>10. MkfsOk'
    BY <2>1 DEF FileInv, MkfsOk
  <2> QED
    BY <2>4, <2>5, <2>6, <2>7, <2>8, <2>9, <2>10 DEF FileInv
<1> QED
  BY <1>1, <1>2, <1>3, <1>4, <1>5, <1>6, <1>7, <1>8, <1>9, <1>10, <1>11 DEF Next

\* What holds between any two steps of mkfs and of the calls: the files hold
\* what was written to them, and the bitmap marks what they list.
THEOREM FileInvariant == Spec => []FileInv
<1> QED
  BY InitHolds, InvStep, PTL DEF Spec

-----------------------------------------------------------------------------
(* What follows for the properties. *)

\* SubSeq, as a function.
LEMMA PartIs ==
    ASSUME NEW S, NEW f \in Seq(S), NEW off \in Nat, NEW n \in Nat, off + n <= Len(f)
    PROVE  SubSeq(f, off + 1, off + n) = [k \in 1 .. n |-> f[off + k]]
<1> DEFINE s == SubSeq(f, off + 1, off + n)
<1>1. s \in Seq(S) /\ Len(s) = n /\ \A k \in 1 .. n : s[k] = f[off + k]
  BY Z3
<1>2. s = [k \in 1 .. n |-> s[k]]
  BY <1>1
<1> HIDE DEF s
<1>3. s = [k \in 1 .. n |-> f[off + k]]
  BY <1>1, <1>2
<1> QED
  BY <1>3 DEF s

\* A file that is at rest has all its cells in place.
LEMMA RestIsSettled ==
    ASSUME FileInv, NEW i \in Inodes, AtRest(i)
    PROVE  /\ Settled(data, Entry(i), files[i]) /\ Entry(i) \in InodeEntries
           /\ Entry(i).bytes \in Nat /\ Len(files[i]) = Entry(i).bytes
<1>1. /\ CopiesOk /\ FilesOk /\ ~ IsLocked(i)
  BY DEF FileInv, AtRest
<1>2. Entry(i) \in InodeEntries /\ Entry(i).bytes \in Nat
  BY <1>1, CurrentIs
<1>3. FileIs(data, Entry(i), files[i], 0, <<>>)
  BY <1>1 DEF FilesOk
<1> QED
  BY <1>2, <1>3, SettledIs DEF Settled

\* What ReadsBack asks of inode_read.
LEMMA ReadsBackHolds == FileInv => ReadsBack
<1> SUFFICES ASSUME FileInv, NEW i \in Inodes, AtRest(i), NEW off \in 0 .. Entry(i).bytes,
                    NEW count \in {1, INODE_MAX_BYTES}
             PROVE  InodeRead(Entry(i), off, count) =
                      SubSeq(files[i], off + 1,
                             IF off + count < Len(files[i]) THEN off + count ELSE Len(files[i]))
  BY DEF ReadsBack
<1>1. /\ Settled(data, Entry(i), files[i]) /\ Entry(i) \in InodeEntries
      /\ Entry(i).bytes \in Nat /\ Len(files[i]) = Entry(i).bytes
  BY RestIsSettled
<1>2. count \in Nat /\ off \in Nat /\ Len(files[i]) \in Nat
  BY <1>1, DataSizes
<1> DEFINE m == IF off + count < Len(files[i]) THEN off + count ELSE Len(files[i])
<1>3. ReadOk(InodeRead(Entry(i), off, count), files[i], off, count)
  BY <1>1, <1>2, ReadIs
<1>4. /\ m - off \in Nat /\ off + (m - off) <= Len(files[i])
      /\ InodeRead(Entry(i), off, count) = [k \in 1 .. m - off |-> files[i][off + k]]
  BY <1>3, Zenon DEF ReadOk
<1>5. m \in Nat
  BY <1>2
<1> HIDE DEF m
<1>6. PICK n \in Nat : n = m - off
  BY <1>4
<1>7. files[i] \in Seq(FileCells)
  BY <1>1 DEF Settled
<1>8. SubSeq(files[i], off + 1, off + n) = [k \in 1 .. n |-> files[i][off + k]]
  BY <1>2, <1>4, <1>6, <1>7, PartIs
<1>9. off + n = m
  BY <1>2, <1>5, <1>6
<1> QED
  BY <1>4, <1>6, <1>8, <1>9 DEF m

\* As many blocks as places where they are listed.
LEMMA AsManyBlocks ==
    ASSUME NEW all, NEW S, IsFiniteSet(S), \A y \in all : y[2][2] \in S,
           \A y, z \in all : y[2][2] = z[2][2] => y = z
    PROVE  Cardinality({y[2][2] : y \in all}) = Cardinality(all)
<1> DEFINE T == {y[2][2] : y \in all}
           f == [y \in all |-> y[2][2]]
<1>1. T \subseteq S
  OBVIOUS
<1>2. IsFiniteSet(T)
  BY <1>1, FS_Subset
<1>3. f \in [all -> T] /\ (\A y, z \in all : f[y] = f[z] => y = z) /\ \A b \in T : \E y \in all : f[y] = b
  OBVIOUS
<1> HIDE DEF f, T
<1>4. f \in Injection(all, T) /\ f \in Surjection(all, T)
  BY <1>3 DEF Injection, IsInjective, Surjection
<1>5. IsFiniteSet(all)
  BY <1>2, <1>4, FS_Injection
<1>6. Cardinality(T) = Cardinality(all)
  BY <1>4, <1>5, FS_Surjection
<1> QED
  BY <1>6 DEF T

\* What BitmapIsExact asks of the blocks.
LEMMA BitmapHolds == FileInv => BitmapIsExact
<1> SUFFICES ASSUME FileInv PROVE BitmapIsExact
  OBVIOUS
<1> DEFINE all == UNION {{<<i, x>> : x \in Listed(Entry(i))} : i \in Inodes}
<1>1. /\ Exact(bitmap, data, Current) /\ Current \in [Inodes -> InodeEntries]
      /\ \A i \in Inodes : Current[i] = Entry(i) /\ Entry(i) \in InodeEntries
  BY CurrentIs DEF FileInv
<1>2. \A i \in Inodes, n \in Places :
        BlockAt(data, Entry(i), n) \in {0} \cup (DataBlocks \cap bitmap)
  BY <1>1 DEF Exact
<1>3. \A i \in Inodes, k \in Offsets : Entry(i).indirect # 0 => data[Entry(i).indirect][k] # 0
  BY <1>1 DEF Exact
<1>4. \A i, j \in Inodes, m, n \in Places :
        BlockAt(data, Entry(i), m) # 0 /\ BlockAt(data, Entry(i), m) = BlockAt(data, Entry(j), n)
          => i = j /\ m = n
  BY <1>1 DEF Exact
<1>5. \A b \in bitmap \cap DataBlocks : \E i \in Inodes, n \in Places : BlockAt(data, Entry(i), n) = b
  BY <1>1 DEF Exact
<1>6. bitmap \subseteq Blocks /\ 0 .. NMeta - 1 \subseteq bitmap
  BY <1>1 DEF Exact
<1>7. /\ \A b \in DataBlocks : b # 0 /\ b >= NMeta /\ b \in Nat
      /\ \A b \in Blocks : b \in DataBlocks \/ b \in 0 .. NMeta - 1
  BY DataSizes DEF DataBlocks, Blocks
<1>8. \A y : y \in all <=>
        \E i \in Inodes, n \in Places :
          BlockAt(data, Entry(i), n) # 0 /\ y = <<i, <<n, BlockAt(data, Entry(i), n)>>>>
  <2>1. \A i \in Inodes : \A x : x \in Listed(Entry(i)) <=>
          \E n \in Places : BlockAt(data, Entry(i), n) # 0 /\ x = <<n, BlockAt(data, Entry(i), n)>>
    BY <1>1, <1>3, ListedIs
  <2>2. \A y : y \in all <=> \E i \in Inodes : \E x \in Listed(Entry(i)) : y = <<i, x>>
    OBVIOUS
  <2> HIDE DEF all
  <2>3. ASSUME NEW y, y \in all
        PROVE  \E i \in Inodes, n \in Places :
                 BlockAt(data, Entry(i), n) # 0 /\ y = <<i, <<n, BlockAt(data, Entry(i), n)>>>>
    <3>1. PICK i \in Inodes : \E x \in Listed(Entry(i)) : y = <<i, x>>
      BY <2>2, <2>3
    <3>2. PICK x \in Listed(Entry(i)) : y = <<i, x>>
      BY <3>1
    <3>3. PICK n \in Places : BlockAt(data, Entry(i), n) # 0 /\ x = <<n, BlockAt(data, Entry(i), n)>>
      BY <2>1
    <3> QED
      BY <3>2, <3>3
  <2>4. ASSUME NEW i \in Inodes, NEW n \in Places, BlockAt(data, Entry(i), n) # 0
        PROVE  <<i, <<n, BlockAt(data, Entry(i), n)>>>> \in all
    <3>1. <<n, BlockAt(data, Entry(i), n)>> \in Listed(Entry(i))
      BY <2>1, <2>4
    <3> QED
      BY <3>1, <2>2
  <2> QED
    BY <2>3, <2>4
<1> HIDE DEF all
<1>9. \A y \in all : y[2][2] \in DataBlocks \cap bitmap
  BY <1>2, <1>8
<1>10. bitmap = 0 .. NMeta - 1 \cup {y[2][2] : y \in all}
  <2>1. ASSUME NEW b \in bitmap
        PROVE  b \in 0 .. NMeta - 1 \cup {y[2][2] : y \in all}
    <3>1. CASE b \in DataBlocks
      <4>1. PICK i \in Inodes, n \in Places : BlockAt(data, Entry(i), n) = b
        BY <3>1, <1>5
      <4>2. <<i, <<n, b>>>> \in all
        BY <3>1, <4>1, <1>7, <1>8
      <4>3. <<i, <<n, b>>>>[2][2] = b
        OBVIOUS
      <4> QED
        BY <4>2, <4>3
    <3> QED
      BY <3>1, <1>6, <1>7
  <2> QED
    BY <2>1, <1>6, <1>9
<1>11. Cardinality({y[2][2] : y \in all}) = Cardinality(all)
  <2>1. ASSUME NEW y \in all, NEW z \in all, y[2][2] = z[2][2]
        PROVE  y = z
    <3>1. PICK i \in Inodes, m \in Places :
            BlockAt(data, Entry(i), m) # 0 /\ y = <<i, <<m, BlockAt(data, Entry(i), m)>>>>
      BY <1>8
    <3>2. PICK j \in Inodes, n \in Places :
            BlockAt(data, Entry(j), n) # 0 /\ z = <<j, <<n, BlockAt(data, Entry(j), n)>>>>
      BY <1>8
    <3>3. BlockAt(data, Entry(i), m) = BlockAt(data, Entry(j), n)
      BY <3>1, <3>2, <2>1
    <3>4. i = j /\ m = n
      BY <3>1, <3>3, <1>4
    <3> QED
      BY <3>1, <3>2, <3>4
  <2>2. IsFiniteSet(Blocks)
    BY DataSizes, FS_Interval DEF Blocks
  <2>3. \A y \in all : y[2][2] \in Blocks
    BY <1>6, <1>9
  <2> QED
    BY <2>1, <2>2, <2>3, AsManyBlocks
<1>12. \A y \in all : y[2][2] >= NMeta
  BY <1>7, <1>9
<1> QED
  BY <1>10, <1>11, <1>12 DEF BitmapIsExact, all

LEMMA NamesHold == FileInv => NamesAreUnique
<1> SUFFICES ASSUME FileInv, NEW i \in Inodes, AtRest(i), itab[i].type = "dir"
             PROVE  DistinctNames(InodeRead(Entry(i), 0, INODE_MAX_BYTES))
  BY DEF NamesAreUnique, DistinctNames
<1>1. /\ Settled(data, Entry(i), files[i]) /\ Entry(i) \in InodeEntries
      /\ Entry(i).bytes \in Nat /\ Len(files[i]) = Entry(i).bytes
  BY RestIsSettled
<1> DEFINE s == InodeRead(Entry(i), 0, INODE_MAX_BYTES)
<1>2. ReadOk(s, files[i], 0, INODE_MAX_BYTES)
  <2>1. 0 \in 0 .. Entry(i).bytes /\ INODE_MAX_BYTES \in Nat
    BY <1>1, DataSizes
  <2> QED
    BY <2>1, <1>1, ReadIs
<1> HIDE DEF s
<1>3. DistinctNames(files[i])
  BY DEF FileInv, NamesOk
<1>4. PICK n \in Nat : n <= Len(files[i]) /\ s = [k \in 1 .. n |-> files[i][0 + k]]
  <2> DEFINE m == (IF 0 + INODE_MAX_BYTES < Len(files[i]) THEN 0 + INODE_MAX_BYTES ELSE Len(files[i])) - 0
  <2>1. m \in Nat /\ 0 + m <= Len(files[i]) /\ s = [k \in 1 .. m |-> files[i][0 + k]]
    BY <1>2, Zenon DEF ReadOk
  <2> HIDE DEF m
  <2> QED
    BY <2>1, <1>1
<1>5. files[i] \in Seq(FileCells)
  BY <1>1 DEF Settled
<1>6. DOMAIN s = 1 .. n /\ \A k \in 1 .. n : k \in DOMAIN files[i] /\ s[k] = files[i][k]
  BY <1>1, <1>4, <1>5
<1> QED
  BY <1>3, <1>6 DEF DistinctNames, s

LEMMA DataTypesHold == FileInv => TypeOK
<1> SUFFICES ASSUME FileInv PROVE TypeOK
  OBVIOUS
<1>1. /\ Exact(bitmap, data, Current) /\ FilesOk /\ CopiesOk /\ CallsOk /\ FileTypes
      /\ \A i \in Inodes : Current[i] = Entry(i) /\ Entry(i) \in InodeEntries /\ Entry(i).bytes \in Nat
  BY CurrentIs DEF FileInv
<1>2. bitmap \subseteq Blocks /\ \A b \in Blocks : DOMAIN data[b] = 0 .. BlockSize - 1
  BY <1>1 DEF Exact, Offsets
<1>3. ASSUME NEW i \in Inodes
      PROVE  Entry(i).bytes \in 0 .. INODE_MAX_BYTES
  <2>1. CASE ~ IsLocked(i)
    BY <2>1, <1>1, DataSizes DEF FilesOk, FileIs
  <2>2. CASE IsLocked(i)
    <3>1. PICK p \in Procs : call[p] # None /\ call[p].inode = i
      BY <2>2 DEF IsLocked
    <3> QED
      BY <3>1, <1>1, DataSizes DEF FilesOk, FileIs
  <2> QED
    BY <2>1, <2>2
<1>4. ASSUME NEW i \in Inodes
      PROVE  Addresses(Entry(i)) \subseteq Blocks
  <2>1. \A k \in Offsets : Entry(i).indirect # 0 => data[Entry(i).indirect][k] # 0
    BY <1>1 DEF Exact
  <2>2. \A n \in Places : BlockAt(data, Entry(i), n) \in Blocks
    BY <1>1, ListedBlocks
  <2> QED
    BY <2>1, <2>2, <1>1, AddressesAre
<1> QED
  BY <1>1, <1>2, <1>3, <1>4 DEF TypeOK, FileTypes

\* The inodes, the blocks and the calls have their types.
THEOREM DataTypes == Spec => []TypeOK
<1> QED
  BY FileInvariant, DataTypesHold, PTL

\* inode_read gives what the writes of mkfs and of inode_write have put into a
\* file, across the blocks that other files take and give back.
THEOREM FilesReadBack == Spec => []ReadsBack
<1> QED
  BY FileInvariant, ReadsBackHolds, PTL

\* cache_alloc, cache_free, inode_map and inode_clear keep the bitmap: it marks
\* the metadata and what the files list, and no block is listed twice.
THEOREM NothingIsLeaked == Spec => []BitmapIsExact
<1> QED
  BY FileInvariant, BitmapHolds, PTL

\* inode_sync is called often enough: a restart finds the inode that inode_lock
\* has in memory.
THEOREM DiskIsUpToDate == Spec => []DiskIsCurrent
<1>1. FileInv => DiskIsCurrent
  BY DEF FileInv, CopiesOk, DiskIsCurrent
<1> QED
  BY FileInvariant, <1>1, PTL

\* mkfs and inode_insert never give a directory two entries of one name.
THEOREM NoNameTwice == Spec => []NamesAreUnique
<1> QED
  BY FileInvariant, NamesHold, PTL
=============================================================================
