------------------------------ MODULE FileData ------------------------------
(***************************************************************************)
(* What is in files: the image that mkfs makes, block allocation, the map   *)
(* from offsets to blocks, reading, writing and clearing an inode, and      *)
(* directories (fs/inode.c, the allocator of fs/cache.c, user/mkfs).        *)
(*                                                                         *)
(* The unit of data is a cell: a byte of a file, an entry of a directory or *)
(* an address in an indirect block.  A block holds BlockSize cells.  Calls  *)
(* hold the inode's lock; a write takes one step for each block, between    *)
(* which other inodes allocate and free.  The blocks are seen through the   *)
(* cache, that is, as the running operations have left them; what a crash   *)
(* brings back is their state at a moment without operations (see Log).     *)
(***************************************************************************)
EXTENDS Integers, FiniteSets, SequencesExt

CONSTANTS
    BlockSize,  \* BLOCK_SIZE, in cells; also INODE_NUM_INDIRECT
    NDirect,    \* INODE_NUM_DIRECT
    NBlocks,    \* FSSIZE
    NMeta,      \* the blocks before the first data block
    NInodes,    \* sblock->num_inodes
    Procs,      \* processes
    Names,      \* names of files
    Bytes,      \* contents of a byte
    Written,    \* bound: those that are written
    Images,     \* what mkfs may be given: for each file its name and contents
    MaxWrite,   \* bound: the longest write
    MaxCalls,   \* bound: how many calls change something
    ZeroCell,   \* a cell of zeroes: also address 0 and the cleared entry
    None

Blocks == 0 .. NBlocks - 1
Inodes == 1 .. NInodes - 1
ROOT_INODE_NO == 1
INODE_MAX_BYTES == (NDirect + BlockSize) * BlockSize
Dot == "."
DotDot == ".."

\* The arguments of mkfs are distinct files.  It adds a block to the size of the
\* root directory even when its entries end with a block: then the directory
\* has a hole, which is left out here.
ASSUME ImageAssumption ==
    \A argv \in Images :
        /\ argv \in Seq([name : Names, bytes : Seq(Bytes)])
        /\ \A j, k \in DOMAIN argv : argv[j].name = argv[k].name => j = k
        /\ (Len(argv) + 2) % BlockSize # 0
ASSUME SizeAssumption ==
    /\ {BlockSize, NDirect, NBlocks, NMeta, NInodes, MaxWrite} \subseteq Nat
    /\ NMeta > 0 /\ NMeta < NBlocks /\ NDirect > 0 /\ BlockSize > 0 /\ NInodes > 1
ASSUME NameAssumption == Dot \notin Names /\ DotDot \notin Names /\ Written \subseteq Bytes

\* InodeEntry, the arguments of an inode_write, and what mkfs has to do; what a
\* cell holds besides addresses.  A cell is either zero or an address.
Types == {"invalid", "regular", "dir"}
InodeEntries == [type : Types, bytes : Nat, addrs : [0 .. NDirect - 1 -> Blocks], indirect : Blocks]
FileCells == Bytes \cup ((Names \cup {Dot, DotDot}) \X Inodes) \cup {ZeroCell}
Cells == FileCells \cup Blocks \cup {"super"}
Calls == [inode : Inodes, off : Nat, src : Seq(FileCells)]
Makings == [argv : Images, arg : Nat, todo : Seq(Inodes \X FileCells)]
ASSUME NullAssumption ==
    ZeroCell \notin Blocks /\ None \notin InodeEntries \cup Calls \cup Makings

VARIABLES
    mkfs,      \* while it makes the image: its arguments, the next of them, and
               \* the cells to be appended, each with its inode; then None
    bitmap,    \* the blocks whose bit is set
    data,      \* the blocks' cells
    itab,      \* the inode blocks
    entry,     \* inode->entry in memory, or None if not valid
    call,      \* per process: the rest of its inode_write, or None
    files,     \* history: what was written to each inode
    calls,     \* history: how many calls were made
    panicked   \* PANIC: the machine has stopped

vars == <<mkfs, bitmap, data, itab, entry, call, files, calls, panicked>>

ZeroBlock == [k \in 0 .. BlockSize - 1 |-> ZeroCell]
Fresh(type) == [type |-> type, bytes |-> 0, addrs |-> [n \in 0 .. NDirect - 1 |-> 0], indirect |-> 0]
Invalid == Fresh("invalid")

-----------------------------------------------------------------------------
(* cache_alloc, cache_free and inode_map *)

\* The first clear bit; the block comes zeroed.  PANIC if there is none.
CacheAlloc(st) ==
    LET clear == Blocks \ st.bitmap
        b == CHOOSE x \in clear : \A y \in clear : x <= y
    IN  IF clear = {} THEN [st EXCEPT !.panic = TRUE]
        ELSE [st EXCEPT !.bitmap = @ \cup {b}, !.data[b] = ZeroBlock, !.addr = b]

\* inode_map with a context: the address of block n of the file, allocated
\* if need be, the indirect block before it.
MapBlock(st, n) ==
    IF n < NDirect
    THEN IF st.e.addrs[n] # 0 THEN [st EXCEPT !.addr = st.e.addrs[n]]
         ELSE LET t == CacheAlloc(st) IN [t EXCEPT !.e.addrs[n] = t.addr]
    ELSE LET i == IF st.e.indirect # 0 THEN st
                  ELSE LET t == CacheAlloc(st) IN [t EXCEPT !.e.indirect = t.addr]
             a == i.data[i.e.indirect][n - NDirect]
         IN  IF i.panic THEN i
             ELSE IF a # ZeroCell THEN [i EXCEPT !.addr = a]
             ELSE LET t == CacheAlloc(i) IN [t EXCEPT !.data[i.e.indirect][n - NDirect] = t.addr]

\* inode_map without a context: 0 if the block was not allocated.
Mapped(e, n) ==
    IF n < NDirect THEN e.addrs[n]
    ELSE IF e.indirect = 0 \/ data[e.indirect][n - NDirect] = ZeroCell THEN 0
    ELSE data[e.indirect][n - NDirect]

\* The blocks that inode_clear frees, each as often as it is listed.
Listed(e) ==
    LET ind == IF e.indirect = 0 THEN {} ELSE {k \in DOMAIN ZeroBlock : data[e.indirect][k] # ZeroCell}
    IN  {<<n, e.addrs[n]>> : n \in {m \in DOMAIN e.addrs : e.addrs[m] # 0}}
        \cup {<<NDirect + k, data[e.indirect][k]>> : k \in ind}
        \cup (IF e.indirect = 0 THEN {} ELSE {<<-1, e.indirect>>})

Addresses(e) == {x[2] : x \in Listed(e)}

-----------------------------------------------------------------------------
(* mkfs, one append after the other *)

\* The numbers of the blocks that mkfs has used, all those before freeblock.
\* They are kept in bitmap from the beginning; balloc writes it at the end.
BAlloc(freeblock) == 0 .. freeblock - 1

DotEntries == <<<<Dot, ROOT_INODE_NO>>, <<DotDot, ROOT_INODE_NO>>>>

\* main up to its loop: a cleared disk, the super block, the root directory,
\* whose two entries are to be appended.
Init ==
    /\ \E argv \in Images :
         mkfs = [argv |-> argv, arg |-> 1,
                 todo |-> [k \in 1 .. 2 |-> <<ROOT_INODE_NO, DotEntries[k]>>]]
    /\ bitmap = BAlloc(NMeta)
    /\ data = [b \in Blocks |-> IF b = 0 THEN [ZeroBlock EXCEPT ![0] = "super"] ELSE ZeroBlock]
    /\ itab = [i \in Inodes |-> IF i = ROOT_INODE_NO THEN Fresh("dir") ELSE Invalid]
    /\ files = [i \in Inodes |-> <<>>]
    /\ entry = [i \in Inodes |-> None]
    /\ call = [p \in Procs |-> None]
    /\ calls = 0
    /\ panicked = FALSE

\* One turn of the loop of main: ialloc, then an entry of the root and the
\* contents are to be appended.
MkfsFile ==
    LET i == mkfs.arg + 1
        f == mkfs.argv[mkfs.arg]
    IN /\ mkfs # None /\ mkfs.todo = <<>> /\ mkfs.arg \in DOMAIN mkfs.argv
       /\ i \in Inodes
       /\ itab' = [itab EXCEPT ![i] = Fresh("regular")]
       /\ mkfs' = [mkfs EXCEPT
             !.arg = i,
             !.todo = [k \in 1 .. Len(f.bytes) + 1 |->
                         IF k = 1 THEN <<ROOT_INODE_NO, <<f.name, i>>>> ELSE <<i, f.bytes[k - 1]>>]]
       /\ UNCHANGED <<bitmap, data, entry, call, files, calls, panicked>>

\* iappend, for one cell at the end of the file.  A file does not exceed the
\* greatest size, which iappend asserts.  Bound: the files fit on the disk.
IAppend ==
    LET i == Head(mkfs.todo)[1]
        cell == Head(mkfs.todo)[2]
        off == itab[i].bytes
        st == MapBlock([bitmap |-> bitmap, data |-> data, e |-> itab[i], addr |-> 0,
                        panic |-> FALSE], off \div BlockSize)
    IN /\ mkfs # None /\ mkfs.todo # <<>>
       /\ off < INODE_MAX_BYTES /\ ~ st.panic
       /\ bitmap' = st.bitmap
       /\ data' = [st.data EXCEPT ![st.addr][off % BlockSize] = cell]
       /\ itab' = [itab EXCEPT ![i] = [st.e EXCEPT !.bytes = off + 1]]
       /\ files' = [files EXCEPT ![i] = Append(@, cell)]
       /\ mkfs' = [mkfs EXCEPT !.todo = Tail(@)]
       /\ UNCHANGED <<entry, call, calls, panicked>>

\* The end of main: the size of the root goes to the end of its last block.
MkfsEnd ==
    LET n == itab[ROOT_INODE_NO].bytes IN
    /\ mkfs # None /\ mkfs.todo = <<>> /\ mkfs.arg \notin DOMAIN mkfs.argv
    /\ itab' = [itab EXCEPT ![ROOT_INODE_NO].bytes = (n \div BlockSize + 1) * BlockSize]
    /\ files' = [files EXCEPT ![ROOT_INODE_NO] =
                   @ \o [k \in 1 .. BlockSize - (n % BlockSize) |-> ZeroCell]]
    /\ mkfs' = None
    /\ UNCHANGED <<bitmap, data, entry, call, calls, panicked>>

-----------------------------------------------------------------------------
(* inode_read and inode_lookup, which change nothing *)

\* Mutant of Clamp: the last cell of the file is left out.
ClampShort(e, off, count) == IF count + off >= e.bytes THEN e.bytes - off - 1 ELSE count

Clamp(e, off, count) == IF count + off > e.bytes THEN e.bytes - off ELSE count

\* The cells that inode_read copies.
InodeRead(e, off, count) ==
    [k \in 1 .. Clamp(e, off, count) |->
        LET o == off + k - 1 IN data[Mapped(e, o \div BlockSize)][o % BlockSize]]

\* inode_lookup: the index of the first entry of that name, or -1.  Entries
\* that were cleared have the empty name.
InodeLookup(e, name) ==
    LET s == InodeRead(e, 0, e.bytes)
        at == {k \in DOMAIN s : s[k] # ZeroCell /\ s[k][1] = name}
    IN  IF at = {} THEN -1 ELSE (CHOOSE k \in at : \A j \in at : k <= j) - 1

-----------------------------------------------------------------------------
(* The operations *)

Entry(i) == IF entry[i] = None THEN itab[i] ELSE entry[i]
IsLocked(i) == \E p \in Procs : call[p] # None /\ call[p].inode = i
May(p) == mkfs = None /\ call[p] = None /\ calls < MaxCalls /\ ~ panicked

\* inode_alloc, inode_get, inode_lock: the first free inode.
InodeAlloc(p, type) ==
    LET free == {i \in Inodes : itab[i].type = "invalid"}
        i == CHOOSE x \in free : \A y \in free : x <= y
    IN /\ May(p)
       /\ calls' = calls + 1
       /\ IF free = {} THEN panicked' = TRUE /\ UNCHANGED <<itab, entry, files>>
          ELSE /\ itab' = [itab EXCEPT ![i] = Fresh(type)]
               /\ entry' = [entry EXCEPT ![i] = Fresh(type)]
               /\ files' = [files EXCEPT ![i] = <<>>]
               /\ UNCHANGED panicked
       /\ UNCHANGED <<mkfs, bitmap, data, call>>

\* s with t from offset off on.
Overwrite(s, off, t) ==
    [k \in 1 .. (IF Len(s) > off + Len(t) THEN Len(s) ELSE off + Len(t)) |->
        IF k \in off + 1 .. off + Len(t) THEN t[k - off] ELSE s[k]]

\* inode_lock, and inode_write is called: its loop is WriteBlock.
StartWrite(p, i, off, src) ==
    /\ entry' = [entry EXCEPT ![i] = Entry(i)]
    /\ call' = [call EXCEPT ![p] = [inode |-> i, off |-> off, src |-> src]]
    /\ files' = [files EXCEPT ![i] = Overwrite(@, off, src)]
    /\ calls' = calls + 1
    /\ UNCHANGED <<mkfs, bitmap, data, itab, panicked>>

\* The caller's asserts on the offset hold.
Write(p, i, off, src) ==
    /\ May(p) /\ ~ IsLocked(i) /\ Entry(i).type = "regular"
    /\ off <= Entry(i).bytes /\ off + Len(src) <= INODE_MAX_BYTES
    /\ StartWrite(p, i, off, src)

\* Mutant of Absent: the directory is not searched first.
AlwaysAbsent(e, name) == TRUE

Absent(e, name) == InodeLookup(e, name) = -1

\* inode_insert: behind the last entry, if the name is not there.
InodeInsert(p, i, name, target) ==
    /\ May(p) /\ ~ IsLocked(i) /\ Entry(i).type = "dir"
    /\ Absent(Entry(i), name)
    /\ Entry(i).bytes < INODE_MAX_BYTES
    /\ StartWrite(p, i, Entry(i).bytes, <<<<name, target>>>>)

\* inode_remove of the entry that inode_lookup found.
InodeRemove(p, i, name) ==
    LET k == InodeLookup(Entry(i), name) IN
    /\ May(p) /\ ~ IsLocked(i) /\ Entry(i).type = "dir"
    /\ k # -1
    /\ StartWrite(p, i, k, <<ZeroCell>>)

\* How much of the rest one turn of the loop copies.
Chunk(off, left) == LET room == BlockSize - (off % BlockSize) IN IF left < room THEN left ELSE room

\* One turn of inode_write's loop.
WriteBlock(p) ==
    LET c == call[p]
        st == MapBlock([bitmap |-> bitmap, data |-> data, e |-> entry[c.inode],
                        addr |-> 0, panic |-> FALSE], c.off \div BlockSize)
        m == Chunk(c.off, Len(c.src))
        o == c.off % BlockSize
        copied == [k \in DOMAIN ZeroBlock \cup (o .. o + m - 1) |->
                     IF k \in o .. o + m - 1 THEN c.src[k - o + 1] ELSE st.data[st.addr][k]]
    IN /\ c # None /\ ~ panicked /\ c.src # <<>>
       /\ IF st.panic THEN panicked' = TRUE /\ UNCHANGED <<bitmap, data, entry, call>>
          ELSE /\ bitmap' = st.bitmap
               /\ data' = [st.data EXCEPT ![st.addr] = copied]
               /\ entry' = [entry EXCEPT ![c.inode] = st.e]
               /\ call' = [call EXCEPT ![p].off = c.off + m, ![p].src = SubSeq(c.src, m + 1, Len(c.src))]
               /\ UNCHANGED panicked
       /\ UNCHANGED <<mkfs, itab, files, calls>>

\* Mutant of Grown: the size is written, the addresses are not.
GrownSizeOnly(i, off) == [itab EXCEPT ![i].bytes = off]

\* inode_sync after the file has grown.
Grown(i, off) == [itab EXCEPT ![i] = [entry[i] EXCEPT !.bytes = off]]

\* The end of inode_write, and inode_unlock: the inode is synced only if the
\* file has grown.
EndWrite(p) ==
    LET c == call[p]
        i == c.inode
    IN /\ c # None /\ ~ panicked /\ c.src = <<>>
       /\ IF entry[i].bytes < c.off
          THEN /\ entry' = [entry EXCEPT ![i].bytes = c.off]
               /\ itab' = Grown(i, c.off)
          ELSE UNCHANGED <<entry, itab>>
       /\ call' = [call EXCEPT ![p] = None]
       /\ UNCHANGED <<mkfs, bitmap, data, files, calls, panicked>>

\* Mutant of Cleared: the indirect block itself is not freed.
ClearedButIndirect(e) == Addresses(e) \ {e.indirect}

\* The bits that inode_clear clears.
Cleared(e) == Addresses(e)

\* What inode_clear leaves of the blocks: the addresses in the indirect block
\* are zeroed.
Wiped(e) == IF e.indirect = 0 THEN data ELSE [data EXCEPT ![e.indirect] = ZeroBlock]

\* inode_put of the last reference to an inode without links: inode_clear,
\* and the inode is free.
InodeFree(p, i) ==
    LET e == Entry(i) IN
    /\ May(p) /\ ~ IsLocked(i) /\ e.type # "invalid" /\ i # ROOT_INODE_NO
    /\ bitmap' = bitmap \ Cleared(e)
    /\ data' = Wiped(e)
    /\ itab' = [itab EXCEPT ![i] = Invalid]
    /\ entry' = [entry EXCEPT ![i] = None]
    /\ files' = [files EXCEPT ![i] = <<>>]
    /\ calls' = calls + 1
    /\ UNCHANGED <<mkfs, call, panicked>>

\* The machine crashes and comes up again: with the blocks as they were at a
\* moment when no operation was running.
Reboot ==
    /\ \A p \in Procs : call[p] = None
    /\ entry' = [i \in Inodes |-> None]
    /\ UNCHANGED <<mkfs, bitmap, data, itab, call, files, calls, panicked>>

Next ==
    \/ MkfsFile \/ IAppend \/ MkfsEnd
    \/ \E p \in Procs :
         \/ \E type \in {"regular", "dir"} : InodeAlloc(p, type)
         \/ \E i \in Inodes :
              \/ \E off \in 0 .. INODE_MAX_BYTES, src \in BoundedSeq(Written, MaxWrite) : Write(p, i, off, src)
              \/ \E name \in Names : InodeInsert(p, i, name, i) \/ InodeRemove(p, i, name)
              \/ InodeFree(p, i)
         \/ WriteBlock(p) \/ EndWrite(p)
    \/ Reboot

Spec == Init /\ [][Next]_vars

-----------------------------------------------------------------------------
(* Properties *)

AtRest(i) == ~ IsLocked(i) /\ itab[i].type # "invalid"

TypeOK ==
    /\ bitmap \subseteq Blocks
    /\ \A b \in Blocks : DOMAIN data[b] = 0 .. BlockSize - 1
    /\ \A i \in Inodes : Entry(i).bytes \in 0 .. INODE_MAX_BYTES
    /\ \A i \in Inodes : Addresses(Entry(i)) \subseteq Blocks
    /\ panicked \in BOOLEAN

\* A file holds what was written to it: inode_read gives, at every offset and
\* for every count, what the writes so far have put there, whatever other
\* files have grown, shrunk or taken over freed blocks meanwhile.
ReadsBack ==
    ~ panicked => \A i \in Inodes : AtRest(i) =>
        \A off \in 0 .. Entry(i).bytes, count \in {1, INODE_MAX_BYTES} :
            InodeRead(Entry(i), off, count) =
                SubSeq(files[i], off + 1, IF off + count < Len(files[i]) THEN off + count ELSE Len(files[i]))

\* The bitmap marks the metadata and the blocks that files list, and no block
\* is listed twice: nothing is leaked, nothing is shared between two files or
\* two places of a file, nothing in use is free.
BitmapIsExact ==
    ~ panicked =>
    LET all == UNION {{<<i, x>> : x \in Listed(Entry(i))} : i \in Inodes} IN
    /\ bitmap = 0 .. NMeta - 1 \cup {y[2][2] : y \in all}
    /\ Cardinality({y[2][2] : y \in all}) = Cardinality(all)
    /\ \A y \in all : y[2][2] >= NMeta

\* inode_write syncs the inode only when the file grows, yet the inode in
\* memory and the one a restart finds are the same whenever nobody writes.
DiskIsCurrent ==
    \A i \in Inodes : ~ IsLocked(i) /\ ~ panicked /\ entry[i] # None => entry[i] = itab[i]

\* A directory never has two entries of one name.
NamesAreUnique ==
    \A i \in Inodes : AtRest(i) /\ ~ panicked /\ itab[i].type = "dir" =>
        LET s == InodeRead(Entry(i), 0, INODE_MAX_BYTES) IN
        \A j, k \in DOMAIN s : s[j] # ZeroCell /\ s[k] # ZeroCell /\ s[j][1] = s[k][1] => j = k
=============================================================================
