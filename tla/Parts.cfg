SPECIFICATION PartsSpec
CONSTANTS
    Nil = 0
    Nodes = {2, 4, 6, 7, 8, 10, 12, 14, 16, 18}
    Keyed <- HalfKeys
    Pages = {1, 2, 3, 4, 5, 6}
    Owners = {q1, q2}
    HeapMax = 2
    HeapMin = 1
    AddrPages = 16
    MaxRefs = 5
    Depth = 1
    PSIZE = 16
    HDR = 8
    MINSIZE = 2
    TOPKEY = 4
    ObjSizes = {1, 3}
    MaxObjs = 2
    NoPte = NoPte
    Callers = {k1, k2}
    SdBlocks = {s1, s2}
    Words = {w0, w1}
    Zero = w0
    Junk = Junk
    BlockSize = 2
    NDirect = 1
    NBlocks = 10
    NMeta = 2
    NInodes = 4
    Procs = {p1, p2}
    Names = {"a", "b"}
    Bytes = {"x", "y"}
    Written = {"y"}
    Images <- SmallImages
    MaxWrite = 3
    MaxCalls = 4
    ZeroCell = ZeroCell
    None = None
INVARIANTS
    TreeIsCorrect
    WritesArePrivate PagesAreCounted ObjectsAreDisjoint
    SdIsFaithful
    ReadsBack BitmapIsExact DiskIsCurrent 
SYMMETRY Sym
CHECK_DEADLOCK FALSE
