SPECIFICATION PartsSpec
CONSTANTS
    Procs = {p1, p2, p3}
    NULL = NULL
    Keys = {1}
    Slots = 1
    SeqMod = 4
    MaxMsg = 2
    Types = {1, 2}
    Requests <- Asked
    Sizes = {1, 2}
    MaxQueues = 2
    MaxSends = 1
    Wild = Wild
    Others = {p1, p2, p3}
    Root = Root
    NoProc = NoProc
    MaxPid = 3
    Users = {u1}
    PipeFiles = {1, 2, 3}
    PipeFds = {0, 1, 2}
    PIPESIZE = 2
    Width = 4
    MaxBytes = 5
    MaxPipes = 2
    NoPipe = NoPipe
INVARIANTS
    ExactlyOnce NobodySleepsInVain IdsAreNotConfused
    TreeIsSound PidsAreUnique UnitsAreExits
    PipeIsFifo EndsAreKnown
PROPERTIES OldestFirst
SYMMETRY Symmetry
CHECK_DEADLOCK FALSE
