SPECIFICATION Spec
CONSTANTS
    Procs = {p1, p2}
    NInodes = 6
    Names = {a, b, Dot}
    Dot = Dot
    Files = {1}
    Fds = {0, 1}
    MaxCalls = 4
    NFILE = 2
    NULL = NULL
INVARIANTS RefsAreExact   
SYMMETRY Symmetry
CHECK_DEADLOCK FALSE
