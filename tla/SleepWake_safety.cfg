SPECIFICATION Spec
CONSTANTS
    Procs = {p1, p2, p3}
    CPUs = {c1, c2}
    Root = p1
    None = None
    InitVal = 1
    MaxVal = 2
SYMMETRY Symmetry
INVARIANTS SemCount NoLostWakeup OneStackPerCPU QueueAgrees AssertsHold
PROPERTIES ImplementsSemaphore
