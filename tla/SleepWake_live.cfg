SPECIFICATION FairSpec
CONSTANTS
    Procs = {p1, p2}
    CPUs = {c1, c2}
    Root = p1
    None = None
    InitVal = 0
    MaxVal = 1
PROPERTIES GrantedReturns RunnableRuns
