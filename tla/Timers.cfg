SPECIFICATION FairSpec
CONSTANTS
    Nil = 0
    Cpus = {0, 1}
    Tasks = {1}
    Span = 2
    ELAPSE = 1
    HELLO = 3
    CLOCK = 2
INVARIANTS OnlyRunningIsTimed ClockIsArmed
PROPERTIES SlicesEnd
CHECK_DEADLOCK FALSE
