SPECIFICATION SdSpec
CONSTANTS
    Callers = {k1, k2}
    SdBlocks = {s1, s2}
    Words = {w0, w1}
    Zero = w0
    Junk = Junk
INVARIANTS SdrwWaits
