SPECIFICATION Spec
CONSTANTS
    Ops = {o1, o2}
    Blocks = {b1, b2, b3}
    Vals = {v0, v1}
    V0 = v0
    NoVal = NoVal
    None = None
    OpMax = 1
    LogMax = 3
    LogSlots = 2
    Direct = {b1}
INVARIANTS SlotsSuffice
CHECK_DEADLOCK FALSE
