SPECIFICATION Spec
CONSTANTS
    Ops = {o1, o2}
    Blocks = {b1, b2}
    Vals = {v0, v1}
    V0 = v0
    NoVal = NoVal
    None = None
    OpMax = 2
    LogMax = 4
    LogSlots = 2
    Direct = {b1}
PROPERTIES AllOrNothing
CHECK_DEADLOCK FALSE
