SPECIFICATION Spec
CONSTANTS
    Callers = {p1, p2, p3}
    NoCall = NoCall
    Keys = {k1, k2}
    MaxConcurrent = 1
    MaxQueued = 1
SYMMETRY AllSymmetry
INVARIANTS
    SingleFlight
    NoForeignCancel
    SlotsSafe
CHECK_DEADLOCK FALSE
