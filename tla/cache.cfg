SPECIFICATION Spec
CONSTANTS
    p1 = p1
    p2 = p2
    p3 = p3
    c1 = c1
    c2 = c2
    c3 = c3
    c4 = c4
    Procs = {p1, p2, p3}
    Calls = {c1, c2, c3, c4}
    ReadOnly = {p3}
    ProcOf <- Owner
    NoCall = NoCall
SYMMETRY SameProcess
INVARIANTS
    FoundIsWhole
    InsertedIsKept
CHECK_DEADLOCK FALSE
