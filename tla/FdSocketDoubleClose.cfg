SPECIFICATION Spec
CONSTANTS
    k1 = k1
    k2 = k2
    r1 = r1
    r2 = r2
    None = None
    Conn = {k1, k2}
    Req = {r1, r2}
    File = {1, 2}
    Fd = {3, 4, 5}
    W = 3
    MaxFDs = 2
    MaxAncillary = 2
    Additional = {r1}

INVARIANTS
    LeakFdsOpen

CHECK_DEADLOCK FALSE
