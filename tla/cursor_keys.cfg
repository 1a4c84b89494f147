SPECIFICATION SpecCursors
CONSTANTS
    p1 = p1
    p2 = p2
    Procs = {p1, p2}
    Keys = {k1, k2, k3, k4}
    MaxKeys = 3
    Retain = 2
    MaxAge = 2
    Skew = 1
    Offset <- MCOffset
    Interval = 2
    MaxTime = 8
    MaxCursors = 2
INVARIANTS RingInv 
SYMMETRY Symmetry
