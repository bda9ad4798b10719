SPECIFICATION Spec
CONSTANTS
    k1 = k1
    k2 = k2
    k3 = k3
    p1 = p1
    p2 = p2
    None = None
    Keys = {k1, k2, k3}
    Procs = {p1, p2}
    Capacity = 2
    DefaultTTL = 1
    TTLs = {1}
    RequestTimeout = 1
    MaxPause = 1
    MaxTime = 2
    MaxCalls = 4
    MaxVersions = 2
SYMMETRY MCSymmetry
INVARIANTS
    L1IsLRU
    
    
CHECK_DEADLOCK FALSE
