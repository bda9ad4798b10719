SPECIFICATION Spec
CONSTANTS
    t1 = t1
    t2 = t2
    t3 = t3
    None = None
    Timers = {t1, t2, t3}
    MaxIncarnation = 1
    MaxUpdates = 4
    MaxProbes = 2
    MaxHelps = 1
SYMMETRY MCSymmetry
INVARIANTS
    NoTimerEscapes
    SuspicionHasTimer
    NoAbandonedAck
    RingFollowsRegistry
CHECK_DEADLOCK FALSE
