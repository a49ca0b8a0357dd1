SPECIFICATION BothSpec
CONSTANTS
    j1 = j1
    j2 = j2
    t1 = t1
    t2 = t2
    Threads = {t1, t2}
    Burst = 2
    PerToken = 2
    Timeout = 1
    Parts = 2
    LastTime = 7
    MaxBuckets = 2
    None = None
INVARIANTS FailuresContained Conserved
PROPERTIES MirrorSpec CatchesUp
CHECK_DEADLOCK FALSE
