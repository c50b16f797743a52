SPECIFICATION FairSpec
CONSTANTS
    t1 = t1
    n1 = n1
    Types = {t1, n1}
    Noise = {n1}
    All = All
    None = None
    Cascade <- MCCascade
    MaxSubs = 3
    Callers = {c1}
    Workers = {w1, w2}
    QueueSize = 1
    HistoryCap = 2
    MaxEvents <- MCMaxEvents
INVARIANTS
    NoGapNoDup
    NoiseGoesFirst
    StopDrainsQueue
PROPERTY
    EventuallyDelivered
CHECK_DEADLOCK FALSE
