SPECIFICATION Spec
CONSTANTS
    Keys = {c1, c2}
    Hot = {}
    Values = {v1, v2}
    Absent = Absent
    Prefixes = {{c1, c2}}
    Writers = {w1}
    ChunkMax = 1
    LogCap = 1
    MaxWrites = 3
    MaxCrashes = 1
    MaxFails = 1
INVARIANTS
    Durable
    OnlyCappedWritesAreLost
    ReadsCurrent
PROPERTY
    ImplementsPersistentKV
CHECK_DEADLOCK FALSE
