SPECIFICATION FairSpec
CONSTANTS
    Keys = {h1}
    Hot = {h1}
    Values = {v1}
    Absent = Absent
    Prefixes = {{h1}}
    Writers = {w1, w2}
    ChunkMax = 2
    LogCap = 1
    MaxWrites = 3
    MaxCrashes = 1
    MaxFails = 1
INVARIANTS
    HotReadsCurrent
    ReadYourWrites
PROPERTY
    EventuallyPersisted
CHECK_DEADLOCK FALSE
