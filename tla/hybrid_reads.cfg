SPECIFICATION ReadsSpec
CONSTANTS
    Keys = {c1, c2}
    Hot = {}
    Values = {v1}
    Absent = Absent
    Prefixes = {{c1, c2}}
    Writers = {w1}
    Readers = {r1}
    ChunkMax = 1
    LogCap = 1
    MaxWrites = 3
    MaxCrashes = 1
    MaxFails = 1
    MaxReads = 1
INVARIANT
    ReadIsCurrentPerKey
CHECK_DEADLOCK FALSE
