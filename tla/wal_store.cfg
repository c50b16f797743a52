SPECIFICATION FairSpec
CONSTANTS
    Keys = {k1, k2}
    Values = {v1}
    Absent = Absent
    Prefixes = {{k1, k2}}
    Writers = {w1, w2}
    SyncModes = {"always", "interval", "never"}
    MaxLog = 2
    MaxWrites = 3
    MaxCrashes = 1
    MaxFails = 1
INVARIANTS
    RecoversMemory
    CleanLogIsSynced
PROPERTY
    EventuallySynced
CHECK_DEADLOCK FALSE
