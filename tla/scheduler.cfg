SPECIFICATION FairSpec
CONSTANTS
    Keys = {k1, k2}
    Entries = {e1, e2, e3}
    Inlines = {i1}
    Settlers = {s1}
    None = None
INVARIANTS
    DoneClosedOnce
    ReleasedNeverRuns
    NoOrphans
    StopIsFinal
    SettleSeesAll
PROPERTIES
    EverythingSettles
CHECK_DEADLOCK FALSE
