SPECIFICATION Spec
CONSTANTS
    Wanted = {1, 2, 4}
    HistoryCap = 3
    Buffer = 1
    MaxAhead = 2
    MaxSeq = 4
    MaxRun = 2
    MaxConn = 3
INVARIANTS
    StreamInv
    NothingStranded
PROPERTY
    BacklogArrives
CHECK_DEADLOCK FALSE
