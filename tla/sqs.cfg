SPECIFICATION Spec
CONSTANTS
    Bodies = {b1, b2}
    Groups = {g}
    Clients = {c1, c2}
    Pollers = {p1}
    Limits = {1, 2}
    Batch = 2
    MaxId = 3
    MaxCalls = 2
    MaxActive = 2
    MaxRare = 1
    None = None
INVARIANTS
    QueueInv
    NoMessageLost
    DeadLetterEarned
PROPERTIES
    FifoOrder
CHECK_DEADLOCK FALSE
SYMMETRY Symmetry
CONSTRAINT FewIds
