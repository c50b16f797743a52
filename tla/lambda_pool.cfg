SPECIFICATION Spec
CONSTANTS
    Functions <- MCFunctions
    Configs <- MCConfigs
    NameOf <- MCNameOf
    MemoryOf <- MCMemoryOf
    ReservedOf <- MCReservedOf
    PinsOf <- MCPinsOf
    MaxWarm = 1
    MaxInstances = 2
    MaxPerFunction = 2
    MaxMemory = 3
    Targets = {1}
    Calls = {1, 2, 3, 4}
    Instances = {1, 2, 3}
    None = None
VIEW PoolView
CONSTRAINT FewAtOnce
INVARIANTS
    Ownership
    SlotBooks
    MemoryBooks
    OnDemandWithinBudget
    OnDemandWithinLimit
    SlotLimit
    QueuesJustified
CHECK_DEADLOCK FALSE
