SPECIFICATION Spec
CONSTANTS
    Mappings = {m}
    Workers = {1, 2, 3}
    Invocations = {i1}
    Requests = {11, 12}
    Retries = 1
    None = None
INVARIANTS
    ESMInv
PROPERTIES
    NoAddAfterDrain
    ShutdownDrains
    OffFallsSilent
    OnIsServed
CHECK_DEADLOCK FALSE
