SPECIFICATION Spec
CONSTANTS
    Mappings = {m}
    Workers = {1, 2, 3}
    Invocations = {i1}
    Requests = {11, 12, 13}
    Retries = 1
    None = None
INVARIANT OneWorkerEach
CHECK_DEADLOCK FALSE
