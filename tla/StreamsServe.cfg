SPECIFICATION Spec
CONSTANTS
    Client = {c1}
    Sampling = {c1}
    None = None
    Cap = 3
    Chunks = 3
INVARIANTS EveryEventInOrder
PROPERTIES LeaverFreed
CHECK_DEADLOCK FALSE
