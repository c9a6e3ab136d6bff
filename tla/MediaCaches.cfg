SPECIFICATION Spec
CONSTANTS
    Viewer = {v1, v2}
    Job = {j1, j2}
    None = None
    WaitLimit = 1
    IdleLimit = 1
    Slots = 1
INVARIANTS OneWriter WatchedIsKept EncodedOnce
PROPERTIES Answered AbandonedEnds
CHECK_DEADLOCK FALSE
