SPECIFICATION AutoSpec
CONSTANTS
    Week = 3
    Slots = 2
    Horizon = 6
    Schedules <- MCSchedules
    Pool = {p1}
    Job = {j1, j2}
    Faults = 1
    Nil = Nil
INVARIANTS NextIsFirst OneWaits
PROPERTIES AtMostOnce DueIsTaken
CHECK_DEADLOCK FALSE
