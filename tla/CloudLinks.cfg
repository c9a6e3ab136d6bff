SPECIFICATION CloudSpec
CONSTANTS
    Request = {r1, r2}
    Monitor = Monitor
    Worker = Worker
    Drive = {d1, d2}
    Share = {n1}
    Session = {x1}
    Key = {k1, k2}
    FirstRequests = 3
    Requests = 1
    Faults = 1
    Nil = Nil
INVARIANTS RegisteredKnown NothingLeft FilesKept
PROPERTIES Heals
CHECK_DEADLOCK FALSE
