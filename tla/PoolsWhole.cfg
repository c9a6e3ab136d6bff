SPECIFICATION Spec
CONSTANTS
    Name = {n1, n2}
    Device = {d0, d1, d2}
    System = {d0}
    Pool = {p1, p2}
    Uuid = {u1, u2}
    Handler = {h1, h2}
    None = none
    Root = root
    Apart = TRUE
SYMMETRY Symmetry
CHECK_DEADLOCK FALSE
INVARIANTS SoundPools SystemDiskKept DeletedClean
PROPERTIES RegisteredKept
