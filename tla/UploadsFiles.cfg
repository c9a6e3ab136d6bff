SPECIFICATION Spec
CONSTANTS
    u1 = u1
    u2 = u2
    t1 = t1
    Upload = {u1}
    Length <- MCLength
    Target = {t1}
    Cloud = cloud
    Handler = {h1, h2}
    Lock = {k1, k2, k3}
    None = none
    MaxCrashes = 1
    MaxQueue = 2
SYMMETRY Symmetry
CHECK_DEADLOCK FALSE
INVARIANTS OffsetIsBacked DeliveredIsWhole LockedIsPatched PatchesExclusive
PROPERTIES ImplementsDelivery
