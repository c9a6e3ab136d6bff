SPECIFICATION Spec
CONSTANTS
    Request = {r1, r2}
    File = {f1, f2}
    Name = {n1}
    Backup = {b1}
    Id = {i1, i2, i3}
    None = None
SYMMETRY Symmetry
INVARIANTS BackupHolds OneInstalls RecordedIsThere
CHECK_DEADLOCK FALSE
