SPECIFICATION Spec
CONSTANTS
    Request = {r1, r2}
    File = {f1, f2}
    Folder = {d1}
    Name = {a, b}
    Root = Root
    Bin = Bin
    None = None
SYMMETRY Symmetry
INVARIANTS RecordedInTrash NothingStranded
PROPERTIES OnlyNewcomersLost
CHECK_DEADLOCK FALSE
