SPECIFICATION Spec
CONSTANTS
    User = {u1, u2}
    Group = {g1}
    Session = {s1, s2}
    Password = {admin, p1}
    Default = admin
    p1 = p1
    NewAccount <- MCNewAccount
    Edit <- MCEdit
    Handler = {h1, h2}
    None = none
SYMMETRY Symmetry
CHECK_DEADLOCK FALSE
INVARIANTS NobodyStuck
PROPERTIES GroupsWhole ImplementsDirectory PasswordKept
