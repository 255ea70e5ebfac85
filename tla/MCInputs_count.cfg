CONSTANTS
    p1 = p1
    p2 = p2
    u1 = u1
    u2 = u2
    i1 = i1
    i2 = i2
    Package = {p1, p2}
    Upload = {u1, u2}
    Job = {i1}
    Size <- MCSize
    ByteLimit = 4
    FileLimit = 1
    Retention = 1
SYMMETRY MCSymmetry
SPECIFICATION Spec
INVARIANT PackagesWithinLimit
