CONSTANTS
    Procs = {p1, p2, p3}
    Pairs = {k1, k2, k3}
    None = None
    Persistent = TRUE
    MaxRestarts = 1
SPECIFICATION Spec
SYMMETRY Symmetry
INVARIANTS KeysTypeOK PublishedCanSign AttestedCanSign SignsWithNamedKey
