SPECIFICATION Spec
CONSTANTS
    Slots = 3
    Files = {f1, f2}
    Threads = {t1, t2}
    Addresses = {a1, a2, a3}
    Null = Null
SYMMETRY Symmetric
INVARIANTS
    TypeOK
    NextIsFree
PROPERTY UnmapReleases
CHECK_DEADLOCK FALSE
