SPECIFICATION Spec
CONSTANTS
    Ids = {v1, v2}
    Names = {n1, n2}
    Macs = {m1, m2}
    Disks = {d1, d2}
    UserData = {u1}
    Threads = {t1, t2}
    None = None
    MaxFailures = 1
    MaxWrites = 1
    MaxCrashes = 1
SYMMETRY MCSymmetry
CHECK_DEADLOCK FALSE
INVARIANTS
    IdentitiesUnique
    DisksAccounted
    SeedMatches
    CloneIsFaithful
