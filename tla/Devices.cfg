SPECIFICATION Spec
CONSTANTS
    VMs = {v1, v2}
    Guests = {v1}
    Addrs = {a1, a2}
    Logins = {l1, l2}
    Isos = {i1}
    Drives = {c1, c2}
    None = None
    MaxFailures = 2
    MaxRestarts = 1
SYMMETRY MCSymmetry
CHECK_DEADLOCK FALSE
INVARIANTS
    EndpointsReachable
    BMCMatchesRecord
    MediaMatchRecord
    OneShotIsOnce
