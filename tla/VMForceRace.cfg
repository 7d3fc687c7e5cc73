SPECIFICATION Spec
CONSTANTS
    NoPid = NoPid
    NoVM = NoVM
    VMs = {v1}
    Pids = {p1, p2}
    Callers = {g1}
    TimerThreads = {t1}
    Deadlines = {TRUE}
    Faults = {}
    MaxRestarts = 0
SYMMETRY MCSymmetry
INVARIANTS
    GuestKeepsNetwork
