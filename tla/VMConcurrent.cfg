SPECIFICATION Spec
CONSTANTS
    NoPid = NoPid
    NoVM = NoVM
    VMs = {v1}
    Pids = {p1, p2, p3}
    Callers = {g1, g2}
    TimerThreads = {t1}
    Deadlines = {TRUE, FALSE}
    Faults = {"save", "kill", "prepare", "slowExit"}
    MaxRestarts = 1
SYMMETRY MCSymmetry
INVARIANTS
    RecordsAgree
    NetworkFollowsWorkload
    GuestSurvivesCrash
PROPERTIES
    StaleDeadlineSparesLaterRun
    OnlyStaleStopsForgetGuests
    NetworkOutlastsGuest
