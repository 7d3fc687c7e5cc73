SPECIFICATION FairSpec
CONSTANTS
    NoPid = NoPid
    NoVM = NoVM
    VMs = {v1}
    Pids = {p1, p2}
    Callers = {g1, g2}
    TimerThreads = {t1}
    Deadlines = {TRUE, FALSE}
    Faults = {}
    MaxRestarts = 1
INVARIANTS
    SavedStateIsCurrent
PROPERTIES
    StopIsFinal
    RunEndsWithItsProcess
    ForcedStopReturns
    DeadlineIsEnforced
    ExitIsNoticed
