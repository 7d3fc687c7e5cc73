SPECIFICATION FairSpec
CONSTANTS
    NoId = NoId
    Ids = {i1, i2, i3}
    Faults = {"apply", "save", "remove"}
    MaxCrashes = 2
INVARIANTS
    ChangeIsRecoverable
PROPERTIES
    TimeoutHitsItsOwnChange
    IsTransactional
    UnconfirmedIsReverted
