SPECIFICATION Spec
CONSTANTS
    Runs = {1, 2}
    Sessions = {1, 2, 3}
    Clients = {c1, c2}
    NoClient = NoClient
    HistoryLimit = 1
    QueueLimit = 2
    MaxOutput = 3
    MaxRestarts = 1
SYMMETRY MCSymmetry
CHECK_DEADLOCK FALSE
INVARIANTS
    DeliveredInOrder
    StoppedHoldsNothing
    RunHasItsConsole
    ReaderNeverWaits
