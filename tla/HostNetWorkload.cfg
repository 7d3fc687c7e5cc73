SPECIFICATION Spec
CONSTANTS
    NoId = NoId
    Ids = {i1, i2, i3}
    Faults = {}
    MaxCrashes = 0

PROPERTIES
    RunningWorkloadKeepsBridge
