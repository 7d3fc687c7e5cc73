SPECIFICATION Spec
CONSTANTS
    Bridge = br0
    Members = {eth0, eth1}
    NoInterface = none
    Addresses = {a1, a2}
    Routes = {default, r2}
    Changes = {"create", "delete", "setUp", "setDown", "attach", "detach",
               "attachMigrate", "detachMigrate"}
SYMMETRY MCSymmetry
INVARIANTS
    RollbackIsExact
    RollbackSucceeds
    NothingLost
