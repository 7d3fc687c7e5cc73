SPECIFICATION Spec
CONSTANTS
    Bridge = br0
    Members = {eth0}
    NoInterface = none
    Addresses = {a1}
    Routes = {default}
    Changes = {"create", "setDown"}
SYMMETRY MCSymmetry
INVARIANTS
    EveryChangeCanBeRolledBack
