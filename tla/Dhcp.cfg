SPECIFICATION Spec
CONSTANTS
    Macs = {m1, m2}
    Ids = {i1}
    Ranges <- MCRanges
    PoolOffset = 2
    LeaseTime = 2
    NoLease = NoLease
    NoRange = NoRange
    NoGrant = NoGrant
    NoAddress = NoAddress
    MaxTime = 3
    MaxFailures = 1
SYMMETRY MCSymmetry
INVARIANTS
    AddressesUnique
    OneLeaseUnlessShared
PROPERTIES
    GrantsLast
