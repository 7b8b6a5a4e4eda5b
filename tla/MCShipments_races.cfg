SPECIFICATION Spec
CONSTANTS
    None = None
    Ids = {i1, i2}
    Customers = {c1, c2}
    Drivers = {d1, d2}
    Reqs = {r1, r2, r3}
    MaxCalls = 6
    MaxFailures = 1
SYMMETRY Symmetry
INVARIANTS
    TypeOK
    StatusFollowsDriver
PROPERTIES
    FirstClaimStands
    CancelledByOwner
CHECK_DEADLOCK FALSE
