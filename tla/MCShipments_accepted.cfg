SPECIFICATION Spec
CONSTANTS
    None = None
    Ids = {i1}
    Customers = {c1, c2}
    Drivers = {d1, d2}
    Reqs = {r1, r2, r3}
    MaxCalls = 5
    MaxFailures = 0
SYMMETRY Symmetry
PROPERTIES
    AcceptedIsMine
CHECK_DEADLOCK FALSE
