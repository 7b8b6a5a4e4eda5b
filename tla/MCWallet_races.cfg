SPECIFICATION Spec
CONSTANTS
    Users = {u}
    Reqs = {r1, r2, r3}
    Amounts = {1, 2}
    MaxCalls = 4
    MaxFailures = 2
INVARIANTS TypeOK NeverNegative Backed
SYMMETRY Symmetry
CHECK_DEADLOCK FALSE
