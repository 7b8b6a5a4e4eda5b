SPECIFICATION Spec
CONSTANTS
    Users = {u}
    Reqs = {r1, r2}
    Amounts = {1}
    MaxCalls = 3
    MaxFailures = 0
INVARIANTS NoOverdraft
CHECK_DEADLOCK FALSE
