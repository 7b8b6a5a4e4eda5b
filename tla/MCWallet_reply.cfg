SPECIFICATION Spec
CONSTANTS
    Users = {u}
    Reqs = {r1}
    Amounts = {1, 2}
    MaxCalls = 3
    MaxFailures = 0
PROPERTIES ReplyIsStored
CHECK_DEADLOCK FALSE
