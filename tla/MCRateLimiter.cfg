SPECIFICATION SlowSpec
CONSTANTS
    Reqs = {r1, r2, r3}
    IPs = {a, b}
    NoReq = NoReq
    SlowIP = a
    MaxReq = 2
    Window = 1
    MaxRestarts = 1
INVARIANTS TypeOK OneServedPerIP WithinTwoFillings
PROPERTIES OthersAnswered
