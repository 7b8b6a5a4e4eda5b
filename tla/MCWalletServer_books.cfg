SPECIFICATION Spec
CONSTANTS
    alice = alice
    bob = bob
    a = a
    b = b
    Reqs = {r1, r2, r3}
    IPs = {a, b}
    NoReq = NoReq
    MaxReq = 2
    Window = 0
    MaxRestarts = 1
    Users = {alice, bob}
    Amounts = {1}
    MaxCalls = 3
    MaxFailures = 2
    Addrs <- MCAddrs
INVARIANTS BooksBalance OneAmountPerFailure
PROPERTIES AccountSpec
SYMMETRY Symmetry
