SPECIFICATION Spec
CONSTANTS
    None = None
    Customer = customer
    Phones = {p1}
    Roles = {customer}
    OtpIds = {o1, o2}
    UserIds = {u1, u2}
    TokenIds = {t1, t2, t3}
    Reqs = {r1, r2}
    Ops = {"send", "verify"}
    MaxCalls = 4
    MaxFailures = 0
SYMMETRY Symmetry
INVARIANTS
    ConsumedOnce
CHECK_DEADLOCK FALSE
