SPECIFICATION FairSpec
CONSTANTS
    None = None
    Customer = customer
    Phones = {p1}
    Roles = {customer}
    OtpIds = {o1, o2, o3, o4}
    UserIds = {u1}
    TokenIds = {t1, t2, t3}
    Reqs = {r1, r2}
    Ops = {"send", "verify", "select", "refresh", "logout"}
    MaxCalls = 4
    MaxFailures = 1
PROPERTIES
    EveryCallReturns
CHECK_DEADLOCK FALSE
