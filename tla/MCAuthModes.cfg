SPECIFICATION ModesSpec
CONSTANTS
    None = None
    Customer = customer
    Phones = {p1, p2}
    Roles = {customer, driver}
    OtpIds = {o1, o2, o3}
    UserIds = {u1, u2}
    TokenIds = {t1, t2, t3}
    Reqs = {r1, r2}
    Ops = {"send", "verify", "select", "refresh", "logout"}
    MaxCalls = 6
    MaxFailures = 1
    OverlapCalls = 5
    OverlapOtps = 2
SYMMETRY Symmetry
INVARIANTS
    TypeOK
    OneUserPerPhone
    SignInsRecorded
    TokensHaveOwners
    AloneConsumedOnce
    AloneRotatedOnce
    AloneOneLiveOtp
    AloneClaimIsCurrent
CHECK_DEADLOCK FALSE
