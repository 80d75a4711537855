\* Two requests at a time, of every kind, on one account.
SPECIFICATION Spec
SYMMETRY TokenSymmetry
CONSTANTS
    u1 = u1
    d1 = d1
    d2 = d2
    p1 = p1
    p2 = p2
    k1 = k1
    k2 = k2
    k3 = k3
    Users = {u1}
    Devices = {d1, d2}
    NoAgent = d2
    Tokens = {k1, k2}
    Procs = {p1, p2}
    Serves <- AllServe
    NewStatuses = {"active", "blocked"}
    MaxTime = 1
    AccessTtl = 1
    JTI_BLACKLIST_TTL = 1
    REFRESH_TOKEN_TTL = 1
    Null = Null
INVARIANTS
    TypeOK
    TokenOfItsDevice
    SessionsHaveUsers
    LoggedOutTokenRefused
PROPERTIES
    RefreshRevivesNothing
CHECK_DEADLOCK FALSE
