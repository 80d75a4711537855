\* Somebody signs in twice from the same device.
SPECIFICATION Spec
CONSTANTS
    u1 = u1
    d1 = d1
    d2 = d2
    p1 = p1
    p2 = p2
    k1 = k1
    k2 = k2
    k3 = k3
    Users = {u1}
    Devices = {d1, d2}
    NoAgent = d2
    Tokens = {k1, k2}
    Procs = {p1}
    Serves <- SerialServe
    NewStatuses = {"active", "blocked"}
    MaxTime = 3
    AccessTtl = 1
    JTI_BLACKLIST_TTL = 1
    REFRESH_TOKEN_TTL = 1
    Null = Null
INVARIANTS
    OneSessionPerDevice
CHECK_DEADLOCK FALSE
