\* An administrator, another user, and every route that changes an account.
SPECIFICATION Spec
SYMMETRY TokenSymmetry
CONSTANTS
    u1 = u1
    u2 = u2
    k1 = k1
    k2 = k2
    p1 = p1
    p2 = p2
    Users = {u1, u2}
    Seeded = u1
    Tokens = {k1, k2}
    Procs = {p1, p2}
    Serves <- TwoClients
    Keys = {"mobile", "back_office"}
    GivenRoles <- Lists
    GivenStatuses = {"active", "deleted"}
    MaxTime = 1
    JWT_TOKEN_EXPIRES_IN = 1
    JWT_TOKEN_EXPIRES_IN_ADMIN = 1
    Null = Null
    Gone = Gone
INVARIANTS
    TypeOK
PROPERTIES
    LostRightsDrain
    AdminsComeFromAdmins
    BansHold
CHECK_DEADLOCK FALSE
