\* The keys of each operation, two requests at a time.
SPECIFICATION Spec
CONSTANTS
    Codes = {o1, o2}
    Procs = {p1, p2}
    RedisConf <- SmallConf
    MaxAborts = 1
    Null = Null
INVARIANTS
    TypeOK
    GuessesBounded
    CounterExpires
    CodeServesThoseInFlight
PROPERTIES
    LockEnds
