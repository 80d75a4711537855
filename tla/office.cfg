\* Each part of the office with its clients, one reviewer among them.
SPECIFICATION Spec
CONSTANTS
    i1 = i1
    i2 = i2
    i3 = i3
    i4 = i4
    p1 = p1
    p2 = p2
    p3 = p3
    f1 = f1
    f2 = f2
    t1 = t1
    Ids = {i1, i2, i3, i4}
    Procs = {p1, p2, p3}
    Fees = {f1, f2}
    Texts = {t1}
    Starts <- AllStarts
    Null = Null
INVARIANTS
    TypeOK
    OneFilePerCandidacy
    AuditComplete
    ContestedWasApproved
    OneStatusEach
PROPERTIES
    DecisionsDrain
    AmountIsFrozen
    RemovedGetsNoMore
CHECK_DEADLOCK FALSE
