\* One desk, with the commission, against candidates, voters and editors of the roll.
SPECIFICATION Spec
SYMMETRY DeskSymmetry
CONSTANTS
    u1 = u1
    u2 = u2
    e1 = e1
    e2 = e2
    c1 = c1
    c2 = c2
    r1 = r1
    r2 = r2
    p1 = p1
    p2 = p2
    Users = {u1, u2}
    Elections = {e1}
    Candidacies = {c1, c2}
    Scopes = {"moscou2026"}
    Receipts = {r1, r2}
    Procs = {p1, p2}
    Serves <- DeskServes
    Windows <- AnyWindow
    MaxTime = 2
    MIN_APPROVED_CANDIDACIES = 2
    Null = Null
INVARIANTS
    NeverApprovedAndRejected
PROPERTIES
    LifecycleForward
    ClosedElectionDrains
    ClosedRollDrains
    PublishedTallyDrains
CHECK_DEADLOCK FALSE
