\* One request at a time; a voter is removed from the roll.
SPECIFICATION Spec
CONSTANTS
    u1 = u1
    u2 = u2
    e1 = e1
    e2 = e2
    c1 = c1
    c2 = c2
    r1 = r1
    r2 = r2
    p1 = p1
    p2 = p2
    Users = {u1}
    Elections = {e1}
    Candidacies = {c1}
    Scopes = {"moscou2026"}
    Receipts = {r1}
    Procs = {p1}
    Serves <- SerialServes
    Windows <- JustWindow
    MaxTime = 1
    MIN_APPROVED_CANDIDACIES = 1
    Null = Null
INVARIANTS
    TurnoutAtMostOne
CHECK_DEADLOCK FALSE
