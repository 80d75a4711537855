\* Two clients for what leads to votes and away from them, in two elections.
SPECIFICATION Spec
SYMMETRY OpenSymmetry
CONSTANTS
    u1 = u1
    u2 = u2
    e1 = e1
    e2 = e2
    c1 = c1
    c2 = c2
    r1 = r1
    r2 = r2
    p1 = p1
    p2 = p2
    Users = {u1}
    Elections = {e1, e2}
    Candidacies = {c1, c2}
    Scopes = {"moscou2026", "moscou2027"}
    Receipts = {r1, r2}
    Procs = {p1, p2}
    Serves <- OpenServes
    Windows <- JustWindow
    MaxTime = 1
    MIN_APPROVED_CANDIDACIES = 1
    Null = Null
INVARIANTS
    OneVotePerVoter
    OneRowPerKey
    BallotInItsElection
PROPERTIES
    KeepsBallotBox
    ReviewDrains
CHECK_DEADLOCK FALSE
