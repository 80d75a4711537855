\* A mail and its retries, with two administrators and two crashes.
SPECIFICATION Spec
CONSTANTS
    Mails = {m1}
    Jobs = {j1, j2, j3}
    Rows = {e1, e2}
    Admins = {a1, a2}
    Attempts = 2
    MaxCrashes = 2
    Null = Null
INVARIANTS
    TypeOK
    NoMailLost
    OneRowPerMail
PROPERTIES
    AbandonDrains
    EveryMailSettles
CHECK_DEADLOCK FALSE
