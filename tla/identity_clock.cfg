SPECIFICATION Spec
CONSTANTS
    NULL = NULL
    MaxAttempts = 2
    WindowTicks = 2
    LockTicks = 1
    Users = {u1}
    Admins = {u1}
    Emails = {e1}
    Passwords = {p1, p2}
    Logins = {l1, l2}
    Requests = {r1}
    IdleTicks = 2
    AbsoluteTicks = 3
    MaxTime = 4
    MaxSessions = 1
    MaxGen = 0
SYMMETRY IdentitySymmetry
INVARIANT LimitLocks
INVARIANT SessionExpiry
PROPERTY NoLoginWhileLocked
PROPERTY LockHolds
