SPECIFICATION Spec
CONSTANTS
    NULL = NULL
    MaxAttempts = 1
    WindowTicks = 2
    LockTicks = 1
    Users = {u1}
    Admins = {}
    Emails = {e1}
    Passwords = {p1, p2}
    Logins = {l1}
    Requests = {r1, r2}
    IdleTicks = 1
    AbsoluteTicks = 2
    MaxTime = 1
    MaxSessions = 1
    MaxGen = 2
SYMMETRY IdentitySymmetry
INVARIANT SessionsCurrent
PROPERTY RevocationFinal
PROPERTY ChangeByCurrentPassword
