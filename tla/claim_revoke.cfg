SPECIFICATION ClaimSpec
CONSTANTS
    NULL = NULL
    MaxAttempts = 1
    WindowTicks = 2
    LockTicks = 1
    Users = {u1}
    Admins = {}
    Emails = {e1}
    Passwords = {p1}
    Logins = {l1}
    Requests = {}
    IdleTicks = 2
    AbsoluteTicks = 3
    MaxTime = 2
    MaxSessions = 2
    MaxGen = 0
PROPERTY OvertakenLoginRefused
