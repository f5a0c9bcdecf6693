SPECIFICATION AnswersSpec
CONSTANTS
    NULL = NULL
    MaxAttempts = 2
    WindowTicks = 2
    LockTicks = 1
    Users = {u1, u2}
    Admins = {}
    Emails = {e1, e2}
    Passwords = {p1, p2}
    Logins = {l1}
    Requests = {r1}
    IdleTicks = 1
    AbsoluteTicks = 2
    MaxTime = 0
    MaxSessions = 1
    MaxGen = 1
PROPERTY AdmittedByCurrentPassword
PROPERTY Answered
