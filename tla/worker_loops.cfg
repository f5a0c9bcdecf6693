SPECIFICATION Spec
CONSTANTS
    NULL = NULL
    p1 = p1
    p2 = p2
    VideoIds = {v1}
    Pinned = {}
    Dates <- TheDates
    Counts = {1, 2}
    Hour = 2
    WarmInterval = 3
    OldInterval = 4
    HotAge = 1
    WarmAge = 5
    Limit = 1
    MaxClock = 5
    MaxCrashes = 1
    Providers = {"GEMINI"}
    Polls = {p1, p2}
    DayLength = 3
    DailySlot = 0
    WeekLength = 2
    WeeklySlot = 1
    RetryAfter = 1
    MemoryLimit = 1
    MaxTime = 2
    MaxRuns = 2
    MaxRestarts = 1
    WorkerIds = {"w1", "w2"}
    StaleAfter = 1
    ShutdownWait = 1
    LastInstant = 4
    Calls = {"c1", "c2", "c3"}
    MaxActive = 1
    MaxOutput = 1
    TimeoutAt = 1
SYMMETRY PollSymmetry
INVARIANT CurrentFigures
INVARIANT DoneMeansReported
INVARIANT HealthyMeansAlive
INVARIANT NothingLeaks
PROPERTY SnapshotsSpaced
PROPERTY ReportStands
CHECK_DEADLOCK FALSE
