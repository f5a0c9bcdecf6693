SPECIFICATION Spec
CONSTANTS
    NULL = NULL
    v1 = v1
    v2 = v2
    views1 = 5
    Videos = {v1, v2}
    Views = {5}
    Answers <- CatalogAnswers
    DayTicks = 2
    Boundary = 1
    StartTime = 1
    MaxTime = 3
    Workers = {w1, w2}
    ChannelCount = 1
    MaxRuns = 3
    MaxRestarts = 1
SYMMETRY WorkerSymmetry
CHECK_DEADLOCK FALSE
INVARIANT RunsTellTheTruth
INVARIANT CollectedWithinTheDay
INVARIANT CollectedOnce
PROPERTY EvidenceIsCanonical
