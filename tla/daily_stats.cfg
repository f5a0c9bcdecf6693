SPECIFICATION MCSpec
CONSTANTS
    Main = w1
    NULL = NULL
    DayTicks = 2
    Boundary = 1
    StartTime = 1
    MaxTime = 3
    Workers = {w1, w2}
    ChannelCount = 1
    Counts = {7}
    RetryTicks = 2
    MaxRestarts = 1
CHECK_DEADLOCK FALSE
INVARIANT DeltasFromYesterday
PROPERTY RowsAreCanonical
PROPERTY FreezesFreshFigures
PROPERTY DoneMeansFrozen
