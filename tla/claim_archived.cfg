SPECIFICATION HealthOnlySpec
CONSTANTS
    NULL = NULL
    RetryDelay = 2
    MinSamples = 2
    ActiveUploadTicks = 1
    FailureCap = 2
    ChannelCount = 1
    Passes = {p1}
    Answers <- KeyAnswers
    Uploads <- NoUploads
    WindowSize = 2
    MaxTime = 3
    MaxQueued = 0
    MaxRestarts = 1
INVARIANTS
    ArchivedStaysArchived
