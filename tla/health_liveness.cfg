SPECIFICATION TimelessFairSpec
CONSTANTS
    NULL = NULL
    RetryDelay = 0
    MinSamples = 2
    ActiveUploadTicks = 1
    FailureCap = 1
    ChannelCount = 2
    Passes = {p1}
    Answers <- CircuitAnswers
    Uploads <- NoUploads
    WindowSize = 2
    MaxTime = 0
    MaxQueued = 2
    MaxRestarts = 1
PROPERTIES
    QueuedServed
    CircuitRecovers
