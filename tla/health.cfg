SPECIFICATION ScenarioSpec
CONSTANTS
    NULL = NULL
    RetryDelay = 1
    MinSamples = 2
    ActiveUploadTicks = 1
    FailureCap = 2
    ChannelCount = 1
    Passes = {p1, p2}
    Answers <- KeyAnswers
    Uploads <- OneUpload
    WindowSize = 2
    MaxTime = 3
    MaxQueued = 0
    MaxRestarts = 1
SYMMETRY PassSymmetry
INVARIANT DeletionConfirmed
INVARIANT RowCoherent
INVARIANT FirstUnavailableRecorded
INVARIANT LonePasses
PROPERTY CircuitBlocksDeletion
