SPECIFICATION ChannelsSpec
CONSTANTS
    NULL = NULL
    RpmUnit = 2
    PaidChannels = {1}
    Rpms = {1}
    LastDay = 1
    MaxUpdates = 2
    ChannelsPerPage = 1
    MaxPages = 2
PROPERTY ReviewsMakeNewRows
CHECK_DEADLOCK FALSE
