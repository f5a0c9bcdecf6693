SPECIFICATION Spec
CONSTANTS
    NULL = NULL
    RpmUnit = 2
    Hours <- HourWindows
    Week = 4
    WeekTolerance = 1
    AgeTolerance = 1
    BreakoutAge = 3
    Peers = 2
    MaxRead = 3
    MaxSnapshots = 3
    DayLength = 2
    Tolerance = 1
    MaxVideos = 2
    TopVideos = 2
    GroupIds = {g1, g2}
    Slugs = {"s"}
    ChannelIds = {c1, c2}
    Viewers = {"viewer"}
    Admin = "admin"
    Seeds = {"one", "two"}
    SeedEmails = {"a", "b"}
    OtherUsers = {"v"}
    Saves = {"first", "second"}
    KeyValues = {"k"}
    Flags = {TRUE}
    MaxSaves = 3
    ModelIds = {"m"}
    ServiceProviders = {"GEMINI", "NVIDIA"}
    ServiceRoles = {"FAST"}
    Calls = {"call", "other"}
    MaxSource = 2
    ScreenGroups = {"g"}
    ScreenChannels = {"c"}
    Panels = {"trends"}
    MaxBatches = 4
    TabUsers = {"u", "w"}
    MaxAnswers = 4
    ScreenUsers = {"u", "w"}
    GrantGroups = {"g"}
    PageSize = 1
    MaxVersions = 4
    ListedGroups = {"g", "h"}
    Contents = {"x", "y"}
    NoChannels = "x"
    MaxLoads = 2
    MaxChanges = 2
    PaidChannels = {1, 2}
    LastDay = 1
    Rpms = {1}
    MaxUpdates = 2
    ChannelsPerPage = 1
    MaxPages = 2
    TabProviders = {"GEMINI", "NVIDIA"}
    FirstTab = "GEMINI"
    MaxReads = 3
    RowChannels = {1, 2, 3}
    RowFigures = {1, 2}
    RowsPerRequest = 2
INVARIANT FiguresAddUp
INVARIANT AnswersParse
INVARIANT LeadersHold
INVARIANT PagesHold
INVARIANT ReportsHold
INVARIANT AiAnswersHold
INVARIANT AnswersWithinScope
INVARIANT OneAdministrator
INVARIANT ScreensShowTheirOwn
PROPERTY NothingUnasked
CHECK_DEADLOCK FALSE
