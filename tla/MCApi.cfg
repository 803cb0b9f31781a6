SPECIFICATION ApiSpec
CONSTANTS
    Operators = {"ann", "bo"}
    Superadmins = {"ann"}
    Limits = {"l1", "l2"}
    Edits <- MCEdits
    MaxRequests = 3
    MaxLives = 2
    MaxCameraTrouble = 1
    People = {"ann", "bo"}
    ModelIds = {"b", "u", "v"}
    TopLevel = {"b"}
    Contents = {"onnx"}
    Good = {"onnx", "weights"}
    Converted = "onnx"
    MaxModelCalls = 3
    MaxModelTrouble = 1
    Clips = {"e1"}
    MaxAttempts = 2
    MaxKeeps = 2
    MaxDiskTrouble = 1
    Pdfs = {"j1", "j2"}
    MaxPrints = 2
    MaxPdfTrouble = 2
    Users = {"ann", "bo"}
    Sessions = {"s1", "s2"}
    Callers = {"r1", "r2"}
    FirstSuperadmins = {"ann"}
    MaxAccountCalls = 3
    MaxAccountTrouble = 1
    RoomSockets = {"a", "b", "c"}
    Viewers = {"x", "y", "z"}
    Relays = {"k1", "k2", "k3"}
    MaxWire = 4
    MaxChannelTrouble = 2
    RowIds = {1, 2, 3, 4}
    RowTimes = {1, 2}
    PageSize = 2
    MaxPageTrouble = 1
    Instants <- MCInstants
    Edges = {0, 1, 5, 8, 10, 14}
    Clocks = {7, 15}
    Zones <- MCZones
    Step <- MCStep
    MaxRange <- MCMaxRange
    Attempts = {"a", "b"}
    LockoutFailures = 1
    MaxGuesses = 4
    MaxLogFailures = 1
    TokenUsers = {"q"}
    Concerns = {"boxA", "counts"}
    MaxCommits = 3
    ListTicks = 3
    MaxLate = 1
    MaxPushTrouble = 2
    DayLength = 6
    Opening = 1
    Closing = 5
    Pause = 1
    Days <- MCDays
    Downtime = 2
    Start = 8
    BackfillDays = 1
    Jumps <- MCJumps
    MaxTime = 12
    MaxChanges = 1
    Retentions = {1, 2}
    DefaultDays = 0
    SiteCameras = {"c"}
    Patchers = {"p1", "p2"}
    LastDay = 3
    MaxSiteTrouble = 1
    Folders <- MCFolders
    Volumes = {"v1", "v2"}
    Usages = {80, 84, 90, 97}
    MaxReadings = 4
    MaxDiskFailures = 1
INVARIANTS ApiTypeOK PathFollowsRow RowsHaveFiles NobodyGetsIn DashboardsHear
    ReportsAreRight DemoIsConsistent SiteIsKept
PROPERTIES VersionsKept ModelsStand LastSuperadminStays
CHECK_DEADLOCK FALSE
