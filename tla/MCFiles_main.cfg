SPECIFICATION MCSpec
CONSTANTS
    o1 = o1
    m1 = m1
    p1 = p1
    a1 = a1
    a2 = a2
    b1 = b1
    h1 = h1
    None = None
    Profiles = {o1, m1, p1}
    Logins = {a1, a2, b1}
    Accounts = {"a", "b"}
    AccountOf <- AccountsOfLogins
    ModeOf <- OneOfEachMode
    CatalogProfiles = {m1}
    Approvals = {h1}
    Unparsable = Unparsable
    NoConfig = NoConfig
    RaceWindow = FALSE
    MaxFaults = 2
    MaxOps = 3
    t1 = t1
    t2 = t2
    Commands = {k1, k2, k3}
    Handlers = {k3}
    NoCommand = NoCommand
    Threads = {t1, t2}
    Targets = {p1}
    NoTarget = NoTarget
    Databases = {1, 2}
    MaxFailures = 2
    MaxStarts = 2
    IndexThreads = {t1, t2}
    Foreign = Foreign
    NoFile = NoFile
    MaxLines = 3
    SessionIds = {1, 2, 3}
    Tables = {"threads", "automation_runs"}
    Keyed = {"threads"}
    Contents <- MCContents
    MsFrom = 1500
    MaxLimit = 2
    MaxOffset = 3
    Savers = {s1, s2}
    Options = {"relay", "proxy"}
    ForeignKeys = {"later"}
    NoSettings = NoSettings
    Blank = Blank
    Damaged = Damaged
    MaxSaves = 3
    MemberNames <- MCMemberNames
    Key = "namespace"
    Values <- MCValues
    MaxMembers = 3
    Called = {"x", "y"}
    NoId = NoId
    MaxItems = 5
INVARIANTS LoginInUseSurvives CatalogPresent FailedSwitchUndone CommandsEndTidily RecoveryIsKept PagesAreCuts ExactlyMatchesGo HistoryIsAccepted
PROPERTIES OthersUntouched OnlyConfirmedLeave SavesKeepTheRest
CHECK_DEADLOCK FALSE
