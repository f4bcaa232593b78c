\* Locks with two crashes, where the pid probe tells a dead owner; syncs with two
\* steps of the application; two steps on config.toml; patches of four lines.
CONSTANTS
    repair = repair
    switch = switch
    launch = launch
    manager = manager
    second = second
    launcher = launcher
    Ops = {repair, switch, launch}
    LauncherOps = {launch}
    Procs = {manager, second, launcher}
    ProcOf <- InThreeProcesses
    NoOp = NoOp
    NoPid = NoPid
    DeadMayLookAlive = FALSE
    LockMayAge = TRUE
    MaxCrashes = 2
    ThreadIds = {"t1", "t2"}
    NoId = ""
    TargetProviders = {"openai", "custom"}
    ColumnTexts = {"", "user", "none", "openai", "custom"}
    CatalogDBs = {"d1"}
    Ordinary = {"work", "play"}
    Scratch = {"tree"}
    RolloutChoices <- MCRollouts
    LineChoices <- MCLineChoices
    RootChoices <- MCRoots
    RowChoices <- MCRows
    MaxMoves = 2
    Ids = {"node_repl", "gh@m"}
    BareIds = {"node_repl"}
    Marketplaces <- MCMarketplaces
    CachedPlugins <- MCCached
    LiveChoices <- MCLive
    ProfileChoices <- MCProfiles
    CommonChoices <- MCCommon
    UserLines <- MCUserLines
    MaxConfigSteps = 2
    PatchLines <- MCPatchLines
    MaxPatchLines = 4

SPECIFICATION MCSpec
INVARIANTS
    MutationExclusive
    NoOrphanLock
    SurveyIsExact
    ConfigIsExact
    PatchesComeBack
PROPERTY StaleLockTakenOver
CHECK_DEADLOCK FALSE
