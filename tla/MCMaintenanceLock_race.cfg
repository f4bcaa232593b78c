\* The takeover race within two minutes.
CONSTANTS
    repair = repair
    switch = switch
    launch = launch
    manager = manager
    second = second
    launcher = launcher
    Ops = {repair, switch, launch}
    LauncherOps = {launch}
    Procs = {manager, second, launcher}
    ProcOf <- InThreeProcesses
    NoOp = NoOp
    NoPid = NoPid
    DeadMayLookAlive = FALSE
    LockMayAge = FALSE
    MaxCrashes = 1

SPECIFICATION Spec
PROPERTY LiveLockKept
CHECK_DEADLOCK FALSE
