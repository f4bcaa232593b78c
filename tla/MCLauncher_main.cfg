SPECIFICATION MCSpec
CONSTANTS
    l1 = l1
    l2 = l2
    Launchers = {l1, l2}
    None = None
    MaxLaunches = 4
    MaxFaults = 1
    MaxAttempts = 3
    MaxTroubles = 5
INVARIANTS RestartsTakeTurns StatusSettles
PROPERTIES RequestsEnd BridgeComesBack
CHECK_DEADLOCK FALSE
