\* A database may be unreadable when it is counted.
CONSTANTS
    f1 = f1
    f2 = f2
    d1 = d1
    global = global
    openai = openai
    relay = relay
    Files = {f1, f2}
    DBs = {d1}
    Global = global
    Providers = {openai, relay}
    Raw = Raw
    Normal = Normal
    RaceWindow = FALSE
    ClockMayStepBack = FALSE
    CountMayFail = TRUE
    MaxFaults = 0
    MaxWrites = 0
    MaxRuns = 1
SPECIFICATION Spec
INVARIANT HonestOutcome
CHECK_DEADLOCK FALSE
