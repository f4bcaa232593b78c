\* Two I/O errors, one write per store, a crash or a retry: two runs.
CONSTANTS
    f1 = f1
    f2 = f2
    d1 = d1
    global = global
    openai = openai
    relay = relay
    Files = {f1, f2}
    DBs = {d1}
    Global = global
    Providers = {openai, relay}
    Raw = Raw
    Normal = Normal
    RaceWindow = FALSE
    ClockMayStepBack = FALSE
    CountMayFail = FALSE
    MaxFaults = 2
    MaxWrites = 1
    MaxRuns = 2
SPECIFICATION Spec
INVARIANTS HonestOutcome OneSetbackIsUndone ChangesAreBackedUp SessionAppendsSurvive
PROPERTIES KeepsPromise
CHECK_DEADLOCK FALSE
