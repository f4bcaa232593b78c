SPECIFICATION FairSpec
CONSTANTS
    f1 = f1
    f2 = f2
    f3 = f3
    Files = {f1, f2, f3}
    RaceWindow = FALSE
    MaxFaults = 2
    MaxWrites = 1
    MaxTasks = 2

INVARIANTS OutcomeTrue
PROPERTIES RepairsAreCareful TaskEnds
