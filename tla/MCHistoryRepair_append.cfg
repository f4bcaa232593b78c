SPECIFICATION Spec
CONSTANTS
    f1 = f1
    f2 = f2
    f3 = f3
    Files = {f1, f2}
    RaceWindow = FALSE
    MaxFaults = 1
    MaxWrites = 1
    MaxTasks = 1
PROPERTIES AppendsSurvive
