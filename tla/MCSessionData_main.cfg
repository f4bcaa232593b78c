SPECIFICATION MCSpec
CONSTANTS
    f1 = f1
    w1 = w1
    w2 = w2
    d1 = d1
    d2 = d2
    s1 = s1
    s2 = s2
    b0 = b0
    Deletes = {d1, d2}
    Undos = {u1}
    Moves = {m1}
    Page = page
    Manager = manager
    Places <- RowPlaces
    Files = {f1}
    Named = {f1}
    Canonical = {f1}
    Cwds = {w1, w2}
    Projectless = projectless
    Lines = {1}
    Gone = Gone
    Torn = Torn
    None = None
    MaxFaults = 1
    MaxBegun = 3
    MaxBusy = 2
    Missing = Missing
    HalfDone = HalfDone
    SkillCommands = {s1, s2}
    BackupIds = {b0, b1, b2}
    Old = b0
    SkillDirs <- MCSkillDirs
    Versions = {version}
    MaxEdits = 1
    MaxSkillCommands = 2
INVARIANTS Recoverable RestoreIsReversible
PROPERTIES RoundTrip AnswersAreTrue
CHECK_DEADLOCK FALSE
SYMMETRY Twins
