SPECIFICATION Spec
CONSTANTS
    o1 = o1
    m1 = m1
    p1 = p1
    a1 = a1
    a2 = a2
    b1 = b1
    h1 = h1
    None = None
    Profiles = {m1, p1}
    Logins = {a1, a2, b1}
    Accounts = {"a", "b"}
    AccountOf <- AccountsOfLogins
    ModeOf <- OneOfEachMode
    CatalogProfiles = {m1}
    Approvals = {h1}
    Unparsable = Unparsable
    NoConfig = NoConfig
    RaceWindow = FALSE
    MaxFaults = 0
    MaxOps = 3
PROPERTIES SwitchForgetsNoAccount
CHECK_DEADLOCK FALSE
