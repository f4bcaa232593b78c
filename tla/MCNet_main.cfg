SPECIFICATION MCSpec
CONSTANTS
    r1 = r1
    r2 = r2
    m1 = m1
    m2 = m2
    m3 = m3
    v1 = v1
    Absent = Absent
    Unreadable = Unreadable
    NoConversation = NoConversation
    Requests = {r1, r2}
    Relays = {m1, m2, m3}
    Conversations = {v1}
    ProxySettings <- MCSettings
    MaxBegun = 3
    MaxSaves = 1
    Indexes = {0, 1}
    ChatIds = {a1}
    CallIds = {c1}
    Functions = {f1}
    Customs = {u1}
    Compat = Compat
    None = None
    MaxChunks = 3
    Declarations <- MCDeclarations
    Edits = {"_add_file", "_batch"}
    MaxDeclared = 3
    Callers = {c1, c2}
    NoOne = NoOne
    BindingChoices <- MCBindings
    LoginChoices <- MCLogins
    Offers <- MCOffers
    NoDenial = NoDenial
    MaxChanges = 1
    MaxDenials = 2
    MaxMishaps = 1
INVARIANTS SharesAreFair WellFormed AgreesWithWhole CallsReachTheirTool DenialsHitTheDenied
PROPERTIES FailoverIsThorough StreamCompletesOnce
CHECK_DEADLOCK FALSE
SYMMETRY MCSymmetry
