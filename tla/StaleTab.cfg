SPECIFICATION MCSpec
CONSTANTS
    Loads = {"tabs"}
    u1 = u1
    u2 = u2
    m1 = m1
    s1 = s1
    s2 = s2
    k1 = k1
    p1 = p1
    p2 = p2
    e1 = e1
    t1 = t1
    t2 = t2
    n1 = n1
    n2 = n2
    r1 = r1
    r2 = r2
    d1 = d1
    f = f
    None = None
    Requests = {1, 2, 3}
    Sources = {n1, n2}
    MaxActive <- TwoRequests
    MaxPerSource <- OnePerSource
    MaxHashing = 1
    SharedLimiter = TRUE
    AccountKeys = {u1, u2}
    AddressKeys = {n1}
    Attempts = {r1, r2, r3}
    MaxAttempts = 1
    Window = 2
    LongWindow = 3
    FamiliarKeys = {u2}
    MaxKeys = 2
    Horizon = 3
    Uploads = {r1, r2, r3}
    BearerTokens = {v1, v2, v3}
    Old = v1
    New = v2
    Size = 1
    MaxBytes = 2
    MaxPending = 2
    MaxStaged = 3
    Parallel = 1
    Addresses = {1, 2, 3}
    Visits = {r1, r2}
    NoVisit = None
    Weights = {1, 2}
    Threshold = 2
    BlockTime = 1
    MaxSources = 2
    MaxTime = 2
    Owners = {u1}
    Bearers = {s1, s2}
    Credentials = {k1}
    Ceremonies = {1, 2, 3}
    SignIns = {r1, r2}
    NoOwner = None
    MaxPasskeys = 1
    CeremonyLife = 1
    MaxCount = 1
    MaxMoment = 1
    LoginRequests = {r1, r2}
    Nets = {n1, n2}
    Families = {f}
    Place <- PlaceOfNet
    NoPlace = 0
    FailedLimit = 2
    Lockout = 1
    HistoryLife = 1
    TokenLife = 1
    TravelTime = 1
    MaxSignIns = 2
    FailedBound = 3
    LastTime = 2
    Tabs = {t1, t2}
    MaxToken = 3
    MaxLogin = 2
    MaxTickets = 1
    MaxSuccessors = 2
    Accounts = {u1, u2}
    Mailboxes = {m1}
    NoMailbox = None
    Mails = {1, 2, 3}
    MailSlots = 1
    Workers = 1
    CodeAttempts = 2
    CodeLife = 1
    MaxPassword = 2
    RecoveryEnd = 1
    Recipients = {u1, u2}
    AlertBearers = {s1, s2}
    Phones = {p1, p2}
    Endpoints = {e1}
    Tasks = {d1}
    NoRecipient = None
    HourLimit = 2
    DayLimit = 3
    TargetLimit = 1
    Day = 2
    MaxGuesses = 2
    MaxEndpoints = 1
    MaxNotices = 1
    MaxIssued = 4
    MaxRows = 3
    MaxRowVersion = 2
    MaxHour = 4
CHECK_DEADLOCK FALSE
INVARIANT NoFalseTheft
