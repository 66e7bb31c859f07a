SPECIFICATION MCSpec
CONSTANTS
    Loads = {"turns", "days", "keys", "scripts", "callbacks", "tickets", "export", "findings", "text", "anchoring", "damage", "loop"}
    v1 = v1
    u1 = u1
    u2 = u2
    s1 = s1
    s2 = s2
    e1 = e1
    e2 = e2
    e3 = e3
    NoHash = NoHash
    None = None
    Owners = {v1}
    Sessions = {s1, s2}
    Turns = {c1, c2}
    Legacy = s1
    Quota = 4
    MaxChats = 1
    Slots = 1
    History = 2
    SecureDays = 2
    ConfidentialDays = 1
    MaxStamp = 3
    MaxClock = 2
    Conversations = {s1, s2}
    OldSession = s1
    Processes = {c1, c2}
    Msgs = {1, 2}
    OldMsg = 1
    MaxEpoch = 2
    MaxDek = 3
    Workers = {c1, c2}
    Nobody = None
    HasRedis = TRUE
    Interval = 2
    AlertLife = 1
    Alerts = {1}
    MaxLocalAlerts = 1
    MaxFaults = 2
    Events = {e1, e2, e3}
    People = {u1, u2}
    Out = None
    MaxRetained = 2
    MaxChange = 2
    Views = {"text", "entity", "token", "inner"}
    Whole = "text"
    Decoded <- DecodedInto
    Origin <- ComesFrom
    ViewSize <- Lengths
    Candidates <- Findable
    Removable = {"key"}
    MaxScan = 5
    MaxDepth = 2
    MaxViews = 3
    MaxChars = 20
    Procs = {e1, e2, e3}
    Endpoint = TRUE
    AnchorInterval = 1
    UnsealedRows = 0
    MayDamage = TRUE
    MaxEvents = 3
    MaxCrashes = 1
    Tickets = {e1, e2, e3}
    Logins = {s1}
    Calls = {e1, e2, e3}
    Life = 2
    StepUpLife = 3
    Retention = 2
    Private = TRUE
    Page = 2
    MaxRow = 5
    MaxVersion = 1
    MaxTicketTime = 3
    Kinds <- AuditEvents
    NoActor = 0
    Unknown = "unknown"
    Window = 1
    Failures = 2
    Accounts = 2
    Denials = 2
    Sources = 2
    Limit = 2
    MaxRecords = 3
    MaxMinute = 2
CHECK_DEADLOCK FALSE
SYMMETRY Symmetry
INVARIANTS
    ConsentCoversEgress
    ExchangeIsWhole
    EveryMessageOpens
    CallbacksKeepTheirLogin
    EgressIsInspected
    AnchorsAreEvidence
    LeadersDoNotOverlap
PROPERTIES
    RetentionIsKept
    TicketOpensOneExport
    EpisodesAreRuns
