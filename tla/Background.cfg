SPECIFICATION MCSpec
CONSTANTS
    Loads = {"log", "anchoring", "mail", "loop", "turns"}
    p1 = p1
    p2 = p2
    v1 = v1
    v2 = v2
    NoHash = NoHash
    None = None
    Writers = {p1, p2}
    NoWriter = None
    Rows = {v1, v2}
    MaxBatch = 2
    MaxTxns = 2
    LegacyRows = 1
    MayDisable = TRUE
    RepairLive = FALSE
CHECK_DEADLOCK FALSE
PROPERTIES
    ImplementsSealedLog
    EveryAppendEnds
    EveryEventIsAnchored
    EverySlotReturns
    SweepsKeepComing
    EveryTurnEnds
