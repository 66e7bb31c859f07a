SPECIFICATION Spec
CONSTANTS
    w1 = w1
    w2 = w2
    a = a
    b = b
    NoHash = NoHash
    NoWriter = NoWriter
    Writers = {w1, w2}
    Rows = {a, b}
    MaxBatch = 2
    MaxTxns = 3
    LegacyRows = 1
    MayDisable = FALSE
    RepairLive = TRUE
SYMMETRY Symmetry
CHECK_DEADLOCK FALSE
INVARIANTS
    RepairBesideTheApp
