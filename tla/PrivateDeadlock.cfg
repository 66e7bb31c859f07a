SPECIFICATION MCSpec
CONSTANTS
    Loads = {"devices"}
    d1 = d1
    d2 = d2
    d3 = d3
    t1 = t1
    t2 = t2
    v1 = v1
    v2 = v2
    v3 = v3
    NoDevice = NoDevice
    NoTxn = NoTxn
    Users = {1, 2, 3}
    Admins = {3}
    Sessions = {1, 2}
    Devices = {d1, d2, d3}
    UserOf <- DeviceOwners
    Txns = {t1, t2}
    Ops = {"add", "remove", "send", "security", "delete_session", "revoke", "suspend", "reactivate", "delete_user"}
    MaxEpoch = 4
    MaxMessages = 1
SYMMETRY Symmetry
CHECK_DEADLOCK FALSE
INVARIANTS
    NoCircularWait
