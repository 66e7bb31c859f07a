SPECIFICATION Spec
CONSTANTS
    c1 = c1
    c2 = c2
    c3 = c3
    k1 = k1
    k2 = k2
    r1 = r1
    r2 = r2
    NoDevice = NoDevice
    NoKey = NoKey
    NoReq = NoReq
    Users = {1}
    Devices = {1, 2}
    UserOf <- OneUser
    Challenges = {c1, c2, c3}
    Prekeys = {k1, k2}
    Reqs = {r1, r2}
    MaxAvailable = 2
    MaxHistorical = 2
SYMMETRY Symmetry
CHECK_DEADLOCK FALSE
INVARIANTS
    TrustIsRooted
PROPERTIES
    BundlesAreSingleUse
