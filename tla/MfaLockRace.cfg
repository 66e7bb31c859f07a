SPECIFICATION MCSpec
CONSTANTS
    Loads = {"guessing"}
    r1 = r1
    r2 = r2
    c1 = c1
    c2 = c2
    k1 = k1
    k2 = k2
    NoFactor = NoFactor
    NoChallenge = NoChallenge
    Requests = {r1, r2}
    Challenges = {c1, c2}
    Codes = {k1, k2}
    RecoveryCodes = 1
    LockoutAttempts = 2
    LockoutTime = 1
    MaxLockoutTime = 2
    ChallengeLife = 2
    Start = 2
    MaxTime = 4
    MaxSecrets = 2
    MaxVersion = 4
    MaxFailed = 4
SYMMETRY Symmetry
CHECK_DEADLOCK FALSE
PROPERTIES
    LockedRefusesStrangers
