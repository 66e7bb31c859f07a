SPECIFICATION MCSpec
CONSTANTS
    ann = ann
    bob = bob
    Loads = {"rotation", "closing", "administration", "sweeping", "timed"}
    t1 = t1
    t2 = t2
    t3 = t3
    r1 = r1
    r2 = r2
    NoJti = NoJti
    Users = {ann, bob}
    Admins = {ann}
    Roles = {"admin", "user"}
    Jtis = {t1, t2, t3}
    Requests = {r1, r2}
    Kinds = {"refresh", "logout", "mutate", "step_up", "revoke_session", "logout_all", "change_password", "create_user", "delete_user", "change_role", "update_status"}
    AccessLife = 2
    AbsoluteLife = 3
    IdleLife = 2
    StepUpLife = 1
    ReuseGrace = 1
    MaxTime = 3
    LastSignIn = 0
    MaxDevices = 3
    SweepBatch = 1
    MaxVersion = 3
SYMMETRY Symmetry
CHECK_DEADLOCK FALSE
INVARIANTS
    OneLiveTokenPerDevice
    AnAdminRemains
PROPERTIES
    EndedIsFinal
    NoLateEffect
    ImplementsDeviceSessions
