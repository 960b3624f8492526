SPECIFICATION ClientSpec
CONSTANTS
    ann = ann
    bob = bob
    None = None
    Users <- MCUsers
    Newcomers <- MCNewcomers
    Focuses <- MCFocuses
    MaxEvents = 5
    MaxAttempts = 2
INVARIANTS
    ClientTypeOK
    OwnKey
    VaultOpens
    LogoutIsFinal
    LockHolds
    NeverStranded
    MandatoryHolds
CHECK_DEADLOCK FALSE
