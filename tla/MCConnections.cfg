\* Presence and the registry under stalls and sweeps.
SPECIFICATION ConnFairSpec
CONSTANTS
    alice = alice
    a1 = a1
    a2 = a2
    a3 = a3
    Users = {alice}
    Conns = {a1, a2, a3}
    Owner <- MCOwner
    ConnLimit = 2
    MaxAge = 3
    MayStall = TRUE
INVARIANTS
    ConnTypeOK
    OnlineIsBacked
    CountIsExact
PROPERTIES
    EvictionNeedsStall
    LostUsersGoOffline
CHECK_DEADLOCK FALSE
