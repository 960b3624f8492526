\* What a watcher is shown of another user's presence.
SPECIFICATION FanoutSpec
CONSTANTS
    alice = alice
    bob = bob
    a1 = a1
    a2 = a2
    b1 = b1
    Users = {alice, bob}
    Conns = {a1, a2, b1}
    Owner <- MCOwner
    Watches <- MCWatches
    ConnLimit = 2
    MaxAge = 2
    MayStall = FALSE
INVARIANTS
    FanoutTypeOK
    ViewIsCurrent
    FramesAgree
CHECK_DEADLOCK FALSE
