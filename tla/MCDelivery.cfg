\* Live delivery, the offline queue and receipts.
SPECIFICATION DeliveryFairSpec
CONSTANTS
    alice = alice
    a1 = a1
    a2 = a2
    Users = {alice}
    Conns = {a1, a2}
    Owner <- MCOwner
    ConnLimit = 2
    MaxAge = 2
    MayStall = TRUE
    Recipient = alice
    LastId = 2
    System = {2}
    MaxWork = 3
INVARIANTS
    DeliveryTypeOK
    NoLossWithoutCut
    SteadySocketIsServed
PROPERTIES
    ReceiptsOnlyAdvance
    QueueDrains
ACTION_CONSTRAINT MCBounds
CHECK_DEADLOCK FALSE
