\* The replay of a missed-call message.
SPECIFICATION DeliverySpec
CONSTANTS
    alice = alice
    a1 = a1
    a2 = a2
    Users = {alice}
    Conns = {a1, a2}
    Owner <- MCOwner
    ConnLimit = 2
    MaxAge = 0
    MayStall = FALSE
    Recipient = alice
    LastId = 2
    System = {2}
    MaxWork = 3
INVARIANT
    MissedCallIsSeen
CHECK_DEADLOCK FALSE
