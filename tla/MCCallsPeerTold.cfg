\* A third user calls somebody who is in a call.
SPECIFICATION CallsSpec
CONSTANTS
    alice = alice
    bob = bob
    carol = carol
    k1 = k1
    k2 = k2
    None = None
    Users = {alice, bob, carol}
    CallIds = {k1, k2}
    Caller <- MCTwoCallers
    Callee <- MCSameCallee
    MaxEvents = 3
    MaxTalk = 2
PROPERTY
    PeerIsTold
CHECK_DEADLOCK FALSE
