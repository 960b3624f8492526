\* A user who is back online loses the call.
SPECIFICATION CallsSpec
CONSTANTS
    alice = alice
    bob = bob
    carol = carol
    k1 = k1
    k2 = k2
    None = None
    Users = {alice, bob}
    CallIds = {k1, k2}
    Caller <- MCSameCaller
    Callee <- MCSameCallee
    MaxEvents = 3
    MaxTalk = 2
PROPERTY
    TeardownOnlyWhenGone
CHECK_DEADLOCK FALSE
