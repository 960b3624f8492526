\* Two phones, two calls, broken lines.
SPECIFICATION CallsSpec
CONSTANTS
    alice = alice
    bob = bob
    carol = carol
    k1 = k1
    k2 = k2
    None = None
    Users = {alice, bob}
    CallIds = {k1, k2}
    Caller <- MCSameCaller
    Callee <- MCSameCallee
    MaxEvents = 2
    MaxTalk = 2
INVARIANTS
    CallsTypeOK
    MissedMeansUnanswered
    TalkingIsMutual
    NeverStuck
PROPERTIES
    NoSwitch
SYMMETRY MCSymmetry
CHECK_DEADLOCK FALSE
