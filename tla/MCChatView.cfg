SPECIFICATION ViewSpec
CONSTANTS
    a = a
    b = b
    m1 = m1
    m2 = m2
    None = None
    Chats <- MCChats
    Messages <- MCMessages
    Own <- MCOwn
    Marks = {"edited", "deleted"}
    MaxEvents = 4
    MaxFlight = 2
SYMMETRY MCSymmetry
INVARIANTS
    ChatViewTypeOK
    ShownIsActive
    CachesAreTrue
    ViewConverges
    BadgeCountsOnce
CHECK_DEADLOCK FALSE
