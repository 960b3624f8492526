\* An edit of a direct message races its deletion.
SPECIFICATION MessagesSpec
CONSTANTS
    None = None
    Messages = {m1}
    Files = {}
    Reqs = {r1, r2}
    Group = FALSE
    MaxPins = 1
    MaxBegun = 3
INVARIANT DeletedIsWiped
CHECK_DEADLOCK FALSE
