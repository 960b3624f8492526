\* Edits, deletions, pins and attachments of a group chat race.
SPECIFICATION MessagesSpec
CONSTANTS
    None = None
    Messages = {m1, m2}
    Files = {f1, f2}
    Reqs = {r1, r2}
    Group = TRUE
    MaxPins = 1
    MaxBegun = 5
SYMMETRY MCSymmetry
INVARIANTS
    MessagesTypeOK
    ShownFilesExist
    WipedUnlessContested
    NoLeakedBlobs
CHECK_DEADLOCK FALSE
