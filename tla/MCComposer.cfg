SPECIFICATION ComposerSpec
CONSTANTS
    ann = ann
    me = me
    bob = bob
    Nil = Nil
    People <- MCPeople
    Creator = ann
    Founders <- MCFounders
    Keyed <- MCKeyed
    MaxMembers = 3
    Me = me
    Peer = bob
    MaxThoughts = 2
    MaxFiles = 1
    Focuses <- MCFocuses
INVARIANTS
    ComposerTypeOK
    KeysAreCurrent
    EnvelopesFit
    FilesFollow
    TextIsKept
PROPERTIES
    GroupIsKept
CHECK_DEADLOCK FALSE
