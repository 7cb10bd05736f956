SPECIFICATION Spec
CONSTANTS
    Doc = {d1, d2}
    MayOffer <- Steady
    MaxText = 2
    MaxSpawned = 2
    MaxAttached = 2
    MaxQueued = 3
SYMMETRY Symmetry
INVARIANTS
    TypeOK
    NobodyConfused
    Mirrored
PROPERTIES
    ReadyHasTheText
    FollowsTheText
CHECK_DEADLOCK FALSE
