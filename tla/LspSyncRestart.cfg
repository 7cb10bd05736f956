SPECIFICATION FairSpec
CONSTANTS
    Doc = {d1}
    MayOffer <- Steady
    MaxText = 2
    MaxSpawned = 3
    MaxAttached = 2
    MaxQueued = 3
INVARIANTS
    FailureIsShown
    UsedIsNotIdle
PROPERTIES
    HandshakeEnds
    EditsArrive
CHECK_DEADLOCK FALSE
