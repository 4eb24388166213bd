SPECIFICATION FairSpec
CONSTANTS
    k1 = k1
    k2 = k2
    Calls = {k1, k2}
    MaxLinks = 2
CHECK_DEADLOCK FALSE
INVARIANTS
    TypeOK
    OneConnection
    NobodyStranded
    NoLeftovers
    SentAtMostOnce
    TryingUnlessCrashed
PROPERTIES
    ImplementsCalls
    EveryCallEnds
    Reconnects
