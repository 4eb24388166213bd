SPECIFICATION MouseSpec
CONSTANTS
    w1 = w1
    w2 = w2
    a1 = a1
    Creates = {w1, w2}
    Changes = {a1}
    None = None
    MaxStarts = 2
    MaxInteractors = 3
CHECK_DEADLOCK FALSE
INVARIANTS
    TypeOK
    SpecsKept
    InsertedInOrder
    FailedOnMainLeavesNothing
    OkIsKept
    ActiveHasContext
PROPERTIES
    PendingSettles
