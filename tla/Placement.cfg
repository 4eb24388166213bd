SPECIFICATION Spec
CONSTANTS
    Walls <- MCWalls
    Columns <- MCColumns
    Shifts <- MCShifts
    MaxBuilt = 3
    Mm = 2
    MaxExtent = 5
CHECK_DEADLOCK FALSE
INVARIANTS
    BuiltAroundAxis
    CopiesAreShifted
