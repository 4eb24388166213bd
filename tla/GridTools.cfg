SPECIFICATION Spec
CONSTANTS
    s1 = s1
    s2 = s2
    g1 = g1
    g2 = g2
    Servers = {s1, s2}
    Copiers = {s1}
    Names = {g1, g2}
    Distances = {1, 2}
    MaxElements = 3
    MaxCreated = 1
    Displaced = {2}
    MaxAsked = 2
SYMMETRY MCSymmetry
INVARIANTS
    TypeOK
    KeptUnlessClash
    OneDistance
