SPECIFICATION Spec
CONSTANTS
    c1 = c1
    c2 = c2
    r1 = r1
    r2 = r2
    main = main
    bg = bg
    Conns = {c1, c2}
    Requests = {r1, r2}
    Pumps = {main, bg}
    QueueMax = 1
    BatchMax = 2
    Timeout <- MCTimeout
    Grace = 1
    Outcomes <- MCAllOutcomes
    Ack = Ack
    NoReq = NoReq
CHECK_DEADLOCK FALSE
SYMMETRY MCSymmetry
INVARIANTS
    TypeOK
    OnePlace
    AtMostOnce
    RepliesAreTrue
PROPERTIES
    SettledForGood
    ImplementsService
