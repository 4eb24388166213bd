SPECIFICATION Spec
CONSTANTS
    k1 = k1
    k2 = k2
    q1 = q1
    l1 = l1
    l2 = l2
    NoLink = NoLink
    Clients = {k1, k2}
    Requests = {}
    Links = {l1, l2}
    MaxStarts = 2
CHECK_DEADLOCK FALSE
SYMMETRY MCSymmetry
INVARIANTS
    TypeOK
    OneFreshListener
    QueueHasAPump
    AtMostOneLinkSurvives
