SPECIFICATION FairSpec
CONSTANTS
    k1 = k1
    k2 = k2
    q1 = q1
    l1 = l1
    l2 = l2
    NoLink = NoLink
    Clients = {k1}
    Requests = {q1}
    Links = {l1}
    MaxStarts = 2
CHECK_DEADLOCK FALSE
PROPERTIES
    QueuedIsRun
    ClientsComeBack
