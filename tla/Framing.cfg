SPECIFICATION FairSpec
CONSTANTS
    handler = handler
    heartbeat = heartbeat
    short = short
    long = long
    huge = huge
    Writers = {handler, heartbeat}
    Frames = {short, long, huge}
    Size <- MCSize
    Header = 2
    MaxFrame = 3
    Capacity = 3
CHECK_DEADLOCK FALSE
INVARIANTS
    TypeOK
PROPERTIES
    ImplementsChannel
    Delivered
