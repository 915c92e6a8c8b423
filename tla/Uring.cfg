SPECIFICATION Spec
CONSTANTS
    MaxConns = 2
    BufCount = 1
    SendBuffer = 1
    UringQueue = 2
    MaxOut <- UnitsSent
    MaxIn <- SegmentsSent
    BusyShutdown = FALSE
INVARIANT
    UringSafe
PROPERTY
    UringSettles
CHECK_DEADLOCK FALSE
