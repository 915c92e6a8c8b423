SPECIFICATION Spec
CONSTANTS
    BufSize = 3
    InSize = 2
    CorkMax = 2
    MaxBody = 6
    Clients <- BigThenSmall
INVARIANT NothingLost
CHECK_DEADLOCK FALSE
