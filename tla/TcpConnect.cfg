SPECIFICATION Spec
CONSTANTS
    MaxAddrs = 3
    SyncFail = FALSE
INVARIANTS
    ConnectSafe
PROPERTY
    Settles
CHECK_DEADLOCK FALSE
