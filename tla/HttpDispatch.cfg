SPECIFICATION DispatchSpec
CONSTANTS
    Slots = {s1, s2}
    NoSlot = NoSlot
    IdSpace = 3
    MaxDispatch = 3
    MaxReady = 1
    RequestTimeout = TRUE
INVARIANTS
    PendingLive
    AwaitingRegistered
    RepliesMatch
PROPERTY
    SuspensionEnds
CHECK_DEADLOCK FALSE
