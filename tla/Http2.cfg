SPECIFICATION Spec
CONSTANTS
    MaxStream = 2
    MaxConcurrent = 2
    ResetCap = 2
    RecvInitial = 4
    Default = 1
    MaxWindow = 2
    Windows = {0, 1}
    Increments = {0, 1}
    Payloads = {1, 4}
    MaxBody = 1
    BodyBudget = 1
    MaxQueue = 1
    Bodies = {0, 2}
    Chunks = {1}
    MaxMade = 1
    PumpMax = 2
    Names <- SomeNames
    Values <- SomeValues
    Static <- OneStatic
    Overhead = 2
    DynCap = 3
    HardMax = 6
    MaxList = 6
    NamesOfEvicted = FALSE
INVARIANTS
    StreamsAccounted
    ResponsesWhole
    NothingStarves
PROPERTIES
    NeverOversends
    HeadersInStep
CHECK_DEADLOCK FALSE
