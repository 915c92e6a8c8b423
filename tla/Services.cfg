SPECIFICATION Spec
CONSTANTS
    MaxTime = 5
    MaxCalls = 4
    MinRequests = 2
    ThresholdNum = 1
    ThresholdDen = 2
    WindowMs = 2
    ResetMs = 2
    TimeoutMs = 2
    MaxHooks = 2
    Timeout = TRUE
    MaxFrames = 3
    MaxSends = 1
    MaxMessage = 2
    MaxEvents = 4
    MaxQueue = 2
    MaxArrivals = 4
    MaxPlugins = 4
    MaxRoutes = 1
    MayBeAsync = {1, 2}
    RouteMethods = {"GET", "HEAD", "OPTIONS"}
    RoutePaths <- SomeRoutes
    AskedPaths <- SomePaths
    ParamParts = {":x", ":y"}
    MaxTable = 2
    MaxParams = 1
    MaxChunks = 2
    MaxBytes = 4
    MaxSealed = 3
    MaxDatagrams = 6
    WindowSize = 2
CONSTRAINT
    FramesBound
INVARIANTS
    AdmissionCorrect
    RoutesCorrect
    RangeCorrect
    ReplayCorrect
PROPERTIES
    BreakerCorrect
    PipelineCorrect
    WebSocketCorrect
    
    ProxyCorrect
CHECK_DEADLOCK FALSE
