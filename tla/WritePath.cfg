SPECIFICATION PathSpec
CONSTANTS
    Tls = TRUE
    AlertLen = 1
    MaxWriteQueue = 4
    WriteSizes = {0, 1, 2, 5}
    MaxBytes = 8
    MaxReqs = 3
    HighWater = 2
    ChunkSizes = {1, 3}
    HeadLen = 1
    EndLen = 1
    MaxChunks = 3
INVARIANTS
    WireIsPrefix
    BacklogCounted
    
PROPERTIES
    StreamSpec
    
CHECK_DEADLOCK FALSE
