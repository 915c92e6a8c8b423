SPECIFICATION Spec
CONSTANTS
    Modes = {"plain", "tls", "starttls"}
    SendBuffer = 1
    MaxWriteQueue = 2
    WriteSizes = {1, 2}
    MaxOut = 4
    MaxIn = 2
INVARIANT
    SocketSafe
PROPERTIES
    CloseIsTold
    WritersGoOn
CHECK_DEADLOCK FALSE
