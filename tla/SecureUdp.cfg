CONSTANTS
  Addrs = {a, b}
  MaxAttempts = 2
  MaxCopies = 1
  MaxData = 2
  MayThrow = FALSE
  MaxPending = 1
  MaxSessions = 1
  Ttl = 0
  Window = 1
SPECIFICATION SecureUdpSpec
INVARIANT
    SecureSafe
PROPERTIES
    PeersKept
    OpenedOnce
CHECK_DEADLOCK FALSE
