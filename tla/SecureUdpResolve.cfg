CONSTANTS
  Addrs = {a}
  MaxAttempts = 1
  MaxCopies = 1
  MaxData = 0
  MayThrow = FALSE
  MaxPending = 2
  MaxSessions = 2
  Ttl = 3
  Window = 1
SPECIFICATION SecureUdpSpec
PROPERTY ResolvedIsLive
CHECK_DEADLOCK FALSE
