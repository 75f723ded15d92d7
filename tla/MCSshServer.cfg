CONSTANTS
  a1 = a1
  c1 = c1
  c2 = c2
  Addrs <- MCAddrs
  Conns <- MCConns
  MaxConnections = 1
  MaxChannels = 2
  RequestBuffer = 1
  MaxTries = 1
  HandshakeTimeout = 1
  IdleTimeout = 2
SPECIFICATION FairSpec
INVARIANTS TokensExact ClosedReported IdleBounded
PROPERTIES ListenersClose SlotReleased
CHECK_DEADLOCK FALSE
