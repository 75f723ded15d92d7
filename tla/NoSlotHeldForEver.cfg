CONSTANTS
  a1 = a1
  c1 = c1
  c2 = c2
  Addrs <- MCAddrs
  Conns <- MCConns
  MaxConnections = 1
  MaxChannels = 1
  RequestBuffer = 1
  MaxTries = 1
  HandshakeTimeout = 1
  IdleTimeout = 1
SPECIFICATION FairSpec
PROPERTY NoSlotHeldForEver
CHECK_DEADLOCK FALSE
