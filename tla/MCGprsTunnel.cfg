CONSTANTS
  Conn = {a, b}
  Thread = {t, u, v}
  NoConn = NoConn
  Nobody = Nobody
CHECK_DEADLOCK FALSE
SPECIFICATION TunnelFairSpec
INVARIANT StoppedQuiet
PROPERTY StopReturnsOrEmbrace
