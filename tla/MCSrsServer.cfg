CONSTANTS
  NoPeer = NoPeer
  Peer = {p1, p2}
  MaxFd = 2
  Buffer = 1
  MaxInd = 1
SPECIFICATION FairSpec
CHECK_DEADLOCK FALSE
INVARIANT ClientsKept
PROPERTY PingAnswered
