CONSTANTS
  MaxSingle = 4
  HeadSize = 3
  NoPacket = NoPacket
  MaxOpenDirs = 3
  MaxFileFd = 1
  FdLimit = 2
  FdFlags = 8
  MaxOpens = 3
  Lengths = {6, 8}
SPECIFICATION FileFairSpec
INVARIANTS PacketsWhole OwnHandle
PROPERTY FileAnswered
CHECK_DEADLOCK FALSE
