CONSTANTS
  Token = {t1, t2, t3}
  NoToken = NoToken
  DataWaiting = DataWaiting
  MaxCmds = 2
CHECK_DEADLOCK FALSE
SPECIFICATION FairSpec
INVARIANTS WaitsForReason OwnAnswer
PROPERTY InOrder
PROPERTY Answered
