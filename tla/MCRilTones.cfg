CONSTANTS
  Token = {t1, t2}
  NoToken = NoToken
  CallId = {c1, c2}
  DialId = DialId
  NoId = NoId
  MaxCalls = 2
  MaxCmds = 2
  MayCross = FALSE
SPECIFICATION FairTonesSpec
INVARIANTS TonesAwaited ToneKnown
CHECK_DEADLOCK FALSE
PROPERTY AllAnswered
