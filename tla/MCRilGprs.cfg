CONSTANTS
  Token = {t1, t2, t3}
  NoToken = NoToken
  ContextId = {x1, x2}
  Starting = Starting
  MaxConnections = 2
  MaxCmds = 3
CHECK_DEADLOCK FALSE
SPECIFICATION FairSpec
INVARIANTS TokensHeld NoOrphan TokenBacked
PROPERTY Answered
