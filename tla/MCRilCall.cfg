CONSTANTS
  Token = {t1, t2}
  NoToken = NoToken
  CallId = {c1, c2, c3}
  DialId = DialId
  NoId = NoId
  MaxCalls = 3
  MaxCmds = 2

SPECIFICATION Spec
SYMMETRY Symmetry

INVARIANTS
  TokensOnce
  DialSlot
  ViewAgrees
  TokenBacked
