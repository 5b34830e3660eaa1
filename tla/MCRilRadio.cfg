CONSTANTS
  Token = {t1, t2, t3, t4}
  NoToken = NoToken
SPECIFICATION RadioSpec
SYMMETRY Symmetry
INVARIANTS RadioFollows TokensOnce NoneLost WaitsForReason
