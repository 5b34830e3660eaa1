CONSTANTS
  Token = {t1, t2, t3, t4}
  NoToken = NoToken
  MaxChv = 3
SPECIFICATION Spec
SYMMETRY Symmetry
INVARIANTS EnoughAnswers RightRequest
