CONSTANTS
  Token = {t1, t2, t3, t4, t5}
  NoToken = NoToken
  MaxSent = 5
SPECIFICATION FairSpec
INVARIANTS Awaited InFlight
PROPERTIES OutboxSafety Answered
