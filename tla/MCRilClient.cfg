CONSTANTS
  Token = {t1, t2}
  NoToken = NoToken
  Loops = 2
  Tries = 2
SPECIFICATION FairSpec
INVARIANTS Lifetimes InitFirst CompletedOnce
 
