CONSTANTS
  Token = {t1, t2}
  NoToken = NoToken
  Plmn = {home, away}
  Mode = {"gsm"}
  MaxType = 2
  MaxEntries = 2
  MaxCmds = 2
SPECIFICATION FairSpec
INVARIANTS Awaited ListFromReport SettingsKept
PROPERTY SelectionAnswered
