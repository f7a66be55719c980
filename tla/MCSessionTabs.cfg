SPECIFICATION Spec
CONSTANTS
  a = a
  b = b
  Uids = {a}
  NoUid = NoUid
  MaxCalls = 2
  MaxKills = 1
PROPERTY TabsStartSignedIn
CHECK_DEADLOCK FALSE
