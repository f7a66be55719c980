SPECIFICATION FairSpec
CONSTANTS
  a = a
  b = b
  Uids = {a, b}
  NoUid = NoUid
  MaxCalls = 3
  MaxKills = 1
INVARIANTS TypeOK FirestoreWillFollow  TabsFollowAuth 
PROPERTIES  FirestoreConverges TabsConverge
CHECK_DEADLOCK FALSE
