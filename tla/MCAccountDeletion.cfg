SPECIFICATION Spec
CONSTANTS
  Me = "me"
  Other = "other"
  Nobody = "nobody"
  Collections = {"users"}
  MaxSpots = 1
  MaxFailures = 2
INVARIANTS
  TypeOK
  OthersUntouched
  
PROPERTIES
  DeletionLeavesProfile
CHECK_DEADLOCK FALSE
