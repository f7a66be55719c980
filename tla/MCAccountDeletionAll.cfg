SPECIFICATION Spec
CONSTANTS
  Me = "me"
  Other = "other"
  Nobody = "nobody"
  Collections = {"users"}
  MaxSpots = 1
  MaxFailures = 0
INVARIANTS
  AllDataDeleted
CHECK_DEADLOCK FALSE
