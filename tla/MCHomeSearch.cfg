SPECIFICATION Spec
CONSTANTS
  Terms <- MCTerms
  None = "none"
  Found <- MCFound
  Spots = {s1}
  MaxSearches = 2
  MaxUpdates = 2
  MaxFailures = 1
INVARIANTS
  TypeOK
  CalmSearchShowsItself
  
PROPERTIES
  SpinnersGo
  PinsAppear
CHECK_DEADLOCK FALSE
