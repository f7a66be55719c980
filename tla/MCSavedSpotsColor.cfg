SPECIFICATION Spec
CONSTANTS
  NoGenre <- MCNoGenre
  Genres <- MCFood
  Reparse <- MCReparse
  MaxSpot = 1
  MaxLoads = 1
INVARIANT EverySpotHasColor
CHECK_DEADLOCK FALSE
