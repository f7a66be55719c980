SPECIFICATION Spec
CONSTANTS
  NoGenre <- MCNoGenre
  Genres <- MCFood
  Reparse <- MCReparse
  MaxSpot = 2
  MaxLoads = 2
INVARIANTS GenreListsAreSuffixes NoSpotIsMissing NoSpotTwice RowsMatchList
CHECK_DEADLOCK FALSE
