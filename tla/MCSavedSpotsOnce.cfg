SPECIFICATION FairSpec
CONSTANTS
  NoGenre <- MCNoGenre
  Genres <- MCGenres
  Reparse <- MCReparse
  MaxSpot = 1
  MaxLoads = 1
INVARIANTS TypeOK RowsCanBeSelected ColorlessSpotsAreStray
PROPERTY SpotsGetShown
CHECK_DEADLOCK FALSE
