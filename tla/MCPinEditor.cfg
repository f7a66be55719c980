SPECIFICATION FairSpec
CONSTANTS
  p = p
  q = q
  food = food
  Places = {p, q}
  NoPlace = NoPlace
  Records = {}
  NoGenre = NoGenre
  MaxDrops = 2
  MaxPhotos = 2
  MaxSpots = 2
INVARIANTS TypeOK OneSpotPerPin SavedAtItsPin 
PROPERTY PhotoArrives
CHECK_DEADLOCK FALSE
