SPECIFICATION Spec
CONSTANTS
  p = p
  q = q
  food = food
  Places = {p, q}
  NoPlace = NoPlace
  Records = {}
  NoGenre = NoGenre
  MaxDrops = 2
  MaxPhotos = 1
  MaxSpots = 2
INVARIANT PhotosAreTheirSpots
CHECK_DEADLOCK FALSE
