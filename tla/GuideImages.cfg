\* Two turns that list two files, while both may come and go.
SPECIFICATION Spec
CONSTANTS
  Files = {"image1", "image2"}
  Turns = {1, 2}
  CacheSeconds = 2
  MaxTime = 4
PROPERTIES
  OffersLagOneLifetime
CHECK_DEADLOCK FALSE
