SPECIFICATION FairSpec
CONSTANTS
  MaxIn = 3
  MaxOut = 3
  Abandons = FALSE
  Unknowns = FALSE
  Obedient = TRUE
PROPERTY
  OthersAreNotNeeded
CHECK_DEADLOCK FALSE
