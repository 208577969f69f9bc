SPECIFICATION FairSpec
CONSTANTS
  MaxIn = 1
  MaxOut = 1
  Abandons = FALSE
  Unknowns = TRUE
  Obedient = TRUE
PROPERTY
  UnknownFutureAborts
CHECK_DEADLOCK FALSE
