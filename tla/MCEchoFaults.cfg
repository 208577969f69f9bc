SPECIFICATION Spec
CONSTANTS
  N = 2
  Honest = {0, 1}
  R = 2
  Stores <- FaultStores
  Values = {a, b}
  ByzMain <- None
  ByzEchoes <- None
  U16 = 65536
  OwnDelivery = {}
  Duplicates = TRUE
  SendsFail = {0}
  Careless = {0}
  MaxCast = 2
INVARIANTS
  Agreement
  MismatchMeansDishonest
CHECK_DEADLOCK FALSE
