SPECIFICATION FairSpec
CONSTANTS
  N = 3
  Honest = {0, 1, 2}
  R = 3
  Stores <- PropStores
  Values = {a}
  ByzMain <- None
  ByzEchoes <- None
  U16 = 65536
  OwnDelivery = {0}
  Duplicates = FALSE
  SendsFail = {}
  Careless = {}
  MaxCast = 2
INVARIANTS
  TypeOK
  HonestNeverFail
PROPERTY
  EveryoneFinishes
CHECK_DEADLOCK FALSE
