SPECIFICATION Spec
CONSTANTS
  N = 2
  Honest = {0}
  R = 1
  Stores <- OneReliable
  Values = {a, b}
  ByzMain <- EveryMain
  ByzEchoes <- EveryEcho
  U16 = 65536
  OwnDelivery = {}
  Duplicates = FALSE
  SendsFail = {}
  Careless = {}
  MaxCast = 2
INVARIANT
  NoRouterErrors
CHECK_DEADLOCK FALSE
