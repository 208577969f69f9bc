SPECIFICATION RGSpec
CONSTANTS
  N = 3
  Honest = {0, 1}
  R = 2
  Stores <- MCStores
  Rand <- MCRand
  Values <- MCValues
  ByzMain <- MCMain
  ByzEchoes <- MCEchoes
  U16 = 65536
  OwnDelivery = {}
  Duplicates = FALSE
  SendsFail = {1}
  Careless = {}
  MaxCast = 2
INVARIANTS
  Agreement
  HashCoversOutput
  SameOutput
  NoHonestBlame
  FixedBeforeOpened
PROPERTY
  ImplementsReliableBroadcast
VIEW LiveView
CHECK_DEADLOCK FALSE
