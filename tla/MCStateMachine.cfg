SPECIFICATION Spec
CONSTANTS
  MaxIn = 4
  MaxOut = 4
  Abandons = TRUE
  Unknowns = TRUE
  Obedient = FALSE
INVARIANTS
  TypeOK
  OneTask
  ExactlyOnceInOrder
  UnknownFutureIsUnknown
  NeedsWhatIsAwaited
  NothingLeftBehind
CHECK_DEADLOCK FALSE
