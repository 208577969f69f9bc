SPECIFICATION Spec
CONSTANTS
  MaxParties = 2
  Capacities = {1, 2}
  MaxSends = 3
INVARIANTS
  TypeOK
  IdsAreUnique
  GetsOwnMessagesInOrder
  NoSilentLoss
  CapacityIsEnough
  ClosedIsFinal
CHECK_DEADLOCK FALSE
