SPECIFICATION Spec
CONSTANTS
  N = 3
  Me = 1
  Rounds = {0, 1, 2, 3}
  TypeOf <- CustomTypes
  Empty = {2, 3}
  Improper = {1, 3}
  Foreign = {0, 1, 2}
  OtherOutput = {0}
  OtherError = {1}
  Msg = {"a", "b"}
  Wire <- CustomWire
  MaxLog = 3
  MaxFeed = 0
INVARIANTS
  ReturnedFollowsLog
  OutcomeTakenOnce
PROPERTY
  OutcomeKept
CHECK_DEADLOCK FALSE
