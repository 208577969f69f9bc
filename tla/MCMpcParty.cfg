SPECIFICATION Spec
CONSTANTS
  N = 3
  Me = 1
  Rounds = {0, 1}
  TypeOf <- TwoRoundsTypes
  Empty = {}
  Improper = {}
  Foreign = {}
  OtherOutput = {}
  OtherError = {}
  Msg = {"a", "b"}
  Wire <- TwoRoundsWire
  MaxLog = 4
  MaxFeed = 1
INVARIANTS
  TypeOK
  RouterFollowsLog
  ReturnedFollowsLog
  EntriesNameSenders
  NeverWaitsInVain
  WitnessGuardsRound
  NothingUnflushedWhileWaiting
CHECK_DEADLOCK FALSE
