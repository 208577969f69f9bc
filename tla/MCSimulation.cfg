SPECIFICATION Spec
CONSTANTS
  N = 2
  Length = 3
  Scripts <- AllScripts
INVARIANTS
  TypeOK
  MessagesAreSaved
  OkMeansAllFinished
CHECK_DEADLOCK FALSE
