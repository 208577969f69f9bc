SPECIFICATION FairSpec
CONSTANTS
  N = 3
  Length = 3
  Scripts <- Rounds
INVARIANTS
  InboxFollowsSent
  VerdictIsRight
PROPERTY
  ReturnsExactlyWhenPossible
CHECK_DEADLOCK FALSE
