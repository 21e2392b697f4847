SPECIFICATION Spec
CONSTANTS
  kMaxRetries = 2
  MaxAttempts = 6
  MaxBlocks = 1
  MCMinRoom = 1
  MCMaxRoom = 1
  Rooms <- MCRooms
  PollRunsOut = FALSE
  Disciplined = FALSE
  MaxCalls = 3
  MaxLosses = 3
INVARIANTS
  OwnAnswer
CHECK_DEADLOCK FALSE
