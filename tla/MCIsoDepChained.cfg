SPECIFICATION Spec
CONSTANTS
  kMaxRetries = 2
  MaxAttempts = 6
  MaxBlocks = 2
  MCMinRoom = 3
  MCMaxRoom = 3
  Rooms <- MCRooms
  PollRunsOut = FALSE
  Disciplined = FALSE
  MaxCalls = 3
  MaxLosses = 0
INVARIANTS
  WholeResponse
CHECK_DEADLOCK FALSE
