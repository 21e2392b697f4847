SPECIFICATION Spec
CONSTANTS
  kMaxRetries = 2
  MaxAttempts = 3
  MaxBlocks = 1
  MCMinRoom = 1
  MCMaxRoom = 1
  Rooms <- MCRooms
  PollRunsOut = TRUE
  Disciplined = TRUE
  MaxCalls = 5
  MaxLosses = 5
PROPERTIES
  KeepsContract
CHECK_DEADLOCK FALSE
