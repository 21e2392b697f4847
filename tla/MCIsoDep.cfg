SPECIFICATION FairSpec
CONSTANTS
  kMaxRetries = 2
  MaxAttempts = 3
  MaxBlocks = 2
  MCMinRoom = 1
  MCMaxRoom = 3
  Rooms <- MCRooms
  PollRunsOut = TRUE
  Disciplined = FALSE
  MaxCalls = 4
  MaxLosses = 4
INVARIANTS
  TypeOK
  CarriedOnce
  InStepAnswer
  StaysInStep
  IInv
PROPERTIES
  CallsReturn
CHECK_DEADLOCK FALSE
