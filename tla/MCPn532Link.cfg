SPECIFICATION FairSpec
CONSTANTS
  Calls <- MCCalls
  InTime <- MCInTime
  MaxRx = 64
INVARIANTS
  TypeOK
  OwnResponse
  AckUnderstood
  Truthful
  NothingLeft
  IInv
PROPERTIES
  ListedOnReport
  CallsReturn
CHECK_DEADLOCK FALSE
