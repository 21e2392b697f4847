SPECIFICATION Spec
CONSTANTS
  Calls <- SetupCalls
  InTime <- MCInTime
  MaxRx = 64
INVARIANTS
  AckUnderstood
CHECK_DEADLOCK FALSE
