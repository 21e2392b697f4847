SPECIFICATION Spec
CONSTANTS
  Calls <- MCCalls
  InTime <- MCInTime
  MaxRx = 64
INVARIANTS
  ReportsOutcome
CHECK_DEADLOCK FALSE
