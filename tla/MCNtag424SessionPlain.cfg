SPECIFICATION Spec
CONSTANTS
  w1 = w1
  k1 = k1
  k2 = k2
  NoRequest = NoRequest
  Writes <- MCWrites
  KeyNos <- MCKeyNos
  Keys <- MCKeys
  KeyChanges <- MCKeyChanges
  AuthDelayMaxRetries = 1
  MaxSessions = 2
  MaxCommands = 2
INVARIANTS
  EveryCommandCounted
CHECK_DEADLOCK FALSE
