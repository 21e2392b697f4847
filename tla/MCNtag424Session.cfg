SPECIFICATION FairSpec
CONSTANTS
  w1 = w1
  k1 = k1
  k2 = k2
  NoRequest = NoRequest
  Writes <- MCWrites
  KeyNos <- MCKeyNos
  Keys <- MCKeys
  KeyChanges <- MCKeyChanges
  AuthDelayMaxRetries = 3
  MaxSessions = 2
  MaxCommands = 2
INVARIANTS
  TypeOK
  CounterNeverAhead
  AtMostOnce
  AckedExecuted
  ChangeKeyTruthful
  VerifiedInSync
  CountersAgree
  IInv
PROPERTIES
  KeepsPromise
  CallsReturn
CHECK_DEADLOCK FALSE
