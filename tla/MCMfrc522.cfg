SPECIFICATION Spec
CONSTANTS
  a = a
  b = b
  c = c
  Tags <- MCTags
  Uid <- MCUid
  Iso4 <- MCIso4
  Noise = {8, 16}
  Together <- MCTogether
INVARIANTS
  TypeOK
  Refound
  LinkReady
  AnsweredByTold
PROPERTIES
  ReadsOneTag
  CallsReturn
