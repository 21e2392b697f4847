SPECIFICATION MemorySpec
CONSTANTS
  FileSize = 256
  NLens = {4, 53, 254, 300}
  Lengths = {3, 26, 255}
  Contents <- MCContents
  Datas <- MCDatas
  MaxSizes = {0, 64, 100, 300}
  MaxCalls = 2
  MaxFaults = 2
  Lens = {0, 1, 3, 4, 6, 7, 8, 22, 23, 35, 36, 39, 131, 132}
  DataLens = {48, 144}
  MaxUris = 2
  MaxUriFaults = 1
INVARIANTS
  TypeOK
  WrittenPrefix
  FormatErases
  ReadsMessage
  ReadsFile
  Completes
  ShortUriReadsBack
  WithinArea
PROPERTIES
  CallsReturn
CHECK_DEADLOCK FALSE
