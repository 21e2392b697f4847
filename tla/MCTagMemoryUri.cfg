SPECIFICATION MemorySpec
CONSTANTS
  FileSize = 256
  NLens = {4}
  Lengths = {3}
  Contents <- MCContents
  Datas <- MCDatas
  MaxSizes = {64}
  MaxCalls = 1
  MaxFaults = 0
  Lens = {1, 7, 8, 22, 23, 24, 37, 38}
  DataLens = {144}
  MaxUris = 1
  MaxUriFaults = 0
INVARIANTS
  UriReadsBack
CHECK_DEADLOCK FALSE
