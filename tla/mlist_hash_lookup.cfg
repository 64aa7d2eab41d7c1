SPECIFICATION BothSpec
CONSTANTS
  Code <- MCCode
  Word = 64
  Address <- MCAddress
  InitSize = 1
  MaxFailures = 0
  MaxLines = 4
INVARIANTS
  LookupFindsAdded
CHECK_DEADLOCK FALSE
