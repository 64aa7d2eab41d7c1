SPECIFICATION BothSpec
CONSTANTS
  Code <- MCCode
  Word = 64
  Address <- MCAddress
  InitSize = 1
  MaxLines = 6
  MaxFailures = 1
INVARIANTS
  BothTypeOK
  BucketsConsistent
  StoredOnce
  LossBounded
PROPERTIES
  SameAnswers ImplementsMailList
CHECK_DEADLOCK FALSE
