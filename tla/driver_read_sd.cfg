SPECIFICATION Spec
CONSTANTS
  Writers = {w1}
  Readers = {r1}
  VSIZE = 2
  SIZE = 1
  PtrSize = 8
  NumSD = 2
  MaxRequests = 2
INVARIANTS SuccessfulReadReturnsDescriptor
