SPECIFICATION Spec
CONSTANTS
  Writers = {w1}
  Readers = {r1, r2}
  VSIZE = 2
  SIZE = 1
  PtrSize = 8
  NumSD = 2
  MaxRequests = 3
SYMMETRY Symmetry
INVARIANTS TypeOK VoucherOwnership RequestIntact NoLostWakeup NeverRefused
PROPERTIES ImplementsDiskService DescriptorsStayApart
