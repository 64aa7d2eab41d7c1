SPECIFICATION Spec
CONSTANTS
  Element <- MCElement
  Keys = 3
  NULL = NULL
  DeepKeys = 3
  MaxDrift = 2
INVARIANTS
  RemovePurgesArgument
