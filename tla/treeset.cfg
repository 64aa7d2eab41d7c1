SPECIFICATION Spec
CONSTANTS
  Element <- MCElement
  Keys = 7
  NULL = NULL
  DeepKeys = 12
  MaxDrift = 2
INVARIANTS
  SearchTree
  QueriesAnswer
  ArrayLargeEnough
  DeepRemovals
PROPERTIES
  PurgedOnce
  ImplementsSortedSet
