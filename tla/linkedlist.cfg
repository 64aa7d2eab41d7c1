SPECIFICATION Spec
CONSTANTS
  Element = {a, b}
  MaxNodes = 3
  FlIncrement = 2
  NULL = NULL
SYMMETRY Symmetry
INVARIANTS
  Circular
  NodesAccounted
PROPERTIES
  PurgedInOrder
  ImplementsList
