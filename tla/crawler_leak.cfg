SPECIFICATION Spec
CONSTANTS
  Trees <- MCTrees
  Arguments <- MCArguments
  Matching <- MCMatching
  Brackets <- MCBrackets
  OpenMax = 2
  MaxFailures = 1
  MaxChanges = 0
  PatternMax = 0
INVARIANT NothingLeft
