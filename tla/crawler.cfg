SPECIFICATION FairSpec
CONSTANTS
  Trees <- MCTrees
  Arguments <- MCArguments
  Matching <- MCMatching
  Brackets <- MCBrackets
  OpenMax = 2
  MaxFailures = 1
  MaxChanges = 1
  PatternMax = 3
INVARIANTS TypeOK NothingLeaks PrintsOnlyFiles PrintsAllFiles PatternMeaning
PROPERTY CrawlerEnds
