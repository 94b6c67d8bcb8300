CONSTANTS
  MaxOutput = 2
  MaxLines = 4
  MaxModules = 1
  None = None
SPECIFICATION FairBehaviorSpec
INVARIANTS
  NobodyIsLeft
  SuccessIsReal
  TruncationIsTold
  EqualOutcomesAreReal
PROPERTIES
  ComparisonEnds
CHECK_DEADLOCK FALSE
