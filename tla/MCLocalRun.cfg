CONSTANTS
  BlockCount = 3
  LocalCount = 2
  None = None
  Functions <- SmallFunctions
SPECIFICATION FairSpec
INVARIANTS
  ReadsFindAValue
  UsesListWhatIsHeld
  SetsAreExact
  DeadIsNeverRead
PROPERTIES
  Terminates
CHECK_DEADLOCK FALSE
