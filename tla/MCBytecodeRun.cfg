CONSTANTS
  NoTarget = NoTarget
  MaxSize = 4
  Programs <- AllCodeUnits
SPECIFICATION Spec
INVARIANTS
  ReachabilityIsExact
  BlocksAreBasic
PROPERTY ImplementsBlockWalk
CHECK_DEADLOCK FALSE
