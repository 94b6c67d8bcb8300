CONSTANTS
  NoTarget = NoTarget
  None = None
  Programs <- GraphsOfUnits
SPECIFICATION Spec
INVARIANTS
  WalksAreExact
  FrontierIsWhereDominanceEnds
  PostdominatorsGuardTheExit
  DependentsAreDecidedByTheBranch
  LoopsAreNatural
  ReportedRegionsHaveTwoEntries
CHECK_DEADLOCK FALSE
