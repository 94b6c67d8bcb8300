CONSTANTS
  NoTarget = NoTarget
  None = None
  LastValue = 100
  MaximumTypeDepth = 256
  Jobs <- MCJobs
  MaxEvents = 8
  MaxCalls = 3
SPECIFICATION Spec
INVARIANTS
  AbilitiesHoldInside
  InstantiationIsFinite
  AcceptedCodeRuns
  EqualModulesRunAlike
  RelaidModulesAreEqual
CHECK_DEADLOCK FALSE
