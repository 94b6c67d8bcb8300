\* What the checks of a function body accept keeps its references safe.
SPECIFICATION Spec
CONSTANTS
  NoTarget <- NoJump
  NoReference = NoReference
  LastValue = 99
  MaxEdgesPerPair = 2
  MaxPathLength = 1
  MaxRounds = 8
  PathBound = 2
  Structs <- MCStructs
  Callables <- MCCallables
  FunctionBodies <- MCBodies
INVARIANTS
  ReferencesStaySafeElse
  OperandsFit
  AliasesAreKnown
PROPERTY
  RoundsConverge
CHECK_DEADLOCK FALSE
