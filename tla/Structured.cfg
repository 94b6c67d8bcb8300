CONSTANTS
  NoTarget = NoTarget
  None = None
  MaxBlocks = 4
  Units <- AllUnits
  Bodies <- AllBodies
SPECIFICATION Spec
INVARIANTS
  RefusesOnlyTangledFunctions
  StructuringEndsElse
  SourceDoesWhatBytecodeDoesElse
CHECK_DEADLOCK FALSE
