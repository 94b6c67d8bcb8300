CONSTANTS
  NoTarget = NoTarget
  None = None
  MaxBlocks = 3
  Units <- SmallUnits
  Bodies <- ControlBodies
SPECIFICATION Spec
INVARIANTS
  SourceDoesWhatBytecodeDoes
CHECK_DEADLOCK FALSE
