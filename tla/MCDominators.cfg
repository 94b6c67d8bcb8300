CONSTANTS
  Size = 4
  None = None
  Inputs <- CallsMade
SPECIFICATION FairSpec
INVARIANTS
  DominatorsAreExact
  ImmediateIsClosest
PROPERTIES
  Terminates
CHECK_DEADLOCK FALSE
