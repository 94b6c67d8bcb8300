\* A cast in an eager conjunction may be left out of the run of its source.
SPECIFICATION Spec
CONSTANTS
  NoTarget <- None
  NoValue <- NoAtom
  LastValue = 8
  LocalIds = {0, 1}
  LogBound = 4
  Programs <- EagerPrograms
INVARIANT
  RecoveredDoesWhatBytecodeDoes
CHECK_DEADLOCK FALSE
