\* Expression recovery keeps every effect, and what it writes reads back.
SPECIFICATION Spec
CONSTANTS
  NoTarget <- None
  NoValue <- NoAtom
  LastValue = 8
  LocalIds = {0}
  LogBound = 4
  Programs <- MCPrograms
INVARIANTS
  RecoveredDoesWhatBytecodeDoesElse
  SourceReadsBack
CHECK_DEADLOCK FALSE
