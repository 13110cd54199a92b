\* A crash in the middle of a save.
CONSTANTS
  MaxSaves = 3
  MaxBackups = 1
  MaxSuffix = 2
  MaxClock = 1
SPECIFICATION Spec
INVARIANT NoTempLeftBehind
CHECK_DEADLOCK FALSE
