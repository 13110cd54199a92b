\* Saves, failures and crashes.
CONSTANTS
  MaxSaves = 3
  MaxBackups = 1
  MaxSuffix = 2
  MaxClock = 1
SPECIFICATION Spec
INVARIANTS
  FilesAreWhole
  SettledStateAgrees
PROPERTY ReplacedOnlyWithBackup
CHECK_DEADLOCK FALSE
