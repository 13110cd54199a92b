\* Stop during the shutdown of a Restart.
CONSTANTS
  ListenerRequired = TRUE
  MaxGeneration = 4
  MaxHops = 1
  JournalLimit = 1
SPECIFICATION Spec
INVARIANT
  StopIsObeyed
CHECK_DEADLOCK FALSE
