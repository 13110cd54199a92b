\* A Remote tunnel and its port on the server.
CONSTANTS
  MaxAttempt = 3
  MaxQueued = 2
  MaxConnections = 2
SPECIFICATION FairSpec
INVARIANT HealthyIsRegistered
PROPERTIES
  CancelBeforeClose
  ImplementsContract
  StopReleasesEverything
  LostSessionIsReplaced
CHECK_DEADLOCK FALSE
