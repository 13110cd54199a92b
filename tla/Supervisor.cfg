\* A Dynamic tunnel.
CONSTANTS
  Dynamic = TRUE
  MaxAttempt = 3
  MaxClients = 2
  MaxConnections = 2
SPECIFICATION FairSpec
INVARIANTS
  StoppedOwnsNothing
  StatusFollowsSession
  BackoffCountsFailures
PROPERTIES
  ImplementsContract
  StopReleasesEverything
  RetryIsHeard
  LostSessionIsReplaced
CHECK_DEADLOCK FALSE
