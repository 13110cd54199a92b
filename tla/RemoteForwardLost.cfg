\* A new attempt while the server still has the lost session.
CONSTANTS
  MaxAttempt = 2
  MaxQueued = 1
  MaxConnections = 1
SPECIFICATION FairSpec
PROPERTY LostForwardIsRetried
CHECK_DEADLOCK FALSE
