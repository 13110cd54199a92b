\* A tunnel that owns a listener (Local, Dynamic).
CONSTANTS
  ListenerRequired = TRUE
  MaxGeneration = 4
  MaxHops = 2
  JournalLimit = 3
SPECIFICATION FairSpec
INVARIANTS
  OnlyCurrentGeneration
  AppliedCommandHolds
PROPERTIES
  BlockedWaitsForUser
  ShutdownEnds
CHECK_DEADLOCK FALSE
