\* Chains of none to five hosts, with a limit of four.
CONSTANT MaxHops = 4
SPECIFICATION FairSpec
INVARIANTS
  LiveTransportIsOwned
  CancelledOnlyByStop
PROPERTY ConnectEnds
CHECK_DEADLOCK FALSE
