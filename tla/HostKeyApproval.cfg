\* Two handshakes with a server that has keys of two algorithms.
CONSTANTS
  Attempts = {a1, a2}
  Algorithms = {{k1, k2}, {k3}}
  UserFile = {k3}
  MaxPrompts = 1
  MaxCommands = 2
  None = None
SPECIFICATION FairSpec
INVARIANTS
  AcceptedIsTrusted
  NobodyWaitsInVain
  KnownHostsAgree
PROPERTY DecisionArrives
CHECK_DEADLOCK FALSE
