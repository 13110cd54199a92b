\* One tunnel and everything that can happen to it.  The invariants are proved
\* for any number of tunnels (TunnelManagerProofs).
CONSTANTS
  Tunnels = {t1}
  Runs = {r1, r2}
  Revisions = {1, 2}
  port = port
  Ports <- MCPorts
  Definitions <- Various
SPECIFICATION FairSpec
INVARIANTS
  EveryTaskOwned
  ViewIsBacked
  RunsCurrentConfig
PROPERTY StopEnds
CHECK_DEADLOCK FALSE
