CONSTANTS
  MaxServers = 2
  MaxConns = 2
  MaxPkts = 1
  Signals <- MCSignals
SPECIFICATION FairSpec
INVARIANTS TypeOK OneMoreAtMost Reaped SessionsKept CountsBounded MonitorFindsServer
PROPERTIES EofSeen PortFreed StopsSoon
CHECK_DEADLOCK FALSE
