CONSTANTS
  Threads = 2
  Rounds = 2
  MaxKeys = 3
SPECIFICATION FairSpec
INVARIANTS TypeOK AppInStep BenchInStep
PROPERTIES ThreadsJoined
CHECK_DEADLOCK FALSE
