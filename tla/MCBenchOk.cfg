CONSTANTS
  Threads = 2
  Rounds = 2
  MaxKeys = 0
SPECIFICATION Spec
INVARIANTS OkMeansCompleted
CHECK_DEADLOCK FALSE
