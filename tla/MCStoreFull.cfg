CONSTANTS
  Workers = {w1, w2, w3}
  MAX_SESSIONS = 2
  MaxSaves = 1
SPECIFICATION Spec
INVARIANTS FullOnlyUnderLoad
CHECK_DEADLOCK FALSE
