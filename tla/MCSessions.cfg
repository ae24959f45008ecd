CONSTANTS
  MaxConns = 3
  MaxCmds = 2
  MaxRestarts = 1
  Overlap = {}
  Killable = TRUE
SPECIFICATION Spec
INVARIANTS TypeOK PairShown NobodyStuck SeenIsDurable AimedAtSeen
PROPERTIES NoRollback
CHECK_DEADLOCK FALSE
