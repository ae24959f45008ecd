CONSTANTS
  MaxConns = 3
  MaxCmds = 2
  MaxRestarts = 0
  Overlap = {2}
  Killable = FALSE
SPECIFICATION Spec
PROPERTIES NoRollback
CHECK_DEADLOCK FALSE
