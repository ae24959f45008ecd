CONSTANTS
  MaxConns = 2
  MaxCmds = 1
  MaxRestarts = 0
  Overlap = {2}
  Killable = FALSE
SPECIFICATION Spec
INVARIANTS NobodyStuck
CHECK_DEADLOCK FALSE
