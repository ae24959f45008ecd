CONSTANTS
  MaxConns = 3
  MaxCmds = 1
  MaxRestarts = 1
  Overlap = {2}
  Killable = TRUE
SPECIFICATION FairSpec
INVARIANTS AtMostOnce
PROPERTIES ClicksAnswered Recovers
CHECK_DEADLOCK FALSE
