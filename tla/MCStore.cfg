CONSTANTS
  Workers = {w1, w2, w3}
  MAX_SESSIONS = 2
  MaxSaves = 3
SPECIFICATION Spec
SYMMETRY Symmetry
INVARIANTS TypeOK NoSlotWasted ResumedWhole AckedIsStored
CHECK_DEADLOCK FALSE
