CONSTANTS
  Pool = {100, 200, 300, 400, 500}
  START_HP = 4
  MaxTurns = 2
SPECIFICATION FairSpec
INVARIANTS TypeOK OutcomeCorrect StatusBounds ReadyToRecv BoardAlwaysSent AiPicksFirstBest
PROPERTIES FinalBoardFrozen DamageRule DuelSpec AiTurnEnds
