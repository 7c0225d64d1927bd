\* The history alone finds the bets; the process stops once.
CONSTANTS
  MaxBet = 2
  HasIndex = FALSE
  Faulty = {2}
  ChunkBlocks = 2
  PageSize = 1
  Pushed = FALSE
  CallsMayFail = FALSE
  MaxFlips = 0
  MaxStarts = 1
SPECIFICATION FairSpec
PROPERTIES
  EveryBetEnds
CHECK_DEADLOCK FALSE
