\* A database, pages of one row, and a stop anywhere.
CONSTANTS
  MaxBet = 2
  HasIndex = TRUE
  Faulty = {2}
  ChunkBlocks = 1
  PageSize = 1
  Pushed = FALSE
  CallsMayFail = FALSE
  MaxFlips = 0
  MaxStarts = 1
SPECIFICATION Spec
INVARIANTS
  RecoveredBetsAreAtWork
  CursorHasRows
PROPERTIES
  EarlierBetsWereTried
CHECK_DEADLOCK FALSE
