\* A scan of any kind beside a steady one of the history; both may fail, one of them start again.
CONSTANTS
  b1 = b1
  k1 = k1
  h1 = h1
  Bets = {b1}
  Writers = {k1, h1}
  Steady = {h1}
  Configurations = {{"history"}, {}, {"light"}, {"late"}}
  MaxBlock = 3
  EarlyEmpty = FALSE
  ChunkBlocks = 2
  MaxStarts = 1
SPECIFICATION FairSpec
INVARIANTS
  RowsConverge
  CursorCoversEvents
PROPERTIES
  EndStays EveryEndIsIndexed
CHECK_DEADLOCK FALSE
