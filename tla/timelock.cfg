\* Two keepers at different places, one of which goes on; an operation cancelled and scheduled again.
CONSTANTS
  o1 = o1
  k1 = k1
  k2 = k2
  Operations = {o1}
  Keepers = {k1, k2}
  Steady = {k1}
  MaxLog = 4
  ChunkBlocks = 2
  Reading = TRUE
  MaxLosses = 1
SPECIFICATION FairTimelockSpec
INVARIANTS
  RowsAreTheTimelock AnswerIsHonest
PROPERTIES
  EveryChangeIsIndexed
CHECK_DEADLOCK FALSE
