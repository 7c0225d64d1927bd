\* Sockets, failing calls, settlements that start and stop reverting; no database.
CONSTANTS
  MaxBet = 2
  HasIndex = FALSE
  Faulty = {1, 2}
  ChunkBlocks = 1
  PageSize = 1
  Pushed = TRUE
  CallsMayFail = TRUE
  MaxFlips = 1
  MaxStarts = 0
SPECIFICATION Spec
INVARIANTS
  CandidateIsAtWork
  OneTransaction
  RequestIsServed
PROPERTIES
  WakeupIsKept
CHECK_DEADLOCK FALSE
