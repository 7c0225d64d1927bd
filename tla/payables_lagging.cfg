\* One player, no failures, no replaced blocks: only nodes that know older finalized blocks.
CONSTANTS
  p1 = p1  p2 = p2
  Players = {p1}
  Accepted = {p1}
  NoBlock = NoBlock  NoState = NoState
  ScanBudget = 2
  ClaimsPerPass = 1
  ReadsMayFail = FALSE
  FinalizedReadsMayGoBack = TRUE
  LatestReadsMayTrail = FALSE
  MaxDebts = 2
  MaxReorgs = 0
  MaxStops = 0
SPECIFICATION Spec
INVARIANTS
  NothingForgotten
