\* Reads fail, latest reads lag by any distance, blocks are replaced, the process stops.
CONSTANTS
  p1 = p1  p2 = p2
  Players = {p1, p2}
  Accepted = {p1, p2}
  NoBlock = NoBlock  NoState = NoState
  ScanBudget = 2
  ClaimsPerPass = 1
  ReadsMayFail = TRUE
  FinalizedReadsMayGoBack = FALSE
  LatestReadsMayTrail = TRUE
  MaxDebts = 2
  MaxReorgs = 1
  MaxStops = 1
SYMMETRY PlayerSymmetry
SPECIFICATION Spec
INVARIANTS
  NothingForgotten
