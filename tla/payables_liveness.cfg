\* Two players compete for one place in a pass; the claims of one may be refused for ever.
CONSTANTS
  p1 = p1  p2 = p2
  Players = {p1, p2}
  Accepted = {p2}
  NoBlock = NoBlock  NoState = NoState
  ScanBudget = 1
  ClaimsPerPass = 1
  ReadsMayFail = FALSE
  FinalizedReadsMayGoBack = FALSE
  LatestReadsMayTrail = FALSE
  MaxDebts = 2
  MaxReorgs = 1
  MaxStops = 0
SPECIFICATION FairSpec
PROPERTIES
  EveryFinalDebtIsPaid
