\* Three holds of two players, one open hold each, on a pool at its ceiling: every legal sequence of
\* deposits, bets, results, exits and claims.
CONSTANTS
  h1 = h1  h2 = h2  h3 = h3  p1 = p1  p2 = p2
  Players = {p1, p2}
  NoPlayer = NoPlayer
  HoldIds = {h1, h2, h3}
  Amounts = {1, 2}
  Stakes = {1, 2}
  Reserves = {2}
  Payouts = {0, 1, 2, 3}
  Accruals = {0, 1}
  EdgeBpsValues = {2}
  BufferBpsValues = {0, 1}
  BPS = 2
  LP_SHARE_BPS = 1
  MAX_TREE_CAPITAL = 5
  MAX_OPEN_HOLDS = 2
  MAX_OPEN_HOLDS_PER_PLAYER = 1
  MinBetAmount = 1
  Supply = 5
SYMMETRY PoolSymmetry
SPECIFICATION Spec
INVARIANTS
  AccountingValid TotalsAreSums NothingOwedIsStuck
PROPERTIES
  LpLossIsReserved OnlyADepositFillsAnEmptyTree ImplementsLedger
