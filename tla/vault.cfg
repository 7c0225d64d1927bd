\* Eight leaves, two positions, rounding at two decimals: deposits, settlements and withdrawals in any order.
SPECIFICATION Spec
CONSTANTS
    LIQUIDITYNODES = 8
    ONE = 2
    Reverted = Reverted
    MAX_TREE_CAPITAL = 5
    MAX_DEPOSITS = 5
    Amounts = {1, 3}
    Stakes = {2}
    Locks = {0, 2}
    PositionIds = {p1, p2}
    NoPosition = NoPosition
SYMMETRY Symmetry
INVARIANTS
    LeavesHoldTheRoot
    PreviewNeverFallsBack
    SettlementAlwaysBooks
    QuoteIsTheBest PrefixCoversIsExact
PROPERTIES
    ImplementsDeposits
\* A pool stops when every deposit of the bound made and withdrawn.
CHECK_DEADLOCK FALSE
