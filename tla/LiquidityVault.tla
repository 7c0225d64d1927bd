--------------------------- MODULE LiquidityVault ---------------------------
(***************************************************************************)
(* The deposits of a pool (core/LiquidityVault.sol) over the tree that     *)
(* splits its capital.  Deposits are numbered in the order they are made;  *)
(* a bet takes note of the last deposit when it opens (its cutoff), locks  *)
(* capital, and its result is shared by the deposits up to the cutoff if   *)
(* they can bear its greatest loss, by all otherwise.                      *)
(*                                                                         *)
(* One action is one transaction.  Cash, debts and the fence of liquidity  *)
(* providers are the subject of BankVault; the cooldown of 24 hours, the   *)
(* owner of a deposit and the pause are left out.  Each of these only      *)
(* forbids steps that are allowed here.                                    *)
(***************************************************************************)
EXTENDS LiquidityTree

CONSTANTS
    MAX_TREE_CAPITAL,
    MAX_DEPOSITS,    \* bound: deposits ever made
    Amounts,         \* bound: sizes of deposits
    Stakes, Locks,   \* bounds: stakes, and capital locked beside the stake
    PositionIds, NoPosition

ASSUME VaultAssumption ==
    /\ MAX_TREE_CAPITAL \in Nat /\ MAX_DEPOSITS \in Nat
    /\ Amounts \subseteq Nat \ {0} /\ Stakes \subseteq Nat \ {0} /\ Locks \subseteq Nat
    /\ IsFiniteSet(PositionIds)
    /\ NoPosition \notin [cutoff : Leaves, stake : Stakes, lock : Locks]
    /\ NoPosition \notin [backers : SUBSET Leaves, stake : Stakes, lock : Locks]

VARIABLES
    treeNode,
    nextNode,
    deposits,         \* NFTs not burnt
    lockedLiquidity,
    positions         \* open positions, as the Bank's holds keep them

vars == <<treeNode, nextNode, deposits, lockedLiquidity, positions>>

Positions == [cutoff : Leaves, stake : Stakes, lock : Locks]

Init ==
    /\ treeNode = [n \in Nodes |-> 0]
    /\ nextNode = LIQUIDITYNODES
    /\ deposits = {}
    /\ lockedLiquidity = 0
    /\ positions = [i \in PositionIds |-> NoPosition]

GetReserve == treeNode[1]
OpenIds == {i \in PositionIds : positions[i] # NoPosition}
Pending == MapThenSumSet(LAMBDA i : positions[i].stake, OpenIds)

-----------------------------------------------------------------------------
AddDeposit(a) ==
    /\ nextNode \in Leaves
    /\ nextNode < LIQUIDITYNODES + MAX_DEPOSITS
    /\ a <= MAX_TREE_CAPITAL - GetReserve - Pending
    /\ treeNode' = NodeAddLiquidity(treeNode, nextNode, a)
    /\ deposits' = deposits \cup {nextNode}
    /\ nextNode' = nextNode + 1
    /\ UNCHANGED <<lockedLiquidity, positions>>

Free_All == GetReserve  \* faulty: the lock is ignored
Free == GetReserve - lockedLiquidity

CanWithdraw(id, percent) ==
    LET assets == NodeWithdrawPercent(treeNode, id, percent).assets
    IN  (assets > 0 \/ percent = ONE) /\ assets <= Free

WithdrawDeposit(id, percent) ==
    /\ id \in deposits
    /\ CanWithdraw(id, percent)
    /\ treeNode' = NodeWithdrawPercent(treeNode, id, percent).tree
    /\ deposits' = IF percent = ONE THEN deposits \ {id} ELSE deposits
    /\ UNCHANGED <<nextNode, lockedLiquidity, positions>>

\* depositState.maxPercent: the greatest share of deposit id that may leave, 0 if none may.
Rounded_Down(assets) == (Free * ONE) \div assets  \* faulty: a share that would still fit is lost
Rounded(assets) == ((Free + 1) * ONE - 1) \div assets
MaxPercent(id) ==
    LET assets == WithdrawView(treeNode, id)
    IN  IF Free >= assets THEN ONE
        ELSE IF (assets * Rounded(assets)) \div ONE = 0 THEN 0
        ELSE Rounded(assets)

\* Bank.holdBet and lockLiquidity; without the Bank's risk buffer.
Open(i, s, k) ==
    /\ positions[i] = NoPosition
    /\ GetReserve > 0
    /\ lockedLiquidity + k <= GetReserve
    /\ GetReserve + Pending + s <= MAX_TREE_CAPITAL
    /\ positions' = [positions EXCEPT ![i] = [cutoff |-> nextNode - 1, stake |-> s, lock |-> k]]
    /\ lockedLiquidity' = lockedLiquidity + k
    /\ UNCHANGED <<treeNode, nextNode, deposits>>

-----------------------------------------------------------------------------
(***************************************************************************)
(* _prefixCovers: are the deposits up to the cutoff worth maxLoss?  Walks  *)
(* down to the cutoff without writing; `capital' is what lies to the left  *)
(* of node n, `amount' what n would get.  The walk ends where the interval *)
(* from one to the sum of both decides, or n ends with the cutoff.         *)
(***************************************************************************)
Walk(t) ==
    LET walk[n \in Nodes] ==
            LET up == n \div 2
                from == walk[up]
                left == LeftShare(t, up, from.amount)
            IN  IF n = 1 THEN [amount |-> t[1], capital |-> 0]
                ELSE IF n = 2 * up THEN [amount |-> left, capital |-> from.capital]
                ELSE [amount |-> IF t[n] = 0 THEN 0 ELSE from.amount - left,
                      capital |-> from.capital + left]
    IN  walk

PrefixCovers_Stale(cutoff, maxLoss) ==  \* faulty: reads stale amounts
    GetReserve - LeavesAmount(treeNode, cutoff + 1, Last[1]) >= maxLoss
PrefixCovers(cutoff, maxLoss) ==
    LET walk == Walk(treeNode)
        Bounds(n) == walk[n].capital + walk[n].amount
        Decides(n) == Last[n] = cutoff \/ walk[n].capital >= maxLoss \/ Bounds(n) < maxLoss
        n == Min({m \in Above(cutoff) : Decides(m)})
    IN  IF Last[n] = cutoff THEN Bounds(n) >= maxLoss ELSE walk[n].capital >= maxLoss

AllocationLeaf_Cutoff(cutoff, maxLoss) == cutoff  \* faulty: the prefix bears every loss
AllocationLeaf(cutoff, maxLoss) ==
    LET last == nextNode - 1
    IN  IF cutoff = last \/ PrefixCovers(cutoff, maxLoss) THEN cutoff ELSE last

Allocate(p, amount, isSub) ==
    LET leaf == AllocationLeaf(p.cutoff, p.lock)
    IN  IF p.lock = 0 THEN AddLimit(treeNode, nextNode, amount, p.cutoff)
        ELSE PushLazy(Push(treeNode, leaf), leaf, amount, isSub, nextNode)

\* A profit finds no owner when every deposit has left; the Bank keeps it then.
OwnerlessProfit_Ignored == FALSE  \* faulty
OwnerlessProfit == GetReserve = 0

\* The tree after position p closes at a cost.
Applied(p, cost) ==
    IF cost > p.stake THEN Allocate(p, cost - p.stake, TRUE)
    ELSE IF cost < p.stake /\ ~OwnerlessProfit
    THEN IF GetReserve + p.stake - cost > MAX_TREE_CAPITAL THEN Reverted
         ELSE Allocate(p, p.stake - cost, FALSE)
    ELSE treeNode

Released(p) == p.lock

ApplySettlement(i, cost) ==
    LET p == positions[i]
        t == Applied(p, cost)
    IN  /\ cost <= p.stake + p.lock
        /\ p.lock <= lockedLiquidity
        /\ t # Reverted
        /\ t[1] >= lockedLiquidity - Released(p)
        /\ treeNode' = t
        /\ lockedLiquidity' = lockedLiquidity - Released(p)
        /\ positions' = [positions EXCEPT ![i] = NoPosition]
        /\ UNCHANGED <<nextNode, deposits>>

Next ==
    \/ \E a \in Amounts : AddDeposit(a)
    \/ \E id \in deposits, percent \in 1..ONE : WithdrawDeposit(id, percent)
    \/ \E i \in PositionIds :
         \/ \E s \in Stakes, k \in Locks : Open(i, s, k)
         \/ /\ i \in OpenIds
            /\ \E cost \in 0..(positions[i].stake + positions[i].lock) : ApplySettlement(i, cost)

Spec == Init /\ [][Next]_vars
-----------------------------------------------------------------------------
UsedLeaves == LIQUIDITYNODES..(nextNode - 1)
PrefixWorth(t, leaf) == MapThenSumSet(LAMBDA d : WithdrawView(t, d), LIQUIDITYNODES..leaf)

(***************************************************************************)
(* Every unit of the root is the worth of some deposit, and of none of the *)
(* leaves that no deposit has used; a positive node has a positive child   *)
(* (invariant I of the comment on _allocate).  No sequence of lazy         *)
(* changes, pushes, deposits and withdrawals over stale nodes loses or     *)
(* invents a unit (_pushLazy, _push, _updateUp).                           *)
(***************************************************************************)
LeavesHoldTheRoot ==
    /\ PrefixWorth(treeNode, nextNode - 1) = GetReserve
    /\ \A n \in nextNode..(2 * LIQUIDITYNODES - 1) : treeNode[n] = 0
    /\ \A n \in Nodes \ Leaves :
         treeNode[n] > 0 => treeNode[2 * n] > 0 \/ treeNode[2 * n + 1] > 0

(***************************************************************************)
(* The argument that _allocate gives for leaving out the preview of the    *)
(* vendored tree: with k > 0 the preview would never fall back, for any    *)
(* result a position may have, over the tree pushed to its domain          *)
(* (comment on LiquidityVault._allocate).                                  *)
(***************************************************************************)
PreviewNeverFallsBack ==
    \A i \in OpenIds :
      LET p == positions[i]
          leaf == AllocationLeaf(p.cutoff, p.lock)
          t == Push(treeNode, leaf)
      IN  p.lock > 0 =>
          /\ \A loss \in 1..p.lock : ~NeedsWhole(t, leaf, loss, TRUE)
          /\ GetReserve > 0 => \A profit \in 1..p.stake : ~NeedsWhole(t, leaf, profit, FALSE)

(***************************************************************************)
(* Settling never blocks: whatever an open position costs within its stake *)
(* and its lock, no subtraction of the tree reverts, the root moves by the *)
(* result to the unit, and what the other positions have locked is left    *)
(* (applySettlement and its last check).                                   *)
(***************************************************************************)
SettlementAlwaysBooks ==
    \A i \in OpenIds : \A cost \in 0..(positions[i].stake + positions[i].lock) :
      LET p == positions[i]
          t == Applied(p, cost)
      IN  /\ t # Reverted
          /\ t[1] = GetReserve + (IF OwnerlessProfit /\ cost <= p.stake THEN 0 ELSE p.stake - cost)
          /\ t[1] >= lockedLiquidity - p.lock

(***************************************************************************)
(* _prefixCovers, which stops as soon as the interval it keeps decides,    *)
(* answers what adding up the worth of the prefix would.                   *)
(***************************************************************************)
PrefixCoversIsExact ==
    \A leaf \in UsedLeaves, maxLoss \in 0..MAX_TREE_CAPITAL :
      PrefixCovers(leaf, maxLoss) <=> PrefixWorth(treeNode, leaf) >= maxLoss

(***************************************************************************)
(* The share that depositState quotes to the owner of a deposit can be     *)
(* withdrawn, and no greater share can: the limit that it computes from a  *)
(* view of the tree, in rounded divisions, is the one that withdrawDeposit *)
(* meets after its push.                                                   *)
(***************************************************************************)
QuoteIsTheBest ==
    \A id \in deposits :
      /\ MaxPercent(id) > 0 => CanWithdraw(id, MaxPercent(id))
      /\ \A percent \in (MaxPercent(id) + 1)..ONE : ~CanWithdraw(id, percent)

\* What the tree promises, as a ledger of the worth of each deposit.
Promise == INSTANCE DepositLedger WITH
    Deposits <- Leaves, BetIds <- PositionIds, NoBet <- NoPosition,
    worth <- [d \in Leaves |-> WithdrawView(treeNode, d)],
    made <- UsedLeaves,
    bets <- [i \in PositionIds |->
               IF positions[i] = NoPosition THEN NoPosition
               ELSE [backers |-> LIQUIDITYNODES..positions[i].cutoff,
                     stake |-> positions[i].stake, lock |-> positions[i].lock]]

(***************************************************************************)
(* Every step of the vault is a step of the ledger of worths: a deposit or *)
(* a withdrawal moves no other deposit, a result is shared by the right    *)
(* deposits, exactly and in one direction, and locks stay backed.          *)
(***************************************************************************)
ImplementsDeposits == Promise!Spec
=============================================================================
