---------------------------- MODULE LiquidityTree ----------------------------
(***************************************************************************)
(* The segment tree that splits the capital of a pool among its deposits   *)
(* (vendor/azuro-v3/utils/LiquidityTree.sol), as operators on the amounts  *)
(* t of its nodes.  Node 1 is the root, node n has the children 2n and     *)
(* 2n + 1, deposit i is leaf i.  A change of a whole range stops at the    *)
(* nodes that cover it; what lies below is stale until it is pushed, when  *)
(* the amount of a node is split between its children in the proportion    *)
(* of their stale amounts.                                                 *)
(*                                                                         *)
(* Ranges begin at the first leaf: in the code, l is the first leaf below  *)
(* a node in every call, so its tests of l are constant and the branch     *)
(* for a range within the right child is dead.  updateId numbers writes;   *)
(* only "was this leaf ever added" is ever asked of it.                    *)
(*                                                                         *)
(* The code walks down from the root and hands an amount to each node it   *)
(* reaches; here a walk is a function of the node, by recursion on its     *)
(* parent.  No walk reads a node that it has written before, except the    *)
(* one of Push, which hands the tree itself down.                          *)
(***************************************************************************)
EXTENDS Integers, FiniteSetsExt

CONSTANTS
    LIQUIDITYNODES,  \* the number of the first leaf, and how many there are; 2^40 in the code
    ONE,             \* the scale of shares, 10^12 in the code
    Reverted         \* the result of an operation that reverts

PowerOfTwo[k \in 0..40] == IF k = 0 THEN 1 ELSE 2 * PowerOfTwo[k - 1]

Nodes == 1..(2 * LIQUIDITYNODES - 1)
Leaves == LIQUIDITYNODES..(2 * LIQUIDITYNODES - 1)

ASSUME TreeAssumption ==
    /\ \E depth \in 1..40 : LIQUIDITYNODES = PowerOfTwo[depth]
    /\ ONE \in Nat \ {0}
    /\ Reverted \notin [Nodes -> Nat]

\* The leaves below a node, and the nodes above a leaf: the way down from the root.
First[n \in Nodes] == IF n \in Leaves THEN n ELSE First[2 * n]
Last[n \in Nodes] == IF n \in Leaves THEN n ELSE Last[2 * n + 1]
Above(leaf) == {n \in Nodes : First[n] <= leaf /\ leaf <= Last[n]}

-----------------------------------------------------------------------------
\* What the left child of n gets of an amount, by the stale amounts of the two children.
LeftShare(t, n, amount) ==
    LET sum == t[2 * n] + t[2 * n + 1]
    IN  IF sum = 0 THEN 0 ELSE (amount * t[2 * n]) \div sum

\* The children of n, brought up to date; an empty child stays empty.
SplitNode_StaleRight(t, n) == [t EXCEPT ![2 * n] = LeftShare(t, n, t[n])]  \* faulty
SplitNode(t, n) ==
    [t EXCEPT ![2 * n] = IF @ > 0 THEN LeftShare(t, n, t[n]) ELSE @,
              ![2 * n + 1] = IF @ > 0 THEN t[n] - LeftShare(t, n, t[n]) ELSE @]

\* Splits every node above the leaf, from the root down.
Push(t, leaf) ==
    LET pushed[n \in Nodes] == IF n = 1 THEN t ELSE SplitNode(pushed[n \div 2], n \div 2)
    IN  pushed[leaf]

\* What a push would leave in each node.
PushView(t) ==
    LET view[n \in Nodes] ==
            LET up == n \div 2
                amount == view[up]
                left == LeftShare(t, up, amount)
            IN  IF n = 1 THEN t[1]
                ELSE IF t[n] = 0 THEN 0
                ELSE IF n = 2 * up THEN left ELSE amount - left
    IN  view

\* nodeWithdrawView
WithdrawView(t, leaf) == PushView(t)[leaf]

-----------------------------------------------------------------------------
\* A reduction that the node cannot bear is skipped.
ChangeAmount(held, amount, isSub) ==
    IF ~isSub THEN held + amount ELSE IF held < amount THEN held ELSE held - amount

UpdateUp(t, leaf, amount, isSub) ==
    [n \in Nodes |-> IF n \in Above(leaf) THEN ChangeAmount(t[n], amount, isSub) ELSE t[n]]

\* The sum of the maximal nodes that cover the leaves l..r, from their borders up.
LeavesAmount(t, l, r) ==
    LET sum[border \in (1..(2 * LIQUIDITYNODES)) \X (0..(2 * LIQUIDITYNODES - 1))] ==
            LET a == border[1]
                b == border[2]
            IN  IF a > b THEN 0
                ELSE (IF a % 2 = 1 THEN t[a] ELSE 0) + (IF b % 2 = 0 THEN t[b] ELSE 0)
                     + sum[<<(a + 1) \div 2, (b - 1) \div 2>>]
    IN  sum[<<l, r>>]

-----------------------------------------------------------------------------
(* A change of the leaves up to r on its way down.                         *)

\* The range ends within the right child of n: the amount for n has to be split.
Splits(n, r) == n \notin Leaves /\ n \in Above(r) /\ Last[2 * n] < r /\ r < Last[n]

\* What the right child of n holds in the range; the leaves after the last used one are empty.
RightInRange(t, n, r, last) ==
    t[2 * n + 1] - (IF r >= last THEN 0 ELSE LeavesAmount(t, r + 1, Last[n]))

\* The amount is split by what each child holds in the range, nothing if that is nothing.
ForLeft(t, n, right, amount) == (((amount * t[2 * n]) * ONE) \div (t[2 * n] + right)) \div ONE
Halts(t, n, r, last) ==
    \/ RightInRange(t, n, r, last) < 0
    \/ t[2 * n] + RightInRange(t, n, r, last) = 0

\* What each node is handed; a node that the walk does not reach gets nothing.
Portions(t, r, amount, last) ==
    LET portion[n \in Nodes] ==
            LET up == n \div 2
                given == portion[up]
                left == ForLeft(t, up, RightInRange(t, up, r, last), given)
            IN  IF n = 1 THEN amount
                ELSE IF r >= Last[up] THEN 0
                ELSE IF r <= Last[2 * up] THEN IF n = 2 * up THEN given ELSE 0
                ELSE IF Halts(t, up, r, last) THEN 0
                ELSE IF n = 2 * up THEN left ELSE given - left
    IN  portion

\* The checked subtraction of RightInRange fails at the first node where the walk halts.
Underflows(t, r, last) ==
    LET halts == {n \in Nodes : Splits(n, r) /\ Halts(t, n, r, last)}
    IN  halts # {} /\ RightInRange(t, Min(halts), r, last) < 0

\* Books a change on the leaves up to r.
PushLazy(t, r, amount, isSub, nextNode) ==
    LET portion == Portions(t, r, amount, nextNode - 1)
    IN  IF ~isSub /\ t[1] = 0 THEN [t EXCEPT ![1] = amount]
        ELSE IF Underflows(t, r, nextNode - 1) THEN Reverted
        ELSE [n \in Nodes |-> IF n = 1 \/ t[n] > 0 THEN ChangeAmount(t[n], portion[n], isSub)
                              ELSE t[n]]

(***************************************************************************)
(* _isNeedUpdateWholeLeaves: would the change not reach the leaves up to   *)
(* r?  The call on a left child that the range covers stops at its first   *)
(* test, Short.  (Where its subtraction reverts, so does the one of        *)
(* PushLazy, which meets the same amounts right after.)                    *)
(***************************************************************************)
NeedsWhole(t, r, amount, isSub) ==
    LET last == 2 * LIQUIDITYNODES - 1  \* here the unused leaves are added up as well
        portion == Portions(t, r, amount, last)
        Short(n) == IF isSub THEN t[n] < portion[n] ELSE t[n] = 0
        whole[n \in Nodes] ==
            LET right == RightInRange(t, n, r, last)
            IN  IF Short(n) THEN TRUE
                ELSE IF n \in Leaves \/ r >= Last[n] THEN FALSE
                ELSE IF r <= Last[2 * n] THEN t[2 * n] = 0 \/ whole[2 * n]
                ELSE IF right < 0 THEN FALSE
                ELSE IF t[2 * n] + right = 0 THEN TRUE
                ELSE IF ~isSub THEN Short(2 * n) /\ whole[2 * n + 1]
                ELSE IF Short(2 * n) /\ right < portion[2 * n + 1] THEN TRUE
                ELSE IF portion[2 * n] > 0 /\ ~Short(2 * n) THEN FALSE
                ELSE t[2 * n + 1] >= portion[2 * n + 1] /\ whole[2 * n + 1]
    IN  whole[1]

-----------------------------------------------------------------------------
\* The operations, each of which takes the tree and the number of the next leaf.
NodeAddLiquidity(t, nextNode, amount) == UpdateUp(t, nextNode, amount, FALSE)

\* A share of what a leaf is worth, and the tree without it.
NodeWithdrawPercent(t, leaf, percent) ==
    LET u == Push(t, leaf)
        assets == (u[leaf] * percent) \div ONE
    IN  [assets |-> assets, tree |-> UpdateUp(u, leaf, assets, TRUE)]

AddLimit(t, nextNode, amount, cutoff) ==
    LET lastUsed == nextNode - 1
        leaf == IF cutoff > lastUsed THEN lastUsed ELSE cutoff
        u == Push(t, leaf)
    IN  IF NeedsWhole(u, leaf, amount, FALSE)
        THEN PushLazy(Push(u, lastUsed), lastUsed, amount, FALSE, nextNode)
        ELSE PushLazy(u, leaf, amount, FALSE, nextNode)
=============================================================================
