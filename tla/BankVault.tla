------------------------------ MODULE BankVault ------------------------------
(***************************************************************************)
(* The money of one pool: the Bank, the LiquidityVault it owns and the     *)
(* SettlementRouter checks on what a hub may settle.                       *)
(*                                                                         *)
(* An operator X_Y marked `faulty' is not part of the specification: it is *)
(* X with a plausible bug, which a property below must detect.             *)
(*                                                                         *)
(* Two contracts hold the asset.  The Bank holds the principal of open     *)
(* bets (P), protocol fees (PF), referral payables (XP) and player         *)
(* payables (PP); the Vault holds the capital of the liquidity providers   *)
(* (L), of which K is locked behind open bets.  R is the sum of the        *)
(* maximum costs of open bets.  Anything above what is owed is surplus.    *)
(*                                                                         *)
(* One action is one transaction.  A hub is arbitrary: it may open and     *)
(* close a position with any values the Router and the Bank accept.  The   *)
(* asset is a standard ERC20 (transfers move exactly the amount), except   *)
(* that a transfer to a player may fail.  Solidity's checked arithmetic    *)
(* reverts on underflow: such a subtraction appears as a guard.            *)
(*                                                                         *)
(* The tree that splits L among deposits is not here: a withdrawal may     *)
(* take any amount.  XP is the total of its three buckets: moving value    *)
(* between them (unlockXPLocked, syncXPHoldback) is no step here.          *)
(***************************************************************************)
EXTENDS Integers, FiniteSets, FiniteSetsExt

CONSTANTS
    Players, NoPlayer,
    HoldIds,
    Amounts,             \* amounts of an LP deposit or withdrawal, a donation or a claim
    Stakes, Reserves,    \* stakes and maximum costs of positions
    Payouts, Accruals,   \* what a hub pays a player, and accrues as fees or for referrers
    EdgeBpsValues,       \* house edges positions are opened with
    BufferBpsValues,     \* values of riskReserveBps and withdrawalBufferBps
    BPS, LP_SHARE_BPS,   \* 10000 and 5000 in the code
    MAX_TREE_CAPITAL,    \* 2^108 - 1 in the code
    MAX_OPEN_HOLDS,      \* 128 in the code
    MAX_OPEN_HOLDS_PER_PLAYER,
    MinBetAmount,
    Supply               \* bound: all the asset there is

ASSUME PlayerAssumption == NoPlayer \notin Players
\* Addresses and position ids have a fixed width.
ASSUME FiniteAssumption == IsFiniteSet(Players) /\ IsFiniteSet(HoldIds)
ASSUME AmountAssumption ==
    /\ Amounts \subseteq Nat \ {0}
    /\ Stakes \subseteq Nat \ {0} /\ Reserves \subseteq Nat \ {0}
    /\ Payouts \subseteq Nat /\ Accruals \subseteq Nat
    /\ MinBetAmount \in Nat /\ Supply \in Nat
ASSUME ParameterAssumption ==
    /\ BPS \in Nat \ {0} /\ LP_SHARE_BPS \in 0..BPS
    /\ EdgeBpsValues \subseteq 0..BPS
    /\ BufferBpsValues \subseteq 0..BPS /\ BufferBpsValues # {}
    /\ MAX_TREE_CAPITAL \in Nat
    /\ MAX_OPEN_HOLDS \in Nat /\ MAX_OPEN_HOLDS_PER_PLAYER \in Nat

VARIABLES
    \* the asset
    bankCash, vaultCash, outsideCash,
    \* Bank
    pendingStakeTotal,     \* P
    totalReserved,         \* R
    protocolFeesPayable,   \* PF
    externalPayables,      \* XP
    playerPayable, playerPayableTotal,  \* PP
    holds, openHolds, playerOpenHolds,
    paused, riskReserveBps, withdrawalBufferBps,
    \* LiquidityVault
    reserve,               \* L, the root of the liquidity tree
    lockedLiquidity,       \* K
    \* VRFHub, through the Router
    unbooked               \* positions whose result was received and not booked

cashVars == <<bankCash, vaultCash, outsideCash>>
holdVars == <<pendingStakeTotal, totalReserved, holds, openHolds, playerOpenHolds>>
payableVars == <<protocolFeesPayable, externalPayables, playerPayable, playerPayableTotal>>
paramVars == <<paused, riskReserveBps, withdrawalBufferBps>>
vaultVars == <<reserve, lockedLiquidity>>
vars == <<cashVars, holdVars, payableVars, paramVars, vaultVars, unbooked>>

-----------------------------------------------------------------------------
NoHold == [player |-> NoPlayer, stake |-> 0, reserved |-> 0, edge |-> 0, open |-> FALSE]

Init ==
    /\ bankCash = 0 /\ vaultCash = 0 /\ outsideCash = Supply
    /\ pendingStakeTotal = 0 /\ totalReserved = 0
    /\ protocolFeesPayable = 0 /\ externalPayables = 0
    /\ playerPayable = [p \in Players |-> 0] /\ playerPayableTotal = 0
    /\ holds = [i \in HoldIds |-> NoHold]
    /\ openHolds = 0
    /\ playerOpenHolds = [p \in Players |-> 0]
    /\ paused = FALSE
    /\ riskReserveBps \in BufferBpsValues
    /\ withdrawalBufferBps = riskReserveBps
    /\ reserve = 0 /\ lockedLiquidity = 0
    /\ unbooked = {}

BankOwed == pendingStakeTotal + protocolFeesPayable + externalPayables + playerPayableTotal

(***************************************************************************)
(* Bank._requireAccounting, which getSSOT reports as accountingValid: each *)
(* contract holds what it owes, the Vault's lock is exactly what the       *)
(* Bank's open holds may cost beyond their principal, and it is covered.   *)
(* The code checks it on entry; it must hold after every transaction.      *)
(***************************************************************************)
AccountingValid ==
    /\ bankCash >= BankOwed
    /\ vaultCash >= reserve
    /\ totalReserved - pendingStakeTotal = lockedLiquidity
    /\ lockedLiquidity <= reserve
    /\ reserve + pendingStakeTotal <= MAX_TREE_CAPITAL

Gross == reserve + pendingStakeTotal

\* AccountingLib.buffer.
Buffer(capital, bps) == (capital * bps) \div BPS

\* HouseEdgeLib.turnoverEdge and operatorShare, as SettlementRouter._allocationCap uses them.
AllocationCap(h, refund) ==
    ((((h.stake - refund) * h.edge) \div BPS) * (BPS - LP_SHARE_BPS)) \div BPS

\* LiquidityVault._lpState and Bank.lpAccounting: liquidity providers may enter or leave.
LpReady_NoFence == AccountingValid  \* faulty: a known result does not hold them
LpReady == AccountingValid /\ unbooked = {}

-----------------------------------------------------------------------------
\* LiquidityVault.addDeposit and addDepositFor; _pullExact refuses an inexact transfer.
AddDeposit_Inexact(amount) ==  \* faulty: books what was sent, not what arrived
    /\ ~paused /\ LpReady
    /\ amount <= MAX_TREE_CAPITAL - reserve - pendingStakeTotal
    /\ amount <= outsideCash
    /\ outsideCash' = outsideCash - amount
    /\ vaultCash' = vaultCash + amount - 1
    /\ reserve' = reserve + amount
    /\ UNCHANGED <<bankCash, holdVars, payableVars, paramVars, lockedLiquidity, unbooked>>

AddDeposit(amount) ==
    /\ ~paused
    /\ LpReady
    /\ amount <= MAX_TREE_CAPITAL - reserve - pendingStakeTotal
    /\ amount <= outsideCash
    /\ outsideCash' = outsideCash - amount
    /\ vaultCash' = vaultCash + amount
    /\ reserve' = reserve + amount
    /\ UNCHANGED <<bankCash, holdVars, payableVars, paramVars, lockedLiquidity, unbooked>>

FreeCapital_All == reserve  \* faulty: what is locked may leave
FreeCapital == reserve - lockedLiquidity

\* LiquidityVault.withdrawDeposit: a deposit, or a percentage of it, worth `assets'.
WithdrawDeposit(assets) ==
    /\ LpReady
    /\ assets <= FreeCapital
    /\ reserve' = reserve - assets
    /\ vaultCash' = vaultCash - assets
    /\ outsideCash' = outsideCash + assets
    /\ UNCHANGED <<bankCash, holdVars, payableVars, paramVars, lockedLiquidity, unbooked>>

HasSlot(player) ==
    openHolds < MAX_OPEN_HOLDS /\ playerOpenHolds[player] < MAX_OPEN_HOLDS_PER_PLAYER

(***************************************************************************)
(* SettlementRouter.openPosition and Bank.holdBet, which locks reserved -  *)
(* stake in the Vault (lockLiquidity).                                     *)
(***************************************************************************)
HoldBet(i, player, stake, reserved, edge) ==
    /\ holds[i].player = NoPlayer
    /\ ~paused
    /\ HasSlot(player)
    /\ stake >= MinBetAmount
    /\ reserved >= stake
    /\ AccountingValid
    /\ reserve # 0
    /\ LET gross == Gross + stake
           reservedAfter == totalReserved + reserved
       IN  /\ gross <= MAX_TREE_CAPITAL
           /\ gross - reservedAfter >= Buffer(gross, riskReserveBps)
           /\ totalReserved' = reservedAfter
    /\ stake <= outsideCash
    /\ outsideCash' = outsideCash - stake
    /\ bankCash' = bankCash + stake
    /\ pendingStakeTotal' = pendingStakeTotal + stake
    /\ openHolds' = openHolds + 1
    /\ playerOpenHolds' = [playerOpenHolds EXCEPT ![player] = @ + 1]
    /\ holds' = [holds EXCEPT ![i] = [player |-> player, stake |-> stake,
                                     reserved |-> reserved, edge |-> edge, open |-> TRUE]]
    /\ lockedLiquidity + (reserved - stake) <= reserve
    /\ lockedLiquidity' = lockedLiquidity + (reserved - stake)
    /\ UNCHANGED <<vaultCash, payableVars, paramVars, reserve, unbooked>>

\* VRFHub stores the result of a position: its Bank is fenced until it is booked.
ReceiveResult(i) ==
    /\ holds[i].open
    /\ unbooked' = unbooked \cup {i}
    /\ UNCHANGED <<cashVars, holdVars, payableVars, paramVars, vaultVars>>

-----------------------------------------------------------------------------
(***************************************************************************)
(* Closing a hold.  LiquidityVault.applySettlement moves the difference    *)
(* between cost and stake between the two custodies; Bank._applyHold       *)
(* releases the principal and the reservation.                             *)
(***************************************************************************)
Loss(h, cost) == IF cost > h.stake THEN cost - h.stake ELSE 0
Profit(h, cost) == IF h.stake > cost THEN h.stake - cost ELSE 0

\* Profit earned while no liquidity provider has capital belongs to the protocol.
ProtocolCapital(h, cost) == IF reserve = 0 THEN Profit(h, cost) ELSE 0
LpProfit_Always(h, cost) == Profit(h, cost)  \* faulty: an empty tree earns too
LpProfit(h, cost) == IF reserve = 0 THEN 0 ELSE Profit(h, cost)

\* LiquidityTree._changeAmount skips a reduction the root cannot cover.
ReserveAfter(h, cost) ==
    LET loss == IF Loss(h, cost) <= reserve THEN Loss(h, cost) ELSE 0
    IN  reserve - loss + LpProfit(h, cost)

ApplySettlement(h, cost) ==
    /\ vaultCash >= reserve
    /\ h.reserved - h.stake <= lockedLiquidity
    /\ cost <= h.reserved
    /\ Loss(h, cost) <= vaultCash
    /\ LpProfit(h, cost) > 0 => reserve + LpProfit(h, cost) <= MAX_TREE_CAPITAL
    /\ LpProfit(h, cost) <= bankCash
    /\ lockedLiquidity' = lockedLiquidity - (h.reserved - h.stake)
    /\ reserve' = ReserveAfter(h, cost)
    /\ reserve' >= lockedLiquidity'
    /\ vaultCash' = vaultCash - Loss(h, cost) + LpProfit(h, cost)

ReleaseSlot_KeepsPlayers(player) ==  \* faulty: the player's slot leaks
    openHolds > 0 /\ openHolds' = openHolds - 1 /\ UNCHANGED playerOpenHolds

ReleaseSlot(player) ==
    /\ playerOpenHolds[player] > 0 /\ openHolds > 0
    /\ playerOpenHolds' = [playerOpenHolds EXCEPT ![player] = @ - 1]
    /\ openHolds' = openHolds - 1

\* Bank._applyHold.  A closed hold has no result to book any more; that a hub never refunds a
\* bet whose result was received is a property of BetLifecycle.
ApplyHold(i, cost) ==
    LET h == holds[i]
    IN  /\ h.open
        /\ ApplySettlement(h, cost)
        /\ h.stake <= pendingStakeTotal
        /\ h.reserved <= totalReserved
        /\ ReleaseSlot(h.player)
        /\ pendingStakeTotal' = pendingStakeTotal - h.stake
        /\ totalReserved' = totalReserved - h.reserved
        /\ holds' = [holds EXCEPT ![i].open = FALSE]
        /\ unbooked' = unbooked \ {i}

\* Bank cash after applySettlement, before the player is paid.
CashAfterApply(h, cost) == bankCash + Loss(h, cost) - LpProfit(h, cost)

\* Bank._payPlayer: a failed transfer books the whole amount as a payable.

BookPayable(player, amount) ==
    /\ playerPayable' = [playerPayable EXCEPT ![player] = @ + amount]
    /\ playerPayableTotal' = playerPayableTotal + amount

PayPlayer(h, amount, cash, paid) ==
    IF paid
    THEN /\ amount <= cash
         /\ bankCash' = cash - amount
         /\ outsideCash' = outsideCash + amount
         /\ UNCHANGED <<playerPayable, playerPayableTotal>>
    ELSE /\ bankCash' = cash
         /\ BookPayable(h.player, amount)
         /\ UNCHANGED outsideCash

(***************************************************************************)
(* SettlementRouter.settlePosition and Bank.settleBet: the player gets     *)
(* `net' and `refund' of the stake; `fee' and `xp' are accrued to the      *)
(* protocol and to referrers.  Of the gross payout the code asks only      *)
(* net <= gross and gross + refund <= reserved.                            *)
(***************************************************************************)
SettleBet(i, net, refund, fee, xp, paid) ==
    LET h == holds[i]
        cost == net + refund + fee + xp
    IN  /\ refund <= h.stake
        /\ net + refund <= h.reserved
        /\ fee + xp <= AllocationCap(h, refund)
        /\ ApplyHold(i, cost)
        /\ PayPlayer(h, net + refund, CashAfterApply(h, cost), paid)
        /\ protocolFeesPayable' = protocolFeesPayable + ProtocolCapital(h, cost) + fee
        /\ externalPayables' = externalPayables + xp
        /\ UNCHANGED paramVars
        /\ AccountingValid'

\* SettlementRouter.refundPosition and Bank.refundBet.
RefundBet(i, refund, paid) ==
    LET h == holds[i]
    IN  /\ refund <= h.stake
        /\ ApplyHold(i, refund)
        /\ PayPlayer(h, refund, CashAfterApply(h, refund), paid)
        /\ protocolFeesPayable' = protocolFeesPayable + ProtocolCapital(h, refund)
        /\ UNCHANGED <<externalPayables, paramVars>>
        /\ AccountingValid'

\* SettlementRouter.voidPosition and Bank.voidBet: the stake becomes a payable, no transfer.
VoidBet(i) ==
    LET h == holds[i]
    IN  /\ ApplyHold(i, h.stake)
        /\ PayPlayer(h, h.stake, CashAfterApply(h, h.stake), FALSE)
        /\ protocolFeesPayable' = protocolFeesPayable + ProtocolCapital(h, h.stake)
        /\ UNCHANGED <<externalPayables, paramVars>>
        /\ AccountingValid'

-----------------------------------------------------------------------------
\* Bank._pushExact.  The receiver may be the Bank itself or the Vault.
Push(amount, receiver) ==
    /\ amount <= bankCash
    /\ bankCash' = IF receiver = "bank" THEN bankCash ELSE bankCash - amount
    /\ vaultCash' = IF receiver = "vault" THEN vaultCash + amount ELSE vaultCash
    /\ outsideCash' = IF receiver = "outside" THEN outsideCash + amount ELSE outsideCash

Receivers == {"outside", "bank", "vault"}

\* Bank._checkOptionalOutflowDomain.
OptionalOutflowDomain ==
    AccountingValid /\ Gross - totalReserved >= Buffer(Gross, withdrawalBufferBps)

PayableDue_Gated(p) == playerPayable[p] > 0 /\ OptionalOutflowDomain  \* faulty: treated as optional
PayableDue(p) == playerPayable[p] > 0

\* Bank.claimPlayerPayable, by anyone, always to the player.
ClaimPlayerPayable(p) ==
    LET amount == playerPayable[p]
    IN  /\ PayableDue(p)
        /\ amount <= playerPayableTotal
        /\ playerPayable' = [playerPayable EXCEPT ![p] = 0]
        /\ playerPayableTotal' = playerPayableTotal - amount
        /\ Push(amount, "outside")
        /\ UNCHANGED <<holdVars, protocolFeesPayable, externalPayables, paramVars,
                       vaultVars, unbooked>>

FeesDue(amount) == amount <= protocolFeesPayable

\* Bank.claimProtocolFees, by governance.
ClaimProtocolFees(amount, receiver) ==
    /\ FeesDue(amount)
    /\ OptionalOutflowDomain
    /\ protocolFeesPayable' = protocolFeesPayable - amount
    /\ Push(amount, receiver)
    /\ UNCHANGED <<holdVars, externalPayables, playerPayable, playerPayableTotal, paramVars,
                   vaultVars, unbooked>>

\* Bank.claimXPAccrued, by a referral payee.
ClaimXPAccrued(amount, receiver) ==
    /\ amount <= externalPayables
    /\ OptionalOutflowDomain
    /\ externalPayables' = externalPayables - amount
    /\ Push(amount, receiver)
    /\ UNCHANGED <<holdVars, protocolFeesPayable, playerPayable, playerPayableTotal, paramVars,
                   vaultVars, unbooked>>

\* Anyone may send the asset to either contract; no contract books it.
Donate(amount, receiver) ==
    /\ receiver # "outside"
    /\ amount <= outsideCash
    /\ outsideCash' = outsideCash - amount
    /\ bankCash' = IF receiver = "bank" THEN bankCash + amount ELSE bankCash
    /\ vaultCash' = IF receiver = "vault" THEN vaultCash + amount ELSE vaultCash
    /\ UNCHANGED <<holdVars, payableVars, paramVars, vaultVars, unbooked>>

\* Bank.setRiskInPaused, and the two buffers governance sets.
SetRiskInPaused(v) ==
    /\ paused' = v
    /\ UNCHANGED <<cashVars, holdVars, payableVars, riskReserveBps, withdrawalBufferBps,
                   vaultVars, unbooked>>

SetRiskReserveBps(bps) ==
    /\ riskReserveBps' = bps
    /\ UNCHANGED <<cashVars, holdVars, payableVars, paused, withdrawalBufferBps,
                   vaultVars, unbooked>>

SetWithdrawalBufferBps(bps) ==
    /\ withdrawalBufferBps' = bps
    /\ UNCHANGED <<cashVars, holdVars, payableVars, paused, riskReserveBps,
                   vaultVars, unbooked>>

-----------------------------------------------------------------------------
Settle(i) ==
    \E n, r \in Payouts, f, x \in Accruals, paid \in BOOLEAN : SettleBet(i, n, r, f, x, paid)

Next ==
    \/ \E a \in Amounts : AddDeposit(a) \/ WithdrawDeposit(a)
    \/ \E i \in HoldIds, p \in Players, s \in Stakes, r \in Reserves, e \in EdgeBpsValues :
            HoldBet(i, p, s, r, e)
    \/ \E i \in HoldIds : ReceiveResult(i) \/ Settle(i) \/ VoidBet(i)
    \/ \E i \in HoldIds, c \in Payouts, paid \in BOOLEAN : RefundBet(i, c, paid)
    \/ \E p \in Players : ClaimPlayerPayable(p)
    \/ \E a \in Amounts, to \in Receivers :
            ClaimProtocolFees(a, to) \/ ClaimXPAccrued(a, to) \/ Donate(a, to)
    \/ \E v \in BOOLEAN : SetRiskInPaused(v)
    \/ \E bps \in BufferBpsValues : SetRiskReserveBps(bps) \/ SetWithdrawalBufferBps(bps)

Spec == Init /\ [][Next]_vars

-----------------------------------------------------------------------------
(***************************************************************************)
(* Properties.                                                             *)
(***************************************************************************)
HoldRecords ==
    [player : Players \cup {NoPlayer}, stake : Nat, reserved : Nat, edge : 0..BPS,
     open : BOOLEAN]

\* No balance, debt or counter is ever negative (Solidity would revert, and block the exit).
TypeOK ==
    /\ bankCash \in Nat /\ vaultCash \in Nat /\ outsideCash \in Nat
    /\ pendingStakeTotal \in Nat /\ totalReserved \in Nat
    /\ protocolFeesPayable \in Nat /\ externalPayables \in Nat
    /\ playerPayable \in [Players -> Nat] /\ playerPayableTotal \in Nat
    /\ holds \in [HoldIds -> HoldRecords]
    /\ openHolds \in Nat /\ playerOpenHolds \in [Players -> Nat]
    /\ paused \in BOOLEAN
    /\ riskReserveBps \in 0..BPS /\ withdrawalBufferBps \in 0..BPS
    /\ reserve \in Nat /\ lockedLiquidity \in Nat
    /\ unbooked \subseteq HoldIds

(***************************************************************************)
(* The totals the Bank keeps are what its open holds add up to, per Bank   *)
(* and per player, and never exceed the limits on open holds: no sequence  *)
(* of settlements, refunds and voids leaks a slot, principal or reserve,   *)
(* and the total owed to players is what each of them is owed.             *)
(* (Bank._applyHold, Bank.openHolds, Bank._payPlayer)                      *)
(***************************************************************************)
OpenHoldsOf(S) == {i \in HoldIds : holds[i].open /\ holds[i].player \in S}

TotalsAreSums ==
    LET open == OpenHoldsOf(Players)
    IN  /\ pendingStakeTotal = MapThenSumSet(LAMBDA i : holds[i].stake, open)
        /\ totalReserved = MapThenSumSet(LAMBDA i : holds[i].reserved, open)
        /\ openHolds = Cardinality(open) /\ openHolds <= MAX_OPEN_HOLDS
        /\ \A p \in Players : /\ playerOpenHolds[p] = Cardinality(OpenHoldsOf({p}))
                             /\ playerOpenHolds[p] <= MAX_OPEN_HOLDS_PER_PLAYER
        /\ unbooked \subseteq open
        /\ playerPayableTotal = MapThenSumSet(LAMBDA p : playerPayable[p], Players)

(***************************************************************************)
(* Nothing owed is stuck.  Whatever happened before (exits of liquidity    *)
(* providers, an empty pool, other losses, a pause, failed payments), an   *)
(* open hold can be closed with every outcome within its reservation, be   *)
(* refunded and be voided, and every payable can be claimed: no guard on   *)
(* the way (cash, lock, tree capacity, accounting) ever refuses.           *)
(***************************************************************************)
NothingOwedIsStuck ==
    /\ \A i \in HoldIds : holds[i].open =>
        /\ ENABLED VoidBet(i)
        /\ \A paid \in BOOLEAN, r \in 0..holds[i].stake :
            /\ ENABLED RefundBet(i, r, paid)
            /\ \A n \in 0..(holds[i].reserved - r), f \in 0..AllocationCap(holds[i], r) :
                 n + r + f <= holds[i].reserved => ENABLED SettleBet(i, n, r, f, 0, paid)
    /\ \A p \in Players : playerPayable[p] > 0 => ENABLED ClaimPlayerPayable(p)

\* A step closes some open hold that may cost the pool at least `loss'.
ClosesHoldFor(loss) ==
    \E i \in HoldIds : /\ holds[i].open /\ ~holds'[i].open
                       /\ loss <= holds[i].reserved - holds[i].stake

(***************************************************************************)
(* The capital of liquidity providers falls in two ways only: they take    *)
(* unlocked capital out while no result is known and unbooked, or a bet    *)
(* closes, for at most what was locked behind it.                          *)
(***************************************************************************)
LpLossIsReserved ==
    [][reserve' < reserve =>
          \/ /\ unbooked = {} /\ holds' = holds /\ reserve' >= lockedLiquidity
          \/ ClosesHoldFor(reserve - reserve')]_vars

(***************************************************************************)
(* Profit is never booked into an empty tree: only a deposit ends an empty *)
(* pool.  The proof of the tree's allocation (comment of                   *)
(* LiquidityVault._allocate) rests on it.                                  *)
(***************************************************************************)
OnlyADepositFillsAnEmptyTree ==
    [][reserve = 0 /\ reserve' > 0 => holds' = holds /\ outsideCash' = outsideCash - reserve']_vars

(***************************************************************************)
(* The two contracts together keep the ledger of PoolLedger.  Its accounts *)
(* are the liabilities the contracts book, and its two surpluses the cash  *)
(* above them.                                                             *)
(***************************************************************************)
BankSurplus == bankCash - BankOwed
VaultSurplus == vaultCash - reserve

Ledger == INSTANCE PoolLedger
            WITH outside <- outsideCash, lp <- reserve, principal <- pendingStakeTotal,
                 fees <- protocolFeesPayable, xp <- externalPayables,
                 payable <- playerPayableTotal,
                 bankSurplus <- BankSurplus, vaultSurplus <- VaultSurplus

ImplementsLedger == Ledger!Spec
=============================================================================
