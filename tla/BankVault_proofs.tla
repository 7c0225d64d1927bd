--------------------------- MODULE BankVault_proofs ---------------------------
(***************************************************************************)
(* Proofs about BankVault, for every value of its constants.               *)
(*                                                                         *)
(* TypeOK alone is not inductive: a withdrawal leaves the Vault's cash     *)
(* non-negative only because the accounting was valid before.  The         *)
(* inductive invariant is TypeOK /\ AccountingValid; TotalsInv, at the     *)
(* end, relates the totals to the holds and players they are sums over.    *)
(***************************************************************************)
EXTENDS BankVault, SetInduction, TLAPS

\* Guards and steps of a line each are read as what they stand for.
USE DEF FreeCapital, HasSlot, ReleaseSlot, BookPayable, PayableDue, FeesDue

Inv == TypeOK /\ AccountingValid

LEMMA InitInv == Init => Inv
<1> SUFFICES ASSUME Init PROVE Inv
  OBVIOUS
<1>1. holds \in [HoldIds -> HoldRecords]
  <2>1. NoHold \in HoldRecords
    BY ParameterAssumption DEF NoHold, HoldRecords
  <2> QED BY <2>1 DEF Init
<1>2. BufferBpsValues \subseteq 0..BPS
  BY ParameterAssumption
<1>3. TypeOK
  BY <1>1, <1>2, AmountAssumption DEF Init, TypeOK
<1>4. AccountingValid
  BY ParameterAssumption DEF Init, AccountingValid, BankOwed
<1> QED BY <1>3, <1>4 DEF Inv

\* A deposit and an exit of a liquidity provider.
LEMMA LpInv ==
    ASSUME Inv, NEW a \in Amounts, AddDeposit(a) \/ WithdrawDeposit(a)
    PROVE  Inv'
<1> USE AmountAssumption, ParameterAssumption
        DEF Inv, AccountingValid, BankOwed, LpReady, cashVars, holdVars, payableVars,
            paramVars, vaultVars
<1>1. CASE AddDeposit(a)
  <2>1. TypeOK'
    BY <1>1 DEF AddDeposit, TypeOK, HoldRecords
  <2>2. AccountingValid'
    BY <1>1 DEF AddDeposit, TypeOK
  <2> QED BY <2>1, <2>2
<1>2. CASE WithdrawDeposit(a)
  <2>1. TypeOK'
    BY <1>2 DEF WithdrawDeposit, TypeOK, HoldRecords
  <2>2. AccountingValid'
    BY <1>2 DEF WithdrawDeposit, TypeOK
  <2> QED BY <2>1, <2>2
<1> QED BY <1>1, <1>2

LEMMA HoldBetInv ==
    ASSUME Inv, NEW i \in HoldIds, NEW p \in Players, NEW s \in Stakes, NEW r \in Reserves,
           NEW e \in EdgeBpsValues, HoldBet(i, p, s, r, e)
    PROVE  Inv'
<1> USE AmountAssumption, ParameterAssumption DEF Inv, TypeOK
<1>1. s \in Nat /\ r \in Nat /\ e \in 0..BPS /\ r >= s
  BY DEF HoldBet
<1>2. holds' \in [HoldIds -> HoldRecords]
  BY <1>1 DEF HoldBet, HoldRecords
<1>3. totalReserved' = totalReserved + r /\ reserve + pendingStakeTotal + s <= MAX_TREE_CAPITAL
  BY <1>1 DEF HoldBet, Gross
<1>4. playerOpenHolds' \in [Players -> Nat]
  BY DEF HoldBet
<1>5. TypeOK'
  BY <1>1, <1>2, <1>3, <1>4 DEF HoldBet, payableVars, paramVars
<1>6. AccountingValid'
  BY <1>1, <1>3 DEF HoldBet, AccountingValid, BankOwed, payableVars, paramVars
<1> QED BY <1>5, <1>6

\* What one closing does to the hold and the Vault, whatever it costs.
LEMMA ApplyHoldType ==
    ASSUME Inv, NEW i \in HoldIds, NEW cost \in Nat, ApplyHold(i, cost)
    PROVE  /\ holds[i].stake \in Nat /\ holds[i].reserved \in Nat /\ holds[i].edge \in 0..BPS
           /\ pendingStakeTotal' \in Nat /\ totalReserved' \in Nat
           /\ holds' \in [HoldIds -> HoldRecords]
           /\ openHolds' \in Nat /\ playerOpenHolds' \in [Players -> Nat]
           /\ reserve' \in Nat /\ lockedLiquidity' \in Nat /\ vaultCash' \in Nat
           /\ unbooked' \subseteq HoldIds
           /\ CashAfterApply(holds[i], cost) \in Nat
           /\ ProtocolCapital(holds[i], cost) \in Nat
<1> USE DEF Inv, TypeOK, ApplyHold
<1>1. holds[i] \in HoldRecords
  OBVIOUS
<1>2. holds[i].stake \in Nat /\ holds[i].reserved \in Nat /\ holds[i].edge \in 0..BPS
  BY <1>1 DEF HoldRecords
<1>3. holds' \in [HoldIds -> HoldRecords]
  BY <1>1 DEF HoldRecords
<1>4. playerOpenHolds' \in [Players -> Nat]
  <2>1. playerOpenHolds' = [playerOpenHolds EXCEPT ![holds[i].player] = @ - 1]
    OBVIOUS
  <2>2. CASE holds[i].player \in Players
    BY <2>1, <2>2
  <2>3. CASE holds[i].player \notin Players
    BY <2>1, <2>3
  <2> QED BY <2>2, <2>3
<1>5. /\ reserve' \in Nat /\ lockedLiquidity' \in Nat /\ vaultCash' \in Nat
      /\ CashAfterApply(holds[i], cost) \in Nat
      /\ ProtocolCapital(holds[i], cost) \in Nat
  BY <1>2 DEF ApplySettlement, CashAfterApply, ReserveAfter, ProtocolCapital, LpProfit,
              Profit, Loss
<1>6. pendingStakeTotal' \in Nat /\ totalReserved' \in Nat
  BY <1>2
<1>7. openHolds' \in Nat /\ unbooked' \subseteq HoldIds
  OBVIOUS
<1> QED BY <1>2, <1>3, <1>4, <1>5, <1>6, <1>7

\* A payment to a player, made or booked, keeps every amount a natural number.
LEMMA PayPlayerType ==
    ASSUME TypeOK, NEW i \in HoldIds, NEW amount \in Nat, NEW cash \in Nat,
           NEW paid \in BOOLEAN, PayPlayer(holds[i], amount, cash, paid)
    PROVE  /\ bankCash' \in Nat /\ outsideCash' \in Nat
           /\ playerPayable' \in [Players -> Nat] /\ playerPayableTotal' \in Nat
<1>1. CASE paid
  BY <1>1 DEF PayPlayer, TypeOK
<1>2. CASE ~paid
  <2>1. playerPayable' = [playerPayable EXCEPT ![holds[i].player] = @ + amount]
    BY <1>2 DEF PayPlayer
  <2>2. playerPayable' \in [Players -> Nat]
    <3>1. CASE holds[i].player \in Players
      BY <2>1, <3>1 DEF TypeOK
    <3>2. CASE holds[i].player \notin Players
      BY <2>1, <3>2 DEF TypeOK
    <3> QED BY <3>1, <3>2
  <2> QED BY <1>2, <2>2 DEF PayPlayer, TypeOK
<1> QED BY <1>1, <1>2

LEMMA CloseInv ==
    ASSUME Inv, NEW i \in HoldIds,
           \/ Settle(i) \/ VoidBet(i)
           \/ \E c \in Payouts, paid \in BOOLEAN : RefundBet(i, c, paid)
    PROVE  Inv'
<1> USE AmountAssumption DEF Inv
<1>1. CASE Settle(i)
  <2>1. PICK n \in Payouts, r \in Payouts, f \in Accruals, x \in Accruals, paid \in BOOLEAN :
            SettleBet(i, n, r, f, x, paid)
    BY <1>1 DEF Settle
  <2> DEFINE cost == n + r + f + x
  <2>2. /\ n \in Nat /\ r \in Nat /\ f \in Nat /\ x \in Nat /\ cost \in Nat
        /\ n + r \in Nat
    OBVIOUS
  <2>3. /\ ApplyHold(i, cost) /\ PayPlayer(holds[i], n + r, CashAfterApply(holds[i], cost), paid)
        /\ protocolFeesPayable' = protocolFeesPayable + ProtocolCapital(holds[i], cost) + f
        /\ externalPayables' = externalPayables + x
        /\ UNCHANGED paramVars /\ AccountingValid'
    BY <2>1 DEF SettleBet
  <2> HIDE DEF cost
  <2>4. TypeOK'
    BY <2>2, <2>3, ApplyHoldType, PayPlayerType DEF TypeOK, paramVars
  <2> QED BY <2>3, <2>4
<1>2. CASE VoidBet(i)
  <2> DEFINE s == holds[i].stake
  <2>1. s \in Nat
    BY DEF TypeOK, HoldRecords
  <2>2. /\ ApplyHold(i, s) /\ PayPlayer(holds[i], s, CashAfterApply(holds[i], s), FALSE)
        /\ protocolFeesPayable' = protocolFeesPayable + ProtocolCapital(holds[i], s)
        /\ UNCHANGED <<externalPayables, paramVars>> /\ AccountingValid'
    BY <1>2 DEF VoidBet
  <2> HIDE DEF s
  <2>3. PICK paid \in BOOLEAN : PayPlayer(holds[i], s, CashAfterApply(holds[i], s), paid)
    BY <2>2
  <2>4. TypeOK'
    BY <2>1, <2>2, <2>3, ApplyHoldType, PayPlayerType DEF TypeOK, paramVars
  <2> QED BY <2>2, <2>4
<1>3. CASE \E c \in Payouts, paid \in BOOLEAN : RefundBet(i, c, paid)
  <2>1. PICK c \in Payouts, paid \in BOOLEAN : RefundBet(i, c, paid)
    BY <1>3
  <2>2. /\ ApplyHold(i, c) /\ PayPlayer(holds[i], c, CashAfterApply(holds[i], c), paid)
        /\ protocolFeesPayable' = protocolFeesPayable + ProtocolCapital(holds[i], c)
        /\ UNCHANGED <<externalPayables, paramVars>> /\ AccountingValid'
    BY <2>1 DEF RefundBet
  <2>3. c \in Nat
    OBVIOUS
  <2>4. TypeOK'
    BY <2>2, <2>3, ApplyHoldType, PayPlayerType DEF TypeOK, paramVars
  <2> QED BY <2>2, <2>4
<1> QED BY <1>1, <1>2, <1>3

LEMMA ClaimInv ==
    ASSUME Inv,
           \/ \E p \in Players : ClaimPlayerPayable(p)
           \/ \E a \in Amounts, to \in Receivers :
                  ClaimProtocolFees(a, to) \/ ClaimXPAccrued(a, to) \/ Donate(a, to)
    PROVE  Inv'
<1> USE AmountAssumption
        DEF Inv, TypeOK, AccountingValid, BankOwed, Push, Receivers, holdVars, payableVars,
            paramVars, vaultVars
<1>1. ASSUME NEW p \in Players, ClaimPlayerPayable(p) PROVE Inv'
  BY <1>1 DEF ClaimPlayerPayable
<1>2. ASSUME NEW a \in Amounts, NEW to \in Receivers, ClaimProtocolFees(a, to) PROVE Inv'
  BY <1>2 DEF ClaimProtocolFees
<1>3. ASSUME NEW a \in Amounts, NEW to \in Receivers, ClaimXPAccrued(a, to) PROVE Inv'
  BY <1>3 DEF ClaimXPAccrued
<1>4. ASSUME NEW a \in Amounts, NEW to \in Receivers, Donate(a, to) PROVE Inv'
  BY <1>4 DEF Donate
<1> QED BY <1>1, <1>2, <1>3, <1>4

LEMMA OtherInv ==
    ASSUME Inv,
           \/ \E i \in HoldIds : ReceiveResult(i)
           \/ \E v \in BOOLEAN : SetRiskInPaused(v)
           \/ \E bps \in BufferBpsValues : SetRiskReserveBps(bps) \/ SetWithdrawalBufferBps(bps)
           \/ UNCHANGED vars
    PROVE  Inv'
BY ParameterAssumption
   DEF Inv, TypeOK, AccountingValid, BankOwed, ReceiveResult, SetRiskInPaused,
       SetRiskReserveBps, SetWithdrawalBufferBps, vars, cashVars, holdVars, payableVars,
       paramVars, vaultVars, HoldRecords

LEMMA NextInv == Inv /\ [Next]_vars => Inv'
<1> SUFFICES ASSUME Inv, [Next]_vars PROVE Inv'
  OBVIOUS
<1>1. CASE \E a \in Amounts : AddDeposit(a) \/ WithdrawDeposit(a)
  BY <1>1, LpInv
<1>2. CASE \E i \in HoldIds, p \in Players, s \in Stakes, r \in Reserves, e \in EdgeBpsValues :
               HoldBet(i, p, s, r, e)
  BY <1>2, HoldBetInv
<1>3. CASE \E i \in HoldIds : Settle(i) \/ VoidBet(i)
  BY <1>3, CloseInv
<1>4. CASE \E i \in HoldIds, c \in Payouts, paid \in BOOLEAN : RefundBet(i, c, paid)
  BY <1>4, CloseInv
<1> QED BY <1>1, <1>2, <1>3, <1>4, ClaimInv, OtherInv DEF Next

(***************************************************************************)
(* Every amount the pool books stays a natural number: no subtraction of   *)
(* Bank, Vault or Router is ever applied to less than it takes.            *)
(***************************************************************************)
THEOREM TypeCorrect == Spec => []TypeOK
<1>1. Spec => []Inv
  BY InitInv, NextInv, PTL DEF Spec
<1>2. Inv => TypeOK
  BY DEF Inv
<1> QED BY <1>1, <1>2, PTL

(***************************************************************************)
(* After every transaction each contract holds what it owes, and the lock  *)
(* in the Vault is exactly what the open holds of the Bank may cost beyond *)
(* their principal, and is covered by the capital of the pool              *)
(* (Bank._requireAccounting, getSSOT().accountingValid).                   *)
(***************************************************************************)
THEOREM AccountingStaysValid == Spec => []AccountingValid
<1>1. Spec => []Inv
  BY InitInv, NextInv, PTL DEF Spec
<1>2. Inv => AccountingValid
  BY DEF Inv
<1> QED BY <1>1, <1>2, PTL

-----------------------------------------------------------------------------
(***************************************************************************)
(* Who may lower the capital of liquidity providers.                       *)
(***************************************************************************)
LEMMA CloseCost ==
    ASSUME Inv, NEW i \in HoldIds, NEW cost \in Nat, ApplyHold(i, cost)
    PROVE  /\ holds[i].open /\ ~holds'[i].open
           /\ reserve' < reserve => ClosesHoldFor(reserve - reserve')
           /\ reserve = 0 => reserve' = 0
<1>1. holds[i] \in HoldRecords
  BY DEF Inv, TypeOK
<1>2. holds[i].open /\ ~holds'[i].open
  BY <1>1 DEF ApplyHold, Inv, TypeOK, HoldRecords
<1>3. /\ holds[i].stake \in Nat /\ holds[i].reserved \in Nat /\ cost <= holds[i].reserved
      /\ reserve' = ReserveAfter(holds[i], cost) /\ reserve \in Nat
      /\ lockedLiquidity \in Nat /\ lockedLiquidity' \in Nat
      /\ lockedLiquidity' = lockedLiquidity - (holds[i].reserved - holds[i].stake)
      /\ lockedLiquidity <= reserve
  BY <1>1, ApplyHoldType
     DEF HoldRecords, ApplyHold, ApplySettlement, Inv, TypeOK, AccountingValid
<1>4. reserve' < reserve => reserve - reserve' <= holds[i].reserved - holds[i].stake
  BY <1>3 DEF ReserveAfter, LpProfit, Profit, Loss
<1>5. reserve = 0 => reserve' = 0
  BY <1>3 DEF ReserveAfter, LpProfit, Profit, Loss
<1> QED BY <1>2, <1>4, <1>5 DEF ClosesHoldFor

LEMMA CloseReserve ==
    ASSUME Inv, NEW i \in HoldIds,
           \/ Settle(i) \/ VoidBet(i)
           \/ \E c \in Payouts, paid \in BOOLEAN : RefundBet(i, c, paid)
    PROVE  /\ holds' # holds
           /\ reserve' < reserve => ClosesHoldFor(reserve - reserve')
           /\ reserve = 0 => reserve' = 0
<1>1. \E cost \in Nat : ApplyHold(i, cost)
  <2>1. CASE Settle(i)
    <3>1. PICK n \in Payouts, r \in Payouts, f \in Accruals, x \in Accruals, paid \in BOOLEAN :
              SettleBet(i, n, r, f, x, paid)
      BY <2>1 DEF Settle
    <3>2. n + r + f + x \in Nat
      BY AmountAssumption
    <3> QED BY <3>1, <3>2 DEF SettleBet
  <2>2. CASE VoidBet(i)
    BY <2>2 DEF VoidBet, Inv, TypeOK, HoldRecords
  <2>3. CASE \E c \in Payouts, paid \in BOOLEAN : RefundBet(i, c, paid)
    BY <2>3, AmountAssumption DEF RefundBet
  <2> QED BY <2>1, <2>2, <2>3
<1> QED BY <1>1, CloseCost

\* No step but a deposit, an exit and a closing touches the capital of the pool.
LEMMA ReserveMoves ==
    ASSUME Inv, [Next]_vars
    PROVE  \/ \E a \in Amounts : AddDeposit(a) \/ WithdrawDeposit(a)
           \/ /\ reserve' < reserve => ClosesHoldFor(reserve - reserve')
              /\ reserve = 0 => reserve' = 0
<1> USE DEF Inv, TypeOK, holdVars, payableVars, paramVars, vaultVars
<1>1. CASE \E i \in HoldIds : Settle(i) \/ VoidBet(i)
  BY <1>1, CloseReserve
<1>2. CASE \E i \in HoldIds, c \in Payouts, paid \in BOOLEAN : RefundBet(i, c, paid)
  BY <1>2, CloseReserve
<1>3. ASSUME reserve' = reserve
      PROVE  /\ reserve' < reserve => ClosesHoldFor(reserve - reserve')
             /\ reserve = 0 => reserve' = 0
  BY <1>3
<1>4. CASE \E i \in HoldIds, p \in Players, s \in Stakes, r \in Reserves, e \in EdgeBpsValues :
               HoldBet(i, p, s, r, e)
  BY <1>3, <1>4 DEF HoldBet
<1>5. CASE \E i \in HoldIds : ReceiveResult(i)
  BY <1>3, <1>5 DEF ReceiveResult
<1>6. CASE \E p \in Players : ClaimPlayerPayable(p)
  BY <1>3, <1>6 DEF ClaimPlayerPayable
<1>7. CASE \E a \in Amounts, to \in Receivers :
               ClaimProtocolFees(a, to) \/ ClaimXPAccrued(a, to) \/ Donate(a, to)
  BY <1>3, <1>7 DEF ClaimProtocolFees, ClaimXPAccrued, Donate
<1>8. CASE \/ \E v \in BOOLEAN : SetRiskInPaused(v)
           \/ \E bps \in BufferBpsValues : SetRiskReserveBps(bps) \/ SetWithdrawalBufferBps(bps)
  BY <1>3, <1>8 DEF SetRiskInPaused, SetRiskReserveBps, SetWithdrawalBufferBps
<1>9. CASE UNCHANGED vars
  BY <1>3, <1>9 DEF vars
<1> QED BY <1>1, <1>2, <1>4, <1>5, <1>6, <1>7, <1>8, <1>9 DEF Next

(***************************************************************************)
(* The capital of liquidity providers falls only when they take unlocked   *)
(* capital out while no result is known and unbooked, or when a bet closes *)
(* for at most what was locked behind it.                                  *)
(***************************************************************************)
THEOREM LpLossBounded == Spec => LpLossIsReserved
<1>1. ASSUME Inv, [Next]_vars
      PROVE  reserve' < reserve =>
                 \/ unbooked = {} /\ holds' = holds /\ reserve' >= lockedLiquidity
                 \/ ClosesHoldFor(reserve - reserve')
  <2>1. ASSUME NEW a \in Amounts, AddDeposit(a) PROVE ~(reserve' < reserve)
    BY <1>1, <2>1, AmountAssumption DEF AddDeposit, Inv, TypeOK
  <2>2. ASSUME NEW a \in Amounts, WithdrawDeposit(a)
        PROVE  unbooked = {} /\ holds' = holds /\ reserve' >= lockedLiquidity
    BY <1>1, <2>2, AmountAssumption DEF WithdrawDeposit, LpReady, holdVars, Inv, TypeOK
  <2> QED BY <1>1, <2>1, <2>2, ReserveMoves
<1>2. Spec => []Inv
  BY InitInv, NextInv, PTL DEF Spec
<1> QED BY <1>1, <1>2, PTL DEF Spec, LpLossIsReserved

(***************************************************************************)
(* An empty pool is filled by a deposit and by nothing else: profit never  *)
(* enters an empty tree (LiquidityVault.applySettlement).                  *)
(***************************************************************************)
THEOREM EmptyTreeIsFilledByADeposit == Spec => OnlyADepositFillsAnEmptyTree
<1>1. ASSUME Inv, [Next]_vars
      PROVE  reserve = 0 /\ reserve' > 0 =>
                 holds' = holds /\ outsideCash' = outsideCash - reserve'
  <2>1. ASSUME NEW a \in Amounts, AddDeposit(a), reserve = 0
        PROVE  holds' = holds /\ outsideCash' = outsideCash - reserve'
    BY <1>1, <2>1, AmountAssumption DEF AddDeposit, holdVars, Inv, TypeOK
  <2>2. ASSUME NEW a \in Amounts, WithdrawDeposit(a) PROVE ~(reserve = 0 /\ reserve' > 0)
    BY <1>1, <2>2, AmountAssumption DEF WithdrawDeposit, Inv, TypeOK
  <2> QED BY <1>1, <2>1, <2>2, ReserveMoves
<1>2. Spec => []Inv
  BY InitInv, NextInv, PTL DEF Spec
<1> QED BY <1>1, <1>2, PTL DEF Spec, OnlyADepositFillsAnEmptyTree

-----------------------------------------------------------------------------
(***************************************************************************)
(* BankVault implements PoolLedger.                                        *)
(***************************************************************************)

\* Valid accounting overdraws no account, and cash that only moves between the three
\* custodies conserves the total.
LEMMA CashConserved ==
    ASSUME Inv, Inv',
           bankCash' + vaultCash' + outsideCash' = bankCash + vaultCash + outsideCash
    PROVE  Ledger!Balanced
<1>1. /\ bankCash \in Nat /\ vaultCash \in Nat /\ outsideCash \in Nat
      /\ pendingStakeTotal \in Nat /\ protocolFeesPayable \in Nat /\ externalPayables \in Nat
      /\ playerPayableTotal \in Nat /\ reserve \in Nat
  BY DEF Inv, TypeOK
<1>2. /\ bankCash' \in Nat /\ vaultCash' \in Nat /\ outsideCash' \in Nat
      /\ pendingStakeTotal' \in Nat /\ protocolFeesPayable' \in Nat
      /\ externalPayables' \in Nat /\ playerPayableTotal' \in Nat /\ reserve' \in Nat
  BY DEF Inv, TypeOK
<1>3. bankCash' >= BankOwed' /\ vaultCash' >= reserve'
  BY DEF Inv, AccountingValid
<1>4. \A b, q, f, x, y \in Nat : b >= q + f + x + y => b - (q + f + x + y) >= 0
  OBVIOUS
<1>5. \A b, q \in Nat : b >= q => b - q >= 0
  OBVIOUS
<1>6. \A b \in Nat : b >= 0
  OBVIOUS
<1>7. BankSurplus' >= 0 /\ VaultSurplus' >= 0
  BY <1>2, <1>3, <1>4, <1>5 DEF BankSurplus, VaultSurplus, BankOwed
<1>8. Ledger!Covered'
  BY <1>2, <1>6, <1>7 DEF Ledger!Covered
<1>9. \A o, l, q, f, x, y, b, v \in Nat :
          o + l + q + f + x + y + (b - (q + f + x + y)) + (v - l) = b + v + o
  OBVIOUS
<1>10. Ledger!Total = bankCash + vaultCash + outsideCash
  BY <1>1, <1>9 DEF Ledger!Total, BankSurplus, VaultSurplus, BankOwed
<1>11. Ledger!Total' = bankCash' + vaultCash' + outsideCash'
  BY <1>2, <1>9 DEF Ledger!Total, BankSurplus, VaultSurplus, BankOwed
<1> QED BY <1>8, <1>10, <1>11 DEF Ledger!Balanced

LEMMA LpLedger ==
    ASSUME Inv, Inv', NEW a \in Amounts, AddDeposit(a) \/ WithdrawDeposit(a)
    PROVE  Ledger!InvestOrExit
<1>1. /\ a \in Nat /\ reserve \in Nat
      /\ bankCash \in Nat /\ vaultCash \in Nat /\ outsideCash \in Nat
  BY AmountAssumption DEF Inv, TypeOK
<1>2. UNCHANGED <<bankCash, pendingStakeTotal, protocolFeesPayable, externalPayables,
                  playerPayableTotal>>
  BY DEF AddDeposit, WithdrawDeposit, holdVars, payableVars
<1>3. \/ /\ reserve' = reserve + a
         /\ vaultCash' = vaultCash + a /\ outsideCash' = outsideCash - a
      \/ /\ reserve' = reserve - a
         /\ vaultCash' = vaultCash - a /\ outsideCash' = outsideCash + a
  BY DEF AddDeposit, WithdrawDeposit
<1>4. bankCash' + vaultCash' + outsideCash' = bankCash + vaultCash + outsideCash
  BY <1>1, <1>2, <1>3
<1>5. VaultSurplus' = VaultSurplus
  BY <1>1, <1>3 DEF VaultSurplus
<1>6. BankSurplus' = BankSurplus
  BY <1>2 DEF BankSurplus, BankOwed
<1> QED BY <1>2, <1>4, <1>5, <1>6, CashConserved DEF Ledger!InvestOrExit

LEMMA HoldLedger ==
    ASSUME Inv, Inv', NEW i \in HoldIds, NEW p \in Players, NEW s \in Stakes, NEW r \in Reserves,
           NEW e \in EdgeBpsValues, HoldBet(i, p, s, r, e)
    PROVE  Ledger!Stake
<1>1. s \in Nat
  BY AmountAssumption
<1>2. /\ bankCash' = bankCash + s /\ outsideCash' = outsideCash - s
      /\ pendingStakeTotal' = pendingStakeTotal + s
      /\ UNCHANGED <<vaultCash, payableVars, reserve>>
  BY DEF HoldBet
<1>3. Ledger!Balanced
  BY <1>1, <1>2, CashConserved DEF Inv, TypeOK
<1> QED BY <1>1, <1>2, <1>3 DEF Ledger!Stake, payableVars, BankOwed, BankSurplus, VaultSurplus, Inv, TypeOK

(***************************************************************************)
(* A closing: the difference between cost and stake moves between the two  *)
(* custodies, and every unit of it is a debt the Bank books or pays.       *)
(***************************************************************************)
LEMMA CloseLedger ==
    ASSUME Inv, Inv', NEW i \in HoldIds, NEW owed \in Nat, NEW fee \in Nat, NEW x \in Nat,
           NEW paid \in BOOLEAN,
           ApplyHold(i, owed + fee + x),
           PayPlayer(holds[i], owed, CashAfterApply(holds[i], owed + fee + x), paid),
           protocolFeesPayable' =
               protocolFeesPayable + ProtocolCapital(holds[i], owed + fee + x) + fee,
           externalPayables' = externalPayables + x
    PROVE  Ledger!Close
<1> DEFINE cost == owed + fee + x
           h == holds[i]
           st == h.stake
<1>1. /\ bankCash \in Nat /\ vaultCash \in Nat /\ outsideCash \in Nat /\ reserve \in Nat
      /\ pendingStakeTotal \in Nat /\ protocolFeesPayable \in Nat /\ externalPayables \in Nat
      /\ playerPayableTotal \in Nat /\ lockedLiquidity \in Nat /\ lockedLiquidity <= reserve
      /\ h.stake \in Nat /\ h.reserved \in Nat /\ cost \in Nat
  BY DEF Inv, TypeOK, AccountingValid, HoldRecords
<1>2. /\ h.reserved - h.stake <= lockedLiquidity
      /\ cost <= h.reserved
      /\ reserve' = ReserveAfter(h, cost)
      /\ vaultCash' = vaultCash - Loss(h, cost) + LpProfit(h, cost)
      /\ pendingStakeTotal' = pendingStakeTotal - h.stake
  BY DEF ApplyHold, ApplySettlement
<1>3. \/ /\ bankCash' = CashAfterApply(h, cost) - owed /\ outsideCash' = outsideCash + owed
         /\ playerPayableTotal' = playerPayableTotal
      \/ /\ bankCash' = CashAfterApply(h, cost) /\ outsideCash' = outsideCash
         /\ playerPayableTotal' = playerPayableTotal + owed
  BY DEF PayPlayer
<1> DEFINE loss == Loss(h, cost)
           lp == LpProfit(h, cost)
           capital == ProtocolCapital(h, cost)
<1>4. /\ loss \in Nat /\ lp \in Nat /\ capital \in Nat
      /\ loss - lp + h.stake - capital = cost
      /\ loss <= reserve
      /\ ReserveAfter(h, cost) = reserve - loss + lp
  BY <1>1, <1>2 DEF Loss, LpProfit, Profit, ProtocolCapital, ReserveAfter
<1>5. CashAfterApply(h, cost) = bankCash + loss - lp
  BY DEF CashAfterApply
<1>6. protocolFeesPayable' = protocolFeesPayable + capital + fee
  OBVIOUS
<1>7. /\ reserve' = reserve - loss + lp /\ vaultCash' = vaultCash - loss + lp
      /\ pendingStakeTotal' = pendingStakeTotal - st
  BY <1>2, <1>4
<1>8. st \in Nat /\ loss - lp + st - capital = owed + fee + x
  BY <1>1, <1>4
<1> HIDE DEF cost, h, st, loss, lp, capital
<1>9. \/ /\ bankCash' = bankCash + loss - lp - owed /\ outsideCash' = outsideCash + owed
         /\ playerPayableTotal' = playerPayableTotal
      \/ /\ bankCash' = bankCash + loss - lp /\ outsideCash' = outsideCash
         /\ playerPayableTotal' = playerPayableTotal + owed
  BY <1>1, <1>3, <1>4, <1>5
<1>10. bankCash' + vaultCash' + outsideCash' = bankCash + vaultCash + outsideCash
  BY <1>1, <1>4, <1>7, <1>9
<1>11. VaultSurplus' = VaultSurplus
  BY <1>1, <1>4, <1>7 DEF VaultSurplus
<1>12. BankSurplus' = BankSurplus
  BY <1>1, <1>4, <1>6, <1>7, <1>8, <1>9 DEF BankSurplus, BankOwed
<1>13. /\ pendingStakeTotal' <= pendingStakeTotal /\ outsideCash' >= outsideCash
       /\ protocolFeesPayable' >= protocolFeesPayable /\ externalPayables' >= externalPayables
       /\ playerPayableTotal' >= playerPayableTotal
       /\ outsideCash' = outsideCash \/ playerPayableTotal' = playerPayableTotal
  <2>1. \A m, n \in Nat : m + n >= m /\ m - n <= m
    OBVIOUS
  <2>2. \A m, n, k \in Nat : m + n + k >= m
    OBVIOUS
  <2>3. protocolFeesPayable' >= protocolFeesPayable
    BY <1>1, <1>4, <1>6, <2>2
  <2>4. pendingStakeTotal' <= pendingStakeTotal /\ protocolFeesPayable' >= protocolFeesPayable
    BY <1>1, <1>7, <1>8, <2>1, <2>3
  <2>5. externalPayables' >= externalPayables
    BY <1>1, <2>1
  <2>6. /\ outsideCash' >= outsideCash /\ playerPayableTotal' >= playerPayableTotal
        /\ outsideCash' = outsideCash \/ playerPayableTotal' = playerPayableTotal
    BY <1>1, <1>9, <2>1
  <2> QED BY <2>4, <2>5, <2>6
<1> QED BY <1>10, <1>11, <1>12, <1>13, CashConserved DEF Ledger!Close

LEMMA CloseStep ==
    ASSUME Inv, Inv', NEW i \in HoldIds,
           \/ Settle(i) \/ VoidBet(i)
           \/ \E c \in Payouts, paid \in BOOLEAN : RefundBet(i, c, paid)
    PROVE  Ledger!Close
<1>1. CASE Settle(i)
  <2>1. PICK n \in Payouts, r \in Payouts, f \in Accruals, x \in Accruals, paid \in BOOLEAN :
            SettleBet(i, n, r, f, x, paid)
    BY <1>1 DEF Settle
  <2>2. n + r \in Nat /\ f \in Nat /\ x \in Nat
    BY AmountAssumption
  <2> DEFINE owed == n + r
  <2>3. /\ ApplyHold(i, owed + f + x)
        /\ PayPlayer(holds[i], owed, CashAfterApply(holds[i], owed + f + x), paid)
        /\ protocolFeesPayable' =
               protocolFeesPayable + ProtocolCapital(holds[i], owed + f + x) + f
        /\ externalPayables' = externalPayables + x
    BY <2>1 DEF SettleBet
  <2> HIDE DEF owed
  <2> QED BY <2>2, <2>3, CloseLedger DEF owed
<1>2. ASSUME NEW owed \in Nat, NEW paid \in BOOLEAN,
             ApplyHold(i, owed), PayPlayer(holds[i], owed, CashAfterApply(holds[i], owed), paid),
             protocolFeesPayable' = protocolFeesPayable + ProtocolCapital(holds[i], owed),
             UNCHANGED externalPayables
      PROVE  Ledger!Close
  <2>1. owed + 0 + 0 = owed
    OBVIOUS
  <2>2. ProtocolCapital(holds[i], owed) \in Nat
    BY <1>2, ApplyHoldType
  <2>3. protocolFeesPayable \in Nat /\ externalPayables \in Nat
    BY DEF Inv, TypeOK
  <2>4. externalPayables' = externalPayables + 0
    BY <1>2, <2>3
  <2>5. protocolFeesPayable' = protocolFeesPayable + ProtocolCapital(holds[i], owed) + 0
    BY <1>2, <2>2, <2>3
  <2>6. /\ ApplyHold(i, owed + 0 + 0)
        /\ PayPlayer(holds[i], owed, CashAfterApply(holds[i], owed + 0 + 0), paid)
        /\ protocolFeesPayable' =
               protocolFeesPayable + ProtocolCapital(holds[i], owed + 0 + 0) + 0
    BY <1>2, <2>1, <2>5
  <2>7. 0 \in Nat
    OBVIOUS
  <2> QED BY <2>4, <2>6, <2>7, CloseLedger
<1>3. CASE VoidBet(i)
  <2>1. holds[i].stake \in Nat
    BY DEF Inv, TypeOK, HoldRecords
  <2>2. PICK paid \in BOOLEAN :
            PayPlayer(holds[i], holds[i].stake, CashAfterApply(holds[i], holds[i].stake), paid)
    BY <1>3 DEF VoidBet
  <2> QED BY <1>2, <1>3, <2>1, <2>2 DEF VoidBet
<1>4. CASE \E c \in Payouts, paid \in BOOLEAN : RefundBet(i, c, paid)
  BY <1>2, <1>4, AmountAssumption DEF RefundBet
<1> QED BY <1>1, <1>3, <1>4

LEMMA ClaimLedger ==
    ASSUME Inv, Inv', NEW a \in Amounts, NEW to \in Receivers,
           ClaimProtocolFees(a, to) \/ ClaimXPAccrued(a, to)
    PROVE  Ledger!Claim
<1>1. /\ a \in Nat
      /\ bankCash \in Nat /\ vaultCash \in Nat /\ outsideCash \in Nat /\ reserve \in Nat
      /\ pendingStakeTotal \in Nat /\ protocolFeesPayable \in Nat /\ externalPayables \in Nat
      /\ playerPayableTotal \in Nat
  BY AmountAssumption DEF Inv, TypeOK
<1>2. UNCHANGED <<reserve, pendingStakeTotal, playerPayableTotal>>
  BY DEF ClaimProtocolFees, ClaimXPAccrued, holdVars, vaultVars
<1>3. \/ protocolFeesPayable' = protocolFeesPayable - a /\ externalPayables' = externalPayables
      \/ protocolFeesPayable' = protocolFeesPayable /\ externalPayables' = externalPayables - a
  BY DEF ClaimProtocolFees, ClaimXPAccrued
<1>4. \/ bankCash' = bankCash /\ vaultCash' = vaultCash /\ outsideCash' = outsideCash
      \/ bankCash' = bankCash - a /\ vaultCash' = vaultCash + a /\ outsideCash' = outsideCash
      \/ bankCash' = bankCash - a /\ vaultCash' = vaultCash /\ outsideCash' = outsideCash + a
  BY DEF ClaimProtocolFees, ClaimXPAccrued, Push, Receivers
<1>5. bankCash' + vaultCash' + outsideCash' = bankCash + vaultCash + outsideCash
  BY <1>1, <1>4
<1>6. BankSurplus' >= BankSurplus
  BY <1>1, <1>2, <1>3, <1>4 DEF BankSurplus, BankOwed
<1>7. VaultSurplus' >= VaultSurplus
  BY <1>1, <1>2, <1>4 DEF VaultSurplus
<1>8. /\ protocolFeesPayable' <= protocolFeesPayable /\ externalPayables' <= externalPayables
      /\ protocolFeesPayable' = protocolFeesPayable \/ externalPayables' = externalPayables
  BY <1>1, <1>3
<1>9. outsideCash' >= outsideCash
  BY <1>1, <1>4
<1> QED BY <1>2, <1>5, <1>6, <1>7, <1>8, <1>9, CashConserved DEF Ledger!Claim

LEMMA PayableLedger ==
    ASSUME Inv, Inv', NEW p \in Players, ClaimPlayerPayable(p)
    PROVE  Ledger!PayPlayer
<1>1. /\ bankCash \in Nat /\ vaultCash \in Nat /\ outsideCash \in Nat
      /\ pendingStakeTotal \in Nat /\ protocolFeesPayable \in Nat /\ externalPayables \in Nat
      /\ playerPayableTotal \in Nat
  BY DEF Inv, TypeOK
<1>2. PICK a \in Nat :
        /\ playerPayableTotal' = playerPayableTotal - a
        /\ bankCash' = bankCash - a /\ outsideCash' = outsideCash + a
        /\ vaultCash' = vaultCash
  BY DEF ClaimPlayerPayable, Push, Inv, TypeOK
<1>3. UNCHANGED <<reserve, pendingStakeTotal, protocolFeesPayable, externalPayables>>
  BY DEF ClaimPlayerPayable, holdVars, vaultVars
<1>4. bankCash' + vaultCash' + outsideCash' = bankCash + vaultCash + outsideCash
  BY <1>1, <1>2
<1>5. BankSurplus' = BankSurplus
  BY <1>1, <1>2, <1>3 DEF BankSurplus, BankOwed
<1>6. VaultSurplus' = VaultSurplus
  BY <1>2, <1>3 DEF VaultSurplus
<1>7. playerPayableTotal' <= playerPayableTotal
  BY <1>1, <1>2
<1> QED BY <1>3, <1>4, <1>5, <1>6, <1>7, CashConserved DEF Ledger!PayPlayer

LEMMA DonateLedger ==
    ASSUME Inv, Inv', NEW a \in Amounts, NEW to \in Receivers, Donate(a, to)
    PROVE  Ledger!Donate
<1>1. /\ a \in Nat
      /\ bankCash \in Nat /\ vaultCash \in Nat /\ outsideCash \in Nat /\ reserve \in Nat
      /\ pendingStakeTotal \in Nat /\ protocolFeesPayable \in Nat /\ externalPayables \in Nat
      /\ playerPayableTotal \in Nat
  BY AmountAssumption DEF Inv, TypeOK
<1>2. UNCHANGED <<reserve, pendingStakeTotal, protocolFeesPayable, externalPayables,
                  playerPayableTotal>>
  BY DEF Donate, holdVars, payableVars, vaultVars
<1>3. \/ bankCash' = bankCash + a /\ vaultCash' = vaultCash /\ outsideCash' = outsideCash - a
      \/ bankCash' = bankCash /\ vaultCash' = vaultCash + a /\ outsideCash' = outsideCash - a
  BY DEF Donate, Receivers
<1>4. bankCash' + vaultCash' + outsideCash' = bankCash + vaultCash + outsideCash
  BY <1>1, <1>3
<1>5. BankSurplus' >= BankSurplus /\ VaultSurplus' >= VaultSurplus
  BY <1>1, <1>2, <1>3 DEF BankSurplus, BankOwed, VaultSurplus
<1> QED BY <1>2, <1>4, <1>5, CashConserved DEF Ledger!Donate

\* The steps that move no money.
LEMMA StutterLedger ==
    ASSUME \/ \E i \in HoldIds : ReceiveResult(i)
           \/ \E v \in BOOLEAN : SetRiskInPaused(v)
           \/ \E bps \in BufferBpsValues : SetRiskReserveBps(bps) \/ SetWithdrawalBufferBps(bps)
           \/ UNCHANGED vars
    PROVE  UNCHANGED Ledger!vars
BY DEF ReceiveResult, SetRiskInPaused, SetRiskReserveBps, SetWithdrawalBufferBps, vars, cashVars,
       holdVars, payableVars, vaultVars, Ledger!vars, BankSurplus, VaultSurplus, BankOwed

(***************************************************************************)
(* The two contracts together keep the ledger: every transaction is one    *)
(* entry of PoolLedger or moves no money.                                  *)
(***************************************************************************)
THEOREM LedgerKept == Spec => ImplementsLedger
<1>1. Init => Ledger!Init
  BY AmountAssumption DEF Init, Ledger!Init, BankSurplus, VaultSurplus, BankOwed
<1>2. ASSUME Inv, Inv', [Next]_vars PROVE [Ledger!Next]_(Ledger!vars)
  <2> USE DEF Ledger!Next
  <2>1. CASE \E a \in Amounts : AddDeposit(a) \/ WithdrawDeposit(a)
    BY <1>2, <2>1, LpLedger
  <2>2. CASE \E i \in HoldIds, p \in Players, s \in Stakes, r \in Reserves,
                e \in EdgeBpsValues : HoldBet(i, p, s, r, e)
    BY <1>2, <2>2, HoldLedger
  <2>3. CASE \E i \in HoldIds : Settle(i) \/ VoidBet(i)
    BY <1>2, <2>3, CloseStep
  <2>4. CASE \E i \in HoldIds, c \in Payouts, paid \in BOOLEAN : RefundBet(i, c, paid)
    BY <1>2, <2>4, CloseStep
  <2>5. CASE \E p \in Players : ClaimPlayerPayable(p)
    BY <1>2, <2>5, PayableLedger
  <2>6. CASE \E a \in Amounts, to \in Receivers : ClaimProtocolFees(a, to) \/ ClaimXPAccrued(a, to)
    BY <1>2, <2>6, ClaimLedger
  <2>7. CASE \E a \in Amounts, to \in Receivers : Donate(a, to)
    BY <1>2, <2>7, DonateLedger
  <2> QED BY <1>2, <2>1, <2>2, <2>3, <2>4, <2>5, <2>6, <2>7, StutterLedger DEF Next
<1>3. Spec => []Inv
  BY InitInv, NextInv, PTL DEF Spec
<1> QED BY <1>1, <1>2, <1>3, PTL DEF Spec, Ledger!Spec, ImplementsLedger

-----------------------------------------------------------------------------
(***************************************************************************)
(* The totals of the Bank are sums over what is open.  The invariant keeps *)
(* them as SumOf, whose lemmas say what one element more or less changes,  *)
(* and adds that an open hold has a player: no record is opened twice.     *)
(***************************************************************************)
Staked == [i \in HoldIds |-> holds[i].stake]
Risked == [i \in HoldIds |-> holds[i].reserved]
Open == OpenHoldsOf(Players)

PlayersHaveHolds == \A i \in HoldIds : holds[i].open => holds[i].player \in Players

SlotsCounted ==
    /\ openHolds = Cardinality(Open) /\ openHolds <= MAX_OPEN_HOLDS
    /\ \A p \in Players : /\ playerOpenHolds[p] = Cardinality(OpenHoldsOf({p}))
                         /\ playerOpenHolds[p] <= MAX_OPEN_HOLDS_PER_PLAYER

HoldsSummed ==
    pendingStakeTotal = SumOf(Staked, Open) /\ totalReserved = SumOf(Risked, Open)

PayablesSummed == playerPayableTotal = SumOf(playerPayable, Players)

TotalsInv ==
    /\ TypeOK
    /\ PlayersHaveHolds /\ SlotsCounted /\ HoldsSummed
    /\ unbooked \subseteq Open
    /\ PayablesSummed

\* MapThenSumSet, as the property writes it, is SumOf.
LEMMA SumOfField ==
  ASSUME TypeOK, NEW S \in SUBSET HoldIds
  PROVE  /\ MapThenSumSet(LAMBDA i : holds[i].stake, S) = SumOf(Staked, S)
         /\ MapThenSumSet(LAMBDA i : holds[i].reserved, S) = SumOf(Risked, S)
<1>1. IsFiniteSet(S) /\ \A x \in S : Staked[x] \in Nat /\ Risked[x] \in Nat
  BY FiniteAssumption, FS_Subset DEF TypeOK, HoldRecords, Staked, Risked
<1>2. MapThenSumSet(LAMBDA i : holds[i].stake, S) = SumOf(Staked, S)
  <2> DEFINE M(T, g) == IF T = {} THEN 0 ELSE holds[Pick(T)].stake + g[T \ {Pick(T)}]
             N(T, g) == IF T = {} THEN 0 ELSE Staked[Pick(T)] + g[T \ {Pick(T)}]
             IsM(g) == g = [T \in SUBSET S |-> M(T, g)]
             m == CHOOSE g : IsM(g)
  <2>1. MapThenSumSet(LAMBDA i : holds[i].stake, S) = m[S]
    BY DEF MapThenSumSet, MapThenFoldSet, Pick
  <2>2. ASSUME NEW g PROVE IsM(g) <=> IsSum(g, Staked, S)
    <3>1. \A T \in SUBSET S : M(T, g) = N(T, g)
      BY PickFrom DEF Staked
    <3> HIDE DEF M, N
    <3>2. IsM(g) <=> (g = [T \in SUBSET S |-> N(T, g)])
      BY <3>1
    <3> QED BY <3>2 DEF N, IsSum
  <2> HIDE DEF IsM
  <2>3. PICK g : IsM(g)
    BY <1>1, <2>2, SumExists
  <2>4. IsM(m)
    BY <2>3
  <2> HIDE DEF m
  <2> QED BY <1>1, <2>1, <2>2, <2>4, SumIsUnique
<1>3. MapThenSumSet(LAMBDA i : holds[i].reserved, S) = SumOf(Risked, S)
  <2> DEFINE M(T, g) == IF T = {} THEN 0 ELSE holds[Pick(T)].reserved + g[T \ {Pick(T)}]
             N(T, g) == IF T = {} THEN 0 ELSE Risked[Pick(T)] + g[T \ {Pick(T)}]
             IsM(g) == g = [T \in SUBSET S |-> M(T, g)]
             m == CHOOSE g : IsM(g)
  <2>1. MapThenSumSet(LAMBDA i : holds[i].reserved, S) = m[S]
    BY DEF MapThenSumSet, MapThenFoldSet, Pick
  <2>2. ASSUME NEW g PROVE IsM(g) <=> IsSum(g, Risked, S)
    <3>1. \A T \in SUBSET S : M(T, g) = N(T, g)
      BY PickFrom DEF Risked
    <3> HIDE DEF M, N
    <3>2. IsM(g) <=> (g = [T \in SUBSET S |-> N(T, g)])
      BY <3>1
    <3> QED BY <3>2 DEF N, IsSum
  <2> HIDE DEF IsM
  <2>3. PICK g : IsM(g)
    BY <1>1, <2>2, SumExists
  <2>4. IsM(m)
    BY <2>3
  <2> HIDE DEF m
  <2> QED BY <1>1, <2>1, <2>2, <2>4, SumIsUnique
<1> QED BY <1>2, <1>3

LEMMA TotalsFollow == TotalsInv => TotalsAreSums
<1> SUFFICES ASSUME TotalsInv PROVE TotalsAreSums
  OBVIOUS
<1>1. MapThenSumSet(LAMBDA p : playerPayable[p], Players) = SumOf(playerPayable, Players)
  BY DEF MapThenSumSet, MapThenFoldSet, SumOf, IsSum, Pick
<1>2. Open \in SUBSET HoldIds
  BY DEF Open, OpenHoldsOf
<1>3. /\ MapThenSumSet(LAMBDA i : holds[i].stake, Open) = SumOf(Staked, Open)
      /\ MapThenSumSet(LAMBDA i : holds[i].reserved, Open) = SumOf(Risked, Open)
  BY <1>2, SumOfField DEF TotalsInv
<1> QED BY <1>1, <1>3
        DEF TotalsInv, TotalsAreSums, SlotsCounted, HoldsSummed, PayablesSummed, Open

LEMMA OpenFacts ==
  ASSUME TypeOK
  PROVE  /\ IsFiniteSet(Open) /\ Open \subseteq HoldIds
         /\ \A x \in Open : Staked[x] \in Nat /\ Risked[x] \in Nat
         /\ \A p : IsFiniteSet(OpenHoldsOf({p}))
<1>1. Open \subseteq HoldIds /\ \A p : OpenHoldsOf({p}) \subseteq HoldIds
  BY DEF Open, OpenHoldsOf
<1>2. IsFiniteSet(Open) /\ \A p : IsFiniteSet(OpenHoldsOf({p}))
  BY <1>1, FiniteAssumption, FS_Subset
<1>3. \A x \in HoldIds : Staked[x] \in Nat /\ Risked[x] \in Nat
  BY DEF TypeOK, HoldRecords, Staked, Risked
<1> QED BY <1>1, <1>2, <1>3

LEMMA TotalsStart == Init => TotalsInv
<1> SUFFICES ASSUME Init PROVE TotalsInv
  OBVIOUS
<1>1. TypeOK
  BY InitInv DEF Inv
<1>2. \A S : OpenHoldsOf(S) = {}
  BY DEF Init, NoHold, OpenHoldsOf
<1>3. PlayersHaveHolds
  BY DEF Init, NoHold, PlayersHaveHolds
<1>4. SlotsCounted
  BY <1>2, FS_EmptySet, ParameterAssumption DEF Init, SlotsCounted, Open
<1>5. HoldsSummed /\ unbooked \subseteq Open
  BY <1>2, SumEmpty DEF Init, HoldsSummed, Open
<1>6. PayablesSummed
  <2>1. \A p \in Players : playerPayable[p] = 0
    BY DEF Init
  <2>2. SumOf(playerPayable, Players) = 0
    BY <2>1, FiniteAssumption, SumOfZeros
  <2> QED BY <2>2 DEF Init, PayablesSummed
<1> QED BY <1>1, <1>3, <1>4, <1>5, <1>6 DEF TotalsInv

\* A hold is opened: one element more.
LEMMA OpeningIsCounted ==
  ASSUME TotalsInv, NEW i \in HoldIds, NEW p \in Players, NEW s \in Nat, NEW r \in Nat,
         NEW e, HoldBet(i, p, s, r, e)
  PROVE  /\ PlayersHaveHolds' /\ SlotsCounted' /\ HoldsSummed' /\ (unbooked \subseteq Open)'
         /\ PayablesSummed'
<1> USE DEF TotalsInv
<1>1. /\ holds' = [holds EXCEPT ![i] = [player |-> p, stake |-> s, reserved |-> r, edge |-> e,
                                       open |-> TRUE]]
      /\ holds[i].player = NoPlayer
  BY DEF HoldBet
<1>2. /\ holds'[i] = [player |-> p, stake |-> s, reserved |-> r, edge |-> e, open |-> TRUE]
      /\ \A x \in HoldIds : x # i => holds'[x] = holds[x]
  BY <1>1 DEF TypeOK
<1>3. ~holds[i].open
  BY <1>1, PlayerAssumption DEF PlayersHaveHolds
<1>4. i \notin Open /\ Open' = Open \cup {i}
  BY <1>2, <1>3 DEF Open, OpenHoldsOf
<1>5. /\ OpenHoldsOf({p})' = OpenHoldsOf({p}) \cup {i} /\ i \notin OpenHoldsOf({p})
      /\ \A q \in Players : q # p => OpenHoldsOf({q})' = OpenHoldsOf({q})
  BY <1>2, <1>3 DEF OpenHoldsOf
<1>6. PlayersHaveHolds'
  BY <1>2 DEF PlayersHaveHolds
<1>7. SlotsCounted'
  <2>1. /\ openHolds' = openHolds + 1
        /\ playerOpenHolds' = [playerOpenHolds EXCEPT ![p] = @ + 1]
        /\ openHolds < MAX_OPEN_HOLDS /\ playerOpenHolds[p] < MAX_OPEN_HOLDS_PER_PLAYER
    BY DEF HoldBet
  <2>2. openHolds' = Cardinality(Open')
    BY <1>4, <2>1, OpenFacts, FS_AddElement DEF SlotsCounted
  <2>3. playerOpenHolds'[p] = Cardinality(OpenHoldsOf({p})')
    <3>1. playerOpenHolds'[p] = playerOpenHolds[p] + 1
      BY <2>1 DEF TypeOK
    <3>2. Cardinality(OpenHoldsOf({p}) \cup {i}) = Cardinality(OpenHoldsOf({p})) + 1
      BY <1>5, OpenFacts, FS_AddElement
    <3> QED BY <1>5, <3>1, <3>2 DEF SlotsCounted
  <2>4. openHolds' <= MAX_OPEN_HOLDS /\ playerOpenHolds'[p] <= MAX_OPEN_HOLDS_PER_PLAYER
    BY <2>1, ParameterAssumption DEF TypeOK
  <2>5. \A q \in Players : q # p => playerOpenHolds'[q] = playerOpenHolds[q]
    BY <2>1 DEF TypeOK
  <2> QED BY <1>5, <2>2, <2>3, <2>4, <2>5 DEF SlotsCounted
<1>8. HoldsSummed'
  <2>1. /\ Staked'[i] = s /\ Risked'[i] = r
        /\ \A x \in Open : Staked'[x] = Staked[x] /\ Risked'[x] = Risked[x]
    BY <1>2, <1>4, OpenFacts DEF Staked, Risked
  <2>2. SumOf(Staked', Open') = s + SumOf(Staked, Open)
    BY <1>4, <2>1, OpenFacts, SumGrows
  <2>3. SumOf(Risked', Open') = r + SumOf(Risked, Open)
    BY <1>4, <2>1, OpenFacts, SumGrows
  <2>4. pendingStakeTotal' = pendingStakeTotal + s /\ totalReserved' = totalReserved + r
    BY DEF HoldBet
  <2> QED BY <2>2, <2>3, <2>4 DEF HoldsSummed, TypeOK
<1>9. (unbooked \subseteq Open)' /\ PayablesSummed'
  BY <1>4 DEF HoldBet, payableVars, PayablesSummed
<1> QED BY <1>6, <1>7, <1>8, <1>9

\* A hold is closed: one element less.
LEMMA ClosingIsCounted ==
  ASSUME TotalsInv, NEW i \in HoldIds, NEW cost, ApplyHold(i, cost)
  PROVE  /\ PlayersHaveHolds' /\ SlotsCounted' /\ HoldsSummed' /\ (unbooked \subseteq Open)'
         /\ holds[i].player \in Players
<1> USE DEF TotalsInv
<1>1. /\ holds' = [holds EXCEPT ![i].open = FALSE] /\ holds[i].open
      /\ unbooked' = unbooked \ {i}
  BY DEF ApplyHold
<1>2. PICK p \in Players : p = holds[i].player
  BY <1>1 DEF PlayersHaveHolds
<1>3. /\ holds'[i] = [holds[i] EXCEPT !.open = FALSE] /\ ~holds'[i].open
      /\ holds'[i].player = p
      /\ \A x \in HoldIds : x # i => holds'[x] = holds[x]
  BY <1>1, <1>2 DEF TypeOK, HoldRecords
<1>4. i \in Open /\ Open' = Open \ {i}
  BY <1>1, <1>2, <1>3 DEF Open, OpenHoldsOf
<1>5. /\ OpenHoldsOf({p})' = OpenHoldsOf({p}) \ {i} /\ i \in OpenHoldsOf({p})
      /\ \A q \in Players : q # p => OpenHoldsOf({q})' = OpenHoldsOf({q})
  BY <1>1, <1>2, <1>3 DEF OpenHoldsOf
<1>6. PlayersHaveHolds'
  BY <1>3 DEF PlayersHaveHolds
<1>7. SlotsCounted'
  <2>1. /\ openHolds' = openHolds - 1
        /\ playerOpenHolds' = [playerOpenHolds EXCEPT ![p] = @ - 1]
    BY <1>2 DEF ApplyHold
  <2>2. openHolds' = Cardinality(Open')
    BY <1>4, <2>1, OpenFacts, FS_RemoveElement DEF SlotsCounted
  <2>3. /\ playerOpenHolds[p] \in Nat /\ openHolds \in Nat
        /\ playerOpenHolds'[p] = playerOpenHolds[p] - 1
    BY <1>2, <2>1 DEF TypeOK
  <2>4. playerOpenHolds'[p] = Cardinality(OpenHoldsOf({p})')
    <3>1. Cardinality(OpenHoldsOf({p}) \ {i}) = Cardinality(OpenHoldsOf({p})) - 1
      BY <1>5, OpenFacts, FS_RemoveElement
    <3> QED BY <1>2, <1>5, <2>3, <3>1 DEF SlotsCounted
  <2>5. openHolds' <= MAX_OPEN_HOLDS /\ playerOpenHolds'[p] <= MAX_OPEN_HOLDS_PER_PLAYER
    <3>1. openHolds <= MAX_OPEN_HOLDS /\ playerOpenHolds[p] <= MAX_OPEN_HOLDS_PER_PLAYER
      BY <1>2 DEF SlotsCounted
    <3> QED BY <2>1, <2>3, <3>1, ParameterAssumption
  <2>6. \A q \in Players : q # p => playerOpenHolds'[q] = playerOpenHolds[q]
    BY <2>1 DEF TypeOK
  <2> QED BY <1>5, <2>2, <2>4, <2>5, <2>6 DEF SlotsCounted
<1>8. HoldsSummed'
  <2>1. \A x \in Open \ {i} : Staked'[x] = Staked[x] /\ Risked'[x] = Risked[x]
    BY <1>3, OpenFacts DEF Staked, Risked
  <2>2. SumOf(Staked, Open) = Staked[i] + SumOf(Staked', Open \ {i})
    BY <1>4, <2>1, OpenFacts, SumShrinks
  <2>3. SumOf(Risked, Open) = Risked[i] + SumOf(Risked', Open \ {i})
    BY <1>4, <2>1, OpenFacts, SumShrinks
  <2>4. /\ pendingStakeTotal' = pendingStakeTotal - Staked[i]
        /\ totalReserved' = totalReserved - Risked[i]
    BY DEF ApplyHold, Staked, Risked
  <2>5. SumOf(Staked', Open') \in Nat /\ SumOf(Risked', Open') \in Nat
    <3>1. IsFiniteSet(Open')
      BY <1>4, OpenFacts, FS_RemoveElement
    <3>2. \A x \in Open' : Staked'[x] \in Nat /\ Risked'[x] \in Nat
      BY <1>4, <2>1, OpenFacts
    <3> QED BY <3>1, <3>2, SumTyped
  <2>6. Staked[i] \in Nat /\ Risked[i] \in Nat
    BY <1>4, OpenFacts
  <2> QED BY <1>4, <2>2, <2>3, <2>4, <2>5, <2>6 DEF HoldsSummed
<1>9. (unbooked \subseteq Open)'
  BY <1>1, <1>4
<1> QED BY <1>2, <1>6, <1>7, <1>8, <1>9

\* What one player is owed changes by what the total does.
LEMMA PayableMoves ==
  ASSUME TypeOK, PayablesSummed, NEW p \in Players, NEW n \in Nat,
         playerPayable' = [playerPayable EXCEPT ![p] = n],
         playerPayableTotal' = playerPayableTotal + n - playerPayable[p]
  PROVE  PayablesSummed'
<1> DEFINE u == playerPayable'
<1>1. /\ \A x \in Players : playerPayable[x] \in Nat
      /\ \A x \in Players \ {p} : u[x] = playerPayable[x]
      /\ u[p] = n
  BY DEF TypeOK
<1> HIDE DEF u
<1>2. SumOf(u, Players) = SumOf(playerPayable, Players) + u[p] - playerPayable[p]
  <2>1. u[p] \in Nat
    BY <1>1
  <2> QED BY <1>1, <2>1, FiniteAssumption, SumMoves
<1> QED BY <1>1, <1>2 DEF PayablesSummed, u

LEMMA PayingIsCounted ==
  ASSUME TypeOK, PayablesSummed, NEW i \in HoldIds, holds[i].player \in Players,
         NEW amount \in Nat, NEW cash, NEW paid \in BOOLEAN,
         PayPlayer(holds[i], amount, cash, paid)
  PROVE  PayablesSummed'
<1> DEFINE p == holds[i].player
<1>1. CASE paid
  BY <1>1 DEF PayPlayer, PayablesSummed
<1>2. CASE ~paid
  <2>1. /\ playerPayable' = [playerPayable EXCEPT ![p] = playerPayable[p] + amount]
        /\ playerPayableTotal' = playerPayableTotal + amount
    BY <1>2 DEF PayPlayer
  <2>2. playerPayable[p] \in Nat /\ playerPayableTotal \in Nat
    BY DEF TypeOK
  <2> DEFINE n == playerPayable[p] + amount
  <2>3. n \in Nat /\ playerPayableTotal' = playerPayableTotal + n - playerPayable[p]
    BY <2>1, <2>2
  <2> HIDE DEF n, p
  <2> QED BY <2>1, <2>3, PayableMoves DEF n, p
<1> QED BY <1>1, <1>2

LEMMA TotalsStay == TotalsInv /\ Inv /\ [Next]_vars => TotalsInv'
<1> SUFFICES ASSUME TotalsInv, Inv, [Next]_vars PROVE TotalsInv'
  OBVIOUS
<1>0. TypeOK'
  BY NextInv DEF Inv
<1> DEFINE Held == /\ PlayersHaveHolds' /\ SlotsCounted' /\ HoldsSummed'
                   /\ (unbooked \subseteq Open)'
<1> SUFFICES Held /\ PayablesSummed'
  BY <1>0 DEF TotalsInv
<1>1. ASSUME UNCHANGED holdVars, UNCHANGED unbooked PROVE Held
  BY <1>1 DEF holdVars, TotalsInv, PlayersHaveHolds, SlotsCounted, HoldsSummed, Open, OpenHoldsOf,
              Staked, Risked
<1>2. ASSUME UNCHANGED <<playerPayable, playerPayableTotal>> PROVE PayablesSummed'
  BY <1>2 DEF TotalsInv, PayablesSummed
<1>3. ASSUME NEW i \in HoldIds, NEW cost, NEW amount \in Nat, NEW cash, NEW paid \in BOOLEAN,
             ApplyHold(i, cost), PayPlayer(holds[i], amount, cash, paid)
      PROVE  Held /\ PayablesSummed'
  <2>1. Held /\ holds[i].player \in Players
    BY <1>3, ClosingIsCounted
  <2>2. PayablesSummed'
    BY <1>3, <2>1, PayingIsCounted DEF TotalsInv
  <2> QED BY <2>1, <2>2
<1> HIDE DEF Held
<1>4. CASE \E a \in Amounts : AddDeposit(a) \/ WithdrawDeposit(a)
  BY <1>1, <1>2, <1>4 DEF AddDeposit, WithdrawDeposit, payableVars
<1>5. CASE \E i \in HoldIds, p \in Players, s \in Stakes, r \in Reserves, e \in EdgeBpsValues :
               HoldBet(i, p, s, r, e)
  BY <1>5, OpeningIsCounted, AmountAssumption DEF Held
<1>6. CASE \E i \in HoldIds : ReceiveResult(i)
  <2>1. PICK i \in HoldIds : ReceiveResult(i)
    BY <1>6
  <2>2. i \in Open
    BY <2>1 DEF ReceiveResult, TotalsInv, PlayersHaveHolds, Open, OpenHoldsOf
  <2>3. Open' = Open /\ unbooked' = unbooked \cup {i}
    BY <2>1 DEF ReceiveResult, holdVars, Open, OpenHoldsOf
  <2>4. (unbooked \subseteq Open)'
    BY <2>2, <2>3 DEF TotalsInv
  <2>5. PlayersHaveHolds' /\ SlotsCounted' /\ HoldsSummed'
    BY <2>1 DEF ReceiveResult, holdVars, TotalsInv, PlayersHaveHolds, SlotsCounted, HoldsSummed,
                Open, OpenHoldsOf, Staked, Risked
  <2> QED BY <1>2, <2>1, <2>4, <2>5 DEF ReceiveResult, payableVars, Held
<1>7. CASE \E i \in HoldIds : Settle(i)
  <2>1. PICK i \in HoldIds, n \in Payouts, r \in Payouts, f \in Accruals, x \in Accruals,
             paid \in BOOLEAN : SettleBet(i, n, r, f, x, paid)
    BY <1>7 DEF Settle
  <2>2. n + r \in Nat
    BY AmountAssumption
  <2> QED BY <1>3, <2>1, <2>2 DEF SettleBet
<1>8. CASE \E i \in HoldIds : VoidBet(i)
  <2>1. PICK i \in HoldIds : VoidBet(i)
    BY <1>8
  <2>2. holds[i].stake \in Nat
    BY DEF Inv, TypeOK, HoldRecords
  <2> QED BY <1>3, <2>1, <2>2 DEF VoidBet
<1>9. CASE \E i \in HoldIds, c \in Payouts, paid \in BOOLEAN : RefundBet(i, c, paid)
  BY <1>3, <1>9, AmountAssumption DEF RefundBet
<1>10. CASE \E p \in Players : ClaimPlayerPayable(p)
  <2>1. PICK p \in Players : ClaimPlayerPayable(p)
    BY <1>10
  <2>2. /\ playerPayable' = [playerPayable EXCEPT ![p] = 0]
        /\ playerPayableTotal' = playerPayableTotal - playerPayable[p]
    BY <2>1 DEF ClaimPlayerPayable
  <2>3. playerPayableTotal' = playerPayableTotal + 0 - playerPayable[p]
    BY <2>2 DEF TotalsInv, TypeOK
  <2>4. PayablesSummed'
    BY <2>2, <2>3, PayableMoves DEF TotalsInv
  <2> QED BY <1>1, <2>1, <2>4 DEF ClaimPlayerPayable
<1>11. CASE \E a \in Amounts, to \in Receivers :
               ClaimProtocolFees(a, to) \/ ClaimXPAccrued(a, to) \/ Donate(a, to)
  BY <1>1, <1>2, <1>11 DEF ClaimProtocolFees, ClaimXPAccrued, Donate, payableVars
<1>12. CASE \/ \E v \in BOOLEAN : SetRiskInPaused(v)
            \/ \E bps \in BufferBpsValues : SetRiskReserveBps(bps) \/ SetWithdrawalBufferBps(bps)
  BY <1>1, <1>2, <1>12 DEF SetRiskInPaused, SetRiskReserveBps, SetWithdrawalBufferBps, payableVars
<1>13. CASE UNCHANGED vars
  BY <1>1, <1>2, <1>13 DEF vars, payableVars
<1> QED BY <1>4, <1>5, <1>6, <1>7, <1>8, <1>9, <1>10, <1>11, <1>12, <1>13 DEF Next

(***************************************************************************)
(* The totals the Bank keeps are what its open holds add up to, per Bank   *)
(* and per player, within the limits on open holds, and the total owed to  *)
(* players is what each of them is owed: no sequence of openings,          *)
(* settlements, refunds, voids, failed payments and claims leaks a slot,   *)
(* principal, reserve or payable (Bank._applyHold, openHolds, _payPlayer). *)
(***************************************************************************)
THEOREM NothingLeaks == Spec => []TotalsAreSums
<1>1. Spec => []Inv
  BY InitInv, NextInv, PTL DEF Spec
<1>2. Spec => []TotalsInv
  BY <1>1, TotalsStart, TotalsStay, PTL DEF Spec
<1> QED BY <1>2, TotalsFollow, PTL
=============================================================================
