# Formal model of the settlement kernel

A casino on a chain: players bet through smart contracts, liquidity providers
(LPs) bank the bets, a VRF service draws the results, and an off-chain keeper
finishes what nobody else finishes, and keeps a read model of the chain. This
directory holds TLA+ modules for the contracts that decide who gets paid, for
the loops of the keeper, for the read model that providers look at and for the
room a player bets in, TLC runs that check them on small instances, and TLAPS
proofs for instances of any size.

Paths below are relative to the repository; `core/` is `src/core/`.

## The system

| Part | State it keeps | Operations |
| --- | --- | --- |
| `core/GameHub.sol` | per bet: state, request id, times, result; void window per Bank; refund timeout; games, edge and referral schedules | `placeBet`, `onRandomWords`, `finalize`, `refund`, `openVoidWindow`, `voidBet`, setters |
| `core/VRFHub.sol` | per request: bet, state, word; unbooked results per Bank; fee credits | `requestRandomWords`, `fulfillRandomWords`, `retry`, `acknowledge`, `acknowledgeVoid`, `cancel`, `claimRefund` |
| `core/SettlementRouter.sol` | per position: owner hub, terms, state | `openPosition`, `settlePosition`, `refundPosition`, `voidPosition` |
| `core/Bank.sol` | holds, pending principal, reservations, fees, referral earnings, player debts, pause, buffers | `holdBet`, `settleBet`, `refundBet`, `voidBet`, claims, setters |
| `core/LiquidityVault.sol` over `vendor/azuro-v3/utils/LiquidityTree.sol` | deposits as leaves of a lazily updated tree, locked capital | `addDeposit`, `withdrawDeposit`, `lockLiquidity`, `applySettlement` |
| `core/PoolRegistry.sol`, `access/*` | pools, admitted hubs, governance | registration, activation, two-step transfer |
| `engines/referral/*`, `libs/HouseEdgeLib.sol` | referrers | allocation of the operator share |
| `modules/*` | none (pure) | result of a bet from its word |
| `frontend/apps/keeper` | queue of bets, write lock, void candidates, progress of recovery, tracked debtors, saved state | examine and end bets, void passes, claim payables, scan the history |
| `frontend/packages/bet-index` | rows of bets and of governance operations, events, cursors | write events and receipts, merge rows, move a cursor |
| `frontend/packages/ssot` | transaction pipeline (stepper states) | plan, approve, submit, reconcile |
| `frontend/apps/web`, `ui` | per casino room: placement, watched bet, reveal, result | place, watch, settle, refund, show; answer queries |

How they interact: a bet is one transaction through hub, Router, Bank, Vault,
VRFHub and the external VRF wrapper. The wrapper answers later, or never, or
twice. The answer is stored by the VRFHub, delivered to the hub in a call whose
failure is swallowed, and settled inside that delivery in another call whose
failure is swallowed too: each layer may fail alone. From a stored answer,
`finalize`, `retry` and `voidBet` are open to anyone, with any gas. From no
answer, `refund` is, after the deadline. While a Bank has an answer that is
stored and not booked, its LPs can neither enter nor leave, so that nobody acts
on a known result.

What is hard here, and where (`PROJECT.json`, "hazards", has the lines):

- answers that are late, duplicated or race a refund;
- failure of an inner call between two layers that must stay in agreement;
- a counter (unbooked results) raised and lowered in five places;
- callers who choose gas and order;
- money in two custodies, with exits of LPs, an empty pool, failed payments
  and self-payments between a bet and its settlement;
- anything that must always remain possible: each closing path is guarded by
  coverage, lock, ceiling and checked subtraction;
- off chain: restarts, lagging nodes, events that arrive while work is in flight;
- one database written by processes that do not know of each other, with events
  late, repeated and out of order, and cursors saved apart from the rows by scans
  that do not all read the same;
- a page whose state spreads over a stepper, a watcher, polls and effects, and
  whose user must not pay twice when nobody can tell what became of a transaction.

What makes each part correct: hub, Router and VRFHub agree on every bet and end
it once, on its own word; the Bank and Vault are covered, conserve value and
never get stuck; the tree's leaves add up to its root and gains and losses go to
the deposits that took the risk; referral earnings are released once and on
time; the keeper finds every open bet again after a restart, ends it, sends one
transaction at a time and never loses a debtor; the read model converges to the
chain and no cursor passes an event it stands for; the room asks for no second stake while a
first may be on its way, and shows each result once.

## The modules

| Module | Models | Promise above it |
| --- | --- | --- |
| `BetLifecycle` | hub, Router, Bank's hold and VRFHub, per bet | `BetPromise` |
| `BankVault` | Bank, Vault and the Router's checks, per pool | `PoolLedger` |
| `PayableClaimer` | the keeper's claimer of player payables, per Bank | |
| `LiquidityVault` over `LiquidityTree` | deposits one by one and the tree that splits the capital among them | `DepositLedger` |
| `KeeperSettlement` | the keeper's loops that end bets and their recovery after a start | |
| `BetIndex` | the read model of bets, its writers and its cursors | |
| `TimelockIndex` | the read model of the governance queue, its writers and its reader | |
| `CasinoRound` | a casino room: placing, watching, settling, showing | |
| `MC...` | instances for TLC, one for each of the eight specifications | |
| `BetLifecycle_proofs`, `BankVault_proofs`, `LiquidityVault_proofs`, `KeeperSettlement_proofs`, `BetIndex_proofs`, `CasinoRound_proofs` | theorems | |
| `KeeperScans_proofs` | theorems about `PayableClaimer` and `TimelockIndex` | |
| `SetInduction` | lemmas the proofs share: induction, functions defined step by step or down a tree, sums, ordered lists | |

How they fit together: `KeeperSettlement` is the caller whose refunds and voids
the fairness of `BetLifecycle` assumes, over a chain reduced to the states of its
bets; `BetIndex` is the database it recovers from; `CasinoRound` is one more
caller, who watches the same bets from a browser. Each of them takes from the
others only what those guarantee to anyone, and lets them act at any moment
(`SomebodyElse`, `IndexRow`, `Report`, `Advance`), so they can be read, checked
and proved one by one.

In the modules of the contracts one action is one transaction of the chain, the
unit of interleaving there. A transaction that reverts is no step. Reentry is excluded by the contracts' own
guards and is not modelled.

### BetLifecycle

Variables carry the names of the code's fields. A delivery has three outcomes,
which the gas left and `bookable` select: nothing reached the hub; the hub
recorded the word and the settlement rolled back; everything was booked. `Gas`
is therefore three classes, not a number: `starved`, `recordOnly`, `ample`.
`bookable[b]` stands for everything a settlement needs besides gas (the game
module, the token, the referral engine) and changes at will while the bet is
live. The request id comes from the wrapper, so any id may come back, used ones
included. `voidBet` either leaves its settlement attempt the fixed gas or
reverts; that is `EnoughGas`.

`SetRiskIn` is every way to stop new bets of a Bank: its pause, an inactive pool
and a hub no longer admitted. Nothing else in the lifecycle may depend on it.

### BankVault

The totals of a pool in units of the asset, and its holds one by one. A hub is
arbitrary: any stake, reserve, payout, refund, fee and referral amount the
Router and Bank accept, so the module does not rely on the games. A transfer to
a player may fail. Subtractions that Solidity checks are guards. Claims of fees
and earnings may name the Bank or the Vault as receiver. The closing check of
the Bank (`_requireAccounting` after the effects) is a conjunct on the next
state, as a failed one reverts the whole transaction.

Simplifications, each an over-approximation: a withdrawal may take any free
amount (deposits are tracked in `LiquidityVault`), the referral earnings are one
total, and a refund is possible for a hold whose result is known (that the hub
never does so is shown in `BetLifecycle`).

### PayableClaimer

`createPayableClaimer` of the keeper (`payables.ts`), with its state file
(`payables-state.ts`), the scan split (`scan.ts`) and the head monitor. The
chain is a sequence of creations and payments, one event to a block; blocks that
are not final may be replaced. A pass is several steps, since the chain moves
while it awaits: `ReadChain` is the two head reads and the scan, then one
`Visit...` for each player whose turn comes, then `EndPass` with the save. The
scan is one step because it reads final blocks only, which cannot change. It may
end early (a page failed), at any block instead of at the ends of pages.
`Stop` takes everything but the file. Restored players come back in any order.

The constants say what the nodes of the pool do: whether reads fail, whether
latest reads trail the finalized block, and whether a finalized read may be older
than the cursor (`FinalizedReadsMayGoBack`). A retry time is a flag that ends at
some time between passes.

### LiquidityTree and LiquidityVault

`LiquidityTree` is the vendored segment tree as operators from the amounts of
its nodes to new amounts, one operator for each function the Vault reaches. A
change of a range stops at the nodes that cover it and leaves what lies below
stale; a push splits a node's amount between its children in the proportion of
their stale amounts, in integers. `LiquidityVault` is the Vault's deposits,
withdrawals, openings and settlements over it, with the choice of the domain
that shares a result (`_allocationLeaf`).

The code walks down from the root; here a walk is a recursive function of the
node, which takes what its parent was handed: `PushView` for `_getPushView`,
`Portions` for `_pushLazy`, `Walk` for `_prefixCovers`. That is the same because no
walk reads a node it has written before; the exception is `Push`, which hands the
tree itself down. What stops a walk in the code leaves the nodes below it nothing
(`Halts`), and a subtraction that would revert is `Underflows`.

Above it, `DepositLedger` knows no tree: each deposit has a worth, which is what
`nodeWithdrawView` says of it. A deposit or withdrawal moves no other worth; a
result moves the total by exactly itself, moves the worth of sharers in one
direction only, and of nobody else; the sharers are the deposits of the bet's
time if they are worth the bet's lock when it settles, and all otherwise; locks
stay backed. The ledger says nothing about how much each sharer gets: the tree
splits by stale proportions, which integer division makes differ from the
proportions of the worths, and when a push happens changes them.

In every call the left end of a range is the first leaf below the node, so that
end is left out with the branches it makes dead. Cash, the LP fence, the owner
of a deposit, its cooldown, the pause and the risk buffer of the Bank are left
out; each only forbids steps, and `BankVault` has most of them.

### KeeperSettlement

The keeper is one thread, and everything it asks of chain and database is
awaited: an action is the code between two awaits whose order matters. The
examination of a bet (`drainQueue`, `finalizeIfReady`) takes its turn, reads the
bet (`DrainRead`), reads the request, the clock and the simulation
(`DrainJudge`), sends (`DrainMined` is the block) and reads again
(`DrainReceipt`). A void pass (`runVoidPass`, `voidEligibleCandidates`,
`attemptVoid`) lists the eligible candidates, waits for its turn for each of
them, and judges again. `turn` is the promise chain `writeTail`; a call that
fails passes the turn on. `queue` is `FinalizeQueue`: the items whose time has
come in order, those whose retry delay runs, and whether an item has been tried;
delays have no length, they end (`Wake`).

Bets from before a start come from the database, a page at a time
(`Requeue`), and from the history, a range at a time (`HistoryRead`, then the
rows, then the cursor). `checkStartupRecovery` latches once both have passed what
the process saw first; until then there are no voids. `Restart` may happen at
any step and keeps only the database.

Bets are numbered by their requests and placed one to a block. Settled, refunded
and voided are one state, `over`: the keeper asks no more. `due` says which bets
may be refunded or voided by time. `Flip` makes the settlement of a bet revert,
or work again.

### BetIndex

One write of the store is one transaction and one action: a batch of events of
a bet from a socket or a backfill (`Report`), a terminal receipt
(`Materialize`), and the scans (`ScanBegin`, a `ScanWrite` for each event name in
the order of the code, `ScanCursor`). Of a row the module keeps its state, the
block and name of its last event and which fields are filled; every writer fills
a field with the same value, which is why presence is enough. `Fold` is
`foldBetIndexEvents`, `Upserted` the conflict clause of `upsertBetRow`, and `twin`
is the memory store under the same writes. Any number of scans share a cursor; each
may fail within a range, stop anywhere, and resume at the cursor or at the first
block.

A keeper has two scans, and two writers stand for it: the one for missed events
(`scanMissedEvents`, cursor `gamehub-events`, shared with the backfill) and, if it
recovers bets, the one of the history (`scanUnresolvedHistory`, cursor
`casino-open-bets-v1`). A process that is configured anew is another writer, so the
`kind` of a writer never changes:

- A scan of the history (`"history"`) reads all five names and begins at the release
  or before (`env.ts:153-162`).
- A full one for missed events (no flag) does the same: its start block is the release
  block unless configured (`env.ts:203-204`).
- With `scanIndexEventsEnabled` off (`"light"`) it reads and writes only placements and
  results, and still sets `gamehub-events` (`runtime.ts:1095-1101`, `1126-1139`). The
  ends it passed are not stored behind that cursor.
- With a start block of 0 and no cursor it begins at the latest block (`runtime.ts:1086`),
  and a configured one (`KEEPER_START_BLOCK`, or `BET_INDEX_FROM_BLOCK` of the backfill)
  may be later than the first bet (`"late"`).

So `Covered` is what a cursor stands for: the names that every scan which moves it
reads from the first bet on. `CursorCoversEvents` is about those, and
`EveryEndIsIndexed` shows that the history brings the ends the other cursor passed.
Nothing in the code asks `gamehub-events` for more: recovery has its own cursor, and
the aggregates look at the rows. But a deployment of light keepers without recovery
has no ends in its rows, except from sockets and receipts, and a full keeper that
resumes at that cursor does not go back for them.

A block brings one bet a placement, a refund, a result, a settlement, a void, or a
result and the settlement or the void of it: `voidBet` records a result the hub has not
taken yet and voids in one transaction (`GameHub.sol:669`, `700`). The result is
never in the block of the placement, since a request waits for at least one
confirmation (`VRFHub.sol:60`).

### TimelockIndex

`log` is the finalized history of `GovernanceTimelock`. A keeper verifies the
governance, takes its place at the cursor, and then reads ranges, writes rows and
saves the cursor in three separate steps, each of which may fail or be followed
by a stop; several keepers do so from different places. The three statements of
`writeGovernanceTimelockEvents` are `Scheduled`, `Executed` and `Cancelled`: they
compare positions, so that an old range written again changes nothing, and a new
schedule of an old id starts afresh; `EveryChangeIsIndexed` asks for the mark of that
schedule, or of what ended it. The answer of `queryGovernanceQueue` is two
reads side by side. Finalized blocks do not reorganise; the calls of one batch
are one row.

### CasinoRound

One page that is not reloaded, one account, one pool. The placement
(`executeGamePlaceBetAction` over `executePlan` and `txPipeline`) is the steps
plan, approve, simulate, wallet, receipt; each ends in every way its call can,
those included that tell neither yes nor no (`TX_STATUS_UNKNOWN`). The watcher
(`useCasinoRoundWatcher`) polls the bet and, of one that waits, its request
(`PollBet`, `PollVoid`); `Phase` is the decision of `casino-round.ts`. `Dispatch` is
a reducer step with the effects React runs after it, `Commit` what follows a new
snapshot: an unbooked result is left to the notice, a terminal bet resets the
stepper and waits for its proof. Settlement and refund by the player are answered
at any later moment. Submission `n` of the page makes bet `n`. `fate` is what the
page knows of a bet: `unknown`, `bound` to the round, `left` by the player, left
to a notice, or told.

### Operators marked faulty

Beside some guards and effects stand operators named `X_Y`, marked *faulty*.
They are no part of a specification. Each is `X` with a plausible bug; replacing
`X` by it must break the property `PROJECT.json` pairs with it under "mutants".
They show that the properties are sensitive to the code.

## Model checking

| Run | Instance | States | Shows |
| --- | --- | --- | --- |
| `lifecycle` | 2 bets of one Bank, 2 ids, 2 words, 4 instants, with fairness | 42,952 | agreement, exact fence, one word per bet, voids, refinement of `BetPromise`, every bet ends, every result leaves the fence |
| `pool` | 3 holds of 2 players, 2 slots, 1 per player, stakes 1..2, reserve 2, ceiling and supply 5, two buffer levels | 89,632 | coverage, exact sums, nothing stuck, losses of LPs, refinement of `PoolLedger` |
| `vault` | 8 leaves of which 5 are used, 2 positions, capital 5, shares in halves, locks 0 and 2 | 32,093 | leaves hold the root, no settlement blocks, the preview may be skipped, the quote is the best, `_prefixCovers` is exact, refinement of `DepositLedger` |
| `payables_safety` | 2 players, 2 debts, 1 reorganisation, 1 restart, 1 visit a pass, reads fail and trail | 856,259 | no debtor is lost, in memory or in the file |
| `payables_liveness` | 2 players of whom one may be refused for ever, 2 debts, 1 reorganisation, 1 block a scan | 64,454 | a final debt is paid in a final block |
| `payables_lagging` | 1 player, 2 debts, finalized reads of any age | | **violated**: see Findings |
| `settle_order` | 2 bets, both may start or stop reverting, sockets, failing calls, no database | 2,278,394 | wake-ups, candidates and requested passes are kept, one transaction at a time |
| `settle_index` | 2 bets of which the later may revert, a database in pages of one row, 1 restart | 2,217,610 | recovery is complete only when it is, the cursor has its rows, earlier bets are tried before a void |
| `settle_liveness` | 2 bets, no sockets, no database, 1 restart, with fairness | 76,476 | the keeper alone ends every bet |
| `index` | 1 bet with up to 3 events in 3 blocks, blocks without one after its end, a scan of every kind beside one of the history that goes on, 1 start, ranges of 2 blocks, with fairness | 125,393 | rows converge, ends stay, a cursor covers what its scans read, the history alone brings every end |
| `timelock` | 1 operation scheduled again after its cancellation, 4 transactions, 2 keepers, 1 loss of a place, ranges of 2 blocks, with fairness | 354,891 | rows are the timelock, answers are honest, every change is shown by its own mark or a later one |
| `casino` | 2 placements, the second bet never settles, 2 manual transactions, with fairness | 48,747 | no second stake on an open question, a result is shown once, every followed round is answered |

Bounds. Two bets are what agreement, isolation and order are about: the code treats
bets independently except through the count of a Bank, the request ids, the
void window and the one queue of the keeper, and each of these needs two. In
`lifecycle`, `LastBetTime` stops new bets and `MaxTime` the clock; the latter
leaves room for the last bet to reach its refund deadline and its public void
delay. The properties of this run are also proved, for any number of bets, so one
Bank is enough here; the theorem covers several.

In `pool` three holds of two players meet both limits on open holds; the ceiling
is the supply, so a full tree is reached; a unit of rounding is half a reserve, so
rounding errors would show; stakes differ, so that one hold can profit while
another loses. Permutations of holds and players are symmetries; no run with a
liveness property uses one.

For the claimer two debts are one player owed twice, or two players who compete
for a single visit in a pass; a debt and its payment take four blocks, so scans
of one or two blocks need several passes, and one restart or one reorganisation
falls between any two steps of them.

In the vault, eight leaves give every kind of range: within a half, a half, across
the middle, ending inside the right half, with stale nodes above stale nodes.
Amounts are so small that every division rounds and deposits fall to zero and
stay in the tree, which is where a split can go wrong; a lock of 0 is the only
way to the limited addition with its preview, and to a result that finds the pool
empty. `MAX_DEPOSITS` bounds the leaves used; the code has 2^40.

In the settlement runs each question has the faults it is about: failing calls
and a settlement that changes its mind while bets are examined (`settle_order`), a
stop and a paged database (`settle_index`). With two bets, the earlier one of a
pass can be in every place of the queue and of its examination. A page of one
row needs two pages; a chunk of one block, two ranges.

In `index` one bet has all orders and repetitions of its events, each batch of
them, and both scans at any pair of places. Three blocks hold the longest life of a
bet. One that is over sooner leaves blocks without an event (`EarlyEmpty` would allow
them before the end too), so that `gamehub-events` can pass an end that nobody read and
a scan can start behind it. The initial states take each configuration of the first
scan; the second is a history scan and the only one in `Steady`. That the two kinds have
cursors of their own matters there: with one for both (`Source_Shared`)
`EveryEndIsIndexed` fails. In this run a cursor has two scans only when the first is
of the history as well, and no scan is light and late at once; the theorem has any
number of scans of any kind. Bets have separate rows, so a second bet adds no case to
the rows, and for the cursors the theorem has any number.

In `timelock` four
transactions are schedule, cancel, schedule again and its end; two keepers may be
any distance apart. In `casino` two placements are the fewest in which one may be
asked for too early and answers for an old bet reach a new round.

Fairness (`BetLifecycle!Fairness`): time passes, and a `refund` or a `voidBet`
with enough gas that stays possible for ever is sent. Any account may send both.
The keeper does: it refunds expired bets and voids eligible ones
(`frontend/apps/keeper/src/finalizer.ts`, `void.ts`, and `runVoidPass` in
`runtime.ts`), and `settle_liveness` shows that it gets there. Nothing is assumed of
the wrapper, of `finalize` or `retry`, of governance or of the modules. The time
bound is no loophole for liveness: it stops the clock after the last deadline,
not before.

Fairness (`PayableClaimer!Fairness`): passes go on, one at every poll
(`runLifecycleScan` in `runtime.ts`); blocks become final; a retry time is
reached; among passes that repeat for ever some read the finalized block of a
node that has caught up, and scan all they may; among claims that repeat for ever
for a player whom the asset accepts one is mined. The latter three alternate with
other steps, hence strong fairness. A player whom the asset refuses is assumed
nothing of, and nobody else is assumed to claim.

Fairness (`KeeperSettlement!FairSpec`): delays end, the scans go on at every poll,
each awaited call returns, and the drain loop, which runs until nothing is ready,
takes a bet whose turn comes again and again (strong, since other bets are taken
in between). Nobody else is assumed to end a bet and no result to arrive. The run
assumes that the calls it makes succeed: a keeper whose calls fail for ever ends
nothing.

Fairness (`BetIndex!FairSpec`, `TimelockIndex!FairTimelockSpec`): the `Steady` processes (in
`BetIndex` history scans, which a keeper that recovers bets repeats) go on, and among
attempts of a write that repeat for ever one succeeds. The other process may stop for good; sockets and receipts may bring nothing.

Fairness (`CasinoRound!FairSpec`): the interval polls and its reads succeed in the
end, timers fire, a proof is found, and the keeper ends every bet. Nothing is
assumed of the player or of the wallet, who may never answer.

Deadlock is checked in `lifecycle`, `pool` and the payables runs. The others may
really stop: a vault once every deposit within the bound is made and withdrawn, a
keeper or an index once everything is over and written, a room its player leaves.

## Findings

`payables_lagging`. Before the claimer drops a player it reads the balance at the
pass's finalized block, provided that block is not before the block where a zero
was observed (`payables.ts:241-256`). It does not compare it with the cursor. If a
second debt of a watched player was scanned, and the next finalized read is older
than the last (`head-monitor.ts:14-18` describes such reads), the zero found there
says nothing of the second debt. If that debt has been paid by someone else in a
block that is not final, the player is dropped all the same. The comment there
wants the player kept "until a finalized zero proves a recent successful claim
(ours or someone else's) cannot disappear in a shallow reorg"; this one can. The
consequence needs that reorganisation too, and is that the keeper stops paying
this debt until it replays from the origin; the debt itself is safe in the Bank.
With finalized reads that never fall behind the cursor the property is proved.

## Known differences

What the code does that its documents or comments say otherwise of, found while
modelling and reproduced with TLC on the modules here. No property of a passing
run says what the documents say.

- `frontend/apps/keeper/src/runtime.ts:782`. The candidates of a void pass are listed
  before the pass waits for its turn (`PassList`). A bet that becomes a candidate
  or eligible while it waits is not in the list, so a later bet may be attempted
  before it in this pass. `void.ts:101` has "eligible bets are attempted in VRF
  request order". What the recovery promises, that every earlier bet has been
  tried, holds: `EarlierBetsWereTried`.
- `frontend/apps/web/src/server/governance/timelock-queue.ts:181`. The rows and the
  coverage of an answer are read side by side. An answer whose coverage is
  newer than its rows claims blocks its list does not reflect. `AnswerIsHonest`
  states what holds when it is not newer.
- `frontend/apps/web/src/features/casino/room/casino-round.ts:446`. The settlement a
  player sends and that loses the race to the keeper reverts, and any revert is
  taken for a result that cannot be booked: the bet goes to the notice, though it
  is settled. `use-casino-round.ts:313` describes the bets of the notice as those
  whose result "arrived but never settled".
- `casino-round.ts:446-488`. The answer to a settlement or refund of an earlier bet
  writes its phase into the snapshot of the present round: a running bet without
  a result may be handed to the notice, or settlement offered with no bet to
  settle, until the next poll. `docs/design/casino-placebet-ux.md:81,129,130` show
  settlement only after the keeper's delay and refund only after the timeout of
  the bet.
- `place-bet-action.ts:125-129`. Between the placement and the first poll a
  reconciled round is not live, and a click on the button drops it. The comment
  there says only a completed round is reset. The bet goes on on the chain; the page
  no longer follows it (`left` in `CasinoRound`, which is why `EveryRoundIsAnswered`
  lets a player leave).
- An approval that is not confirmed, or a submission of which no hash is known,
  leaves the stepper in `TX_STATUS_UNKNOWN`, from which only a reload of the page
  leads to another placement. It is the safe side (`EverySubmissionIsAccounted`).

## Proofs

TLAPS proves, for any number of bets, Banks, ids, words, holds, players and any
amounts:

- `BetLifecycle_proofs`: the three invariants and two action properties of
  `lifecycle`, and what a reader may want besides: types, that no request serves
  two bets, that a stored word and a finished bet never change. Agreement is not
  inductive alone. The inductive invariant `Inv` is the conjunction of the type
  invariant, `RequestBinding`, `Agreement` and `ResultIsTheReceivedSeed`: a step on a request touches the bet it is
  bound to, and only the binding says that no other bet is disturbed; a
  delivery may settle only because agreement gives a held position and an open
  hold. `FenceInv` adds `FenceCountsUnbooked`; its steps use the cardinality
  lemmas for adding a request to, or removing it from, the set of unbooked
  ones. `WindowPast`, that no window lies in the future, carries
  `WindowCoversItsCohortOnly`. `RequestIds` is assumed finite, as a count of it
  is taken.
  `PromiseKept` is the refinement of `BetPromise`. Every transaction moves at most
  one bet between phases (`OneBetMoves`), and the set of fenced Banks is a function
  of the phases (`FenceMatches`), by the exact count.
- `BankVault_proofs`: type correctness (with it, no negative balance),
  `AccountingValid`, the two action properties and the refinement of
  `PoolLedger`. The inductive invariant is `TypeOK /\ AccountingValid`; closing a
  hold is one lemma shared by settlement, refund and void. `NothingLeaks` proves
  `TotalsAreSums` from `TotalsInv`, which adds that an open hold has a player:
  without it a hold could be opened over an open one and the sums would lose it.
  Opening adds one element to a sum and to two counts (`OpeningIsCounted`), closing
  takes it away (`ClosingIsCounted`), a failed payment and a claim change one
  player's part of the total (`PayableMoves`).
- `LiquidityVault_proofs`: the five invariants of `vault` and the refinement of
  `DepositLedger`, for a tree of any depth up to the 2^40 leaves of the code and any
  scale of shares. The inductive invariant `VaultInv` says of the tree that a positive
  node has a positive child, that unused leaves are empty and that nothing above
  them is stale (`TreeInv`); of the vault that cutoffs are used leaves, that
  `lockedLiquidity` is the sum of the locks and within the root, and that the root
  and the stakes are within the cap. Without the first part a settlement could book
  into nodes below which nobody is; without the second `_pushLazy` could subtract
  from a stale amount below the unused leaves.

  The argument goes by views. `PushView` of a node is the worth of the leaves
  below it, since the children of a node share its view out between them
  (`ViewSplits`, `SpanWorth`); so `LeavesHoldTheRoot`. A push changes no view and makes
  the nodes on its way hold theirs (`PushKeeps`). On a tree pushed to r, what a
  change hands a node is for leaves of the range that are worth something
  (`PortionArrives`), and no more than what the node has in the range if the whole
  range can bear the change (`PortionFits`). Hence no subtraction fails, no node is
  skipped, and every view in the range moves in one direction and the others not at
  all (`NoUnderflow`, `SpreadMoves`, `Booked`): `SettlementAlwaysBooks`. The same two
  facts refute each way in which the preview could fall back
  (`PreviewNeverFallsBack`). `_prefixCovers` is exact because the worth of the prefix
  stays in the interval its walk keeps. The quote is arithmetic: a share of a
  worth, rounded down, fits exactly when the share is at most the quote (`QuoteFits`).
  That `_pushLazy` multiplies by the scale and divides by it again changes no
  amount (`TwoDivisions`), so its split is the one of a push.
  For the refinement `SharersAre` says that the leaf chosen by `_allocationLeaf`
  bounds exactly the ledger's sharers, `Backed` that the ledger's total covers its
  locks, and each operation has a lemma of its own (`LedgerDeposit`,
  `LedgerWithdraw`, `LedgerOpen`, `LedgerSettle`).
- `KeeperScans_proofs`, the claimer: `NobodyForgotten`, for any number of players, debts,
  failed reads, reorganisations and restarts, under the hypothesis
  `FinalizedReadsMayGoBack = FALSE`. `NothingForgotten` needs `Bounds`: both
  cursors lie within the final part of the chain, which no step changes, and the
  finalized block of a pass is not before the cursor, so a zero there speaks of
  every creation scanned. The lemmas before it are about the list of players as
  visits rotate, shorten and extend it.
- `KeeperSettlement_proofs`: all safety properties of its runs. `OneTransaction` and
  `RequestIsServed` follow from `WriterInv`, and `CursorHasRows` from `ScanInv`.
  Examination and pass wait in one chain; it is always one of five (empty, one of
  them, or both in either order), which one follows from the places of the two, and
  who has a transaction on its way is at its head. For the cursor: a range is behind
  it only after its rows are there. `WorkInv` says where each bet the keeper holds
  is, and gives `CandidateIsAtWork` and `WakeupIsKept`; every step but a restart keeps
  what is ready (`Kept`). `RecoveryInv` follows the recovery after a start: behind the
  place of the scan every open bet is at work or in pages of the database not read
  yet, and the latch says no more than that. From it `RecoveredBetsAreAtWork`; and
  `EarlierBetsWereTried`, as the turn of a pass asks for exactly what is then missing.
- `BetIndex_proofs`: `CursorCoversEvents`, for any set of bets and of scans, any of them
  light, late or of the history. No process knows of another, so `IndexInv` says of
  each scan alone that what it has left behind is stored, as far as its cursor stands
  for it, and what is missing of its range is among the names it has yet to write.
  `RowsConverge` and `EndStays` follow from `RowsInv`: a row tells an event of its bet
  (`Tells`), nothing stored outranks that event, and the fields of what is stored are filled. `MergeKeeps` shows that merging the fold of any batch
  keeps this, late and repeated events included.
- `KeeperScans_proofs`, the governance queue: the cursor is never ahead of the rows that were written;
  `RowsAreTheTimelock` and `AnswerIsHonest`. `HistoryInv` says of each row that it is
  the last record of the history written so far. The history of the timelock is
  well formed (an operation is executed or cancelled only while it waits, and never
  scheduled after its execution), which is what makes an old range written again
  harmless (`Replayed`); the reply is tied to the places its two reads came from.
- `CasinoRound_proofs`: `EverySubmissionIsAccounted` and `ResultIsShownOnce`, for any
  number of bets.
  `RoomInv` says where the stepper is for every place of the placement (`StepInv`),
  that outside a reconciled round there is nothing to watch and no bet to resolve
  (`RoundInv`), and that the last submission is accounted for, or the placement
  runs, or the stepper refuses another one (`StakeInv`). `RoundInv` is what keeps the
  watcher and the manual settlements from resetting a stepper that must refuse.
  `ShownInv` carries the second: a followed round is bound and has nothing to show
  yet (`FollowInv`), a submission that is not bound was told nothing (`FreshInv`), the
  terminal bet of the page is over and, once told, is the one displayed (`TellInv`),
  and until a result is displayed it is pending or on the stage (`StageOf`), which is
  what keeps the button from beginning a placement over it.

Many of these proofs need an induction: a fold visits the events of a batch one by
one, a list names the members of a set in order, a sum adds one member at a time.
The induction theorems of the library take an operator and cannot be used, so
`SetInduction` states induction for a set instead: a set of natural numbers that holds
0 and successors holds all of them, a set of subsets of a finite set that holds a
subset whenever it holds that subset less any one member holds all. They rest on the
pigeonhole theorem for finite sets alone. From them follow that a function
given by such steps exists (`FoldExists`, `RecursionExists`), which gives the recursive
definitions of the modules their values, that a finite set of numbers can be listed in
order and that such a list leaves out nobody (`AscendingExists`, `AscendingIsOnto`), and
what a sum does when one term comes, goes or changes (`SumGrows`, `SumShrinks`,
`SumMoves`) and what a part of it is at most (`SumOfPart`). For the tree,
`ChainExists` gives a function whose value at a node follows from the value at one
other node of smaller rank, which is the parent of a walk down and a child of a walk
up, and `RankInduction` is the induction that goes with it.

The assumptions are those named in the modules: finitely many players and holds,
block numbers apart from `NoBlock`; for `BetLifecycle` and `BankVault`: shares and
buffers within 10000 bps, natural amounts, a void delay shorter than the public
one; for the vault a number of leaves that is a power of two up to 2^40, a positive
scale of shares, positive deposits and stakes, and finitely many positions; for
the off-chain modules natural bounds and chunks of at least a block. TLC
evaluates them in every run.

Model-checked only:

- the liveness properties, which need the fairness of the scheduling;
- `NothingOwedIsStuck`, which is about `ENABLED`.

Every other property of a passing run is a theorem.

## Not modelled

Listed with reasons in `PROJECT.json`. In short: the cooldown and ownership of
deposits, the buckets of referral earnings, the referral registry and allocation, the
edge-change queue, native VRF fees, authority and the games; off chain, the
observer role of the keeper, its health report, environment and provider ledger,
the leaderboards and referral rows of the read model and the queries that present
rows, the encoding, plans and in-memory indexer of the SDK, and the pages of the web
application but the room and the governance queue. The last are input, output and
presentation: they keep no state that another part depends on.

Gas is classes, not numbers: that the constants of `voidBet` suffice is an
arithmetic question about the EVM. Reentry and reverts of whole transactions have no
step. Chain reorganisations have one where a program acts on blocks that may be
replaced, in `PayableClaimer`; `BetIndex` and `KeeperSettlement` look at a chain that
is not replaced and at nodes that agree (`runtime.ts:1079`), and repeated scans of
the history are the code's remedy when it is.

## Plan

In order of what matters most:

1. `SettlementKernel`: lifecycle, pool and LP fence composed; no LP moves
   between a word becoming known and its booking.
2. `XPLedger`: accrued, locked and vesting buckets; released once, never later
   than the schedule.
3. `ReferralRegistry` (acyclic, bounded walk), allocation arithmetic (an honest
   result fits its reserve), the edge-change delay, VRF fee credits.
4. Theorems: the invariants of the modules above; that `BankVault` and `LiquidityVault`
   agree on the totals, as a common refinement.
5. Authority: who may open risk, who may only close it; two-step transfer.
