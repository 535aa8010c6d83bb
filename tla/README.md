# Formal model of StellarEscrow

This directory holds TLA+ models of the StellarEscrow Soroban contract
(`src/src/lib.rs`, `storage.rs`, `types.rs`, `errors.rs` and `events.rs`). It also holds the
TLC configurations that model-check them and TLAPS proofs of their main
invariants.

## 1. The system

The contract is one Soroban contract with twelve mutating entry points and four
getters. The spec names the following parts:

| Part | Code | State it owns |
|---|---|---|
| Configuration | `initialize`, `update_fee` (lib.rs 29-97) | instance keys INIT, ADMIN, USDC, FEE_BPS, COUNTER, ACC_FEES (storage.rs 6-95) |
| Arbitrator registry | `register_arbitrator`, `remove_arbitrator_fn` (lib.rs 51-78) | persistent keys `(ARB, a)` (storage.rs 111-124) |
| Fee ledger | fee computed in `create_trade` (lib.rs 148-154), accrued in `confirm_receipt` and `resolve_dispute`, drained by `withdraw_fees` (lib.rs 100-122) | ACC_FEES |
| Trade lifecycle | `create_trade`, `fund_trade`, `complete_trade`, `confirm_receipt`, `raise_dispute`, `resolve_dispute`, `cancel_trade` (lib.rs 125-350) | persistent keys `(TRADE, id)` holding a `Trade` (types.rs) |
| Authorization gate | `require_auth` calls, and `env.invoker()` in `raise_dispute` | none |
| Token contract | `token::Client::transfer` (external, `token.wasm`) | USDC balances |
| Events | `events.rs`: one `emit_*` per successful mutating call but `initialize` | the external event log, never read back by the contract |

The parts interact as follows:

- Each trade entry point reads the configuration and the trade record.
- It then calls the token contract to move money between a party and the
  escrow's own account.
- Finally it writes the trade record and the fee ledger.
- `create_trade` reads the registry.
- `resolve_dispute` uses only the arbitrator that was stored with the trade.

Soroban runs invocations one at a time. An invocation that returns `Err` or
traps is rolled back completely, and that includes its token transfers. The
trap cases are a failed `require_auth` and a failed `transfer`. There are
therefore no threads, callbacks or messages. What makes the contract hard is
that **every sequence of calls by every account** is possible, and that
correctness often rests on the rollback of writes made before a later check
fails.

## 2. Modules

| Module | What it is |
|---|---|
| `Escrow.tla` | The whole contract. One action per entry point, with its checks in code order. |
| `ConfigAbstract.tla` | What the spec promises of the configuration: the admin is set once, the rate stays within 10000, and the registry changes only after setup. |
| `TradeBook.tla` | What the spec promises of the trade store and the fee ledger: trades appended in creation order and never removed, one status move per step along the lifecycle table, and a ledger that grows by a settled trade's fee and falls only to zero. |
| `EscrowLedger.tla` | The escrow's books: what it owes (fees plus held deposits), summed with `MapThenSumSet`. Only TLC uses it, since the fold is recursive. |
| `MC_Escrow.tla` | The TLC instance: three accounts as model values, with symmetry over them. |
| `EscrowProofs.tla` | TLAPS proofs of `TypeOK` and `FeeWithinAmount` for all values of the constants. |
| `ConfigProofs.tla` | TLAPS proof that Escrow refines ConfigAbstract. |
| `LifecycleProofs.tla` | TLAPS proofs of `TradeIdsDense`, `DisputedHasArbitrator`, `CancelledNeverFunded`, `PayoutOnlyAfterFunding`, `ResolverIsBoundArbitrator` and the action property `StatusTransitions`. |
| `EventProofs.tla` | TLAPS proof of `ReplayMatchesStore`. |
| `MoneyProofs.tla` | TLAPS proof of the action property `EscrowMovesAccounted`. |
| `BookProofs.tla` | TLAPS proof that Escrow refines TradeBook. |

### Escrow: how the state and the actions correspond to the code

The variables and the code they stand for:

| Variable | Code |
|---|---|
| `initialized`, `admin`, `fee_bps`, `trade_counter`, `accumulated_fees` | the instance keys of the same names |
| `arbitrators` | the set of present `(ARB, a)` keys |
| `trades[id]` | the `(TRADE, id)` entry, or `None` when absent (`get_trade`'s `TradeNotFound`) |
| `bal` | token balances of the users and of `Escrow` (`env.current_contract_address()`) |
| `result` | what the last invocation returned |
| `observed` | the event log as an indexer folds it: a status per trade id and a set of arbitrators |
| `payouts[id]` and `funded[id]` | history variables: how often the escrow paid trade `id` out, and whether its amount was deposited. The code has neither. |

Each entry point `f` becomes an operator `FError(...)`. It is an `IF/ELSE IF`
chain of the function's early returns in code order, and it returns the first
error or `"Ok"`. The action is `Reject(e)` on an error, which changes only
`result`, as the rollback does. On `"Ok"` it is the function's writes.

Authorization is modelled as follows:

- `require_auth(x)` is `caller = x`, where `caller` is the account that signed
  the invocation.
- A failing `require_auth` is reported as `AuthError`.
- `env.invoker()` in `raise_dispute` is the same `caller`.
- A token transfer from an account with too little balance is reported as
  `TransferError`.

`Settle` is the common tail of `confirm_receipt` and `resolve_dispute`:

1. It pays `amount - fee`.
2. It accrues `fee`.
3. Like the code, it leaves the trade record as it was.

The data is abstracted:

- Addresses are model values.
- The USDC token address is fixed. Nothing compares it.
- Each `emit_*` function of `events.rs` is a record of its topic and its
  payload (`EmitTradeConfirmed(id, payout, fee)`, ...). The success branch of
  each action publishes the event its function emits, in the same branch as
  its writes. A rejected call publishes nothing, because the host drops the
  events of a rolled-back call.
- The log itself is external. It is kept as `observed`, the fold an indexer
  makes of it (`Replay`): the lifecycle topics set a trade's status,
  `arb_reg` and `arb_rem` change the registry, and `confirm`, `resolved`,
  `fee_upd` and `fees_out` change neither. While the fold agrees with storage,
  it adds no states.
- u64 keeps its bound as the constant `U64_MAX`, because every `checked_*`
  call the code makes is an `Overflow` guard in the model.
- The literal 10000 is the constant `BPS_DENOM`. Scaling both keeps the
  arithmetic edges reachable with small numbers.

Two bounds are named constants. Both cap only what TLC explores, and each is a
conjunct of one action's guard:

- `MaxTrades` caps `create_trade`.
- `MaxPayouts` caps the number of settlements of one trade. Because of the bug
  below, that number is otherwise unbounded.

## 3. Properties and runs

The properties checked by the passing runs:

| Property | Statement | Hazard it covers |
|---|---|---|
| `TypeOK` | u64 values stay within `U64_MAX`, and so on. | The checked fee accrual and its rollback (checked in `escrow_edge`). |
| `FeeWithinAmount` | Every stored trade has `fee <= amount`. | `checked_sub` in settlement. It rests on the `fee_bps <= 10000` checks and on the fee being pinned at creation. |
| `TradeIdsDense` | A trade is stored under `t` iff `t <= trade_counter`. | The counter is incremented before the fee can overflow, and a re-initialize would reset the counter. |
| `DisputedHasArbitrator` | A Disputed trade has an arbitrator. | `raise_dispute`'s `is_none` check. Without it, funds are stuck. |
| `CancelledNeverFunded` | A cancelled trade was never funded. | A `cancel_trade` / `fund_trade` race. |
| `PayoutOnlyAfterFunding` | The escrow pays a trade only after its deposit. | Completing or settling an unfunded trade. |
| `ResolverIsBoundArbitrator` | On a Disputed trade, `resolve_dispute`'s arbitrator and authorization checks fail exactly for callers other than the arbitrator bound at creation. This holds whatever `register_arbitrator` and `remove_arbitrator_fn` did since. | The stale arbitrator read at lib.rs:303. A registry check would strand the deposits of a removed arbitrator's disputes, and a looser check would let another account resolve. |
| `ReplayMatchesStore` | Folding the published events yields every trade's stored status (`None` for ids not issued) and the exact registry. | A call that publishes the wrong topic or misses its event, or an event that survives a rolled-back call. |
| `ConfigRefined` (refinement) | `Config!Spec`, where `Config == INSTANCE ConfigAbstract WITH cadmin <- admin, crate <- fee_bps, carbs <- arbitrators`. Each step is `Setup` (initialize), `SetRate` (update_fee), `Enrol` or `Retire` (the registry), or leaves the configuration alone. | A second initialize replacing the admin, an unchecked rate, or any trade function writing the configuration. |
| `StatusTransitions` (action) | A stored trade is never removed. Only its status changes, and only along the spec's lifecycle table. | Any write of a wrong status, or an overwrite of a trade. |
| `EscrowMovesAccounted` (action) | Whenever the escrow's own token balance changes, the step is one of three moves. (1) `Deposit`: a Created trade becomes Funded and its buyer pays its amount in. (2) `Payout`: a Completed or Disputed trade pays `amount - fee` to its seller or buyer, and its fee is added to `accumulated_fees`. (3) `FeeWithdrawal`: exactly `accumulated_fees` leaves and the ledger is zeroed. | `withdraw_fees` transfers before it resets the ledger (lib.rs:116-117). Also any call that moves the escrow's money without booking it, or books it without moving it. |
| `BookRefined` (refinement) | `Book!Spec`, where `Book == INSTANCE TradeBook WITH Entry <- Trade, book <- BookOf(trade_counter), fees <- accumulated_fees`. `BookOf(c)` is the function from each id in `1..c` to its stored trade. Every step is one of `Open` (create_trade), `Move` (fund, complete, dispute, cancel), `Accrue` (confirm_receipt, resolve_dispute) or `Withdraw` (withdraw_fees), or leaves both alone. | The counter and the stored trade must be written together (lib.rs:148 increments before the fee can overflow). A second `initialize` would shrink the book. A call must not change two trades at once. |

The runs:

| Run | cfg | Expect | Bounds |
|---|---|---|---|
| `escrow_one` | `MC_Escrow_one.cfg` | pass | 3 accounts, 1 trade, `U64_MAX=5`, `BPS_DENOM=2`, amounts {0,1,3}, fee rates {1,2,4}, balances 3, 2 payouts; checks all properties but `TypeOK` |
| `escrow_edge` | `MC_Escrow_edge.cfg` | pass | 2 accounts (`MC_Addr2`), 2 trades, `U64_MAX=2`, `BPS_DENOM=2`, amount 2, fee rate 1, balances 2, 2 payouts; checks `TypeOK` and `EscrowMovesAccounted` |
| `escrow_double_settlement` | `MC_Escrow_settle.cfg` | violation of `SettleAtMostOnce` | as `escrow_one` |
| `escrow_parties` | `MC_Escrow_parties.cfg` | violation of `PartiesDistinct` | as `escrow_one` |
| `escrow_solvency` | `MC_Escrow_solvent.cfg` | violation of `EscrowSolvent` (`EscrowLedger.tla`) | 3 accounts, 2 trades, `U64_MAX=1`, `BPS_DENOM=1`, amount 1, fee rates {0,1}, balances 1 |

Why these bounds are enough:

- Three accounts let seller, buyer and a third party (admin or arbitrator) be
  distinct or equal in every combination.
- With `escrow_one`'s constants, each of the following is reachable:
  - a zero amount;
  - a fee rate above the scaled 10000;
  - a fee multiplication that overflows (3·2 > 5);
  - a fee below, equal to and above the payout.
- `escrow_edge` makes the fee accrual overflow after a payout. Each trade
  holds 2 and pays 1 with a fee of 1, and the third settlement (two trades, two payouts each) finds
  the escrow still able to pay while `accumulated_fees + 1 > U64_MAX`. One
  trade alone can never reach that point: its fees pass `U64_MAX` only
  after more than `BPS_DENOM` settlements (the `checked_mul` bound gives
  `amount * fee_bps <= U64_MAX`), and its deposit runs out first unless the
  fee is the whole amount and nothing is paid. Two accounts keep the run small,
  since each plays admin, party and arbitrator in turn. It is where `TypeOK`
  (the accrual stays within u64) and `EscrowMovesAccounted` (the payout is
  undone with the failed accrual, and no fee goes unbooked) are checked.
- Each run explores all reachable states within these bounds (77k and 468k
  distinct states).
- Two trades with `escrow_one`'s amounts and fee rates are out of reach: the
  run does not finish within minutes. The passing properties are per trade,
  and the trades share only the counter, the fee ledger and the escrow's
  balance. Those shared parts are what `escrow_edge` (two trades) and
  `escrow_solvency` exercise.

Each property of each passing run has a mutant in `Escrow.tla` that breaks it.
Each mutant is a plausible code bug:

| Mutant | The code bug | Property it breaks |
|---|---|---|
| `InitializeErrorTwice` | a dropped `is_initialized` check | `StatusTransitions`, `ConfigRefined` |
| `UpdateFeeErrorUnbounded` | a dropped `fee_bps > 10000` check | `FeeWithinAmount` |
| `CreateTradeLeaky` | no rollback of the counter | `TradeIdsDense`, `BookRefined` |
| `WithdrawFeesNoReset` | `withdraw_fees` without `set_accumulated_fees(0)` | `EscrowMovesAccounted` (`escrow_one`) |
| `ConfirmReceiptDropsFee` | the accrual's `checked_add` failure skipped (`if let Some` for `?`): the seller is paid, the fee is lost | `EscrowMovesAccounted` (`escrow_edge`) |
| `CompleteTradeUnfunded` | completes an unfunded trade | `PayoutOnlyAfterFunding` |
| `CancelTradeFunded` | cancels a funded trade | `CancelledNeverFunded` |
| `SettleErrorWrapping` | no `checked_add` | `TypeOK` |
| `RaiseDisputeErrorNoArbitrator` | a dropped `is_none` check | `DisputedHasArbitrator` |
| `ResolveDisputeErrorRegistered` | `resolve_dispute` also requiring the arbitrator to be registered | `ResolverIsBoundArbitrator` |
| `CompleteTradeWrongEvent` | `complete_trade` calling `emit_trade_funded` (copy-paste) | `ReplayMatchesStore` |

### Findings

1. **Double settlement (code bug).** `confirm_receipt` (lib.rs 224-255) and
   `resolve_dispute` (lib.rs 288-329) transfer the payout but never save a new
   status.
   - The trade stays `Completed` or `Disputed`, and the same call can be made
     again. Each time it pays out of the escrow's pool, that is, out of other
     trades' deposits.
   - A confirmed trade can still be disputed and resolved, a third payment.
   - TLC's shortest trace is: initialize, create, fund, complete, confirm,
     confirm.
   - The spec says the opposite: funds move exactly once per trade, and
     confirm and resolve are terminal.
2. **Seller may equal buyer (divergence).** `create_trade` accepts it, but the
   spec requires distinct parties.
3. **The escrow becomes insolvent (code bug, the same root cause as 1).**
   `EscrowSolvent` says the escrow's token balance covers `accumulated_fees`
   plus every deposit that has not been paid out.
   - A repeated `confirm_receipt` accrues the trade's fee again (lib.rs:249)
     though no new money came in, and its payout is taken from other buyers'
     deposits.
   - TLC's trace has one trade whose fee equals its amount. The buyer confirms,
     the admin withdraws the fee, and the buyer confirms again with a payout
     of 0. After that, `accumulated_fees` is 1 while the escrow holds 0, so
     `withdraw_fees` (lib.rs:116) can only trap.
   - With two trades the same repeat takes the other buyer's deposit.

## 4. Fairness and liveness

No fairness is assumed and no liveness property is stated. Every step is a
transaction some user chooses to send. The contract has no background work,
timeouts or scheduling that would oblige any step to happen. "A funded trade is
eventually settled" depends on the buyer or the arbitrator acting, not on the
code.

One hazard is a liveness matter for that reason, and stays without a
property: with no arbitrator, a funded trade leaves escrow only through the seller's
  `complete_trade`. `cancel_trade` accepts only Created and there is no
  timeout, so a seller who never completes locks the deposit.

## 5. What is proved

Every theorem below is proved by TLAPS for every value of the constants that
satisfies the two assumptions of `Escrow.tla`:

- `EscrowAssumptions` says the account sets are disjoint, and that the bounds
  and the scaled u64 are naturals.
- `NoneIsNoTrade` says the absent-entry value `None` is not a `Trade` record.

`EscrowProofs.tla` has two theorems:

- **`TypeCorrect`**: `Spec => []TypeOK`. `TypeOK` is inductive by itself.
  - There is one lemma per action.
  - `NextTypeOK` picks the caller and combines them.
  - Two lemmas carry the arithmetic: `ComputeFeeBound` says the fee fits in
    u64 when the product does not overflow. `SetStatusTypeOK` says a status
    update keeps a trade a `Trade`.
- **`FeeWithinAmountHolds`**: `Spec => []FeeWithinAmount`. `FeeWithinAmount` is
  not inductive on its own: a new trade's fee is `amount*fee_bps \div 10000`,
  which exceeds `amount` when `fee_bps > 10000`. The inductive invariant is
  `FeeInv == TypeOK /\ FeeRateValid /\ FeeWithinAmount`, with
  `FeeRateValid == fee_bps \in 0..BPS_DENOM`. It carries the rate check of
  `initialize` and `update_fee`. The supporting lemmas:
  - `ComputeFeeAtMostAmount` is the arithmetic fact.
  - `FeeSetStatus` says a status change keeps fee and amount.
  - `NextFeeInv` has one step per action.

TLC has checked `FeeInv` as an invariant of `escrow_one`.

`LifecycleProofs.tla` proves the five lifecycle properties from one inductive
invariant, `LifeInv == TypeOK /\ LifeRest`. `LifeRest` conjoins the four
checked invariants with three facts that make them inductive:

- **`UninitEmpty`**: before `initialize`, `trade_counter = 0`. This is why
  `initialize` resetting the counter does not break density.
- **`AbsentUntouched`**: an id not yet issued has `~funded` and no payouts.
  This is why `create_trade` under the next id starts a clean history.
- **`FundedIffLive`**: a stored trade was funded exactly when its status is
  Funded, Completed or Disputed. This is why `cancel_trade`, which requires
  Created, meets an unfunded trade. It is also why a settlement, which
  requires Completed or Disputed, meets a funded one.

The proof structure:

- There is one lemma per kind of step: `LifeFrame`, `LifeSetStatus`,
  `LifeSettle` and `LifeCreate`.
- `NextLifeInv` has one step per entry point, each split into its error and
  success cases.
- `StatusTransitionsHold` follows from the same invariant through
  `NextStatusStep`. The new id of `create_trade` is above the counter
  (`TradeIdsDense`), so it never overwrites a stored trade.

TLC found `LifeInv` invariant on both passing instances before the proof was
written.

`ResolverIsBoundArbitratorHolds` follows from `LifeInv` alone (lemma
`ResolverFromLife`). On a stored Disputed trade, `UninitEmpty` and
`TradeIdsDense` give `initialized`, and `DisputedHasArbitrator` gives an
arbitrator. The lookup therefore passes, and `ResolveDisputeError` reaches the
caller comparison, whose only other outcome is `SettleError`'s money errors.

`EventProofs.tla` proves **`ReplayMatchesStoreHolds`**: `Spec => []ReplayMatchesStore`.
`ReplayMatchesStore` (`observed = View`) is inductive together with `TypeOK`:

- `ReplayLifecycle`, `ReplayRegister`, `ReplayRemove` and `ReplayQuiet`
  evaluate the fold on each kind of event.
- `ViewStatus` and `ViewFrame` give `View` after a status write and after a
  step that writes no trade.
- `ReplaySetStatus` and `ReplayStatusStep` combine them for a step that
  stores one trade and publishes its topic.
- `NextReplay` has one step per entry point. `initialize` publishes nothing,
  the settlements publish topics the fold ignores, and a rejected call
  changes neither the store nor the fold.

`ConfigProofs.tla` proves **`ConfigRefinement`**: `Spec => ConfigRefined`.
It has the shape of a refinement proof:

- `Init => Config!Init` holds by definition.
- Under the invariant `CfgInv == FeeInv /\ AdminSet`, every step of `Next` is
  a `Config!Next` step on `<<admin, fee_bps, arbitrators>>` or leaves them
  unchanged (lemma `NextRefines`).
- `AdminSet == initialized <=> admin # None` is what lets `Setup` find no
  admin yet, and lets `Enrol`, `Retire` and `SetRate` find one.

`MoneyProofs.tla` proves **`EscrowMovesAccountedHolds`**:
`Spec => EscrowMovesAccounted`. The property constrains single steps, so
`TypeOK` is the only invariant it needs.

- `QuietAccounted` and `RejectAccounted` cover the steps that leave `bal`
  alone. These are every rejected call and the eight calls that move no
  money.
- `FundTradeAccounted`, `ConfirmReceiptAccounted`, `ResolveDisputeAccounted`
  and `WithdrawFeesAccounted` take the success branch of each money-moving
  call. What the error chain returned `"Ok"` for (`LookupErrorOk`) gives the
  status that `Deposit` or `Payout` names. `SettlePayout` shows that the
  shared tail `Settle` is a `Payout` to one of the two parties.
- `NextAccounted` combines these, and the theorem follows by `PTL` from
  `TypeCorrect`.

`EscrowProofs.tla` also states `TransferNat`: a transfer that the source
account can cover keeps every balance a natural. The three `TypeOK` lemmas
that move money cite it.

`BookProofs.tla` proves **`BookRefinement`**: `Spec => BookRefined`. The
inductive invariant is
`BookInv == LifeInv /\ FeeInv /\ CounterBounded /\ UninitNoFees`:

- The mapping reads `trades[1..trade_counter]`. Reading only stored trades
  takes `trade_counter <= MaxTrades` (`CounterBounded`) and `TradeIdsDense`.
- `create_trade`'s step is an `Open` only because the new trade is a `Trade`
  with `fee <= amount`. These are `TypeOK` and `FeeWithinAmount` in the
  next state.
- `initialize` is a stutter only because nothing was created
  (`UninitEmpty`) and nothing accrued (`UninitNoFees`) before it.
- `FunIsSeq` (from `SeqDef` and `LenProperties` of `SequenceTheorems`) makes
  the mapped book a sequence of length `trade_counter`.
- There is one lemma per abstract action: `BookOpen`, `BookMove`,
  `BookAccrue` and `BookWithdraw`. There is one per group of calls:
  `InitializeBook`, `ConfigCallsBook`, `CreateTradeBook`, `StatusCallBook`,
  `SettleCallBook` and `WithdrawFeesBook`. `NextRefinesBook` combines them.
- TLC checked `BookRefined` on `escrow_one` before the proof was written.

`TradeBook`'s `Accrue` lets a settled trade book its fee again. The double
settlement (Finding 1) is therefore within what this refinement states. The
refinement says how the ledger may move, not how often.

The following stay with TLC only: the violations, the mutants, and anything
that depends on the concrete small constants. `EscrowSolvent` sums over the
trades with a fold, which is recursive, so it lives in `EscrowLedger.tla`,
which no proof module extends. No liveness property is stated (section 4). If
one were, it would stay with TLC: TLAPS does not prove liveness under fairness
or `ENABLED`.

## 6. Not modelled

- Events are modelled only as far as an indexer's fold of them goes. Their
  amounts (`confirm`'s payout and fee, `fees_out`'s amount) are published
  but no property reads them. `resolved` carries no amount, and `initialize`
  publishes no fee rate, so the log alone cannot reconstruct the fee ledger.
- The read-only getters change nothing.
- The tests (`test.rs`) are not modelled.
- Storage TTL and archival are host behaviour, not code.
- The token contract is modelled from the spec as an atomic balance move.
- The USDC address is not modelled.

## 7. Plan

Next steps, in order:

1. `EscrowAbstract.tla` will be the spec's lifecycle as an abstract machine:
   - trades pass through Created, Funded, Completed or Disputed to explicit
     terminal outcomes (Settled or Cancelled);
   - one payout happens per trade;
   - `Escrow` is mapped to it through `INSTANCE ... WITH`.

   Because of the double settlement, the refinement fails on the second
   payout. That failure will be a violation run, and a repaired variant of
   `Settle` will be shown to refine.
2. Fee arithmetic, `ComputeFee` against a reference over bounded inputs. This
   includes the u32 to u64 cast and the fact that `checked_div(10000)` never
   fails.
