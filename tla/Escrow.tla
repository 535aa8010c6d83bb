------------------------------- MODULE Escrow -------------------------------
(***************************************************************************)
(* The StellarEscrow contract (src/src/lib.rs, storage.rs, types.rs).      *)
(*                                                                         *)
(* One step of this specification is one invocation of a public contract  *)
(* function.  Soroban runs invocations one at a time and rolls back every  *)
(* storage write and token transfer of an invocation that returns an error *)
(* or traps, so a failed call changes nothing but the outcome reported to  *)
(* its caller (the variable result).  The checks of each function are      *)
(* taken in the order the code makes them: the first failing one names    *)
(* the error.                                                              *)
(*                                                                         *)
(* Authorization (require_auth) is modelled by the one account that signs  *)
(* the invocation, the parameter caller: require_auth(x) passes exactly    *)
(* when caller = x, and traps (AuthError) otherwise.  The USDC token       *)
(* contract is external: its balances are the variable bal and transfer    *)
(* traps (TransferError) when the source balance is too small.             *)
(***************************************************************************)
EXTENDS Naturals

CONSTANTS
    Addr,         \* user accounts (Address values other than the contract)
    Escrow,       \* env.current_contract_address(): the escrow's own account
    None,         \* Option::None: no arbitrator bound, no trade stored
    U64_MAX,      \* largest u64: 2^64 - 1 in the code, small for TLC
    BPS_DENOM,    \* the literal 10000: the fee_bps bound and the fee divisor
    MaxTrades,    \* model bound: create_trade is tried while trade_counter < MaxTrades
    MaxPayouts,   \* model bound: a trade is settled while payouts[id] < MaxPayouts
    Amounts,      \* amounts offered to create_trade (0 exercises InvalidAmount)
    FeeChoices,   \* fee_bps values offered to initialize and update_fee
    InitBalance   \* each user's token balance before any call

ASSUME EscrowAssumptions ==
    /\ Escrow \notin Addr
    /\ None \notin Addr \cup {Escrow}
    /\ U64_MAX \in Nat \ {0}
    /\ BPS_DENOM \in Nat \ {0}
    /\ MaxTrades \in Nat
    /\ MaxPayouts \in Nat
    /\ Amounts \subseteq 0..U64_MAX
    /\ FeeChoices \subseteq Nat
    /\ InitBalance \in Nat

VARIABLES
    initialized,      \* instance key INIT
    admin,            \* instance key ADMIN (None before initialize)
    fee_bps,          \* instance key FEE_BPS
    trade_counter,    \* instance key COUNTER: the last trade id issued
    accumulated_fees, \* instance key ACC_FEES
    arbitrators,      \* the persistent keys (ARB, a) that are present
    trades,           \* persistent key (TRADE, id) -> Trade; None when absent
    bal,              \* token balances, of the users and of Escrow
    payouts,          \* history: how many payouts each trade has made
    funded,           \* history: the trade's amount was moved into escrow
    result,           \* what the last invocation returned
    observed          \* the published events as an indexer folds them

state == <<initialized, admin, fee_bps, trade_counter, accumulated_fees,
           arbitrators, trades, bal, observed>>
history == <<payouts, funded>>
vars == <<state, history, result>>

-----------------------------------------------------------------------------
(* types.rs *)
TradeStatus == {"Created", "Funded", "Completed", "Disputed", "Cancelled"}
DisputeResolution == {"ReleaseToBuyer", "ReleaseToSeller"}

\* The trade id is the storage key, so the record omits the id field.
Trade == [seller : Addr, buyer : Addr, amount : 1..U64_MAX, fee : 0..U64_MAX,
          arbitrator : Addr \cup {None}, status : TradeStatus]

\* An absent storage entry (None) is told apart from every stored Trade.
ASSUME NoneIsNoTrade == None \notin Trade

TradeIds == 1..MaxTrades
Accounts == Addr \cup {Escrow}

\* Values an invocation returns: Ok, a ContractError (errors.rs), or a trap
\* of the host (failed require_auth, failed token transfer).
Results == {"Ok", "AlreadyInitialized", "NotInitialized", "InvalidAmount",
            "InvalidFeeBps", "ArbitratorNotRegistered", "TradeNotFound",
            "InvalidStatus", "Overflow", "NoFeesToWithdraw", "Unauthorized",
            "AuthError", "TransferError"}

-----------------------------------------------------------------------------
(* Helpers *)

\* amount.checked_mul(fee_bps as u64)?.checked_div(10000)
ComputeFee(amount, bps) == (amount * bps) \div BPS_DENOM
FeeOverflows(amount, bps) == amount * bps > U64_MAX

\* token::Client::transfer(from, to, amt) of the USDC token contract.
Transfer(b, from, to, amt) == [b EXCEPT ![from] = @ - amt, ![to] = @ + amt]

\* An invocation that fails: the host rolls back all of its writes.
Reject(e) == /\ result' = e
             /\ UNCHANGED <<state, history>>

-----------------------------------------------------------------------------
(* events.rs: what each emit_* function publishes, as a record of its topic *)
(* and payload.  The Notification Sink is external: an indexer reading it  *)
(* folds each event into its own view of the trades and of the registry.   *)

EmitTradeCreated(id, seller, buyer, amount) ==
    [topic |-> "created", id |-> id, seller |-> seller, buyer |-> buyer,
     amount |-> amount]
EmitTradeFunded(id) == [topic |-> "funded", id |-> id]
EmitTradeCompleted(id) == [topic |-> "complete", id |-> id]
EmitTradeConfirmed(id, payout, fee) ==
    [topic |-> "confirm", id |-> id, payout |-> payout, fee |-> fee]
EmitDisputeRaised(id, raisedBy) ==
    [topic |-> "dispute", id |-> id, raised_by |-> raisedBy]
EmitDisputeResolved(id, resolution, recipient) ==
    [topic |-> "resolved", id |-> id, resolution |-> resolution,
     recipient |-> recipient]
EmitTradeCancelled(id) == [topic |-> "cancel", id |-> id]
EmitArbitratorRegistered(a) == [topic |-> "arb_reg", arbitrator |-> a]
EmitArbitratorRemoved(a) == [topic |-> "arb_rem", arbitrator |-> a]
EmitFeeUpdated(bps) == [topic |-> "fee_upd", fee_bps |-> bps]
EmitFeesWithdrawn(amount, to) == [topic |-> "fees_out", amount |-> amount, to |-> to]

\* The status an indexer records for a trade on each lifecycle topic.
TopicStatus == [created |-> "Created", funded |-> "Funded",
                complete |-> "Completed", dispute |-> "Disputed",
                cancel |-> "Cancelled"]

\* The indexer's fold of one event; confirm, resolved, fee_upd and fees_out
\* name no status or registry change.
Replay(o, ev) ==
    CASE ev.topic \in DOMAIN TopicStatus ->
             [o EXCEPT !.status[ev.id] = TopicStatus[ev.topic]]
      [] ev.topic = "arb_reg" -> [o EXCEPT !.arbs = @ \cup {ev.arbitrator}]
      [] ev.topic = "arb_rem" -> [o EXCEPT !.arbs = @ \ {ev.arbitrator}]
      [] OTHER -> o

\* env.events().publish: the event reaches the sink when the call commits.
Publish(ev) == observed' = Replay(observed, ev)

-----------------------------------------------------------------------------
Init ==
    /\ initialized = FALSE
    /\ admin = None
    /\ fee_bps = 0
    /\ trade_counter = 0
    /\ accumulated_fees = 0
    /\ arbitrators = {}
    /\ trades = [t \in TradeIds |-> None]
    /\ bal = [a \in Accounts |-> IF a = Escrow THEN 0 ELSE InitBalance]
    /\ payouts = [t \in TradeIds |-> 0]
    /\ funded = [t \in TradeIds |-> FALSE]
    /\ result = "Ok"
    /\ observed = [status |-> [t \in TradeIds |-> None], arbs |-> {}]

-----------------------------------------------------------------------------
(* Administration *)

\* Mutant: initialize without its is_initialized check (a re-initialization
\* resets trade_counter while the trades stay stored).
InitializeErrorTwice(adm, bps, caller) ==
    IF bps > BPS_DENOM THEN "InvalidFeeBps"
    ELSE IF caller # adm THEN "AuthError"
    ELSE "Ok"

InitializeError(adm, bps, caller) ==
    IF initialized THEN "AlreadyInitialized"
    ELSE IF bps > BPS_DENOM THEN "InvalidFeeBps"
    ELSE IF caller # adm THEN "AuthError"
    ELSE "Ok"

\* initialize(admin, usdc_token, fee_bps); the token address is fixed.
Initialize(adm, bps, caller) ==
    LET e == InitializeError(adm, bps, caller) IN
    \/ e # "Ok" /\ Reject(e)
    \/ /\ e = "Ok"
       /\ admin' = adm
       /\ fee_bps' = bps
       /\ trade_counter' = 0
       /\ accumulated_fees' = 0
       /\ initialized' = TRUE
       /\ result' = "Ok"
       /\ UNCHANGED <<arbitrators, trades, bal, observed, history>>

AdminError(caller) ==
    IF ~initialized THEN "NotInitialized"
    ELSE IF caller # admin THEN "AuthError"
    ELSE "Ok"

\* register_arbitrator(arbitrator): save_arbitrator sets (ARB, a).
RegisterArbitrator(a, caller) ==
    LET e == AdminError(caller) IN
    \/ e # "Ok" /\ Reject(e)
    \/ /\ e = "Ok"
       /\ arbitrators' = arbitrators \cup {a}
       /\ Publish(EmitArbitratorRegistered(a))
       /\ result' = "Ok"
       /\ UNCHANGED <<initialized, admin, fee_bps, trade_counter,
                      accumulated_fees, trades, bal, history>>

\* remove_arbitrator_fn(arbitrator): removes (ARB, a), present or not.
RemoveArbitrator(a, caller) ==
    LET e == AdminError(caller) IN
    \/ e # "Ok" /\ Reject(e)
    \/ /\ e = "Ok"
       /\ arbitrators' = arbitrators \ {a}
       /\ Publish(EmitArbitratorRemoved(a))
       /\ result' = "Ok"
       /\ UNCHANGED <<initialized, admin, fee_bps, trade_counter,
                      accumulated_fees, trades, bal, history>>

\* Mutant: update_fee without its fee_bps > 10000 check.
UpdateFeeErrorUnbounded(bps, caller) ==
    IF ~initialized THEN "NotInitialized"
    ELSE IF caller # admin THEN "AuthError"
    ELSE "Ok"

UpdateFeeError(bps, caller) ==
    IF ~initialized THEN "NotInitialized"
    ELSE IF bps > BPS_DENOM THEN "InvalidFeeBps"
    ELSE IF caller # admin THEN "AuthError"
    ELSE "Ok"

\* update_fee(fee_bps)
UpdateFee(bps, caller) ==
    LET e == UpdateFeeError(bps, caller) IN
    \/ e # "Ok" /\ Reject(e)
    \/ /\ e = "Ok"
       /\ fee_bps' = bps
       /\ Publish(EmitFeeUpdated(bps))
       /\ result' = "Ok"
       /\ UNCHANGED <<initialized, admin, trade_counter, accumulated_fees,
                      arbitrators, trades, bal, history>>

WithdrawFeesError(to, caller) ==
    IF ~initialized THEN "NotInitialized"
    ELSE IF caller # admin THEN "AuthError"
    ELSE IF accumulated_fees = 0 THEN "NoFeesToWithdraw"
    ELSE IF bal[Escrow] < accumulated_fees THEN "TransferError"
    ELSE "Ok"

\* Mutant: withdraw_fees that pays the fees out but never resets them.
WithdrawFeesNoReset(to, caller) ==
    LET e == WithdrawFeesError(to, caller) IN
    \/ e # "Ok" /\ Reject(e)
    \/ /\ e = "Ok"
       /\ bal' = Transfer(bal, Escrow, to, accumulated_fees)
       /\ Publish(EmitFeesWithdrawn(accumulated_fees, to))
       /\ result' = "Ok"
       /\ UNCHANGED <<initialized, admin, fee_bps, trade_counter,
                      accumulated_fees, arbitrators, trades, history>>

\* withdraw_fees(to): transfer the whole balance, then reset it to zero.
WithdrawFees(to, caller) ==
    LET e == WithdrawFeesError(to, caller) IN
    \/ e # "Ok" /\ Reject(e)
    \/ /\ e = "Ok"
       /\ bal' = Transfer(bal, Escrow, to, accumulated_fees)
       /\ accumulated_fees' = 0
       /\ Publish(EmitFeesWithdrawn(accumulated_fees, to))
       /\ result' = "Ok"
       /\ UNCHANGED <<initialized, admin, fee_bps, trade_counter,
                      arbitrators, trades, history>>

-----------------------------------------------------------------------------
(* Trade lifecycle *)

CreateTradeError(seller, buyer, amount, arb, caller) ==
    IF ~initialized THEN "NotInitialized"
    ELSE IF amount = 0 THEN "InvalidAmount"
    ELSE IF caller # seller THEN "AuthError"
    ELSE IF arb # None /\ arb \notin arbitrators THEN "ArbitratorNotRegistered"
    ELSE IF trade_counter + 1 > U64_MAX THEN "Overflow"
    ELSE IF FeeOverflows(amount, fee_bps) THEN "Overflow"
    ELSE "Ok"

\* Mutant: a create_trade whose fee overflow does not undo the counter
\* increment made before it (a host without transactional rollback).
CreateTradeLeaky(seller, buyer, amount, arb, caller) ==
    LET e == CreateTradeError(seller, buyer, amount, arb, caller)
        id == trade_counter + 1
    IN
    /\ trade_counter < MaxTrades
    /\ \/ e \notin {"Ok", "Overflow"} /\ Reject(e)
       \/ /\ e = "Overflow"
          /\ trade_counter' = id
          /\ result' = e
          /\ UNCHANGED <<initialized, admin, fee_bps, accumulated_fees,
                         arbitrators, trades, bal, observed, history>>
       \/ /\ e = "Ok"
          /\ trade_counter' = id
          /\ trades' = [trades EXCEPT ![id] =
                          [seller |-> seller, buyer |-> buyer, amount |-> amount,
                           fee |-> ComputeFee(amount, fee_bps),
                           arbitrator |-> arb, status |-> "Created"]]
          /\ Publish(EmitTradeCreated(id, seller, buyer, amount))
          /\ result' = "Ok"
          /\ UNCHANGED <<initialized, admin, fee_bps, accumulated_fees,
                         arbitrators, bal, history>>

\* create_trade(seller, buyer, amount, arbitrator): increment_trade_counter,
\* then the fee at the current rate, then save_trade under the new id.
CreateTrade(seller, buyer, amount, arb, caller) ==
    LET e == CreateTradeError(seller, buyer, amount, arb, caller)
        id == trade_counter + 1
    IN
    /\ trade_counter < MaxTrades
    /\ \/ e # "Ok" /\ Reject(e)
       \/ /\ e = "Ok"
          /\ trade_counter' = id
          /\ trades' = [trades EXCEPT ![id] =
                          [seller |-> seller, buyer |-> buyer, amount |-> amount,
                           fee |-> ComputeFee(amount, fee_bps),
                           arbitrator |-> arb, status |-> "Created"]]
          /\ Publish(EmitTradeCreated(id, seller, buyer, amount))
          /\ result' = "Ok"
          /\ UNCHANGED <<initialized, admin, fee_bps, accumulated_fees,
                         arbitrators, bal, history>>

\* The checks every function on an existing trade starts with: is_initialized,
\* then get_trade, then the status the function requires.
LookupError(id, from) ==
    IF ~initialized THEN "NotInitialized"
    ELSE IF trades[id] = None THEN "TradeNotFound"
    ELSE IF trades[id].status \notin from THEN "InvalidStatus"
    ELSE "Ok"

\* Store the trade back with a new status (trade.status = s; save_trade).
SetStatus(id, s) == trades' = [trades EXCEPT ![id].status = s]

FundTradeError(id, caller) ==
    LET le == LookupError(id, {"Created"}) IN
    IF le # "Ok" THEN le
    ELSE IF caller # trades[id].buyer THEN "AuthError"
    ELSE IF bal[trades[id].buyer] < trades[id].amount THEN "TransferError"
    ELSE "Ok"

\* fund_trade(trade_id): move amount from the buyer to the escrow.
FundTrade(id, caller) ==
    LET e == FundTradeError(id, caller)
        t == trades[id]
    IN
    \/ e # "Ok" /\ Reject(e)
    \/ /\ e = "Ok"
       /\ bal' = Transfer(bal, t.buyer, Escrow, t.amount)
       /\ SetStatus(id, "Funded")
       /\ funded' = [funded EXCEPT ![id] = TRUE]
       /\ Publish(EmitTradeFunded(id))
       /\ result' = "Ok"
       /\ UNCHANGED <<initialized, admin, fee_bps, trade_counter,
                      accumulated_fees, arbitrators, payouts>>

\* The checks of complete_trade and cancel_trade: the seller's signature.
SellerStepError(id, from, caller) ==
    LET le == LookupError(id, from) IN
    IF le # "Ok" THEN le
    ELSE IF caller # trades[id].seller THEN "AuthError"
    ELSE "Ok"

\* Mutant: complete_trade accepting a trade that was never funded.
CompleteTradeUnfunded(id, caller) ==
    LET e == SellerStepError(id, {"Created", "Funded"}, caller) IN
    \/ e # "Ok" /\ Reject(e)
    \/ /\ e = "Ok"
       /\ SetStatus(id, "Completed")
       /\ Publish(EmitTradeCompleted(id))
       /\ result' = "Ok"
       /\ UNCHANGED <<initialized, admin, fee_bps, trade_counter,
                      accumulated_fees, arbitrators, bal, history>>

\* Mutant: complete_trade publishing emit_trade_funded (a copy-paste slip).
CompleteTradeWrongEvent(id, caller) ==
    LET e == SellerStepError(id, {"Funded"}, caller) IN
    \/ e # "Ok" /\ Reject(e)
    \/ /\ e = "Ok"
       /\ SetStatus(id, "Completed")
       /\ Publish(EmitTradeFunded(id))
       /\ result' = "Ok"
       /\ UNCHANGED <<initialized, admin, fee_bps, trade_counter,
                      accumulated_fees, arbitrators, bal, history>>

\* complete_trade(trade_id): Funded -> Completed.
CompleteTrade(id, caller) ==
    LET e == SellerStepError(id, {"Funded"}, caller) IN
    \/ e # "Ok" /\ Reject(e)
    \/ /\ e = "Ok"
       /\ SetStatus(id, "Completed")
       /\ Publish(EmitTradeCompleted(id))
       /\ result' = "Ok"
       /\ UNCHANGED <<initialized, admin, fee_bps, trade_counter,
                      accumulated_fees, arbitrators, bal, history>>

\* Mutant: cancel_trade accepting a funded trade.
CancelTradeFunded(id, caller) ==
    LET e == SellerStepError(id, {"Created", "Funded"}, caller) IN
    \/ e # "Ok" /\ Reject(e)
    \/ /\ e = "Ok"
       /\ SetStatus(id, "Cancelled")
       /\ Publish(EmitTradeCancelled(id))
       /\ result' = "Ok"
       /\ UNCHANGED <<initialized, admin, fee_bps, trade_counter,
                      accumulated_fees, arbitrators, bal, history>>

\* cancel_trade(trade_id): Created -> Cancelled.
CancelTrade(id, caller) ==
    LET e == SellerStepError(id, {"Created"}, caller) IN
    \/ e # "Ok" /\ Reject(e)
    \/ /\ e = "Ok"
       /\ SetStatus(id, "Cancelled")
       /\ Publish(EmitTradeCancelled(id))
       /\ result' = "Ok"
       /\ UNCHANGED <<initialized, admin, fee_bps, trade_counter,
                      accumulated_fees, arbitrators, bal, history>>

\* The tail shared by confirm_receipt and resolve_dispute, after the
\* signature: payout = amount.checked_sub(fee), transfer it from the escrow
\* to the recipient, then accumulated_fees.checked_add(fee).
\* Mutant: the fee accrual with a wrapping add (no checked_add).
SettleErrorWrapping(id, recipient) ==
    LET t == trades[id] IN
    IF t.fee > t.amount THEN "Overflow"
    ELSE IF bal[Escrow] < t.amount - t.fee THEN "TransferError"
    ELSE "Ok"

SettleError(id, recipient) ==
    LET t == trades[id] IN
    IF t.fee > t.amount THEN "Overflow"
    ELSE IF bal[Escrow] < t.amount - t.fee THEN "TransferError"
    ELSE IF accumulated_fees + t.fee > U64_MAX THEN "Overflow"
    ELSE "Ok"

\* The effect of a settlement.  Neither function stores the trade again:
\* its status stays what it was.
Settle(id, recipient) ==
    LET t == trades[id] IN
    /\ bal' = Transfer(bal, Escrow, recipient, t.amount - t.fee)
    /\ accumulated_fees' = accumulated_fees + t.fee
    /\ payouts' = [payouts EXCEPT ![id] = @ + 1]
    /\ result' = "Ok"
    /\ UNCHANGED <<initialized, admin, fee_bps, trade_counter, arbitrators,
                   trades, funded>>

ConfirmReceiptError(id, caller) ==
    LET le == LookupError(id, {"Completed"}) IN
    IF le # "Ok" THEN le
    ELSE IF caller # trades[id].buyer THEN "AuthError"
    ELSE SettleError(id, trades[id].seller)

\* Mutant: the fee accrual skipped when its checked_add fails (an
\* "if let Some" in place of "?"): the seller is paid and the fee is lost.
ConfirmReceiptDropsFee(id, caller) ==
    LET e == ConfirmReceiptError(id, caller)
        t == trades[id]
        accrualFails == e = "Overflow" /\ t.fee <= t.amount IN
    /\ payouts[id] < MaxPayouts
    /\ \/ e # "Ok" /\ ~accrualFails /\ Reject(e)
       \/ /\ e = "Ok" \/ accrualFails
          /\ bal' = Transfer(bal, Escrow, t.seller, t.amount - t.fee)
          /\ payouts' = [payouts EXCEPT ![id] = @ + 1]
          /\ result' = "Ok"
          /\ accumulated_fees' = IF accrualFails THEN accumulated_fees
                                 ELSE accumulated_fees + t.fee
          /\ UNCHANGED <<initialized, admin, fee_bps, trade_counter,
                         arbitrators, trades, funded>>
          /\ Publish(EmitTradeConfirmed(id, t.amount - t.fee, t.fee))

\* confirm_receipt(trade_id): pay the seller amount - fee, accrue the fee.
ConfirmReceipt(id, caller) ==
    LET e == ConfirmReceiptError(id, caller) IN
    /\ payouts[id] < MaxPayouts
    /\ \/ e # "Ok" /\ Reject(e)
       \/ /\ e = "Ok"
          /\ Settle(id, trades[id].seller)
          /\ Publish(EmitTradeConfirmed(id, trades[id].amount - trades[id].fee,
                                        trades[id].fee))

\* Mutant: raise_dispute without its arbitrator.is_none() check.
RaiseDisputeErrorNoArbitrator(id, caller) ==
    LET le == LookupError(id, {"Funded", "Completed"}) IN
    IF le # "Ok" THEN le
    ELSE IF caller \notin {trades[id].buyer, trades[id].seller}
         THEN "Unauthorized"
    ELSE "Ok"

RaiseDisputeError(id, caller) ==
    LET le == LookupError(id, {"Funded", "Completed"}) IN
    IF le # "Ok" THEN le
    ELSE IF trades[id].arbitrator = None THEN "ArbitratorNotRegistered"
    ELSE IF caller \notin {trades[id].buyer, trades[id].seller}
         THEN "Unauthorized"
    ELSE "Ok"

\* raise_dispute(trade_id): the invoker must be the buyer or the seller and
\* then signs (caller.require_auth() cannot fail for the invoker).
RaiseDispute(id, caller) ==
    LET e == RaiseDisputeError(id, caller) IN
    \/ e # "Ok" /\ Reject(e)
    \/ /\ e = "Ok"
       /\ SetStatus(id, "Disputed")
       /\ Publish(EmitDisputeRaised(id, caller))
       /\ result' = "Ok"
       /\ UNCHANGED <<initialized, admin, fee_bps, trade_counter,
                      accumulated_fees, arbitrators, bal, history>>

\* The account a resolution pays.
Recipient(id, resolution) ==
    IF resolution = "ReleaseToBuyer" THEN trades[id].buyer
    ELSE trades[id].seller

\* Mutant: resolve_dispute also requiring the arbitrator to be registered.
ResolveDisputeErrorRegistered(id, resolution, caller) ==
    LET le == LookupError(id, {"Disputed"}) IN
    IF le # "Ok" THEN le
    ELSE IF trades[id].arbitrator = None THEN "ArbitratorNotRegistered"
    ELSE IF trades[id].arbitrator \notin arbitrators
         THEN "ArbitratorNotRegistered"
    ELSE IF caller # trades[id].arbitrator THEN "AuthError"
    ELSE SettleError(id, Recipient(id, resolution))

ResolveDisputeError(id, resolution, caller) ==
    LET le == LookupError(id, {"Disputed"}) IN
    IF le # "Ok" THEN le
    ELSE IF trades[id].arbitrator = None THEN "ArbitratorNotRegistered"
    ELSE IF caller # trades[id].arbitrator THEN "AuthError"
    ELSE SettleError(id, Recipient(id, resolution))

\* resolve_dispute(trade_id, resolution): the trade's own arbitrator, whether
\* or not it is still registered, pays amount - fee to the chosen party.
ResolveDispute(id, resolution, caller) ==
    LET e == ResolveDisputeError(id, resolution, caller) IN
    /\ payouts[id] < MaxPayouts
    /\ \/ e # "Ok" /\ Reject(e)
       \/ /\ e = "Ok"
          /\ Settle(id, Recipient(id, resolution))
          /\ Publish(EmitDisputeResolved(id, resolution,
                                         Recipient(id, resolution)))

-----------------------------------------------------------------------------
Next ==
    \E caller \in Addr :
        \/ \E adm \in Addr, bps \in FeeChoices : Initialize(adm, bps, caller)
        \/ \E a \in Addr : RegisterArbitrator(a, caller)
        \/ \E a \in Addr : RemoveArbitrator(a, caller)
        \/ \E bps \in FeeChoices : UpdateFee(bps, caller)
        \/ \E to \in Addr : WithdrawFees(to, caller)
        \/ \E seller, buyer \in Addr, amount \in Amounts,
              arb \in Addr \cup {None} :
              CreateTrade(seller, buyer, amount, arb, caller)
        \/ \E id \in TradeIds :
              \/ FundTrade(id, caller)
              \/ CompleteTrade(id, caller)
              \/ ConfirmReceipt(id, caller)
              \/ RaiseDispute(id, caller)
              \/ \E r \in DisputeResolution : ResolveDispute(id, r, caller)
              \/ CancelTrade(id, caller)

Spec == Init /\ [][Next]_vars

-----------------------------------------------------------------------------
(* Properties *)

\* Each variable holds a value of its Rust type (u64 values within U64_MAX).
TypeOK ==
    /\ initialized \in BOOLEAN
    /\ admin \in Addr \cup {None}
    /\ fee_bps \in Nat
    /\ trade_counter \in 0..U64_MAX
    /\ accumulated_fees \in 0..U64_MAX
    /\ arbitrators \subseteq Addr
    /\ trades \in [TradeIds -> Trade \cup {None}]
    /\ bal \in [Accounts -> Nat]
    /\ payouts \in [TradeIds -> Nat]
    /\ funded \in [TradeIds -> BOOLEAN]
    /\ result \in Results

Stored(t) == trades[t] # None

\* The fee of every stored trade is at most its amount, so the checked_sub of
\* confirm_receipt and resolve_dispute never fails.  It rests on the
\* fee_bps <= 10000 checks of initialize and update_fee and on the fee being
\* fixed at creation.
FeeWithinAmount ==
    \A t \in TradeIds : Stored(t) => trades[t].fee <= trades[t].amount

\* Trade ids are issued 1, 2, 3, ... without gaps or reuse: a trade is stored
\* under id t exactly when t <= trade_counter.  create_trade increments the
\* counter before it computes the fee, so this rests on the host rolling the
\* increment back when the fee overflows, and on initialize running once.
TradeIdsDense ==
    \A t \in TradeIds : Stored(t) <=> t <= trade_counter

\* A trade reaches Disputed only when it was bound to an arbitrator at
\* creation (raise_dispute's is_none check), so resolve_dispute can find it.
DisputedHasArbitrator ==
    \A t \in TradeIds :
        Stored(t) /\ trades[t].status = "Disputed" => trades[t].arbitrator # None

\* A cancelled trade never had the buyer's money moved into escrow, whatever
\* order the seller's cancel_trade and the buyer's fund_trade were sent in:
\* no money is locked in a trade that can no longer be settled.
CancelledNeverFunded ==
    \A t \in TradeIds :
        Stored(t) /\ trades[t].status = "Cancelled" => ~funded[t]

\* The escrow pays a trade out (confirm_receipt or resolve_dispute) only after
\* the buyer's fund_trade moved its amount into the escrow.
PayoutOnlyAfterFunding ==
    \A t \in TradeIds : payouts[t] > 0 => funded[t]

\* The arbitrator bound to a disputed trade at creation keeps the power to
\* resolve it, and no one else has it, whatever the admin's register_arbitrator
\* and remove_arbitrator_fn calls did to the registry since: on a Disputed
\* trade, resolve_dispute fails its arbitrator and authorization checks
\* exactly when the caller is not the bound arbitrator (only money, via
\* SettleError, can stop that arbitrator).
ResolverIsBoundArbitrator ==
    \A t \in TradeIds, r \in DisputeResolution, c \in Addr :
        Stored(t) /\ trades[t].status = "Disputed" =>
            (ResolveDisputeError(t, r, c) \in {"ArbitratorNotRegistered", "AuthError"}
                <=> c # trades[t].arbitrator)

\* What an indexer should know after folding every published event.
View == [status |-> [t \in TradeIds |-> IF Stored(t) THEN trades[t].status
                                                    ELSE None],
         arbs |-> arbitrators]

\* The published events tell an indexer the truth: folding the topics of
\* events.rs in publication order yields every trade's stored status (None
\* for an id never issued) and the exact arbitrator registry.  It needs
\* every successful call to publish the event of the write it made, and no
\* failed call to publish anything (the host drops the events of a call it
\* rolls back).
ReplayMatchesStore == observed = View

\* The status moves of the lifecycle table of the design.
StatusMoves == {<<"Created", "Funded">>, <<"Created", "Cancelled">>,
                <<"Funded", "Completed">>, <<"Funded", "Disputed">>,
                <<"Completed", "Disputed">>}

\* Action property: a stored trade is never removed or replaced; of its
\* fields only status changes, and only along the lifecycle table.
TradeStep(t) ==
    /\ Stored(t)'
    /\ [trades'[t] EXCEPT !.status = trades[t].status] = trades[t]
    /\ \/ trades'[t].status = trades[t].status
       \/ <<trades[t].status, trades'[t].status>> \in StatusMoves

StatusTransitions ==
    [][\A t \in TradeIds : Stored(t) => TradeStep(t)]_vars

\* The moves of money in and out of the escrow's own account.
\* A deposit: a Created trade becomes Funded and its buyer pays its amount in.
Deposit(t) ==
    /\ Stored(t) /\ trades[t].status = "Created"
    /\ trades'[t].status = "Funded"
    /\ bal' = Transfer(bal, trades[t].buyer, Escrow, trades[t].amount)

\* A settlement: a Completed or Disputed trade pays amount - fee to one of
\* its parties and its fee moves into the fee ledger.
Payout(t) ==
    /\ Stored(t) /\ trades[t].status \in {"Completed", "Disputed"}
    /\ \E p \in {trades[t].seller, trades[t].buyer} :
          bal' = Transfer(bal, Escrow, p, trades[t].amount - trades[t].fee)
    /\ accumulated_fees' = accumulated_fees + trades[t].fee

\* A fee withdrawal: exactly the fee ledger leaves, and the ledger is zeroed.
FeeWithdrawal ==
    /\ \E p \in Addr : bal' = Transfer(bal, Escrow, p, accumulated_fees)
    /\ accumulated_fees' = 0

\* One of the three accounted moves of the escrow's money.
EscrowMove == \/ \E t \in TradeIds : Deposit(t) \/ Payout(t)
              \/ FeeWithdrawal

\* Action property: the escrow's token balance changes only by a deposit of
\* a trade being funded, a settlement of a trade to its seller or buyer with
\* its fee booked, or a withdrawal of the booked fees (fund_trade,
\* confirm_receipt, resolve_dispute, withdraw_fees); no other call, and no
\* failing call, moves the escrow's money.
EscrowMovesAccounted == [][bal'[Escrow] # bal[Escrow] => EscrowMove]_vars

\* The design: funds are transferred exactly once per trade.  Checked in a
\* violation run: confirm_receipt and resolve_dispute leave the status as
\* it was, so a trade can be paid out again.
SettleAtMostOnce ==
    \A t \in TradeIds : payouts[t] <= 1

\* The design: seller and buyer are distinct accounts.  create_trade never
\* compares them.  Checked in a violation run.
PartiesDistinct ==
    \A t \in TradeIds : Stored(t) => trades[t].seller # trades[t].buyer


\* Refinement: the configuration (admin, fee_bps and the arbitrator registry)
\* behaves as ConfigAbstract promises.  initialize writes the admin once and
\* a rate of at most 10000, update_fee only replaces the rate with another
\* such rate, register_arbitrator and remove_arbitrator_fn change one
\* registry entry after initialization, and no trade function touches any
\* of it.
Config == INSTANCE ConfigAbstract
              WITH cadmin <- admin, crate <- fee_bps, carbs <- arbitrators

ConfigRefined == Config!Spec

\* The trade store read as a book: entry i is the trade stored under id i,
\* for every id issued so far.
BookOf(c) == [i \in 1..c |-> trades[i]]

\* Refinement: the trade store and the fee ledger behave as TradeBook
\* promises.  create_trade appends one trade under the next id (the counter
\* and the trade are written together, or neither is); fund_trade,
\* complete_trade, raise_dispute and cancel_trade move one trade's status;
\* confirm_receipt and resolve_dispute book one settled trade's fee;
\* withdraw_fees zeroes the ledger; initialize, running once on an empty
\* store, leaves both as they are.
Book == INSTANCE TradeBook
            WITH Entry <- Trade, book <- BookOf(trade_counter),
                 fees <- accumulated_fees

BookRefined == Book!Spec

=============================================================================
