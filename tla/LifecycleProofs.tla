--------------------------- MODULE LifecycleProofs ---------------------------
(***************************************************************************)
(* Proofs of the trade-lifecycle invariants of Escrow: trade ids are dense, *)
(* a disputed trade has an arbitrator, a cancelled trade was never funded   *)
(* and no trade is paid out before it is funded.  None of them is inductive *)
(* alone; they hold together with the facts collected in LifeInv.          *)
(***************************************************************************)
EXTENDS EscrowProofs

USE EscrowAssumptions, NoneIsNoTrade

\* The statuses in which the trade's amount sits in (or has left) escrow.
LiveStatus == {"Funded", "Completed", "Disputed"}

\* Before initialize no id has been issued.
UninitEmpty == ~initialized => trade_counter = 0

\* An id not yet issued has had no deposit and no payout.
AbsentUntouched ==
    \A t \in TradeIds : ~Stored(t) => ~funded[t] /\ payouts[t] = 0

\* A stored trade was funded exactly when its status is one of LiveStatus.
FundedIffLive ==
    \A t \in TradeIds : Stored(t) => (funded[t] <=> trades[t].status \in LiveStatus)

LifeRest ==
    /\ UninitEmpty
    /\ TradeIdsDense
    /\ AbsentUntouched
    /\ FundedIffLive
    /\ DisputedHasArbitrator
    /\ PayoutOnlyAfterFunding

\* The inductive invariant.
LifeInv == TypeOK /\ LifeRest

-----------------------------------------------------------------------------
(* One lemma per kind of step: a step that leaves the trades, the counter  *)
(* and the history alone; a status change of one stored trade; a payout   *)
(* of one stored trade; a new trade under the next id.                     *)

LEMMA LifeFrame ==
    ASSUME LifeInv, trades' = trades, trade_counter' = trade_counter,
           initialized' = initialized, payouts' = payouts, funded' = funded
    PROVE  LifeRest'
BY DEF LifeInv, LifeRest, UninitEmpty, TradeIdsDense, AbsentUntouched,
       FundedIffLive, DisputedHasArbitrator, PayoutOnlyAfterFunding, Stored

\* Storing trade id back with status s: the deposit flag follows the status,
\* a Disputed trade keeps its arbitrator and a paid trade stays live.
LEMMA LifeSetStatus ==
    ASSUME LifeInv, NEW id \in TradeIds, trades[id] \in Trade,
           NEW s \in TradeStatus,
           trades' = [trades EXCEPT ![id].status = s],
           trade_counter' = trade_counter, initialized' = initialized,
           payouts' = payouts,
           funded' = [funded EXCEPT ![id] = s \in LiveStatus],
           s = "Disputed" => trades[id].arbitrator # None,
           payouts[id] > 0 => s \in LiveStatus
    PROVE  LifeRest'
<1>1. trades'[id] = [trades[id] EXCEPT !.status = s]
    BY DEF LifeInv, TypeOK
<1>2. trades'[id] \in Trade /\ trades'[id].status = s
      /\ trades'[id].arbitrator = trades[id].arbitrator
    BY <1>1 DEF Trade
<1>3. Stored(id) /\ Stored(id)'
    BY <1>2, NoneIsNoTrade DEF Stored
<1>4. funded'[id] = (s \in LiveStatus)
    BY DEF LifeInv, TypeOK
<1>5. ASSUME NEW t \in TradeIds, t # id
      PROVE  trades'[t] = trades[t] /\ funded'[t] = funded[t]
    BY <1>5 DEF LifeInv, TypeOK
<1>6. TradeIdsDense'
    BY <1>3, <1>5 DEF LifeInv, LifeRest, TradeIdsDense, Stored
<1>7. AbsentUntouched'
    BY <1>3, <1>5 DEF LifeInv, LifeRest, AbsentUntouched, Stored
<1>8. FundedIffLive'
    BY <1>2, <1>4, <1>5 DEF LifeInv, LifeRest, FundedIffLive, Stored
<1>9. DisputedHasArbitrator'
    BY <1>2, <1>5 DEF LifeInv, LifeRest, DisputedHasArbitrator, Stored
<1>10. PayoutOnlyAfterFunding'
    BY <1>4, <1>5 DEF LifeInv, LifeRest, PayoutOnlyAfterFunding
<1>11. QED
    BY <1>6, <1>7, <1>8, <1>9, <1>10 DEF LifeInv, LifeRest, UninitEmpty

\* A payout of trade id (the status stays, as the code leaves it).
LEMMA LifeSettle ==
    ASSUME LifeInv, NEW id \in TradeIds, trades[id] \in Trade,
           trades[id].status \in {"Completed", "Disputed"},
           trades' = trades, trade_counter' = trade_counter,
           initialized' = initialized, funded' = funded,
           payouts' = [payouts EXCEPT ![id] = @ + 1]
    PROVE  LifeRest'
<1>1. Stored(id)
    BY NoneIsNoTrade DEF Stored
<1>2. funded[id]
    BY <1>1 DEF LifeInv, LifeRest, FundedIffLive, LiveStatus
<1>3. ASSUME NEW t \in TradeIds, t # id
      PROVE  payouts'[t] = payouts[t]
    BY <1>3 DEF LifeInv, TypeOK
<1>4. AbsentUntouched'
    BY <1>1, <1>3 DEF LifeInv, LifeRest, AbsentUntouched, Stored
<1>5. PayoutOnlyAfterFunding'
    BY <1>2, <1>3 DEF LifeInv, LifeRest, PayoutOnlyAfterFunding
<1>6. QED
    BY <1>4, <1>5 DEF LifeInv, LifeRest, UninitEmpty, TradeIdsDense,
                      FundedIffLive, DisputedHasArbitrator, Stored

\* A new trade under id = trade_counter + 1: that id was never issued, so it
\* had no deposit and no payout.
LEMMA LifeCreate ==
    ASSUME LifeInv, initialized, NEW new \in Trade, new.status = "Created",
           trade_counter + 1 \in TradeIds,
           trades' = [trades EXCEPT ![trade_counter + 1] = new],
           trade_counter' = trade_counter + 1,
           initialized' = initialized, payouts' = payouts, funded' = funded
    PROVE  LifeRest'
<1> DEFINE id == trade_counter + 1
<1>1. ~Stored(id)
    BY DEF LifeInv, LifeRest, TradeIdsDense, TypeOK
<1>2. ~funded[id] /\ payouts[id] = 0
    BY <1>1 DEF LifeInv, LifeRest, AbsentUntouched
\* (id is a definition over trade_counter, so Stored(id)' would name id + 1.)
<1>3. trades'[id] = new /\ trades'[id] # None
    BY NoneIsNoTrade DEF LifeInv, TypeOK
<1>4. ASSUME NEW t \in TradeIds, t # id
      PROVE  trades'[t] = trades[t]
    BY <1>4 DEF LifeInv, TypeOK
<1>5. TradeIdsDense'
    <2> SUFFICES ASSUME NEW t \in TradeIds PROVE Stored(t)' <=> t <= id
        BY DEF TradeIdsDense
    <2>1. CASE t = id
        BY <1>3, <2>1 DEF Stored
    <2>2. CASE t # id
        BY <1>4, <2>2 DEF LifeInv, LifeRest, TradeIdsDense, Stored, TypeOK,
                          TradeIds
    <2>3. QED
        BY <2>1, <2>2
<1>6. AbsentUntouched'
    BY <1>3, <1>4 DEF LifeInv, LifeRest, AbsentUntouched, Stored
<1>7. FundedIffLive'
    BY <1>2, <1>3, <1>4 DEF LifeInv, LifeRest, FundedIffLive, Stored, LiveStatus
<1>8. DisputedHasArbitrator'
    BY <1>3, <1>4 DEF LifeInv, LifeRest, DisputedHasArbitrator, Stored
<1>9. PayoutOnlyAfterFunding'
    BY <1>2 DEF LifeInv, LifeRest, PayoutOnlyAfterFunding
<1>10. QED
    BY <1>5, <1>6, <1>7, <1>8, <1>9 DEF LifeInv, LifeRest, UninitEmpty

LEMMA RejectLife ==
    ASSUME LifeInv, NEW e, Reject(e)
    PROVE  LifeRest'
BY LifeFrame DEF Reject, state, history

\* A trade that passed the lookup of a function requiring a status in from.
LEMMA LookupLife ==
    ASSUME LifeInv, NEW id \in TradeIds, NEW from, LookupError(id, from) = "Ok"
    PROVE  /\ initialized
           /\ trades[id] \in Trade
           /\ trades[id].status \in from
           /\ funded[id] <=> trades[id].status \in LiveStatus
           /\ payouts[id] > 0 => funded[id]
BY LookupErrorOk DEF LifeInv, LifeRest, FundedIffLive, PayoutOnlyAfterFunding,
                     Stored

LEMMA NextLifeInv == LifeInv /\ [Next]_vars => LifeInv'
<1> SUFFICES ASSUME LifeInv, [Next]_vars PROVE LifeInv'
    OBVIOUS
<1>1. TypeOK'
    BY NextTypeOK DEF LifeInv
<1> SUFFICES LifeRest'
    BY <1>1 DEF LifeInv
<1>2. CASE UNCHANGED vars
    BY <1>2, LifeFrame DEF vars, state, history
<1>3. ASSUME NEW caller \in Addr, NEW adm \in Addr, NEW bps \in FeeChoices,
             Initialize(adm, bps, caller)
      PROVE  LifeRest'
    <2>1. CASE InitializeError(adm, bps, caller) # "Ok"
        BY <1>3, <2>1, RejectLife DEF Initialize
    <2>2. CASE InitializeError(adm, bps, caller) = "Ok"
        \* Only before initialize, when no id has been issued yet.
        <3>1. ~initialized /\ trade_counter = 0
            BY <2>2 DEF InitializeError, LifeInv, LifeRest, UninitEmpty
        <3>2. /\ initialized' /\ trade_counter' = trade_counter
              /\ trades' = trades /\ payouts' = payouts /\ funded' = funded
            BY <1>3, <2>2, <3>1 DEF Initialize, history
        <3>3. QED
            BY <3>2 DEF LifeInv, LifeRest, UninitEmpty, TradeIdsDense,
                        AbsentUntouched, FundedIffLive, DisputedHasArbitrator,
                        PayoutOnlyAfterFunding, Stored
    <2>3. QED
        BY <2>1, <2>2
<1>4. ASSUME NEW caller \in Addr,
             \/ \E a \in Addr : RegisterArbitrator(a, caller)
             \/ \E a \in Addr : RemoveArbitrator(a, caller)
             \/ \E bps \in FeeChoices : UpdateFee(bps, caller)
             \/ \E to \in Addr : WithdrawFees(to, caller)
      PROVE  LifeRest'
    \* The administrative functions touch no trade, counter or history.
    BY <1>4, RejectLife, LifeFrame
    DEF RegisterArbitrator, RemoveArbitrator, UpdateFee, WithdrawFees, history
<1>5. ASSUME NEW caller \in Addr, NEW seller \in Addr, NEW buyer \in Addr,
             NEW amount \in Amounts, NEW arb \in Addr \cup {None},
             CreateTrade(seller, buyer, amount, arb, caller)
      PROVE  LifeRest'
    <2> DEFINE e == CreateTradeError(seller, buyer, amount, arb, caller)
               new == [seller |-> seller, buyer |-> buyer, amount |-> amount,
                       fee |-> ComputeFee(amount, fee_bps),
                       arbitrator |-> arb, status |-> "Created"]
    <2>1. CASE e # "Ok"
        BY <1>5, <2>1, RejectLife DEF CreateTrade
    <2>2. CASE e = "Ok"
        <3>1. /\ initialized
              /\ amount \in 1..U64_MAX
              /\ amount * fee_bps <= U64_MAX
            BY <2>2 DEF CreateTradeError, FeeOverflows, LifeInv, TypeOK
        <3>2. new \in Trade
            BY <3>1, ComputeFeeBound DEF Trade, TradeStatus, LifeInv, TypeOK
        <3>3. trade_counter + 1 \in TradeIds
            BY <1>5 DEF CreateTrade, TradeIds, LifeInv, TypeOK
        <3>4. QED
            BY <1>5, <2>2, <3>1, <3>2, <3>3, LifeCreate DEF CreateTrade, history
    <2>3. QED
        BY <2>1, <2>2
<1>6. ASSUME NEW caller \in Addr, NEW id \in TradeIds, FundTrade(id, caller)
      PROVE  LifeRest'
    <2>1. CASE FundTradeError(id, caller) # "Ok"
        BY <1>6, <2>1, RejectLife DEF FundTrade
    <2>2. CASE FundTradeError(id, caller) = "Ok"
        <3>1. trades[id] \in Trade
            BY <2>2, LookupLife DEF FundTradeError
        <3>2. funded' = [funded EXCEPT ![id] = "Funded" \in LiveStatus]
            BY <1>6, <2>2 DEF FundTrade, LiveStatus
        <3>3. QED
            BY <1>6, <2>2, <3>1, <3>2, LifeSetStatus
            DEF FundTrade, SetStatus, TradeStatus, LiveStatus
    <2>3. QED
        BY <2>1, <2>2
<1>7. ASSUME NEW caller \in Addr, NEW id \in TradeIds, CompleteTrade(id, caller)
      PROVE  LifeRest'
    <2>1. CASE SellerStepError(id, {"Funded"}, caller) # "Ok"
        BY <1>7, <2>1, RejectLife DEF CompleteTrade
    <2>2. CASE SellerStepError(id, {"Funded"}, caller) = "Ok"
        <3>1. trades[id] \in Trade /\ funded[id]
            BY <2>2, LookupLife DEF SellerStepError, LiveStatus
        <3>2. funded = [funded EXCEPT ![id] = "Completed" \in LiveStatus]
            BY <3>1 DEF LifeInv, TypeOK, LiveStatus
        <3>3. QED
            BY <1>7, <2>2, <3>1, <3>2, LifeSetStatus
            DEF CompleteTrade, SetStatus, TradeStatus, LiveStatus, history
    <2>3. QED
        BY <2>1, <2>2
<1>8. ASSUME NEW caller \in Addr, NEW id \in TradeIds, CancelTrade(id, caller)
      PROVE  LifeRest'
    <2>1. CASE SellerStepError(id, {"Created"}, caller) # "Ok"
        BY <1>8, <2>1, RejectLife DEF CancelTrade
    <2>2. CASE SellerStepError(id, {"Created"}, caller) = "Ok"
        <3>1. trades[id] \in Trade /\ ~funded[id] /\ ~(payouts[id] > 0)
            BY <2>2, LookupLife DEF SellerStepError, LiveStatus
        <3>2. funded = [funded EXCEPT ![id] = "Cancelled" \in LiveStatus]
            BY <3>1 DEF LifeInv, TypeOK, LiveStatus
        <3>3. QED
            BY <1>8, <2>2, <3>1, <3>2, LifeSetStatus
            DEF CancelTrade, SetStatus, TradeStatus, history
    <2>3. QED
        BY <2>1, <2>2
<1>9. ASSUME NEW caller \in Addr, NEW id \in TradeIds, RaiseDispute(id, caller)
      PROVE  LifeRest'
    <2>1. CASE RaiseDisputeError(id, caller) # "Ok"
        BY <1>9, <2>1, RejectLife DEF RaiseDispute
    <2>2. CASE RaiseDisputeError(id, caller) = "Ok"
        <3>1. /\ trades[id] \in Trade /\ funded[id]
              /\ trades[id].arbitrator # None
            BY <2>2, LookupLife DEF RaiseDisputeError, LiveStatus
        <3>2. funded = [funded EXCEPT ![id] = "Disputed" \in LiveStatus]
            BY <3>1 DEF LifeInv, TypeOK, LiveStatus
        <3>3. QED
            BY <1>9, <2>2, <3>1, <3>2, LifeSetStatus
            DEF RaiseDispute, SetStatus, TradeStatus, LiveStatus, history
    <2>3. QED
        BY <2>1, <2>2
<1>10. ASSUME NEW caller \in Addr, NEW id \in TradeIds,
              ConfirmReceipt(id, caller)
       PROVE  LifeRest'
    <2>1. CASE ConfirmReceiptError(id, caller) # "Ok"
        BY <1>10, <2>1, RejectLife DEF ConfirmReceipt
    <2>2. CASE ConfirmReceiptError(id, caller) = "Ok"
        <3>1. trades[id] \in Trade /\ trades[id].status = "Completed"
            BY <2>2, LookupLife DEF ConfirmReceiptError
        <3>2. QED
            BY <1>10, <2>2, <3>1, LifeSettle DEF ConfirmReceipt, Settle
    <2>3. QED
        BY <2>1, <2>2
<1>11. ASSUME NEW caller \in Addr, NEW id \in TradeIds,
              NEW r \in DisputeResolution, ResolveDispute(id, r, caller)
       PROVE  LifeRest'
    <2>1. CASE ResolveDisputeError(id, r, caller) # "Ok"
        BY <1>11, <2>1, RejectLife DEF ResolveDispute
    <2>2. CASE ResolveDisputeError(id, r, caller) = "Ok"
        <3>1. trades[id] \in Trade /\ trades[id].status = "Disputed"
            BY <2>2, LookupLife DEF ResolveDisputeError
        <3>2. QED
            BY <1>11, <2>2, <3>1, LifeSettle DEF ResolveDispute, Settle
    <2>3. QED
        BY <2>1, <2>2
<1>12. CASE Next
    BY <1>3, <1>4, <1>5, <1>6, <1>7, <1>8, <1>9, <1>10, <1>11, <1>12 DEF Next
<1>13. QED
    BY <1>2, <1>12

LEMMA InitLifeInv == Init => LifeInv
<1> SUFFICES ASSUME Init PROVE LifeInv
    OBVIOUS
<1>1. TypeOK
    BY InitTypeOK
<1>2. \A t \in TradeIds : ~Stored(t) /\ ~funded[t] /\ payouts[t] = 0
    BY DEF Init, Stored
<1>3. QED
    BY <1>1, <1>2 DEF Init, LifeInv, LifeRest, UninitEmpty, TradeIdsDense,
                      AbsentUntouched, FundedIffLive, DisputedHasArbitrator,
                      PayoutOnlyAfterFunding, TradeIds

LEMMA LifeInvariant == Spec => []LifeInv
BY InitLifeInv, NextLifeInv, PTL DEF Spec

-----------------------------------------------------------------------------
\* Trade ids are dense: create_trade stores its trade under exactly the next
\* id, initialize runs once, and a failed create_trade (counter overflow or
\* fee overflow after the increment) leaves the counter where it was.
THEOREM TradeIdsDenseHolds == Spec => []TradeIdsDense
<1>1. LifeInv => TradeIdsDense
    BY DEF LifeInv, LifeRest
<1>2. QED
    BY <1>1, LifeInvariant, PTL

\* A Disputed trade always has an arbitrator: raise_dispute refuses a trade
\* created without one, and no later call changes a trade's arbitrator.
THEOREM DisputedHasArbitratorHolds == Spec => []DisputedHasArbitrator
<1>1. LifeInv => DisputedHasArbitrator
    BY DEF LifeInv, LifeRest
<1>2. QED
    BY <1>1, LifeInvariant, PTL

\* cancel_trade and fund_trade, in whichever order they arrive, never leave
\* a cancelled trade with the buyer's money in escrow.
THEOREM CancelledNeverFundedHolds == Spec => []CancelledNeverFunded
<1>1. LifeInv => CancelledNeverFunded
    BY DEF LifeInv, LifeRest, FundedIffLive, CancelledNeverFunded, LiveStatus
<1>2. QED
    BY <1>1, LifeInvariant, PTL

\* confirm_receipt and resolve_dispute pay a trade out only after its
\* fund_trade moved the amount into escrow.
THEOREM PayoutOnlyAfterFundingHolds == Spec => []PayoutOnlyAfterFunding
<1>1. LifeInv => PayoutOnlyAfterFunding
    BY DEF LifeInv, LifeRest
<1>2. QED
    BY <1>1, LifeInvariant, PTL

\* On a Disputed trade, resolve_dispute's checks before the settlement pass
\* for the bound arbitrator and stop everyone else.
LEMMA ResolverFromLife == LifeInv => ResolverIsBoundArbitrator
<1> SUFFICES ASSUME LifeInv, NEW t \in TradeIds, NEW r \in DisputeResolution,
                    NEW c \in Addr, Stored(t), trades[t].status = "Disputed"
             PROVE  ResolveDisputeError(t, r, c)
                        \in {"ArbitratorNotRegistered", "AuthError"}
                    <=> c # trades[t].arbitrator
    BY DEF ResolverIsBoundArbitrator
<1>1. trades[t].arbitrator # None
    BY DEF LifeInv, LifeRest, DisputedHasArbitrator
<1>2. initialized
    \* A stored id is at most trade_counter, which is 0 before initialize.
    BY DEF LifeInv, LifeRest, TradeIdsDense, UninitEmpty, TradeIds
<1>3. LookupError(t, {"Disputed"}) = "Ok"
    BY <1>2 DEF LookupError, Stored
<1>4. \A x : SettleError(t, x) \notin {"ArbitratorNotRegistered", "AuthError"}
    BY DEF SettleError
<1>5. QED
    BY <1>1, <1>3, <1>4 DEF ResolveDisputeError

\* The arbitrator bound at create_trade can resolve its disputed trade, and
\* nobody else can, even after remove_arbitrator_fn dropped it from the
\* registry: resolve_dispute reads the trade's own arbitrator field.
THEOREM ResolverIsBoundArbitratorHolds == Spec => []ResolverIsBoundArbitrator
BY ResolverFromLife, LifeInvariant, PTL

-----------------------------------------------------------------------------
(* The status table.  A step that does not store trades keeps every       *)
(* stored trade; a step that stores one trade back changes its status      *)
(* along one move of StatusMoves; create_trade writes an id not yet used.  *)

LEMMA TradesKept ==
    ASSUME LifeInv, NEW t \in TradeIds, Stored(t), trades'[t] = trades[t]
    PROVE  TradeStep(t)
<1>1. trades[t] \in Trade
    BY DEF LifeInv, TypeOK, Stored
<1>2. [trades[t] EXCEPT !.status = trades[t].status] = trades[t]
    BY <1>1 DEF Trade
<1>3. QED
    BY <1>2 DEF TradeStep, Stored

\* A step that does not write trades.
LEMMA TradesUnchanged ==
    ASSUME LifeInv, trades' = trades, NEW t \in TradeIds, Stored(t)
    PROVE  TradeStep(t)
BY TradesKept

LEMMA StatusMoved ==
    ASSUME LifeInv, NEW id \in TradeIds, trades[id] \in Trade,
           NEW s \in TradeStatus, trades' = [trades EXCEPT ![id].status = s],
           <<trades[id].status, s>> \in StatusMoves,
           NEW t \in TradeIds, Stored(t)
    PROVE  TradeStep(t)
<1>1. CASE t = id
    <2>1. trades'[id] = [trades[id] EXCEPT !.status = s]
        BY DEF LifeInv, TypeOK
    <2>2. trades'[id] \in Trade /\ trades'[id].status = s
        BY <2>1 DEF Trade
    <2>3. [trades'[id] EXCEPT !.status = trades[id].status] = trades[id]
        BY <2>1 DEF Trade
    <2>4. QED
        BY <1>1, <2>2, <2>3, NoneIsNoTrade DEF TradeStep, Stored
<1>2. CASE t # id
    <2>1. trades'[t] = trades[t]
        BY <1>2 DEF LifeInv, TypeOK
    <2>2. QED
        BY <2>1, TradesKept
<1>3. QED
    BY <1>1, <1>2

LEMMA RejectKeeps ==
    ASSUME LifeInv, NEW e, Reject(e), NEW t \in TradeIds, Stored(t)
    PROVE  TradeStep(t)
BY TradesUnchanged DEF Reject, state

LEMMA NextStatusStep ==
    ASSUME LifeInv, [Next]_vars, NEW t \in TradeIds, Stored(t)
    PROVE  TradeStep(t)
<1>1. CASE UNCHANGED vars
    BY <1>1, TradesUnchanged DEF vars, state
<1>2. ASSUME NEW caller \in Addr,
             \/ \E adm \in Addr, bps \in FeeChoices : Initialize(adm, bps, caller)
             \/ \E a \in Addr : RegisterArbitrator(a, caller)
             \/ \E a \in Addr : RemoveArbitrator(a, caller)
             \/ \E bps \in FeeChoices : UpdateFee(bps, caller)
             \/ \E to \in Addr : WithdrawFees(to, caller)
             \/ \E id \in TradeIds : ConfirmReceipt(id, caller)
             \/ \E id \in TradeIds, r \in DisputeResolution :
                    ResolveDispute(id, r, caller)
      PROVE  TradeStep(t)
    \* None of these stores a trade.
    BY <1>2, TradesUnchanged, RejectKeeps
    DEF Initialize, RegisterArbitrator, RemoveArbitrator, UpdateFee,
        WithdrawFees, ConfirmReceipt, ResolveDispute, Settle
<1>3. ASSUME NEW caller \in Addr, NEW seller \in Addr, NEW buyer \in Addr,
             NEW amount \in Amounts, NEW arb \in Addr \cup {None},
             CreateTrade(seller, buyer, amount, arb, caller)
      PROVE  TradeStep(t)
    <2>1. CASE CreateTradeError(seller, buyer, amount, arb, caller) # "Ok"
        BY <1>3, <2>1, RejectKeeps DEF CreateTrade
    <2>2. CASE CreateTradeError(seller, buyer, amount, arb, caller) = "Ok"
        \* The new id is above the counter, so it is not t.
        <3>1. t # trade_counter + 1
            BY DEF LifeInv, LifeRest, TradeIdsDense, TypeOK
        <3>2. trades'[t] = trades[t]
            BY <1>3, <2>2, <3>1 DEF CreateTrade, LifeInv, TypeOK
        <3>3. QED
            BY <3>2, TradesKept
    <2>3. QED
        BY <2>1, <2>2
<1>4. ASSUME NEW caller \in Addr, NEW id \in TradeIds,
             \/ FundTrade(id, caller)
             \/ CompleteTrade(id, caller)
             \/ CancelTrade(id, caller)
             \/ RaiseDispute(id, caller)
      PROVE  TradeStep(t)
    <2>1. CASE FundTrade(id, caller)
        <3>1. CASE FundTradeError(id, caller) # "Ok"
            BY <2>1, <3>1, RejectKeeps DEF FundTrade
        <3>2. CASE FundTradeError(id, caller) = "Ok"
            <4>1. trades[id] \in Trade /\ trades[id].status = "Created"
                BY <3>2, LookupLife DEF FundTradeError
            <4>2. QED
                BY <2>1, <3>2, <4>1, StatusMoved
                DEF FundTrade, SetStatus, StatusMoves, TradeStatus
        <3>3. QED
            BY <3>1, <3>2
    <2>2. CASE CompleteTrade(id, caller)
        <3>1. CASE SellerStepError(id, {"Funded"}, caller) # "Ok"
            BY <2>2, <3>1, RejectKeeps DEF CompleteTrade
        <3>2. CASE SellerStepError(id, {"Funded"}, caller) = "Ok"
            <4>1. trades[id] \in Trade /\ trades[id].status = "Funded"
                BY <3>2, LookupLife DEF SellerStepError
            <4>2. QED
                BY <2>2, <3>2, <4>1, StatusMoved
                DEF CompleteTrade, SetStatus, StatusMoves, TradeStatus
        <3>3. QED
            BY <3>1, <3>2
    <2>3. CASE CancelTrade(id, caller)
        <3>1. CASE SellerStepError(id, {"Created"}, caller) # "Ok"
            BY <2>3, <3>1, RejectKeeps DEF CancelTrade
        <3>2. CASE SellerStepError(id, {"Created"}, caller) = "Ok"
            <4>1. trades[id] \in Trade /\ trades[id].status = "Created"
                BY <3>2, LookupLife DEF SellerStepError
            <4>2. QED
                BY <2>3, <3>2, <4>1, StatusMoved
                DEF CancelTrade, SetStatus, StatusMoves, TradeStatus
        <3>3. QED
            BY <3>1, <3>2
    <2>4. CASE RaiseDispute(id, caller)
        <3>1. CASE RaiseDisputeError(id, caller) # "Ok"
            BY <2>4, <3>1, RejectKeeps DEF RaiseDispute
        <3>2. CASE RaiseDisputeError(id, caller) = "Ok"
            <4>1. trades[id] \in Trade
                  /\ trades[id].status \in {"Funded", "Completed"}
                BY <3>2, LookupLife DEF RaiseDisputeError
            <4>2. QED
                BY <2>4, <3>2, <4>1, StatusMoved
                DEF RaiseDispute, SetStatus, StatusMoves, TradeStatus
        <3>3. QED
            BY <3>1, <3>2
    <2>5. QED
        BY <1>4, <2>1, <2>2, <2>3, <2>4
<1>5. QED
    BY <1>1, <1>2, <1>3, <1>4 DEF Next

\* A stored trade is never removed or overwritten, and its status moves only
\* along the lifecycle table: no entry point writes any other status, and
\* create_trade never reuses an id.
THEOREM StatusTransitionsHold == Spec => StatusTransitions
<1>1. LifeInv /\ [Next]_vars => [\A t \in TradeIds : Stored(t) => TradeStep(t)]_vars
    BY NextStatusStep
<1>2. QED
    BY <1>1, LifeInvariant, PTL DEF Spec, StatusTransitions

=============================================================================
