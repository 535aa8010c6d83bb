----------------------------- MODULE EventProofs -----------------------------
(***************************************************************************)
(* Proof that the published events tell an indexer the truth: the fold of *)
(* the events (observed) always equals View, the trades' statuses and the *)
(* registry.  The invariant is inductive together with TypeOK: each step  *)
(* that writes a trade's status or the registry publishes the event whose *)
(* fold makes the same write, and every other step publishes nothing or   *)
(* an event the fold ignores.                                              *)
(***************************************************************************)
EXTENDS EscrowProofs

USE EscrowAssumptions, NoneIsNoTrade

ObsInv == TypeOK /\ ReplayMatchesStore

-----------------------------------------------------------------------------
(* The fold on each kind of event, and View after each kind of write.     *)

LEMMA ReplayLifecycle ==
    ASSUME NEW o, NEW ev, ev.topic \in DOMAIN TopicStatus
    PROVE  Replay(o, ev) = [o EXCEPT !.status[ev.id] = TopicStatus[ev.topic]]
BY DEF Replay, TopicStatus

LEMMA ReplayQuiet ==
    ASSUME NEW o, NEW ev, ev.topic \in {"confirm", "resolved", "fee_upd", "fees_out"}
    PROVE  Replay(o, ev) = o
BY DEF Replay, TopicStatus

LEMMA ReplayRegister ==
    ASSUME NEW o, NEW a
    PROVE  Replay(o, EmitArbitratorRegistered(a)) = [o EXCEPT !.arbs = o.arbs \cup {a}]
BY DEF Replay, TopicStatus, EmitArbitratorRegistered

LEMMA ReplayRemove ==
    ASSUME NEW o, NEW a
    PROVE  Replay(o, EmitArbitratorRemoved(a)) = [o EXCEPT !.arbs = o.arbs \ {a}]
BY DEF Replay, TopicStatus, EmitArbitratorRemoved

LEMMA ViewFrame ==
    ASSUME trades' = trades, arbitrators' = arbitrators
    PROVE  View' = View
BY DEF View, Stored

LEMMA ViewStatus ==
    ASSUME TypeOK, NEW id \in TradeIds, NEW s, trades'[id] # None,
           trades'[id].status = s,
           \A t \in TradeIds \ {id} : trades'[t] = trades[t],
           arbitrators' = arbitrators
    PROVE  View' = [View EXCEPT !.status[id] = s]
<1> DEFINE st(tr) == [t \in TradeIds |-> IF tr[t] # None THEN tr[t].status
                                                     ELSE None]
<1>1. View = [status |-> st(trades), arbs |-> arbitrators]
    BY DEF View, Stored
<1>2. View' = [status |-> st(trades'), arbs |-> arbitrators']
    BY DEF View, Stored
<1>3. st(trades') = [st(trades) EXCEPT ![id] = s]
    BY DEF TypeOK
<1>4. [View EXCEPT !.status[id] = s]
        = [status |-> [st(trades) EXCEPT ![id] = s], arbs |-> arbitrators]
    BY <1>1
<1>5. QED
    BY <1>2, <1>3, <1>4

\* A step that leaves the trades, the registry and the fold alone.
LEMMA ReplayFrame ==
    ASSUME ReplayMatchesStore, trades' = trades, arbitrators' = arbitrators,
           observed' = observed
    PROVE  ReplayMatchesStore'
BY ViewFrame DEF ReplayMatchesStore

LEMMA ReplayReject ==
    ASSUME ReplayMatchesStore, NEW e, Reject(e)
    PROVE  ReplayMatchesStore'
BY ReplayFrame DEF Reject, state

\* A step that publishes an event the fold ignores.
LEMMA ReplayQuietStep ==
    ASSUME ReplayMatchesStore, trades' = trades, arbitrators' = arbitrators,
           NEW ev, Publish(ev),
           ev.topic \in {"confirm", "resolved", "fee_upd", "fees_out"}
    PROVE  ReplayMatchesStore'
BY ViewFrame, ReplayQuiet DEF Publish, ReplayMatchesStore

\* A step that writes the status of trade id and publishes its topic.
LEMMA ReplayStatusStep ==
    ASSUME TypeOK, ReplayMatchesStore, NEW id \in TradeIds,
           NEW ev, ev.topic \in DOMAIN TopicStatus, ev.id = id, Publish(ev),
           trades'[id] # None, trades'[id].status = TopicStatus[ev.topic],
           \A t \in TradeIds \ {id} : trades'[t] = trades[t],
           arbitrators' = arbitrators
    PROVE  ReplayMatchesStore'
<1>1. observed' = [View EXCEPT !.status[id] = TopicStatus[ev.topic]]
    BY ReplayLifecycle DEF Publish, ReplayMatchesStore
<1>2. View' = [View EXCEPT !.status[id] = TopicStatus[ev.topic]]
    BY ViewStatus
<1>3. QED
    BY <1>1, <1>2 DEF ReplayMatchesStore

\* SetStatus of a stored trade, with the event of that status.
LEMMA ReplaySetStatus ==
    ASSUME TypeOK, ReplayMatchesStore, NEW id \in TradeIds, trades[id] \in Trade,
           NEW s, SetStatus(id, s), arbitrators' = arbitrators,
           NEW ev, ev.topic \in DOMAIN TopicStatus, ev.id = id,
           TopicStatus[ev.topic] = s, s \in TradeStatus, Publish(ev)
    PROVE  ReplayMatchesStore'
<1>1. trades'[id] = [trades[id] EXCEPT !.status = s]
    BY DEF SetStatus, TypeOK
<1>2. trades'[id] \in Trade /\ trades'[id].status = s
    BY <1>1 DEF Trade
<1>3. \A t \in TradeIds \ {id} : trades'[t] = trades[t]
    BY DEF SetStatus, TypeOK
<1>4. QED
    BY <1>2, <1>3, ReplayStatusStep

-----------------------------------------------------------------------------
LEMMA NextReplay ==
    ASSUME TypeOK, ReplayMatchesStore, [Next]_vars
    PROVE  ReplayMatchesStore'
<1>1. CASE UNCHANGED vars
    BY <1>1, ReplayFrame DEF vars, state
<1>2. ASSUME NEW caller \in Addr, NEW adm \in Addr, NEW bps \in FeeChoices,
             Initialize(adm, bps, caller)
      PROVE  ReplayMatchesStore'
    \* initialize publishes no event and writes no trade or registry entry.
    BY <1>2, ReplayReject, ReplayFrame DEF Initialize
<1>3. ASSUME NEW caller \in Addr, NEW a \in Addr,
             RegisterArbitrator(a, caller) \/ RemoveArbitrator(a, caller)
      PROVE  ReplayMatchesStore'
    <2>1. CASE AdminError(caller) # "Ok"
        BY <1>3, <2>1, ReplayReject DEF RegisterArbitrator, RemoveArbitrator
    <2>2. CASE AdminError(caller) = "Ok"
        <3>1. trades' = trades
            BY <1>3, <2>2 DEF RegisterArbitrator, RemoveArbitrator
        <3>2. View' = [status |-> View.status, arbs |-> arbitrators']
            BY <3>1 DEF View, Stored
        <3>3. ASSUME NEW x
              PROVE  [View EXCEPT !.arbs = x] = [status |-> View.status, arbs |-> x]
            <4>1. View = [status |-> View.status, arbs |-> arbitrators]
                BY DEF View
            <4>2. QED
                BY <4>1
        <3>4. observed.arbs = arbitrators
            BY DEF ReplayMatchesStore, View
        <3>6. CASE RegisterArbitrator(a, caller)
            <4>1. arbitrators' = arbitrators \cup {a}
                  /\ observed' = [View EXCEPT !.arbs = arbitrators \cup {a}]
                BY <2>2, <3>4, <3>6, ReplayRegister
                DEF RegisterArbitrator, Publish, ReplayMatchesStore
            <4>2. QED
                BY <3>2, <3>3, <4>1 DEF ReplayMatchesStore
        <3>7. CASE RemoveArbitrator(a, caller)
            <4>1. arbitrators' = arbitrators \ {a}
                  /\ observed' = [View EXCEPT !.arbs = arbitrators \ {a}]
                BY <2>2, <3>4, <3>7, ReplayRemove
                DEF RemoveArbitrator, Publish, ReplayMatchesStore
            <4>2. QED
                BY <3>2, <3>3, <4>1 DEF ReplayMatchesStore
        <3>8. QED
            BY <1>3, <3>6, <3>7
    <2>3. QED
        BY <2>1, <2>2
<1>4. ASSUME NEW caller \in Addr,
             \/ \E bps \in FeeChoices : UpdateFee(bps, caller)
             \/ \E to \in Addr : WithdrawFees(to, caller)
      PROVE  ReplayMatchesStore'
    BY <1>4, ReplayReject, ReplayQuietStep
    DEF UpdateFee, WithdrawFees, EmitFeeUpdated, EmitFeesWithdrawn
<1>5. ASSUME NEW caller \in Addr, NEW seller \in Addr, NEW buyer \in Addr,
             NEW amount \in Amounts, NEW arb \in Addr \cup {None},
             CreateTrade(seller, buyer, amount, arb, caller)
      PROVE  ReplayMatchesStore'
    <2> DEFINE e == CreateTradeError(seller, buyer, amount, arb, caller)
               id == trade_counter + 1
               new == [seller |-> seller, buyer |-> buyer, amount |-> amount,
                       fee |-> ComputeFee(amount, fee_bps),
                       arbitrator |-> arb, status |-> "Created"]
    <2>1. CASE e # "Ok"
        BY <1>5, <2>1, ReplayReject DEF CreateTrade
    <2>2. CASE e = "Ok"
        <3>1. amount \in 1..U64_MAX /\ amount * fee_bps <= U64_MAX
            BY <2>2 DEF CreateTradeError, FeeOverflows, TypeOK
        <3>2. new \in Trade
            BY <3>1, ComputeFeeBound DEF Trade, TradeStatus, TypeOK
        <3>3. id \in TradeIds
            BY <1>5 DEF CreateTrade, TradeIds, TypeOK
        <3>4. trades' = [trades EXCEPT ![id] = new]
            BY <1>5, <2>2 DEF CreateTrade
        <3>5. /\ trades'[id] # None /\ trades'[id].status = "Created"
              /\ \A t \in TradeIds \ {id} : trades'[t] = trades[t]
            BY <3>2, <3>3, <3>4 DEF TypeOK
        <3>6. Publish(EmitTradeCreated(id, seller, buyer, amount))
              /\ arbitrators' = arbitrators
            BY <1>5, <2>2 DEF CreateTrade
        <3>7. QED
            BY <3>3, <3>5, <3>6, ReplayStatusStep
            DEF EmitTradeCreated, TopicStatus
    <2>3. QED
        BY <2>1, <2>2
<1>6. ASSUME NEW caller \in Addr, NEW id \in TradeIds,
             \/ FundTrade(id, caller)
             \/ CompleteTrade(id, caller)
             \/ CancelTrade(id, caller)
             \/ RaiseDispute(id, caller)
      PROVE  ReplayMatchesStore'
    <2>1. CASE FundTrade(id, caller)
        <3>1. CASE FundTradeError(id, caller) # "Ok"
            BY <2>1, <3>1, ReplayReject DEF FundTrade
        <3>2. CASE FundTradeError(id, caller) = "Ok"
            <4>1. trades[id] \in Trade
                BY <3>2, LookupErrorOk DEF FundTradeError
            <4>2. QED
                BY <2>1, <3>2, <4>1, ReplaySetStatus
                DEF FundTrade, EmitTradeFunded, TopicStatus, TradeStatus
        <3>3. QED
            BY <3>1, <3>2
    <2>2. CASE CompleteTrade(id, caller) \/ CancelTrade(id, caller)
        <3>1. CASE CompleteTrade(id, caller)
            <4>1. CASE SellerStepError(id, {"Funded"}, caller) # "Ok"
                BY <3>1, <4>1, ReplayReject DEF CompleteTrade
            <4>2. CASE SellerStepError(id, {"Funded"}, caller) = "Ok"
                BY <3>1, <4>2, SellerStepErrorOk, ReplaySetStatus
                DEF CompleteTrade, EmitTradeCompleted, TopicStatus, TradeStatus
            <4>3. QED
                BY <4>1, <4>2
        <3>2. CASE CancelTrade(id, caller)
            <4>1. CASE SellerStepError(id, {"Created"}, caller) # "Ok"
                BY <3>2, <4>1, ReplayReject DEF CancelTrade
            <4>2. CASE SellerStepError(id, {"Created"}, caller) = "Ok"
                BY <3>2, <4>2, SellerStepErrorOk, ReplaySetStatus
                DEF CancelTrade, EmitTradeCancelled, TopicStatus, TradeStatus
            <4>3. QED
                BY <4>1, <4>2
        <3>3. QED
            BY <2>2, <3>1, <3>2
    <2>3. CASE RaiseDispute(id, caller)
        <3>1. CASE RaiseDisputeError(id, caller) # "Ok"
            BY <2>3, <3>1, ReplayReject DEF RaiseDispute
        <3>2. CASE RaiseDisputeError(id, caller) = "Ok"
            <4>1. trades[id] \in Trade
                BY <3>2, LookupErrorOk DEF RaiseDisputeError
            <4>2. QED
                BY <2>3, <3>2, <4>1, ReplaySetStatus
                DEF RaiseDispute, EmitDisputeRaised, TopicStatus, TradeStatus
        <3>3. QED
            BY <3>1, <3>2
    <2>4. QED
        BY <1>6, <2>1, <2>2, <2>3
<1>7. ASSUME NEW caller \in Addr, NEW id \in TradeIds,
             \/ ConfirmReceipt(id, caller)
             \/ \E r \in DisputeResolution : ResolveDispute(id, r, caller)
      PROVE  ReplayMatchesStore'
    \* A settlement stores no trade and publishes confirm or resolved.
    BY <1>7, ReplayReject, ReplayQuietStep
    DEF ConfirmReceipt, ResolveDispute, Settle, EmitTradeConfirmed,
        EmitDisputeResolved
<1>8. CASE Next
    BY <1>2, <1>3, <1>4, <1>5, <1>6, <1>7, <1>8 DEF Next
<1>9. QED
    BY <1>1, <1>8

\* An indexer that folds the events of events.rs in publication order knows
\* every trade's status and the arbitrator registry exactly: each committed
\* write is published by its function, initialize and the settlements
\* publish nothing the fold needs, and a rolled-back call publishes nothing.
THEOREM ReplayMatchesStoreHolds == Spec => []ReplayMatchesStore
<1>1. Init => ObsInv
    BY InitTypeOK DEF Init, ObsInv, ReplayMatchesStore, View, Stored
<1>2. ObsInv /\ [Next]_vars => ObsInv'
    BY NextTypeOK, NextReplay DEF ObsInv
<1>3. QED
    BY <1>1, <1>2, PTL DEF Spec, ObsInv

=============================================================================
