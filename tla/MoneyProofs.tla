----------------------------- MODULE MoneyProofs -----------------------------
(***************************************************************************)
(* Proof that the escrow's own token balance moves only in the three ways *)
(* the contract accounts for: fund_trade pays a Created trade's amount in, *)
(* confirm_receipt and resolve_dispute pay amount - fee of a Completed or  *)
(* Disputed trade to one of its parties and book the fee, and             *)
(* withdraw_fees pays out the booked fees and zeroes them.  The property  *)
(* is a property of single steps: it needs no invariant but TypeOK, and   *)
(* each case rests on what the action's error chain returned "Ok" for.    *)
(***************************************************************************)
EXTENDS EscrowProofs

USE EscrowAssumptions, NoneIsNoTrade

\* The step predicate of EscrowMovesAccounted.
Accounted == bal'[Escrow] # bal[Escrow] => EscrowMove

-----------------------------------------------------------------------------
(* A step that leaves bal alone satisfies Accounted trivially.            *)

LEMMA QuietAccounted ==
    ASSUME bal' = bal
    PROVE  Accounted
BY DEF Accounted

LEMMA RejectAccounted ==
    ASSUME NEW e, Reject(e)
    PROVE  Accounted
BY QuietAccounted DEF Reject, state

-----------------------------------------------------------------------------
(* The four calls that move the escrow's money.                           *)

LEMMA FundTradeAccounted ==
    ASSUME TypeOK, NEW id \in TradeIds, NEW caller \in Addr,
           FundTrade(id, caller)
    PROVE  Accounted
<1> DEFINE e == FundTradeError(id, caller)
<1>1. CASE e # "Ok"
    BY <1>1, RejectAccounted DEF FundTrade
<1>2. CASE e = "Ok"
    <2>1. LookupError(id, {"Created"}) = "Ok"
        BY <1>2 DEF FundTradeError
    <2>2. /\ Stored(id) /\ trades[id] \in Trade
          /\ trades[id].status = "Created"
        BY <2>1, LookupErrorOk DEF Stored
    <2>3. trades'[id].status = "Funded"
        <3>1. trades' = [trades EXCEPT ![id].status = "Funded"]
            BY <1>2 DEF FundTrade, SetStatus
        <3>2. id \in DOMAIN trades /\ "status" \in DOMAIN trades[id]
            BY <2>2 DEF TypeOK, Trade
        <3>3. QED
            BY <3>1, <3>2
    <2>4. bal' = Transfer(bal, trades[id].buyer, Escrow, trades[id].amount)
        BY <1>2 DEF FundTrade
    <2>5. Deposit(id)
        BY <2>2, <2>3, <2>4 DEF Deposit
    <2>6. QED
        BY <2>5 DEF Accounted, EscrowMove
<1>3. QED
    BY <1>1, <1>2

LEMMA WithdrawFeesAccounted ==
    ASSUME TypeOK, NEW to \in Addr, NEW caller \in Addr,
           WithdrawFees(to, caller)
    PROVE  Accounted
<1>1. CASE WithdrawFeesError(to, caller) # "Ok"
    BY <1>1, RejectAccounted DEF WithdrawFees
<1>2. CASE WithdrawFeesError(to, caller) = "Ok"
    <2>1. FeeWithdrawal
        BY <1>2 DEF WithdrawFees, FeeWithdrawal
    <2>2. QED
        BY <2>1 DEF Accounted, EscrowMove
<1>3. QED
    BY <1>1, <1>2

\* A settlement that passed its lookup pays one of the trade's parties.
LEMMA SettlePayout ==
    ASSUME TypeOK, NEW id \in TradeIds, NEW from \in SUBSET TradeStatus,
           from \subseteq {"Completed", "Disputed"},
           LookupError(id, from) = "Ok",
           NEW recipient \in {trades[id].seller, trades[id].buyer},
           Settle(id, recipient)
    PROVE  Payout(id)
<1>1. Stored(id) /\ trades[id].status \in {"Completed", "Disputed"}
    BY LookupErrorOk DEF Stored
<1>2. bal' = Transfer(bal, Escrow, recipient, trades[id].amount - trades[id].fee)
    BY DEF Settle
<1>3. accumulated_fees' = accumulated_fees + trades[id].fee
    BY DEF Settle
<1>4. QED
    BY <1>1, <1>2, <1>3 DEF Payout

LEMMA ConfirmReceiptAccounted ==
    ASSUME TypeOK, NEW id \in TradeIds, NEW caller \in Addr,
           ConfirmReceipt(id, caller)
    PROVE  Accounted
<1> DEFINE e == ConfirmReceiptError(id, caller)
<1>1. CASE e # "Ok"
    BY <1>1, RejectAccounted DEF ConfirmReceipt
<1>2. CASE e = "Ok"
    <2>1. LookupError(id, {"Completed"}) = "Ok"
        BY <1>2 DEF ConfirmReceiptError
    <2>2. Settle(id, trades[id].seller)
        BY <1>2 DEF ConfirmReceipt
    <2>3. Payout(id)
        BY <2>1, <2>2, SettlePayout DEF TradeStatus
    <2>4. QED
        BY <2>3 DEF Accounted, EscrowMove
<1>3. QED
    BY <1>1, <1>2

LEMMA ResolveDisputeAccounted ==
    ASSUME TypeOK, NEW id \in TradeIds, NEW r \in DisputeResolution,
           NEW caller \in Addr, ResolveDispute(id, r, caller)
    PROVE  Accounted
<1> DEFINE e == ResolveDisputeError(id, r, caller)
<1>1. CASE e # "Ok"
    BY <1>1, RejectAccounted DEF ResolveDispute
<1>2. CASE e = "Ok"
    <2>1. LookupError(id, {"Disputed"}) = "Ok"
        BY <1>2 DEF ResolveDisputeError
    <2>2. Recipient(id, r) \in {trades[id].seller, trades[id].buyer}
        BY DEF Recipient
    <2>3. Settle(id, Recipient(id, r))
        BY <1>2 DEF ResolveDispute
    <2>4. Payout(id)
        BY <2>1, <2>2, <2>3, SettlePayout DEF TradeStatus
    <2>5. QED
        BY <2>4 DEF Accounted, EscrowMove
<1>3. QED
    BY <1>1, <1>2

-----------------------------------------------------------------------------
(* The calls that never touch a balance.                                  *)

LEMMA QuietCallsAccounted ==
    ASSUME NEW caller \in Addr,
           \/ \E adm \in Addr, bps \in FeeChoices : Initialize(adm, bps, caller)
           \/ \E a \in Addr : RegisterArbitrator(a, caller)
           \/ \E a \in Addr : RemoveArbitrator(a, caller)
           \/ \E bps \in FeeChoices : UpdateFee(bps, caller)
           \/ \E seller, buyer \in Addr, amount \in Amounts,
                 arb \in Addr \cup {None} :
                 CreateTrade(seller, buyer, amount, arb, caller)
           \/ \E id \in TradeIds :
                 \/ CompleteTrade(id, caller)
                 \/ RaiseDispute(id, caller)
                 \/ CancelTrade(id, caller)
    PROVE  Accounted
<1>1. bal' = bal
    BY DEF Initialize, RegisterArbitrator, RemoveArbitrator, UpdateFee,
           CreateTrade, CompleteTrade, RaiseDispute, CancelTrade, Reject, state
<1>2. QED
    BY <1>1, QuietAccounted

-----------------------------------------------------------------------------
LEMMA NextAccounted == TypeOK /\ [Next]_vars => [Accounted]_vars
<1> SUFFICES ASSUME TypeOK, [Next]_vars PROVE [Accounted]_vars
    OBVIOUS
<1>1. CASE UNCHANGED vars
    BY <1>1 DEF vars
<1>2. CASE Next
    <2> PICK caller \in Addr :
            \/ \E adm \in Addr, bps \in FeeChoices : Initialize(adm, bps, caller)
            \/ \E a \in Addr : RegisterArbitrator(a, caller)
            \/ \E a \in Addr : RemoveArbitrator(a, caller)
            \/ \E bps \in FeeChoices : UpdateFee(bps, caller)
            \/ \E to \in Addr : WithdrawFees(to, caller)
            \/ \E seller, buyer \in Addr, amount \in Amounts,
                  arb \in Addr \cup {None} :
                  CreateTrade(seller, buyer, amount, arb, caller)
            \/ \E id \in TradeIds :
                  \/ FundTrade(id, caller)
                  \/ CompleteTrade(id, caller)
                  \/ ConfirmReceipt(id, caller)
                  \/ RaiseDispute(id, caller)
                  \/ \E r \in DisputeResolution : ResolveDispute(id, r, caller)
                  \/ CancelTrade(id, caller)
        BY <1>2 DEF Next
    <2>1. Accounted
        BY QuietCallsAccounted, WithdrawFeesAccounted, FundTradeAccounted,
           ConfirmReceiptAccounted, ResolveDisputeAccounted
    <2>2. QED
        BY <2>1
<1>3. QED
    BY <1>1, <1>2

\* The escrow's balance changes only by a deposit of a trade being funded,
\* a settlement of a Completed or Disputed trade to its seller or buyer
\* with its fee booked, or a withdrawal of exactly the booked fees
\* (fund_trade, confirm_receipt, resolve_dispute, withdraw_fees).
THEOREM EscrowMovesAccountedHolds == Spec => EscrowMovesAccounted
<1>1. Spec => []TypeOK
    BY TypeCorrect
<1>2. TypeOK /\ [Next]_vars => [Accounted]_vars
    BY NextAccounted
<1>3. QED
    BY <1>1, <1>2, PTL DEF Spec, EscrowMovesAccounted, Accounted

=============================================================================
