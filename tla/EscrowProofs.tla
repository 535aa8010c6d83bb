---------------------------- MODULE EscrowProofs ----------------------------
(***************************************************************************)
(* Machine-checked proofs about the Escrow specification, for every value  *)
(* of its constants that satisfies EscrowAssumptions.                      *)
(***************************************************************************)
EXTENDS Escrow, TLAPS

USE EscrowAssumptions

-----------------------------------------------------------------------------
(* Type correctness.  Each action is handled by a lemma; a failed call     *)
(* (Reject) only sets result, to one of the values in Results.             *)

LEMMA RejectTypeOK ==
    ASSUME TypeOK, NEW e \in Results, Reject(e)
    PROVE  TypeOK'
BY DEF TypeOK, Reject, state, history

\* token::Client::transfer keeps every balance a natural number when the
\* source account holds the amount it sends.
LEMMA TransferNat ==
    ASSUME NEW b \in [Accounts -> Nat], NEW from \in Accounts,
           NEW to \in Accounts, NEW amt \in Nat, amt <= b[from]
    PROVE  Transfer(b, from, to, amt) \in [Accounts -> Nat]
BY DEF Transfer

LEMMA InitTypeOK == Init => TypeOK
<1> SUFFICES ASSUME Init PROVE TypeOK
    OBVIOUS
<1>1. bal \in [Accounts -> Nat]
    BY DEF Init
<1>2. trades \in [TradeIds -> Trade \cup {None}]
    BY DEF Init
<1>3. payouts \in [TradeIds -> Nat] /\ funded \in [TradeIds -> BOOLEAN]
    BY DEF Init
<1>4. /\ initialized = FALSE /\ admin = None /\ fee_bps = 0
      /\ trade_counter = 0 /\ accumulated_fees = 0 /\ arbitrators = {}
    BY DEF Init
<1>5. result \in Results
    BY DEF Init, Results
<1>6. initialized \in BOOLEAN /\ admin \in Addr \cup {None}
    BY <1>4
<1>7. fee_bps \in Nat /\ trade_counter \in 0..U64_MAX
      /\ accumulated_fees \in 0..U64_MAX
    BY <1>4
<1>8. arbitrators \subseteq Addr
    BY <1>4
<1>9. QED
    BY <1>1, <1>2, <1>3, <1>5, <1>6, <1>7, <1>8 DEF TypeOK

LEMMA InitializeTypeOK ==
    ASSUME TypeOK, NEW adm \in Addr, NEW bps \in FeeChoices,
           NEW caller \in Addr, Initialize(adm, bps, caller)
    PROVE  TypeOK'
<1>1. InitializeError(adm, bps, caller) \in Results
    BY DEF InitializeError, Results
<1>2. CASE InitializeError(adm, bps, caller) # "Ok"
    BY <1>1, <1>2, RejectTypeOK DEF Initialize
<1>3. CASE InitializeError(adm, bps, caller) = "Ok"
    BY <1>3 DEF Initialize, TypeOK, Results, history
<1>4. QED
    BY <1>2, <1>3

LEMMA AdminErrorInResults ==
    ASSUME NEW caller \in Addr
    PROVE  AdminError(caller) \in Results
BY DEF AdminError, Results

LEMMA RegisterArbitratorTypeOK ==
    ASSUME TypeOK, NEW a \in Addr, NEW caller \in Addr,
           RegisterArbitrator(a, caller)
    PROVE  TypeOK'
<1>1. CASE AdminError(caller) # "Ok"
    BY <1>1, AdminErrorInResults, RejectTypeOK DEF RegisterArbitrator
<1>2. CASE AdminError(caller) = "Ok"
    BY <1>2 DEF RegisterArbitrator, TypeOK, Results, history
<1>3. QED
    BY <1>1, <1>2

LEMMA RemoveArbitratorTypeOK ==
    ASSUME TypeOK, NEW a \in Addr, NEW caller \in Addr,
           RemoveArbitrator(a, caller)
    PROVE  TypeOK'
<1>1. CASE AdminError(caller) # "Ok"
    BY <1>1, AdminErrorInResults, RejectTypeOK DEF RemoveArbitrator
<1>2. CASE AdminError(caller) = "Ok"
    BY <1>2 DEF RemoveArbitrator, TypeOK, Results, history
<1>3. QED
    BY <1>1, <1>2

LEMMA UpdateFeeTypeOK ==
    ASSUME TypeOK, NEW bps \in FeeChoices, NEW caller \in Addr,
           UpdateFee(bps, caller)
    PROVE  TypeOK'
<1>1. UpdateFeeError(bps, caller) \in Results
    BY DEF UpdateFeeError, Results
<1>2. CASE UpdateFeeError(bps, caller) # "Ok"
    BY <1>1, <1>2, RejectTypeOK DEF UpdateFee
<1>3. CASE UpdateFeeError(bps, caller) = "Ok"
    BY <1>3 DEF UpdateFee, TypeOK, Results, history
<1>4. QED
    BY <1>2, <1>3

LEMMA WithdrawFeesTypeOK ==
    ASSUME TypeOK, NEW to \in Addr, NEW caller \in Addr,
           WithdrawFees(to, caller)
    PROVE  TypeOK'
<1>1. WithdrawFeesError(to, caller) \in Results
    BY DEF WithdrawFeesError, Results
<1>2. CASE WithdrawFeesError(to, caller) # "Ok"
    BY <1>1, <1>2, RejectTypeOK DEF WithdrawFees
<1>3. CASE WithdrawFeesError(to, caller) = "Ok"
    <2>1. bal[Escrow] >= accumulated_fees
        BY <1>3 DEF WithdrawFeesError, TypeOK, Accounts
    <2>2. bal' \in [Accounts -> Nat]
        <3>1. Transfer(bal, Escrow, to, accumulated_fees) \in [Accounts -> Nat]
            BY <2>1, TransferNat DEF TypeOK, Accounts
        <3>2. QED
            BY <1>3, <3>1 DEF WithdrawFees
    <2>3. QED
        BY <1>3, <2>2 DEF WithdrawFees, TypeOK, Results, history
<1>4. QED
    BY <1>2, <1>3


\* The fee computed by create_trade fits in a u64 whenever the product it
\* divides does.
LEMMA ComputeFeeBound ==
    ASSUME NEW a \in Nat, NEW b \in Nat, a * b <= U64_MAX
    PROVE  ComputeFee(a, b) \in 0..U64_MAX
<1>1. a * b \in Nat
    OBVIOUS
<1>2. (a * b) \div BPS_DENOM <= a * b /\ (a * b) \div BPS_DENOM >= 0
    BY <1>1
<1>3. QED
    BY <1>2 DEF ComputeFee

\* Storing a trade back with another status keeps trades well typed.
LEMMA SetStatusTypeOK ==
    ASSUME TypeOK, NEW id \in TradeIds, trades[id] \in Trade,
           NEW s \in TradeStatus
    PROVE  [trades EXCEPT ![id].status = s] \in [TradeIds -> Trade \cup {None}]
<1>1. [trades[id] EXCEPT !.status = s] \in Trade
    BY DEF Trade
<1>2. QED
    BY <1>1 DEF TypeOK

LEMMA LookupErrorOk ==
    ASSUME TypeOK, NEW id \in TradeIds, NEW from,
           LookupError(id, from) = "Ok"
    PROVE  /\ initialized
           /\ trades[id] # None
           /\ trades[id] \in Trade
           /\ trades[id].status \in from
BY DEF LookupError, TypeOK

LEMMA LookupErrorInResults ==
    ASSUME NEW id \in TradeIds, NEW from
    PROVE  LookupError(id, from) \in Results
BY DEF LookupError, Results

LEMMA CreateTradeTypeOK ==
    ASSUME TypeOK, NEW seller \in Addr, NEW buyer \in Addr,
           NEW amount \in Amounts, NEW arb \in Addr \cup {None},
           NEW caller \in Addr,
           CreateTrade(seller, buyer, amount, arb, caller)
    PROVE  TypeOK'
<1> DEFINE e == CreateTradeError(seller, buyer, amount, arb, caller)
           id == trade_counter + 1
<1>1. e \in Results
    BY DEF CreateTradeError, Results
<1>2. CASE e # "Ok"
    BY <1>1, <1>2, RejectTypeOK DEF CreateTrade
<1>3. CASE e = "Ok"
    <2>1. /\ amount \in 1..U64_MAX
          /\ id \in 1..U64_MAX
          /\ amount * fee_bps <= U64_MAX
        BY <1>3 DEF CreateTradeError, FeeOverflows, TypeOK
    <2>2. id \in TradeIds
        BY <1>3, <2>1 DEF CreateTrade, TradeIds, TypeOK
    <2>3. ComputeFee(amount, fee_bps) \in 0..U64_MAX
        BY <2>1, ComputeFeeBound DEF TypeOK
    <2>4. [seller |-> seller, buyer |-> buyer, amount |-> amount,
           fee |-> ComputeFee(amount, fee_bps),
           arbitrator |-> arb, status |-> "Created"] \in Trade
        BY <2>1, <2>3 DEF Trade, TradeStatus
    <2>5. trades' \in [TradeIds -> Trade \cup {None}]
        BY <1>3, <2>2, <2>4 DEF CreateTrade, TypeOK
    <2>6. QED
        BY <1>3, <2>1, <2>5 DEF CreateTrade, TypeOK, Results, history
<1>4. QED
    BY <1>2, <1>3

LEMMA FundTradeTypeOK ==
    ASSUME TypeOK, NEW id \in TradeIds, NEW caller \in Addr,
           FundTrade(id, caller)
    PROVE  TypeOK'
<1> DEFINE e == FundTradeError(id, caller)
<1>1. e \in Results
    BY LookupErrorInResults DEF FundTradeError, Results
<1>2. CASE e # "Ok"
    BY <1>1, <1>2, RejectTypeOK DEF FundTrade
<1>3. CASE e = "Ok"
    <2>1. LookupError(id, {"Created"}) = "Ok"
        BY <1>3 DEF FundTradeError
    <2>2. trades[id] \in Trade
        BY <2>1, LookupErrorOk
    <2>3. bal[trades[id].buyer] >= trades[id].amount
        BY <1>3, <2>1, <2>2 DEF FundTradeError, TypeOK, Trade, Accounts
    <2>4. bal' \in [Accounts -> Nat]
        <3>1. Transfer(bal, trades[id].buyer, Escrow, trades[id].amount)
                \in [Accounts -> Nat]
            <4>1. /\ trades[id].buyer \in Accounts /\ Escrow \in Accounts
                  /\ trades[id].amount \in Nat
                  /\ trades[id].amount <= bal[trades[id].buyer]
                BY <2>2, <2>3 DEF Trade, Accounts, TypeOK
            <4>2. bal \in [Accounts -> Nat]
                BY DEF TypeOK
            <4>3. QED
                BY <4>1, <4>2, TransferNat
        <3>2. QED
            BY <1>3, <3>1 DEF FundTrade
    <2>5. trades' \in [TradeIds -> Trade \cup {None}]
        <3>1. [trades EXCEPT ![id].status = "Funded"]
                \in [TradeIds -> Trade \cup {None}]
            BY <2>2, SetStatusTypeOK DEF TradeStatus
        <3>2. QED
            BY <1>3, <3>1 DEF FundTrade, SetStatus
    <2>6. QED
        BY <1>3, <2>4, <2>5 DEF FundTrade, TypeOK, Results
<1>4. QED
    BY <1>2, <1>3

LEMMA SellerStepErrorOk ==
    ASSUME TypeOK, NEW id \in TradeIds, NEW from, NEW caller,
           SellerStepError(id, from, caller) = "Ok"
    PROVE  trades[id] # None /\ trades[id] \in Trade
BY LookupErrorOk DEF SellerStepError

LEMMA SellerStepErrorInResults ==
    ASSUME NEW id \in TradeIds, NEW from, NEW caller
    PROVE  SellerStepError(id, from, caller) \in Results
BY LookupErrorInResults DEF SellerStepError, Results

LEMMA CompleteTradeTypeOK ==
    ASSUME TypeOK, NEW id \in TradeIds, NEW caller \in Addr,
           CompleteTrade(id, caller)
    PROVE  TypeOK'
<1> DEFINE e == SellerStepError(id, {"Funded"}, caller)
<1>1. CASE e # "Ok"
    BY <1>1, SellerStepErrorInResults, RejectTypeOK DEF CompleteTrade
<1>2. CASE e = "Ok"
    <2>1. trades' \in [TradeIds -> Trade \cup {None}]
        <3>1. trades[id] \in Trade
            BY <1>2, SellerStepErrorOk
        <3>2. [trades EXCEPT ![id].status = "Completed"]
                \in [TradeIds -> Trade \cup {None}]
            BY <3>1, SetStatusTypeOK DEF TradeStatus
        <3>3. QED
            BY <1>2, <3>2 DEF CompleteTrade, SetStatus
    <2>2. QED
        BY <1>2, <2>1 DEF CompleteTrade, TypeOK, Results, history
<1>3. QED
    BY <1>1, <1>2

LEMMA CancelTradeTypeOK ==
    ASSUME TypeOK, NEW id \in TradeIds, NEW caller \in Addr,
           CancelTrade(id, caller)
    PROVE  TypeOK'
<1> DEFINE e == SellerStepError(id, {"Created"}, caller)
<1>1. CASE e # "Ok"
    BY <1>1, SellerStepErrorInResults, RejectTypeOK DEF CancelTrade
<1>2. CASE e = "Ok"
    <2>1. trades' \in [TradeIds -> Trade \cup {None}]
        <3>1. trades[id] \in Trade
            BY <1>2, SellerStepErrorOk
        <3>2. [trades EXCEPT ![id].status = "Cancelled"]
                \in [TradeIds -> Trade \cup {None}]
            BY <3>1, SetStatusTypeOK DEF TradeStatus
        <3>3. QED
            BY <1>2, <3>2 DEF CancelTrade, SetStatus
    <2>2. QED
        BY <1>2, <2>1 DEF CancelTrade, TypeOK, Results, history
<1>3. QED
    BY <1>1, <1>2


\* A settlement that passed its checks keeps balances and the fee ledger
\* within their types.
LEMMA SettleTypeOK ==
    ASSUME TypeOK, NEW id \in TradeIds, trades[id] \in Trade,
           NEW recipient \in Addr,
           SettleError(id, recipient) = "Ok", Settle(id, recipient)
    PROVE  TypeOK'
<1> DEFINE t == trades[id]
<1>1. /\ t.fee <= t.amount
      /\ bal[Escrow] >= t.amount - t.fee
      /\ accumulated_fees + t.fee <= U64_MAX
    BY DEF SettleError, TypeOK, Trade, Accounts
<1>2. bal' \in [Accounts -> Nat]
    <2>1. Transfer(bal, Escrow, recipient, t.amount - t.fee) \in [Accounts -> Nat]
        <3>1. /\ Escrow \in Accounts /\ recipient \in Accounts
              /\ t.amount - t.fee \in Nat
              /\ t.amount - t.fee <= bal[Escrow]
            BY <1>1 DEF TypeOK, Trade, Accounts
        <3>2. bal \in [Accounts -> Nat]
            BY DEF TypeOK
        <3>3. QED
            BY <3>1, <3>2, TransferNat
    <2>2. QED
        BY <2>1 DEF Settle
<1>3. accumulated_fees' \in 0..U64_MAX
    BY <1>1 DEF Settle, TypeOK, Trade
<1>4. payouts' \in [TradeIds -> Nat]
    BY DEF Settle, TypeOK
<1>5. QED
    BY <1>2, <1>3, <1>4 DEF Settle, TypeOK, Results

LEMMA ConfirmReceiptTypeOK ==
    ASSUME TypeOK, NEW id \in TradeIds, NEW caller \in Addr,
           ConfirmReceipt(id, caller)
    PROVE  TypeOK'
<1> DEFINE e == ConfirmReceiptError(id, caller)
<1>1. e \in Results
    BY LookupErrorInResults DEF ConfirmReceiptError, SettleError, Results
<1>2. CASE e # "Ok"
    BY <1>1, <1>2, RejectTypeOK DEF ConfirmReceipt
<1>3. CASE e = "Ok"
    <2>1. LookupError(id, {"Completed"}) = "Ok"
        BY <1>3 DEF ConfirmReceiptError
    <2>2. trades[id] \in Trade
        BY <2>1, LookupErrorOk
    <2>3. SettleError(id, trades[id].seller) = "Ok"
        BY <1>3, <2>1 DEF ConfirmReceiptError
    <2>4. QED
        BY <1>3, <2>2, <2>3, SettleTypeOK DEF ConfirmReceipt, Trade
<1>4. QED
    BY <1>2, <1>3

LEMMA RaiseDisputeTypeOK ==
    ASSUME TypeOK, NEW id \in TradeIds, NEW caller \in Addr,
           RaiseDispute(id, caller)
    PROVE  TypeOK'
<1> DEFINE e == RaiseDisputeError(id, caller)
<1>1. e \in Results
    BY LookupErrorInResults DEF RaiseDisputeError, Results
<1>2. CASE e # "Ok"
    BY <1>1, <1>2, RejectTypeOK DEF RaiseDispute
<1>3. CASE e = "Ok"
    <2>1. trades[id] \in Trade
        BY <1>3, LookupErrorOk DEF RaiseDisputeError
    <2>2. [trades EXCEPT ![id].status = "Disputed"]
            \in [TradeIds -> Trade \cup {None}]
        BY <2>1, SetStatusTypeOK DEF TradeStatus
    <2>3. QED
        BY <1>3, <2>2 DEF RaiseDispute, SetStatus, TypeOK, Results, history
<1>4. QED
    BY <1>2, <1>3

LEMMA ResolveDisputeTypeOK ==
    ASSUME TypeOK, NEW id \in TradeIds, NEW r \in DisputeResolution,
           NEW caller \in Addr, ResolveDispute(id, r, caller)
    PROVE  TypeOK'
<1> DEFINE e == ResolveDisputeError(id, r, caller)
<1>1. e \in Results
    BY LookupErrorInResults DEF ResolveDisputeError, SettleError, Results
<1>2. CASE e # "Ok"
    BY <1>1, <1>2, RejectTypeOK DEF ResolveDispute
<1>3. CASE e = "Ok"
    <2>1. LookupError(id, {"Disputed"}) = "Ok"
        BY <1>3 DEF ResolveDisputeError
    <2>2. trades[id] \in Trade
        BY <2>1, LookupErrorOk
    <2>3. SettleError(id, Recipient(id, r)) = "Ok"
        BY <1>3, <2>1 DEF ResolveDisputeError
    <2>4. Recipient(id, r) \in Addr
        BY <2>2 DEF Recipient, Trade
    <2>5. QED
        BY <1>3, <2>2, <2>3, <2>4, SettleTypeOK DEF ResolveDispute
<1>4. QED
    BY <1>2, <1>3

LEMMA NextTypeOK == TypeOK /\ [Next]_vars => TypeOK'
<1> SUFFICES ASSUME TypeOK, [Next]_vars PROVE TypeOK'
    OBVIOUS
<1>1. CASE Next
    <2> PICK caller \in Addr :
            \/ \E adm \in Addr, bps \in FeeChoices : Initialize(adm, bps, caller)
            \/ \E a \in Addr : RegisterArbitrator(a, caller)
            \/ \E a \in Addr : RemoveArbitrator(a, caller)
            \/ \E bps \in FeeChoices : UpdateFee(bps, caller)
            \/ \E to \in Addr : WithdrawFees(to, caller)
            \/ \E seller, buyer \in Addr, amount \in Amounts,
                  arb \in Addr \cup {None} :
                  CreateTrade(seller, buyer, amount, arb, caller)
            \/ \E id \in TradeIds :
                  \/ FundTrade(id, caller)
                  \/ CompleteTrade(id, caller)
                  \/ ConfirmReceipt(id, caller)
                  \/ RaiseDispute(id, caller)
                  \/ \E r \in DisputeResolution : ResolveDispute(id, r, caller)
                  \/ CancelTrade(id, caller)
        BY <1>1 DEF Next
    <2> QED
        BY InitializeTypeOK, RegisterArbitratorTypeOK, RemoveArbitratorTypeOK,
           UpdateFeeTypeOK, WithdrawFeesTypeOK, CreateTradeTypeOK,
           FundTradeTypeOK, CompleteTradeTypeOK, ConfirmReceiptTypeOK,
           RaiseDisputeTypeOK, ResolveDisputeTypeOK, CancelTradeTypeOK
<1>2. CASE UNCHANGED vars
    BY <1>2 DEF TypeOK, vars, state, history
<1>3. QED
    BY <1>1, <1>2

\* Type correctness: every reachable state gives each variable a value of
\* its Rust type; in particular no token balance goes negative and neither
\* trade_counter nor accumulated_fees leaves the u64 range, whatever the
\* order of the calls of the admin, sellers, buyers and arbitrators.
THEOREM TypeCorrect == Spec => []TypeOK
BY InitTypeOK, NextTypeOK, PTL DEF Spec


-----------------------------------------------------------------------------
(* Fees never exceed amounts.  FeeWithinAmount alone is not inductive: a   *)
(* trade created under a fee rate above 10000 would break it, so the       *)
(* inductive invariant adds the bound on fee_bps that initialize and       *)
(* update_fee enforce.                                                     *)

FeeRateValid == fee_bps \in 0..BPS_DENOM
FeeInv == TypeOK /\ FeeRateValid /\ FeeWithinAmount

\* floor(amount * bps / 10000) <= amount when bps <= 10000.
LEMMA ComputeFeeAtMostAmount ==
    ASSUME NEW a \in Nat, NEW b \in 0..BPS_DENOM
    PROVE  ComputeFee(a, b) <= a
<1>1. a * b <= a * BPS_DENOM
    OBVIOUS
<1>2. (a * b) \div BPS_DENOM <= (a * BPS_DENOM) \div BPS_DENOM
    BY <1>1
<1>3. (a * BPS_DENOM) \div BPS_DENOM = a
    OBVIOUS
<1>4. QED
    BY <1>2, <1>3 DEF ComputeFee

\* A step that leaves the trades and the fee rate alone keeps both parts.
LEMMA FeeUnchanged ==
    ASSUME FeeInv, trades' = trades, fee_bps' = fee_bps
    PROVE  (FeeRateValid /\ FeeWithinAmount)'
BY DEF FeeInv, FeeRateValid, FeeWithinAmount, Stored

\* A step that only stores a trade back with another status keeps the fees.
LEMMA FeeSetStatus ==
    ASSUME FeeInv, NEW id \in TradeIds, trades[id] # None,
           trades[id] \in Trade, NEW s \in TradeStatus,
           trades' = [trades EXCEPT ![id].status = s], fee_bps' = fee_bps
    PROVE  (FeeRateValid /\ FeeWithinAmount)'
<1>1. FeeRateValid'
    BY DEF FeeInv, FeeRateValid
<1>2. ASSUME NEW t \in TradeIds, Stored(t)'
      PROVE  trades'[t].fee <= trades'[t].amount
    <2>1. CASE t = id
        <3>1. trades'[t] = [trades[id] EXCEPT !.status = s]
            BY <2>1 DEF FeeInv, TypeOK
        <3>2. trades[id].fee <= trades[id].amount
            BY DEF FeeInv, FeeWithinAmount, Stored
        <3>3. QED
            BY <3>1, <3>2 DEF Trade
    <2>2. CASE t # id
        <3>1. trades'[t] = trades[t]
            BY <2>2 DEF FeeInv, TypeOK
        <3>2. QED
            BY <1>2, <3>1 DEF FeeInv, FeeWithinAmount, Stored
    <2>3. QED
        BY <2>1, <2>2
<1>3. QED
    BY <1>1, <1>2 DEF FeeWithinAmount

LEMMA RejectFee ==
    ASSUME FeeInv, NEW e, Reject(e)
    PROVE  (FeeRateValid /\ FeeWithinAmount)'
BY FeeUnchanged DEF Reject, state

LEMMA NextFeeInv == FeeInv /\ [Next]_vars => FeeInv'
<1> SUFFICES ASSUME FeeInv, [Next]_vars PROVE FeeInv'
    OBVIOUS
<1>1. TypeOK'
    BY NextTypeOK DEF FeeInv
<1> USE DEF FeeInv
<1>2. CASE UNCHANGED vars
    BY <1>1, <1>2, FeeUnchanged DEF vars, state
<1>3. ASSUME NEW caller \in Addr, NEW adm \in Addr, NEW bps \in FeeChoices,
             Initialize(adm, bps, caller)
      PROVE  FeeInv'
    <2>1. CASE InitializeError(adm, bps, caller) # "Ok"
        BY <1>1, <1>3, <2>1, RejectFee DEF Initialize
    <2>2. CASE InitializeError(adm, bps, caller) = "Ok"
        <3>1. bps \in 0..BPS_DENOM
            BY <2>2 DEF InitializeError
        <3>2. QED
            BY <1>1, <1>3, <2>2, <3>1
            DEF Initialize, FeeRateValid, FeeWithinAmount, Stored
    <2>3. QED
        BY <2>1, <2>2
<1>4. ASSUME NEW caller \in Addr, NEW a \in Addr,
             RegisterArbitrator(a, caller) \/ RemoveArbitrator(a, caller)
      PROVE  FeeInv'
    BY <1>1, <1>4, RejectFee, FeeUnchanged
    DEF RegisterArbitrator, RemoveArbitrator
<1>5. ASSUME NEW caller \in Addr, NEW bps \in FeeChoices, UpdateFee(bps, caller)
      PROVE  FeeInv'
    <2>1. CASE UpdateFeeError(bps, caller) # "Ok"
        BY <1>1, <1>5, <2>1, RejectFee DEF UpdateFee
    <2>2. CASE UpdateFeeError(bps, caller) = "Ok"
        <3>1. bps \in 0..BPS_DENOM
            BY <2>2 DEF UpdateFeeError
        <3>2. QED
            BY <1>1, <1>5, <2>2, <3>1
            DEF UpdateFee, FeeRateValid, FeeWithinAmount, Stored
    <2>3. QED
        BY <2>1, <2>2
<1>6. ASSUME NEW caller \in Addr, NEW to \in Addr, WithdrawFees(to, caller)
      PROVE  FeeInv'
    BY <1>1, <1>6, RejectFee, FeeUnchanged DEF WithdrawFees
<1>7. ASSUME NEW caller \in Addr, NEW seller \in Addr, NEW buyer \in Addr,
             NEW amount \in Amounts, NEW arb \in Addr \cup {None},
             CreateTrade(seller, buyer, amount, arb, caller)
      PROVE  FeeInv'
    <2> DEFINE e == CreateTradeError(seller, buyer, amount, arb, caller)
               id == trade_counter + 1
               new == [seller |-> seller, buyer |-> buyer, amount |-> amount,
                       fee |-> ComputeFee(amount, fee_bps),
                       arbitrator |-> arb, status |-> "Created"]
    <2>1. CASE e # "Ok"
        BY <1>1, <1>7, <2>1, RejectFee DEF CreateTrade
    <2>2. CASE e = "Ok"
        <3>1. trades' = [trades EXCEPT ![id] = new] /\ fee_bps' = fee_bps
            BY <1>7, <2>2 DEF CreateTrade
        <3>2. new.fee <= new.amount
            BY ComputeFeeAtMostAmount DEF TypeOK, FeeRateValid
        <3>3. QED
            BY <1>1, <3>1, <3>2 DEF FeeRateValid, FeeWithinAmount, Stored, TypeOK
    <2>3. QED
        BY <2>1, <2>2
<1>8. ASSUME NEW caller \in Addr, NEW id \in TradeIds,
             \/ FundTrade(id, caller)
             \/ CompleteTrade(id, caller)
             \/ CancelTrade(id, caller)
             \/ RaiseDispute(id, caller)
      PROVE  FeeInv'
    <2>1. CASE FundTrade(id, caller)
        <3>1. CASE FundTradeError(id, caller) # "Ok"
            BY <1>1, <2>1, <3>1, RejectFee DEF FundTrade
        <3>2. CASE FundTradeError(id, caller) = "Ok"
            <4>1. trades[id] # None /\ trades[id] \in Trade
                BY <3>2, LookupErrorOk DEF FundTradeError
            <4>2. QED
                BY <1>1, <2>1, <3>2, <4>1, FeeSetStatus
                DEF FundTrade, SetStatus, TradeStatus
        <3>3. QED
            BY <3>1, <3>2
    <2>2. CASE CompleteTrade(id, caller)
        <3>1. CASE SellerStepError(id, {"Funded"}, caller) # "Ok"
            BY <1>1, <2>2, <3>1, RejectFee DEF CompleteTrade
        <3>2. CASE SellerStepError(id, {"Funded"}, caller) = "Ok"
            BY <1>1, <2>2, <3>2, SellerStepErrorOk, FeeSetStatus
            DEF CompleteTrade, SetStatus, TradeStatus
        <3>3. QED
            BY <3>1, <3>2
    <2>3. CASE CancelTrade(id, caller)
        <3>1. CASE SellerStepError(id, {"Created"}, caller) # "Ok"
            BY <1>1, <2>3, <3>1, RejectFee DEF CancelTrade
        <3>2. CASE SellerStepError(id, {"Created"}, caller) = "Ok"
            BY <1>1, <2>3, <3>2, SellerStepErrorOk, FeeSetStatus
            DEF CancelTrade, SetStatus, TradeStatus
        <3>3. QED
            BY <3>1, <3>2
    <2>4. CASE RaiseDispute(id, caller)
        <3>1. CASE RaiseDisputeError(id, caller) # "Ok"
            BY <1>1, <2>4, <3>1, RejectFee DEF RaiseDispute
        <3>2. CASE RaiseDisputeError(id, caller) = "Ok"
            <4>1. trades[id] # None /\ trades[id] \in Trade
                BY <3>2, LookupErrorOk DEF RaiseDisputeError
            <4>2. QED
                BY <1>1, <2>4, <3>2, <4>1, FeeSetStatus
                DEF RaiseDispute, SetStatus, TradeStatus
        <3>3. QED
            BY <3>1, <3>2
    <2>5. QED
        BY <1>8, <2>1, <2>2, <2>3, <2>4
<1>9. ASSUME NEW caller \in Addr, NEW id \in TradeIds,
             \/ ConfirmReceipt(id, caller)
             \/ \E r \in DisputeResolution : ResolveDispute(id, r, caller)
      PROVE  FeeInv'
    \* A settlement never stores the trade: trades and fee_bps stay.
    BY <1>1, <1>9, RejectFee, FeeUnchanged
    DEF ConfirmReceipt, ResolveDispute, Settle
<1>10. CASE Next
    BY <1>3, <1>4, <1>5, <1>6, <1>7, <1>8, <1>9, <1>10 DEF Next
<1>11. QED
    BY <1>2, <1>10

\* Fees never exceed amounts: for every stored trade fee <= amount, so the
\* amount.checked_sub(fee) of confirm_receipt and resolve_dispute never
\* returns Overflow, whatever sequence of update_fee calls came before the
\* trade's create_trade.
THEOREM FeeWithinAmountHolds == Spec => []FeeWithinAmount
<1>1. Init => FeeInv
    BY InitTypeOK DEF Init, FeeInv, FeeRateValid, FeeWithinAmount, Stored
<1>2. FeeInv => FeeWithinAmount
    BY DEF FeeInv
<1>3. QED
    BY <1>1, <1>2, NextFeeInv, PTL DEF Spec

=============================================================================
