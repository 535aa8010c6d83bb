------------------------------ MODULE BookProofs ------------------------------
(***************************************************************************)
(* Proof that Escrow implements TradeBook under the refinement mapping     *)
(* book <- BookOf(trade_counter), fees <- accumulated_fees (the instance   *)
(* Book of Escrow).  The mapping reads the trades under ids 1 ..           *)
(* trade_counter, so it needs the counter within the ids and the ids       *)
(* dense (TradeIdsDense, from LifeInv); create_trade's step is an append   *)
(* only because the trade it stores is typed and has its fee within its   *)
(* amount (FeeInv); initialize is a stutter only because nothing was       *)
(* created and nothing accrued before it.                                  *)
(***************************************************************************)
EXTENDS LifecycleProofs, SequenceTheorems

USE EscrowAssumptions, NoneIsNoTrade

\* create_trade stops at the model's last id.
CounterBounded == trade_counter <= MaxTrades

\* Before initialize, no settlement has booked a fee.
UninitNoFees == ~initialized => accumulated_fees = 0

BookInv == LifeInv /\ FeeInv /\ CounterBounded /\ UninitNoFees

bk == <<BookOf(trade_counter), accumulated_fees>>

-----------------------------------------------------------------------------
(* The two new conjuncts are inductive given LifeInv and FeeInv.          *)

\* The calls that write neither the counter, the fee ledger nor the flag.
LEMMA CounterFeesKept ==
    ASSUME NEW caller \in Addr,
           \/ \E a \in Addr : RegisterArbitrator(a, caller)
           \/ \E a \in Addr : RemoveArbitrator(a, caller)
           \/ \E bps \in FeeChoices : UpdateFee(bps, caller)
           \/ \E id \in TradeIds :
                 \/ FundTrade(id, caller)
                 \/ CompleteTrade(id, caller)
                 \/ RaiseDispute(id, caller)
                 \/ CancelTrade(id, caller)
    PROVE  UNCHANGED <<trade_counter, accumulated_fees, initialized>>
BY DEF RegisterArbitrator, RemoveArbitrator, UpdateFee, FundTrade,
       CompleteTrade, RaiseDispute, CancelTrade, Reject, state

LEMMA SettleCounterFees ==
    ASSUME BookInv, NEW id \in TradeIds, NEW caller \in Addr,
           \/ ConfirmReceipt(id, caller)
           \/ \E r \in DisputeResolution : ResolveDispute(id, r, caller)
    PROVE  (CounterBounded /\ UninitNoFees)'
<1>1. CASE ConfirmReceipt(id, caller)
    <2>1. CASE ConfirmReceiptError(id, caller) # "Ok"
        BY <1>1, <2>1 DEF ConfirmReceipt, Reject, state, BookInv,
                          CounterBounded, UninitNoFees
    <2>2. CASE ConfirmReceiptError(id, caller) = "Ok"
        <3>1. initialized
            BY <2>2, LookupErrorOk DEF ConfirmReceiptError, BookInv, LifeInv
        <3>2. QED
            BY <1>1, <2>2, <3>1 DEF ConfirmReceipt, Settle, BookInv,
                                    CounterBounded, UninitNoFees
    <2>3. QED
        BY <2>1, <2>2
<1>2. ASSUME NEW r \in DisputeResolution, ResolveDispute(id, r, caller)
      PROVE  (CounterBounded /\ UninitNoFees)'
    <2>1. CASE ResolveDisputeError(id, r, caller) # "Ok"
        BY <1>2, <2>1 DEF ResolveDispute, Reject, state, BookInv,
                          CounterBounded, UninitNoFees
    <2>2. CASE ResolveDisputeError(id, r, caller) = "Ok"
        <3>1. initialized
            BY <2>2, LookupErrorOk DEF ResolveDisputeError, BookInv, LifeInv
        <3>2. QED
            BY <1>2, <2>2, <3>1 DEF ResolveDispute, Settle, BookInv,
                                    CounterBounded, UninitNoFees
    <2>3. QED
        BY <2>1, <2>2
<1>3. QED
    BY <1>1, <1>2

LEMMA NextCounterFees ==
    ASSUME BookInv, [Next]_vars
    PROVE  (CounterBounded /\ UninitNoFees)'
<1> USE DEF BookInv, CounterBounded, UninitNoFees
<1>1. CASE UNCHANGED vars
    BY <1>1 DEF vars, state
<1>2. ASSUME NEW caller \in Addr, NEW adm \in Addr, NEW bps \in FeeChoices,
             Initialize(adm, bps, caller)
      PROVE  (CounterBounded /\ UninitNoFees)'
    BY <1>2 DEF Initialize, Reject, state
<1>3. ASSUME NEW caller \in Addr, NEW to \in Addr, WithdrawFees(to, caller)
      PROVE  (CounterBounded /\ UninitNoFees)'
    BY <1>3 DEF WithdrawFees, Reject, state
<1>4. ASSUME NEW caller \in Addr, NEW seller \in Addr, NEW buyer \in Addr,
             NEW amount \in Amounts, NEW arb \in Addr \cup {None},
             CreateTrade(seller, buyer, amount, arb, caller)
      PROVE  (CounterBounded /\ UninitNoFees)'
    BY <1>4 DEF CreateTrade, Reject, state, LifeInv, TypeOK
<1>5. CASE Next
    <2> PICK caller \in Addr :
            \/ \E adm \in Addr, bps \in FeeChoices : Initialize(adm, bps, caller)
            \/ \E a \in Addr : RegisterArbitrator(a, caller)
            \/ \E a \in Addr : RemoveArbitrator(a, caller)
            \/ \E bps \in FeeChoices : UpdateFee(bps, caller)
            \/ \E to \in Addr : WithdrawFees(to, caller)
            \/ \E seller, buyer \in Addr, amount \in Amounts,
                  arb \in Addr \cup {None} :
                  CreateTrade(seller, buyer, amount, arb, caller)
            \/ \E id \in TradeIds :
                  \/ FundTrade(id, caller)
                  \/ CompleteTrade(id, caller)
                  \/ ConfirmReceipt(id, caller)
                  \/ RaiseDispute(id, caller)
                  \/ \E r \in DisputeResolution : ResolveDispute(id, r, caller)
                  \/ CancelTrade(id, caller)
        BY <1>5 DEF Next
    <2>1. ASSUME \/ \E a \in Addr : RegisterArbitrator(a, caller)
                 \/ \E a \in Addr : RemoveArbitrator(a, caller)
                 \/ \E bps \in FeeChoices : UpdateFee(bps, caller)
                 \/ \E id \in TradeIds :
                       \/ FundTrade(id, caller)
                       \/ CompleteTrade(id, caller)
                       \/ RaiseDispute(id, caller)
                       \/ CancelTrade(id, caller)
          PROVE  (CounterBounded /\ UninitNoFees)'
        BY <2>1, CounterFeesKept
    <2>2. QED
        BY <1>2, <1>3, <1>4, <2>1, SettleCounterFees
<1>6. QED
    BY <1>1, <1>5

LEMMA NextBookInv == BookInv /\ [Next]_vars => BookInv'
BY NextLifeInv, NextFeeInv, NextCounterFees DEF BookInv

LEMMA InitBookInv == Init => BookInv
BY InitLifeInv, InitTypeOK
   DEF Init, BookInv, FeeInv, FeeRateValid, FeeWithinAmount, Stored,
       CounterBounded, UninitNoFees

-----------------------------------------------------------------------------
(* The book under the mapping, and one lemma per kind of abstract step.   *)

\* A function on 1..n is a sequence of length n.
LEMMA FunIsSeq ==
    ASSUME NEW S, NEW n \in Nat, NEW f \in [1..n -> S]
    PROVE  f \in Seq(S) /\ Len(f) = n
<1>1. f \in Seq(S)
    BY SeqDef
<1>2. DOMAIN f = 1..Len(f) /\ Len(f) \in Nat
    BY <1>1, LenProperties
<1>3. QED
    BY <1>1, <1>2

\* The book holds exactly the trades issued so far, each a Trade.
LEMMA BookShape ==
    ASSUME BookInv
    PROVE  /\ Len(BookOf(trade_counter)) = trade_counter
           /\ BookOf(trade_counter) \in Seq(Trade)
           /\ \A i \in 1..trade_counter : i \in TradeIds /\ Stored(i)
<1>1. trade_counter \in Nat /\ trade_counter <= MaxTrades
    BY DEF BookInv, LifeInv, TypeOK, CounterBounded
<1>2. \A i \in 1..trade_counter : i \in TradeIds /\ Stored(i)
    BY <1>1 DEF BookInv, LifeInv, LifeRest, TradeIdsDense, TradeIds
<1>3. \A i \in 1..trade_counter : trades[i] \in Trade
    BY <1>2 DEF BookInv, LifeInv, TypeOK, Stored
<1>4. BookOf(trade_counter) \in [1..trade_counter -> Trade]
    BY <1>3 DEF BookOf
<1>5. QED
    BY <1>1, <1>2, <1>4, FunIsSeq

\* A step that writes neither trades, the counter nor the fee ledger.
LEMMA BookStutter ==
    ASSUME trades' = trades, trade_counter' = trade_counter,
           accumulated_fees' = accumulated_fees
    PROVE  UNCHANGED bk
BY DEF bk, BookOf

\* Storing one issued trade back with its next status is Move.
LEMMA BookMove ==
    ASSUME BookInv, NEW id \in TradeIds, Stored(id), NEW s \in TradeStatus,
           <<trades[id].status, s>> \in StatusMoves,
           trades' = [trades EXCEPT ![id].status = s],
           trade_counter' = trade_counter, accumulated_fees' = accumulated_fees
    PROVE  Book!Next
<1> DEFINE b == BookOf(trade_counter)
<1>1. id \in 1..Len(b)
    <2>1. id \in 1..trade_counter
        BY DEF BookInv, LifeInv, LifeRest, TradeIdsDense, TradeIds
    <2>2. QED
        BY <2>1, BookShape
<1>2. b[id].status = trades[id].status
    BY <1>1, BookShape DEF BookOf
<1>3. BookOf(trade_counter)' = [b EXCEPT ![id].status = s]
    <2>1. id \in DOMAIN trades /\ trades[id] \in Trade
        BY DEF BookInv, LifeInv, TypeOK, Stored
    <2>2. trades'[id] = [trades[id] EXCEPT !.status = s]
        BY <2>1
    <2>3. \A i \in DOMAIN trades \ {id} : trades'[i] = trades[i]
        OBVIOUS
    <2>4. id \in 1..trade_counter
        BY <1>1, BookShape
    <2>5. \A i \in 1..trade_counter : i \in DOMAIN trades
        BY BookShape DEF BookInv, LifeInv, TypeOK
    <2>6. QED
        BY <2>2, <2>3, <2>4, <2>5 DEF BookOf
<1>4. Book!Move(id, s)
    BY <1>2, <1>3 DEF Book!Move, Book!Lifecycle, StatusMoves
<1>5. s \in Book!Statuses
    BY DEF Book!Statuses, TradeStatus
<1>6. QED
    BY <1>1, <1>4, <1>5 DEF Book!Next

\* Booking a Completed or Disputed trade's fee is Accrue.
LEMMA BookAccrue ==
    ASSUME BookInv, NEW id \in TradeIds, Stored(id),
           trades[id].status \in {"Completed", "Disputed"},
           trades' = trades, trade_counter' = trade_counter,
           accumulated_fees' = accumulated_fees + trades[id].fee
    PROVE  Book!Next
<1> DEFINE b == BookOf(trade_counter)
<1>1. id \in 1..Len(b)
    <2>1. id \in 1..trade_counter
        BY DEF BookInv, LifeInv, LifeRest, TradeIdsDense, TradeIds
    <2>2. QED
        BY <2>1, BookShape
<1>2. b[id] = trades[id]
    BY <1>1, BookShape DEF BookOf
<1>3. BookOf(trade_counter)' = b
    BY DEF BookOf
<1>4. Book!Accrue(id)
    BY <1>2, <1>3 DEF Book!Accrue
<1>5. QED
    BY <1>1, <1>4 DEF Book!Next

\* Zeroing a non-empty fee ledger is Withdraw.
LEMMA BookWithdraw ==
    ASSUME trades' = trades, trade_counter' = trade_counter,
           accumulated_fees > 0, accumulated_fees' = 0
    PROVE  Book!Next
BY DEF Book!Next, Book!Withdraw, BookOf

\* Storing a new Created trade under the next id is Open.
LEMMA BookOpen ==
    ASSUME BookInv, NEW new \in Trade, new.status = "Created",
           new.fee <= new.amount, trade_counter + 1 \in TradeIds,
           trades' = [trades EXCEPT ![trade_counter + 1] = new],
           trade_counter' = trade_counter + 1,
           accumulated_fees' = accumulated_fees
    PROVE  Book!Next
<1> DEFINE b == BookOf(trade_counter)
           n == trade_counter + 1
<1>1. Len(b) = trade_counter /\ b \in Seq(Trade)
    BY BookShape
<1>2. trade_counter \in Nat
    BY DEF BookInv, LifeInv, TypeOK
<1>3. BookOf(trade_counter)' = [i \in 1..n |-> trades'[i]]
    BY DEF BookOf
<1>4. \A i \in 1..trade_counter : trades'[i] = trades[i]
    BY <1>2 DEF BookInv, LifeInv, TypeOK
<1>5. trades'[n] = new
    BY DEF BookInv, LifeInv, TypeOK
<1>6. [i \in 1..n |-> trades'[i]] = Append(b, new)
    BY <1>1, <1>2, <1>4, <1>5 DEF BookOf
<1>7. Len(BookOf(trade_counter)') = Len(b) + 1
    BY <1>1, <1>2, <1>3, <1>6
<1>8. BookOf(trade_counter)'[Len(BookOf(trade_counter)')] = new
    BY <1>1, <1>2, <1>3, <1>5, <1>7
<1>9. Book!Open
    BY <1>3, <1>6, <1>7, <1>8 DEF Book!Open
<1>10. QED
    BY <1>9 DEF Book!Next

-----------------------------------------------------------------------------
(* Each call of the contract, as a step of the book.                      *)

LEMMA RejectBook ==
    ASSUME NEW e, Reject(e)
    PROVE  UNCHANGED bk
BY BookStutter DEF Reject, state

\* initialize runs on an empty store and an empty ledger.
LEMMA InitializeBook ==
    ASSUME BookInv, NEW adm \in Addr, NEW bps \in FeeChoices, NEW caller \in Addr,
           Initialize(adm, bps, caller)
    PROVE  UNCHANGED bk
<1>1. CASE InitializeError(adm, bps, caller) # "Ok"
    BY <1>1, RejectBook DEF Initialize
<1>2. CASE InitializeError(adm, bps, caller) = "Ok"
    <2>1. trade_counter = 0 /\ accumulated_fees = 0
        BY <1>2 DEF InitializeError, BookInv, LifeInv, LifeRest, UninitEmpty,
                    UninitNoFees
    <2>2. QED
        BY <1>2, <2>1 DEF Initialize, bk, BookOf
<1>3. QED
    BY <1>1, <1>2

LEMMA ConfigCallsBook ==
    ASSUME NEW caller \in Addr,
           \/ \E a \in Addr : RegisterArbitrator(a, caller)
           \/ \E a \in Addr : RemoveArbitrator(a, caller)
           \/ \E bps \in FeeChoices : UpdateFee(bps, caller)
    PROVE  UNCHANGED bk
<1>1. UNCHANGED <<trades, trade_counter, accumulated_fees>>
    BY DEF RegisterArbitrator, RemoveArbitrator, UpdateFee, Reject, state
<1>2. QED
    BY <1>1, BookStutter

LEMMA WithdrawFeesBook ==
    ASSUME TypeOK, NEW to \in Addr, NEW caller \in Addr, WithdrawFees(to, caller)
    PROVE  [Book!Next]_bk
<1>1. CASE WithdrawFeesError(to, caller) # "Ok"
    BY <1>1, RejectBook DEF WithdrawFees
<1>2. CASE WithdrawFeesError(to, caller) = "Ok"
    <2>1. accumulated_fees > 0
        BY <1>2 DEF WithdrawFeesError, TypeOK
    <2>2. QED
        BY <1>2, <2>1, BookWithdraw DEF WithdrawFees
<1>3. QED
    BY <1>1, <1>2

\* The trade create_trade stores is typed and within its fee bound because
\* the next state satisfies BookInv.
LEMMA CreateTradeBook ==
    ASSUME BookInv, BookInv', NEW seller \in Addr, NEW buyer \in Addr,
           NEW amount \in Amounts, NEW arb \in Addr \cup {None},
           NEW caller \in Addr,
           CreateTrade(seller, buyer, amount, arb, caller)
    PROVE  [Book!Next]_bk
<1> DEFINE e == CreateTradeError(seller, buyer, amount, arb, caller)
           n == trade_counter + 1
           new == [seller |-> seller, buyer |-> buyer, amount |-> amount,
                   fee |-> ComputeFee(amount, fee_bps),
                   arbitrator |-> arb, status |-> "Created"]
<1>1. CASE e # "Ok"
    BY <1>1, RejectBook DEF CreateTrade
<1>2. CASE e = "Ok"
    <2>1. /\ trades' = [trades EXCEPT ![n] = new]
          /\ trade_counter' = n
          /\ accumulated_fees' = accumulated_fees
        BY <1>2 DEF CreateTrade
    <2>2. n \in TradeIds
        BY DEF CreateTrade, TradeIds, BookInv, LifeInv, TypeOK
    <2>3. trades'[n] = new
        BY <2>1, <2>2 DEF BookInv, LifeInv, TypeOK
    <2>4. trades'[n] # None
        <3>1. \A t \in TradeIds : trades'[t] # None <=> t <= trade_counter'
            BY DEF BookInv, LifeInv, LifeRest, TradeIdsDense, Stored
        <3>2. QED
            BY <2>1, <2>2, <3>1
    <2>5. new \in Trade
        BY <2>2, <2>3, <2>4 DEF BookInv, LifeInv, TypeOK
    <2>6. new.fee <= new.amount
        BY <2>2, <2>3, <2>4 DEF BookInv, FeeInv, FeeWithinAmount, Stored
    <2>7. QED
        BY <2>1, <2>2, <2>5, <2>6, BookOpen
<1>3. QED
    BY <1>1, <1>2

\* The four calls that store a trade back with a new status.
LEMMA StatusCallBook ==
    ASSUME BookInv, NEW id \in TradeIds, NEW caller \in Addr,
           \/ FundTrade(id, caller)
           \/ CompleteTrade(id, caller)
           \/ RaiseDispute(id, caller)
           \/ CancelTrade(id, caller)
    PROVE  [Book!Next]_bk
<1> USE DEF BookInv, LifeInv
<1>1. ASSUME NEW from, NEW s \in TradeStatus,
             \A st \in from : <<st, s>> \in StatusMoves,
             LookupError(id, from) = "Ok",
             trades' = [trades EXCEPT ![id].status = s],
             trade_counter' = trade_counter, accumulated_fees' = accumulated_fees
      PROVE  Book!Next
    <2>1. Stored(id) /\ trades[id].status \in from
        BY <1>1, LookupErrorOk DEF Stored
    <2>2. QED
        BY <1>1, <2>1, BookMove
<1>2. CASE FundTrade(id, caller)
    <2>1. CASE FundTradeError(id, caller) # "Ok"
        BY <1>2, <2>1, RejectBook DEF FundTrade
    <2>2. CASE FundTradeError(id, caller) = "Ok"
        BY <1>2, <2>2, <1>1
        DEF FundTrade, FundTradeError, SetStatus, StatusMoves, TradeStatus
    <2>3. QED
        BY <2>1, <2>2
<1>3. CASE CompleteTrade(id, caller)
    <2>1. CASE SellerStepError(id, {"Funded"}, caller) # "Ok"
        BY <1>3, <2>1, RejectBook DEF CompleteTrade
    <2>2. CASE SellerStepError(id, {"Funded"}, caller) = "Ok"
        BY <1>3, <2>2, <1>1
        DEF CompleteTrade, SellerStepError, SetStatus, StatusMoves, TradeStatus
    <2>3. QED
        BY <2>1, <2>2
<1>4. CASE RaiseDispute(id, caller)
    <2>1. CASE RaiseDisputeError(id, caller) # "Ok"
        BY <1>4, <2>1, RejectBook DEF RaiseDispute
    <2>2. CASE RaiseDisputeError(id, caller) = "Ok"
        BY <1>4, <2>2, <1>1
        DEF RaiseDispute, RaiseDisputeError, SetStatus, StatusMoves, TradeStatus
    <2>3. QED
        BY <2>1, <2>2
<1>5. CASE CancelTrade(id, caller)
    <2>1. CASE SellerStepError(id, {"Created"}, caller) # "Ok"
        BY <1>5, <2>1, RejectBook DEF CancelTrade
    <2>2. CASE SellerStepError(id, {"Created"}, caller) = "Ok"
        BY <1>5, <2>2, <1>1
        DEF CancelTrade, SellerStepError, SetStatus, StatusMoves, TradeStatus
    <2>3. QED
        BY <2>1, <2>2
<1>6. QED
    BY <1>2, <1>3, <1>4, <1>5

\* confirm_receipt and resolve_dispute book the fee of the trade they settle.
LEMMA SettleCallBook ==
    ASSUME BookInv, NEW id \in TradeIds, NEW caller \in Addr,
           \/ ConfirmReceipt(id, caller)
           \/ \E r \in DisputeResolution : ResolveDispute(id, r, caller)
    PROVE  [Book!Next]_bk
<1>1. ASSUME NEW from, from \subseteq {"Completed", "Disputed"},
             LookupError(id, from) = "Ok", NEW rcp, Settle(id, rcp)
      PROVE  Book!Next
    <2>1. Stored(id) /\ trades[id].status \in {"Completed", "Disputed"}
        BY <1>1, LookupErrorOk DEF BookInv, LifeInv, Stored
    <2>2. QED
        BY <1>1, <2>1, BookAccrue DEF Settle
<1>2. CASE ConfirmReceipt(id, caller)
    <2>1. CASE ConfirmReceiptError(id, caller) # "Ok"
        BY <1>2, <2>1, RejectBook DEF ConfirmReceipt
    <2>2. CASE ConfirmReceiptError(id, caller) = "Ok"
        BY <1>2, <2>2, <1>1 DEF ConfirmReceipt, ConfirmReceiptError
    <2>3. QED
        BY <2>1, <2>2
<1>3. ASSUME NEW r \in DisputeResolution, ResolveDispute(id, r, caller)
      PROVE  [Book!Next]_bk
    <2>1. CASE ResolveDisputeError(id, r, caller) # "Ok"
        BY <1>3, <2>1, RejectBook DEF ResolveDispute
    <2>2. CASE ResolveDisputeError(id, r, caller) = "Ok"
        BY <1>3, <2>2, <1>1 DEF ResolveDispute, ResolveDisputeError
    <2>3. QED
        BY <2>1, <2>2
<1>4. QED
    BY <1>2, <1>3

-----------------------------------------------------------------------------
\* Every step of Escrow, from a state of BookInv to one, is a step of the
\* book or leaves the book and the ledger alone.
LEMMA NextRefinesBook ==
    ASSUME BookInv, BookInv', [Next]_vars
    PROVE  [Book!Next]_bk
<1>1. CASE UNCHANGED vars
    BY <1>1, BookStutter DEF vars, state
<1>2. CASE Next
    <2> PICK caller \in Addr :
            \/ \E adm \in Addr, bps \in FeeChoices : Initialize(adm, bps, caller)
            \/ \E a \in Addr : RegisterArbitrator(a, caller)
            \/ \E a \in Addr : RemoveArbitrator(a, caller)
            \/ \E bps \in FeeChoices : UpdateFee(bps, caller)
            \/ \E to \in Addr : WithdrawFees(to, caller)
            \/ \E seller, buyer \in Addr, amount \in Amounts,
                  arb \in Addr \cup {None} :
                  CreateTrade(seller, buyer, amount, arb, caller)
            \/ \E id \in TradeIds :
                  \/ FundTrade(id, caller)
                  \/ CompleteTrade(id, caller)
                  \/ ConfirmReceipt(id, caller)
                  \/ RaiseDispute(id, caller)
                  \/ \E r \in DisputeResolution : ResolveDispute(id, r, caller)
                  \/ CancelTrade(id, caller)
        BY <1>2 DEF Next
    <2>1. TypeOK
        BY DEF BookInv, LifeInv
    <2>2. QED
        BY <2>1, InitializeBook, ConfigCallsBook, WithdrawFeesBook,
           CreateTradeBook, StatusCallBook, SettleCallBook
<1>3. QED
    BY <1>1, <1>2

\* The contract implements TradeBook: create_trade appends one trade, born
\* Created with its fee within its amount, under the next id; no trade is
\* ever removed, replaced or reissued; each call moves at most one trade's
\* status, along the lifecycle table, and changes nothing else of it; the
\* fee ledger grows only by the fee of a Completed or Disputed trade that
\* confirm_receipt or resolve_dispute settles, and falls only to zero, by
\* withdraw_fees.
THEOREM BookRefinement == Spec => BookRefined
<1>1. Init => BookInv
    BY InitBookInv
<1>2. Init => Book!Init
    BY DEF Init, Book!Init, BookOf
<1>3. BookInv /\ BookInv' /\ [Next]_vars => [Book!Next]_bk
    BY NextRefinesBook
<1>4. QED
    BY <1>1, <1>2, <1>3, NextBookInv, PTL
    DEF Spec, BookRefined, Book!Spec, bk, Book!bvars

=============================================================================
