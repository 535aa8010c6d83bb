------------------------------ MODULE TradeBook ------------------------------
(***************************************************************************)
(* What the escrow promises of its trade store and its fee ledger (spec,   *)
(* "Trade", the ordering guarantee and "Fee Ledger"): trades form a book   *)
(* appended to in commit order, so the i-th trade ever created has id i,   *)
(* and no entry is removed, replaced or reused; one operation appends one  *)
(* trade, born Created with a fee of at most its amount, or moves one      *)
(* trade's status along the lifecycle table, and no other field of a trade *)
(* ever changes.  The ledger grows only by the fee of a trade that is      *)
(* Completed or Disputed, and drops only when it is withdrawn whole.       *)
(***************************************************************************)
EXTENDS Naturals, Sequences

CONSTANTS
    Entry        \* the trade records (with status, amount and fee fields)

VARIABLES
    book,        \* the trades in creation order: book[i] is trade id i
    fees         \* the fee ledger

bvars == <<book, fees>>

Statuses == {"Created", "Funded", "Completed", "Disputed", "Cancelled"}

\* The lifecycle table.
Lifecycle == {<<"Created", "Funded">>, <<"Created", "Cancelled">>,
              <<"Funded", "Completed">>, <<"Funded", "Disputed">>,
              <<"Completed", "Disputed">>}

Init == book = <<>> /\ fees = 0

\* A new trade is appended at the end of the book: its id is the next one.
Open ==
    /\ Len(book') = Len(book) + 1
    /\ LET tr == book'[Len(book')] IN
       /\ tr \in Entry
       /\ tr.status = "Created"
       /\ tr.fee <= tr.amount
       /\ book' = Append(book, tr)
    /\ UNCHANGED fees

\* One trade's status moves along the table; the rest of the book stays.
Move(i, s) ==
    /\ <<book[i].status, s>> \in Lifecycle
    /\ book' = [book EXCEPT ![i].status = s]
    /\ UNCHANGED fees

\* A settled trade's fee is booked.
Accrue(i) ==
    /\ book[i].status \in {"Completed", "Disputed"}
    /\ fees' = fees + book[i].fee
    /\ UNCHANGED book

\* The whole ledger is paid out.
Withdraw ==
    /\ fees > 0
    /\ fees' = 0
    /\ UNCHANGED book

Next ==
    \/ Open
    \/ \E i \in 1..Len(book) : Accrue(i) \/ \E s \in Statuses : Move(i, s)
    \/ Withdraw

Spec == Init /\ [][Next]_bvars

=============================================================================
