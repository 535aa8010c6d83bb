---------------------------- MODULE EscrowLedger ----------------------------
(***************************************************************************)
(* The escrow account's books: what the contract owes out of its own token *)
(* balance.  It sums over the trades with MapThenSumSet (FiniteSetsExt), a *)
(* fold, so it is kept out of the modules the proofs extend and is only    *)
(* checked by TLC.                                                         *)
(***************************************************************************)
EXTENDS Escrow, FiniteSetsExt

\* A deposit is still held for its trade when the buyer funded it and no
\* confirm_receipt or resolve_dispute has paid it out yet.
Held(t) == funded[t] /\ payouts[t] = 0

\* What the escrow owes: the fees the admin may withdraw (withdraw_fees
\* transfers all of accumulated_fees) plus every deposit still held.
Owed == accumulated_fees
        + MapThenSumSet(LAMBDA t : trades[t].amount, {t \in TradeIds : Held(t)})

\* Solvency: the contract's token balance always covers what it owes, so
\* withdraw_fees (lib.rs:116) and the settlement of every held deposit
\* (lib.rs:243, lib.rs:318) can be paid.  The spec makes the engine the
\* custodian of each buyer's deposit until that trade is settled.
EscrowSolvent == bal[Escrow] >= Owed

=============================================================================
