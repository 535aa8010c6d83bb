----------------------------- MODULE MC_Escrow -----------------------------
(* A small instance of Escrow for TLC: three user accounts (enough for a   *)
(* seller, a buyer and a third-party arbitrator or admin), or two where   *)
(* the run needs two trades.  The cfg files scale u64 and the literal      *)
(* 10000 down (U64_MAX 5, 2 or 1, BPS_DENOM 2 or 1) so that the fee        *)
(* multiplication, the fee accrual and an over-large fee rate reach their  *)
(* edges.                                                                  *)
EXTENDS EscrowLedger, TLC

CONSTANTS a1, a2, a3

MC_Addr == {a1, a2, a3}

\* Account names are interchangeable: nothing compares them but for equality.
Symmetry == Permutations(MC_Addr)

\* Two accounts: each plays several roles (admin, party, arbitrator).
MC_Addr2 == {a1, a2}

Symmetry2 == Permutations(MC_Addr2)
=============================================================================
