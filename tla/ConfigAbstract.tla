--------------------------- MODULE ConfigAbstract ---------------------------
(***************************************************************************)
(* What the escrow promises of its process configuration (spec, "Process   *)
(* configuration" and the error taxonomy): the admin is written once, by   *)
(* initialize, and never changed; the fee rate is written by initialize    *)
(* and later only replaced by another rate of at most 10000 basis points;  *)
(* the arbitrator registry changes one address at a time, and only once    *)
(* the engine has been initialized.  No other operation touches any of it. *)
(***************************************************************************)
EXTENDS Naturals

CONSTANTS
    Addr,        \* accounts
    None,        \* no admin yet
    BPS_DENOM    \* 10000: the largest fee rate

VARIABLES
    cadmin,      \* the admin, None before setup
    crate,       \* the fee rate in basis points
    carbs        \* the registered arbitrators

cvars == <<cadmin, crate, carbs>>

Rates == 0..BPS_DENOM

Init == cadmin = None /\ crate = 0 /\ carbs = {}

\* The one-time setup writes the admin and the first rate.
Setup(a, r) ==
    /\ cadmin = None
    /\ cadmin' = a
    /\ crate' = r
    /\ UNCHANGED carbs

SetRate(r) ==
    /\ cadmin # None
    /\ crate' = r
    /\ UNCHANGED <<cadmin, carbs>>

Enrol(a) ==
    /\ cadmin # None
    /\ carbs' = carbs \cup {a}
    /\ UNCHANGED <<cadmin, crate>>

Retire(a) ==
    /\ cadmin # None
    /\ carbs' = carbs \ {a}
    /\ UNCHANGED <<cadmin, crate>>

Next ==
    \E a \in Addr, r \in Rates :
        Setup(a, r) \/ SetRate(r) \/ Enrol(a) \/ Retire(a)

Spec == Init /\ [][Next]_cvars

=============================================================================
