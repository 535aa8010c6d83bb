----------------------------- MODULE ConfigProofs -----------------------------
(***************************************************************************)
(* Proof that Escrow implements ConfigAbstract under the refinement        *)
(* mapping admin, fee_bps, arbitrators (the instance Config of Escrow):    *)
(* the initial state maps to Config!Init, and every step of Escrow maps to *)
(* a Config!Next step or leaves the three variables alone.                 *)
(***************************************************************************)
EXTENDS EscrowProofs

USE EscrowAssumptions

\* The admin is set exactly when the contract is initialized.
AdminSet == initialized <=> admin # None

CfgInv == FeeInv /\ AdminSet

cfg == <<admin, fee_bps, arbitrators>>

\* The functions that neither write the configuration nor initialize.
LEMMA CfgKept ==
    ASSUME NEW caller \in Addr,
           \/ \E to \in Addr : WithdrawFees(to, caller)
           \/ \E seller, buyer \in Addr, amount \in Amounts,
                 arb \in Addr \cup {None} :
                 CreateTrade(seller, buyer, amount, arb, caller)
           \/ \E id \in TradeIds :
                 \/ FundTrade(id, caller)
                 \/ CompleteTrade(id, caller)
                 \/ ConfirmReceipt(id, caller)
                 \/ RaiseDispute(id, caller)
                 \/ \E r \in DisputeResolution : ResolveDispute(id, r, caller)
                 \/ CancelTrade(id, caller)
    PROVE  UNCHANGED <<initialized, admin, fee_bps, arbitrators>>
BY DEF WithdrawFees, CreateTrade, FundTrade, CompleteTrade, ConfirmReceipt,
       Settle, RaiseDispute, ResolveDispute, CancelTrade, Reject, state

LEMMA NextAdminSet ==
    ASSUME TypeOK, AdminSet, [Next]_vars
    PROVE  AdminSet'
<1>1. CASE UNCHANGED vars
    BY <1>1 DEF vars, state, AdminSet
<1>2. ASSUME NEW caller \in Addr, NEW adm \in Addr, NEW bps \in FeeChoices,
             Initialize(adm, bps, caller)
      PROVE  AdminSet'
    BY <1>2 DEF Initialize, Reject, state, AdminSet
<1>3. ASSUME NEW caller \in Addr,
             \/ \E a \in Addr : RegisterArbitrator(a, caller)
             \/ \E a \in Addr : RemoveArbitrator(a, caller)
             \/ \E bps \in FeeChoices : UpdateFee(bps, caller)
      PROVE  AdminSet'
    BY <1>3 DEF RegisterArbitrator, RemoveArbitrator, UpdateFee, Reject,
                state, AdminSet
<1>4. CASE Next
    BY <1>2, <1>3, <1>4, CfgKept DEF Next, AdminSet
<1>5. QED
    BY <1>1, <1>4

LEMMA NextCfgInv == CfgInv /\ [Next]_vars => CfgInv'
BY NextFeeInv, NextAdminSet DEF CfgInv, FeeInv

\* Each configuration write of Escrow is the matching step of ConfigAbstract.
LEMMA NextRefines ==
    ASSUME CfgInv, [Next]_vars
    PROVE  [Config!Next]_cfg
<1> USE DEF CfgInv, FeeInv
<1>1. CASE UNCHANGED vars
    BY <1>1 DEF vars, state, cfg
<1>2. ASSUME NEW caller \in Addr, NEW adm \in Addr, NEW bps \in FeeChoices,
             Initialize(adm, bps, caller)
      PROVE  [Config!Next]_cfg
    <2>1. CASE InitializeError(adm, bps, caller) # "Ok"
        BY <1>2, <2>1 DEF Initialize, Reject, state, cfg
    <2>2. CASE InitializeError(adm, bps, caller) = "Ok"
        <3>1. ~initialized /\ bps \in 0..BPS_DENOM
            BY <2>2 DEF InitializeError
        <3>2. admin = None
            BY <3>1 DEF AdminSet, TypeOK
        <3>3. Config!Setup(adm, bps)
            BY <1>2, <2>2, <3>2 DEF Initialize, Config!Setup
        <3>4. QED
            BY <3>1, <3>3 DEF Config!Next, Config!Rates
    <2>3. QED
        BY <2>1, <2>2
<1>3. ASSUME NEW caller \in Addr, NEW a \in Addr,
             RegisterArbitrator(a, caller) \/ RemoveArbitrator(a, caller)
      PROVE  [Config!Next]_cfg
    <2>1. CASE AdminError(caller) # "Ok"
        BY <1>3, <2>1 DEF RegisterArbitrator, RemoveArbitrator, Reject,
                          state, cfg
    <2>2. CASE AdminError(caller) = "Ok"
        <3>1. admin # None
            BY <2>2 DEF AdminError, AdminSet
        <3>2. Config!Enrol(a) \/ Config!Retire(a)
            BY <1>3, <2>2, <3>1
            DEF RegisterArbitrator, RemoveArbitrator, Config!Enrol,
                Config!Retire
        <3>3. 0 \in Config!Rates
            BY DEF Config!Rates
        <3>4. QED
            BY <3>2, <3>3 DEF Config!Next
    <2>3. QED
        BY <2>1, <2>2
<1>4. ASSUME NEW caller \in Addr, NEW bps \in FeeChoices, UpdateFee(bps, caller)
      PROVE  [Config!Next]_cfg
    <2>1. CASE UpdateFeeError(bps, caller) # "Ok"
        BY <1>4, <2>1 DEF UpdateFee, Reject, state, cfg
    <2>2. CASE UpdateFeeError(bps, caller) = "Ok"
        <3>1. admin # None /\ bps \in 0..BPS_DENOM
            BY <2>2 DEF UpdateFeeError, AdminSet
        <3>2. Config!SetRate(bps)
            BY <1>4, <2>2, <3>1 DEF UpdateFee, Config!SetRate
        <3>3. QED
            BY <3>1, <3>2 DEF Config!Next, Config!Rates
    <2>3. QED
        BY <2>1, <2>2
<1>5. CASE Next
    <2>1. PICK caller \in Addr :
            \/ \E adm \in Addr, bps \in FeeChoices : Initialize(adm, bps, caller)
            \/ \E a \in Addr : RegisterArbitrator(a, caller)
            \/ \E a \in Addr : RemoveArbitrator(a, caller)
            \/ \E bps \in FeeChoices : UpdateFee(bps, caller)
            \/ \E to \in Addr : WithdrawFees(to, caller)
            \/ \E seller, buyer \in Addr, amount \in Amounts,
                  arb \in Addr \cup {None} :
                  CreateTrade(seller, buyer, amount, arb, caller)
            \/ \E id \in TradeIds :
                  \/ FundTrade(id, caller)
                  \/ CompleteTrade(id, caller)
                  \/ ConfirmReceipt(id, caller)
                  \/ RaiseDispute(id, caller)
                  \/ \E r \in DisputeResolution : ResolveDispute(id, r, caller)
                  \/ CancelTrade(id, caller)
        BY <1>5 DEF Next
    <2>2. QED
        BY <1>2, <1>3, <1>4, <2>1, CfgKept DEF cfg
<1>6. QED
    BY <1>1, <1>5

\* The contract implements ConfigAbstract: the admin is written once, the
\* fee rate never exceeds 10000 basis points, and only initialize,
\* update_fee, register_arbitrator and remove_arbitrator_fn change the
\* configuration, each as the matching abstract step.
THEOREM ConfigRefinement == Spec => ConfigRefined
<1>1. Init => CfgInv
    BY InitTypeOK DEF Init, CfgInv, FeeInv, FeeRateValid, FeeWithinAmount,
                      Stored, AdminSet
<1>2. Init => Config!Init
    BY DEF Init, Config!Init
<1>3. CfgInv /\ [Next]_vars => [Config!Next]_cfg
    BY NextRefines
<1>4. QED
    BY <1>1, <1>2, <1>3, NextCfgInv, PTL
    DEF Spec, ConfigRefined, Config!Spec, cfg, Config!cvars

=============================================================================
