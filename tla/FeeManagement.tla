---------------------------- MODULE FeeManagement ---------------------------
(***************************************************************************)
(* The fee configuration of sac-factory and the arithmetic of a trade's    *)
(* fees (fee_management.rs).  Fees are rounded up, each on its own.        *)
(***************************************************************************)
EXTENDS AccessControl, Integers

CONSTANTS FACTORY,                  \* the contract's own address
          BPS_PRECISION,            \* basis points in a whole (10_000)
          MAX_PROTOCOL_FEE_BPS, MAX_LP_FEE_BPS,
          MAX_TOTAL_FEE_BPS,        \* the 200 of total_fee_bps() > 200
          MIN_TRADE_AMOUNT,         \* smallest gross amount a trade may have
          DEFAULT_PROTOCOL_FEE_BPS, DEFAULT_LP_FEE_BPS, DEFAULT_CREATION_FEE,
          FeeBpsChoices,            \* bound: the rates an admin tries to set
          CreationFeeChoices,       \* bound: the creation fees an admin tries to set
          TreasuryChoices           \* bound: the treasuries an admin tries to set

ASSUME FeeAssumption ==
  /\ BPS_PRECISION \in Nat \ {0}
  /\ MAX_PROTOCOL_FEE_BPS \in 0 .. BPS_PRECISION
  /\ MAX_LP_FEE_BPS \in 0 .. BPS_PRECISION
  /\ MAX_TOTAL_FEE_BPS \in 0 .. BPS_PRECISION
  /\ MIN_TRADE_AMOUNT \in Nat \ {0}
  /\ DEFAULT_PROTOCOL_FEE_BPS \in 0 .. MAX_PROTOCOL_FEE_BPS
  /\ DEFAULT_LP_FEE_BPS \in 0 .. MAX_LP_FEE_BPS
  /\ DEFAULT_PROTOCOL_FEE_BPS + DEFAULT_LP_FEE_BPS <= MAX_TOTAL_FEE_BPS
  /\ DEFAULT_CREATION_FEE \in Nat
  /\ FeeBpsChoices \subseteq Int
  /\ CreationFeeChoices \subseteq Int
  /\ TreasuryChoices \subseteq Account
  /\ FACTORY \notin Account

VARIABLES feeConfig,           \* FeeKey::Config
          accumulatedFees      \* FeeKey::AccumulatedProtocolFees

feeVars == <<feeConfig, accumulatedFees>>

FeeConfig == [creation_fee : Nat, protocol_fee_bps : Nat, lp_fee_bps : Nat,
              treasury : Account \cup {FACTORY}]

(* initialize_fee_config; get_fee_config returns the same record, with the *)
(* contract itself as treasury, as long as nothing is stored.              *)
DefaultFeeConfig(treasury) ==
  [creation_fee |-> DEFAULT_CREATION_FEE,
   protocol_fee_bps |-> DEFAULT_PROTOCOL_FEE_BPS,
   lp_fee_bps |-> DEFAULT_LP_FEE_BPS, treasury |-> treasury]

FeeInit == feeConfig = DefaultFeeConfig(FACTORY) /\ accumulatedFees = 0

(* core_math::apply_bps_round_up. *)
RoundUpBps(amount, bps) == (amount * bps + BPS_PRECISION - 1) \div BPS_PRECISION

(* calculate_fee_breakdown under the current configuration; it fails below *)
(* the minimum trade.                                                      *)
CanTradeFor(gross) == gross >= MIN_TRADE_AMOUNT
FeeBreakdown_LpNotDeducted(gross) ==
  LET protocol == RoundUpBps(gross, feeConfig.protocol_fee_bps)
      lp == RoundUpBps(gross, feeConfig.lp_fee_bps)
  IN [gross |-> gross, protocol |-> protocol, lp |-> lp, net |-> gross - protocol]
FeeBreakdown(gross) ==
  LET protocol == RoundUpBps(gross, feeConfig.protocol_fee_bps)
      lp == RoundUpBps(gross, feeConfig.lp_fee_bps)
  IN [gross |-> gross, protocol |-> protocol, lp |-> lp, net |-> gross - protocol - lp]

IsFeeAdmin(a) == HasAnyRole(a, {"FeeAdmin", "Owner"})

(* The setters check the new rate alone and then the sum with the other.   *)
RatesAllowed(protocol, lp) ==
  /\ protocol \in 0 .. MAX_PROTOCOL_FEE_BPS
  /\ lp \in 0 .. MAX_LP_FEE_BPS
  /\ protocol + lp <= MAX_TOTAL_FEE_BPS

SetProtocolFee(admin, bps) ==
  /\ IsFeeAdmin(admin)
  /\ RatesAllowed(bps, feeConfig.lp_fee_bps)
  /\ feeConfig' = [feeConfig EXCEPT !.protocol_fee_bps = bps]
  /\ UNCHANGED accumulatedFees

SetLpFee(admin, bps) ==
  /\ IsFeeAdmin(admin)
  /\ RatesAllowed(feeConfig.protocol_fee_bps, bps)
  /\ feeConfig' = [feeConfig EXCEPT !.lp_fee_bps = bps]
  /\ UNCHANGED accumulatedFees

SetCreationFee(admin, fee) ==
  /\ IsFeeAdmin(admin)
  /\ fee >= 0
  /\ feeConfig' = [feeConfig EXCEPT !.creation_fee = fee]
  /\ UNCHANGED accumulatedFees

SetTreasury(admin, treasury) ==
  /\ HasAnyRole(admin, {"TreasuryAdmin", "Owner"})
  /\ feeConfig' = [feeConfig EXCEPT !.treasury = treasury]
  /\ UNCHANGED accumulatedFees

FeeAdminStep(a) ==
  \/ \E bps \in FeeBpsChoices : SetProtocolFee(a, bps) \/ SetLpFee(a, bps)
  \/ \E fee \in CreationFeeChoices : SetCreationFee(a, fee)
  \/ \E treasury \in TreasuryChoices : SetTreasury(a, treasury)

-----------------------------------------------------------------------------
FeeTypeOK == feeConfig \in FeeConfig /\ accumulatedFees \in Nat

(* Whatever the admins do, in whatever order, a trade that is allowed at   *)
(* all leaves its trader something: the two fees together, each rounded    *)
(* up, take no more than the total limit plus one unit of rounding each.   *)
FeesWithinLimit ==
  /\ feeConfig.protocol_fee_bps + feeConfig.lp_fee_bps <= MAX_TOTAL_FEE_BPS
  /\ \A gross \in MIN_TRADE_AMOUNT .. MIN_TRADE_AMOUNT + BPS_PRECISION :
       FeeBreakdown(gross).net >= gross - (gross * MAX_TOTAL_FEE_BPS) \div BPS_PRECISION - 2
=============================================================================
