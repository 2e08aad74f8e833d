----------------------------- MODULE CurveMarket ----------------------------
(***************************************************************************)
(* The life of ONE launched token, reduced to the fields of its TokenInfo  *)
(* that carry value: its phase, its curve, the XLM booked as raised and    *)
(* the XLM booked as locked.  The fees a trade pays are any amounts the    *)
(* constants allow, so that this module says what every fee schedule of    *)
(* the factory must respect; SacFactory, where the fees are computed and   *)
(* real balances move, is checked to implement it token by token.          *)
(***************************************************************************)
EXTENDS BondingCurve

CONSTANTS Supply,         \* tokens put on the curve (BONDING_CURVE_SUPPLY)
          Amounts,        \* XLM a buyer may send in one call
          ProtocolFees,   \* protocol fees a trade may pay, in units
          LpFees,         \* LP fees a trade may leave in the reserve, in units
          Reserves        \* bound: the reserves a buy may leave behind

ASSUME MarketAssumption ==
  /\ Supply \in Nat \ {0}
  /\ Amounts \subseteq Nat
  /\ ProtocolFees \subseteq Nat
  /\ LpFees \subseteq Nat
  /\ Reserves \subseteq Nat

VARIABLES phase, curve, raised, locked
vars == <<phase, curve, raised, locked>>

(* The statuses a token can be stored with: see SacFactory for the two the *)
(* code names but never stores.                                            *)
Phases == {"Unlaunched", "Bonding", "Graduated"}

Init ==
  /\ phase = "Unlaunched"
  /\ curve = NewCurve(Supply)
  /\ raised = 0
  /\ locked = 0

Launch ==
  /\ phase = "Unlaunched"
  /\ phase' = "Bonding"
  /\ UNCHANGED <<curve, raised, locked>>

(* What a buy adds to the lock: the swap and the LP fee.                   *)
LockedByBuy(gross, protocolFee, lpFee) == gross - protocolFee

(* The two safe_sub of a sell: on locked_xlm_amount and on xlm_raised.     *)
SellCovered(gross, lpFee) == gross - lpFee <= locked /\ gross <= raised

(* The curve part of a buy: net is what is left of gross after both fees   *)
(* (a whale tax counts as protocol fee).                                   *)
BuyStep(gross, protocolFee, lpFee) ==
  LET net == gross - protocolFee - lpFee
  IN /\ phase = "Bonding"
     /\ CanBuy(curve, gross)
     /\ CanBuy(curve, net)
     /\ CalculateBuy(curve, net) < curve.tokens_remaining   \* get_current_price
     /\ curve.xlm_reserve + net + lpFee \in Reserves
     /\ curve' = ExecuteBuyWithLpFee(curve, net, CalculateBuy(curve, net), lpFee)
     /\ raised' = raised + gross

Buy(gross, protocolFee, lpFee) ==
  /\ BuyStep(gross, protocolFee, lpFee)
  /\ locked' = locked + LockedByBuy(gross, protocolFee, lpFee)
  /\ UNCHANGED phase

Sell(tokens, protocolFee, lpFee) ==
  LET gross == CalculateSell(curve, tokens)
  IN /\ phase = "Bonding"
     /\ CanSell(curve, tokens)
     /\ protocolFee + lpFee <= gross
     /\ SellCovered(gross, lpFee)
     /\ curve' = ExecuteSellWithLpFee(curve, gross, tokens, lpFee)
     /\ locked' = locked - (gross - lpFee)
     /\ raised' = raised - gross
     /\ UNCHANGED phase

(* Graduation clears the token's lock; the curve record is kept as it was. *)
Graduate ==
  /\ phase = "Bonding"
  /\ raised > 0
  /\ curve.tokens_remaining > 0
  /\ phase' = "Graduated"
  /\ locked' = 0
  /\ UNCHANGED <<curve, raised>>

(* A buy that reaches the threshold graduates in the same transaction.     *)
BuyAndGraduate(gross, protocolFee, lpFee) ==
  /\ BuyStep(gross, protocolFee, lpFee)
  /\ phase' = "Graduated"
  /\ locked' = 0

Next ==
  \/ Launch
  \/ \E gross \in Amounts, p \in ProtocolFees, l \in LpFees :
       Buy(gross, p, l) \/ BuyAndGraduate(gross, p, l)
  \/ \E tokens \in 1 .. curve.tokens_sold, p \in ProtocolFees, l \in LpFees :
       Sell(tokens, p, l)
  \/ Graduate

Spec == Init /\ [][Next]_vars

-----------------------------------------------------------------------------
(* Every field has its type. *)
TypeOK ==
  /\ phase \in Phases
  /\ curve \in Curve
  /\ raised \in Nat
  /\ locked \in Nat

(* The stored curve never drifts from what it stands for: k is the product *)
(* of the reserves after every trade, no token is created or lost between  *)
(* sold and remaining, and the reserve is the virtual reserve plus exactly *)
(* the XLM the token has locked, until graduation takes that XLM away      *)
(* (execute_*_with_lp_fee against the locked_xlm bookkeeping of lib.rs).   *)
CurveConsistent ==
  /\ curve.k = curve.xlm_reserve * curve.tokens_remaining
  /\ curve.tokens_sold + curve.tokens_remaining = curve.total_supply
  /\ curve.total_supply = Supply
  /\ curve.tokens_remaining > 0
  /\ phase # "Graduated" => curve.xlm_reserve = INITIAL_VIRTUAL_RESERVE + locked

(* While a whole unit of XLM buys at least one unit of token, no trade     *)
(* lowers k: the LP fee, rounded up, outweighs the rounding of the swap in *)
(* the trader's favour ("k grows over time", bonding_curve.rs:191).        *)
LiquidityGrows ==
  [][curve'.xlm_reserve <= curve'.tokens_remaining => curve'.k >= curve.k]_vars

(* The bookkeeping of locked XLM never stops a holder the curve would pay: *)
(* whatever part of the sold tokens comes back, the lock covers what       *)
(* leaves, even if the trade leaves only the smallest LP fee.  Rounding    *)
(* that leaked value to traders would end with the last holders blocked by *)
(* safe_sub on locked_xlm_amount (lib.rs:721).                             *)
LockCoversEverySale ==
  phase = "Bonding" =>
    \A tokens \in 1 .. curve.tokens_sold :
      \A l \in LpFees :
        CalculateSell(curve, tokens) - l <= locked
=============================================================================
