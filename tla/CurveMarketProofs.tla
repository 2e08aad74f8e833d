-------------------------- MODULE CurveMarketProofs -------------------------
(***************************************************************************)
(* What TLAPS proves of one market for every supply, virtual reserve and   *)
(* fee schedule.                                                           *)
(***************************************************************************)
EXTENDS CurveMarket, BondingCurveTheorems

IInv == TypeOK /\ CurveConsistent

LEMMA InitInv == Init => IInv
<1> SUFFICES ASSUME Init PROVE IInv
  OBVIOUS
<1>1. /\ SoundCurve(curve, Supply)
      /\ curve.tokens_remaining = Supply /\ curve.xlm_reserve = INITIAL_VIRTUAL_RESERVE
  BY MarketAssumption, NewCurveSound DEF Init
<1>2. QED
  BY <1>1, MarketAssumption, VirtualReserveAssumption
     DEF Init, IInv, TypeOK, CurveConsistent, Phases, SoundCurve

(* The invariant says that the curve is sound. *)
LEMMA InvCurve == IInv => SoundCurve(curve, Supply) /\ curve.xlm_reserve \in Nat
  BY DEF IInv, TypeOK, CurveConsistent, SoundCurve, Curve

(* The curve a buy leaves behind, whether or not it also graduates.        *)
LEMMA BuyCurve ==
  ASSUME IInv, NEW gross \in Amounts, NEW p \in ProtocolFees, NEW l \in LpFees,
         BuyStep(gross, p, l)
  PROVE  /\ SoundCurve(curve', Supply)
         /\ curve'.tokens_remaining > 0
         /\ curve'.xlm_reserve = curve.xlm_reserve + (gross - p)
         /\ gross - p > 0
         /\ raised' \in Nat
<1> DEFINE net == gross - p - l
<1>1. gross \in Nat /\ p \in Nat /\ l \in Nat /\ net \in Int
  BY MarketAssumption
<1>2. /\ CanBuy(curve, net) /\ CalculateBuy(curve, net) < curve.tokens_remaining
      /\ curve' = ExecuteBuyWithLpFee(curve, net, CalculateBuy(curve, net), l)
      /\ raised' = raised + gross /\ raised \in Nat
  BY DEF BuyStep, IInv, TypeOK
<1>3. net > 0
  BY <1>2 DEF CanBuy
<1>4. gross - p > 0 /\ net + l = gross - p
  BY <1>1, <1>3
<1> HIDE DEF net
<1>5. /\ SoundCurve(curve', Supply)
      /\ curve'.tokens_remaining > 0
      /\ curve'.xlm_reserve = curve.xlm_reserve + net + l
  BY <1>1, <1>2, InvCurve, BuyKeepsCurveSound
<1>6. QED
  BY <1>1, <1>2, <1>4, <1>5, InvCurve

(* The curve a sell leaves behind. *)
LEMMA SellCurve ==
  ASSUME IInv, NEW t \in 1 .. curve.tokens_sold, NEW p \in ProtocolFees,
         NEW l \in LpFees, Sell(t, p, l)
  PROVE  /\ SoundCurve(curve', Supply)
         /\ curve'.tokens_remaining > 0
         /\ curve'.xlm_reserve = INITIAL_VIRTUAL_RESERVE + locked'
         /\ locked' \in Nat
         /\ raised' \in Nat
         /\ UNCHANGED phase
<1> DEFINE gross == CalculateSell(curve, t)
<1>1. t \in Nat /\ p \in Nat /\ l \in Nat
  BY MarketAssumption
<1>2. /\ CanSell(curve, t) /\ p + l <= gross
      /\ gross - l <= locked /\ gross <= raised
      /\ curve' = ExecuteSellWithLpFee(curve, gross, t, l)
      /\ locked' = locked - (gross - l) /\ raised' = raised - gross
      /\ UNCHANGED phase
      /\ locked \in Nat /\ raised \in Nat
      /\ curve.xlm_reserve = INITIAL_VIRTUAL_RESERVE + locked
  BY DEF Sell, SellCovered, IInv, TypeOK, CurveConsistent
<1>3. gross \in Int
  <2>1. t > 0 /\ curve.tokens_remaining \in Nat
    BY InvCurve DEF SoundCurve, Curve
  <2>2. QED
    BY <1>1, <2>1, InvCurve, QuotesAreIntegers
<1> HIDE DEF gross
<1>4. gross - l <= curve.xlm_reserve
  BY <1>1, <1>2, <1>3, VirtualReserveAssumption
<1>5. /\ SoundCurve(curve', Supply)
      /\ curve'.tokens_remaining > 0
      /\ curve'.xlm_reserve = curve.xlm_reserve - (gross - l)
  BY <1>1, <1>2, <1>4, InvCurve, SellKeepsCurveSound DEF gross
<1>6. QED
  BY <1>1, <1>2, <1>3, <1>5, VirtualReserveAssumption

LEMMA StepInv == IInv /\ [Next]_vars => IInv'
<1> SUFFICES ASSUME IInv, [Next]_vars PROVE IInv'
  OBVIOUS
<1> USE MarketAssumption
<1>1. CASE Launch
  BY <1>1 DEF Launch, IInv, TypeOK, CurveConsistent, Phases
<1>2. ASSUME NEW gross \in Amounts, NEW p \in ProtocolFees, NEW l \in LpFees,
             Buy(gross, p, l) \/ BuyAndGraduate(gross, p, l)
      PROVE  IInv'
  <2>1. BuyStep(gross, p, l)
    BY <1>2 DEF Buy, BuyAndGraduate
  <2>2. phase = "Bonding" /\ locked \in Nat /\ gross \in Nat /\ p \in Nat
    BY <2>1 DEF BuyStep, IInv, TypeOK
  <2>3. CASE Buy(gross, p, l)
    <3>1. locked' = locked + (gross - p) /\ phase' = "Bonding"
      BY <2>2, <2>3 DEF Buy, LockedByBuy
    <3>2. curve.xlm_reserve = INITIAL_VIRTUAL_RESERVE + locked
      BY <2>2 DEF IInv, CurveConsistent
    <3>3. /\ locked' \in Nat
          /\ curve'.xlm_reserve = INITIAL_VIRTUAL_RESERVE + locked'
      BY <2>1, <2>2, <3>1, <3>2, BuyCurve, InvCurve, VirtualReserveAssumption
    <3>4. QED
      BY <2>1, <3>1, <3>3, BuyCurve DEF IInv, TypeOK, CurveConsistent, Phases, SoundCurve
  <2>4. CASE BuyAndGraduate(gross, p, l)
    <3>1. locked' = 0 /\ phase' = "Graduated"
      BY <2>4 DEF BuyAndGraduate
    <3>2. QED
      BY <2>1, <3>1, BuyCurve DEF IInv, TypeOK, CurveConsistent, Phases, SoundCurve
  <2>5. QED
    BY <1>2, <2>3, <2>4
<1>3. ASSUME NEW t \in 1 .. curve.tokens_sold, NEW p \in ProtocolFees,
             NEW l \in LpFees, Sell(t, p, l)
      PROVE  IInv'
  <2>1. phase \in Phases
    BY DEF IInv, TypeOK
  <2>2. QED
    BY <1>3, <2>1, SellCurve DEF IInv, TypeOK, CurveConsistent, SoundCurve
<1>4. CASE Graduate
  BY <1>4 DEF Graduate, IInv, TypeOK, CurveConsistent, Phases
<1>5. CASE UNCHANGED vars
  BY <1>5 DEF vars, IInv, TypeOK, CurveConsistent
<1>6. QED
  BY <1>1, <1>2, <1>3, <1>4, <1>5 DEF Next

(* In every market the fields keep their types. *)
THEOREM TypeCorrect == Spec => []TypeOK
<1>1. IInv => TypeOK
  BY DEF IInv
<1>2. QED
  BY <1>1, InitInv, StepInv, PTL DEF Spec

(* In every market the stored curve agrees with its reserves, its supply   *)
(* and the locked amount.                                                  *)
THEOREM CurveStaysConsistent == Spec => []CurveConsistent
<1>1. IInv => CurveConsistent
  BY DEF IInv
<1>2. QED
  BY <1>1, InitInv, StepInv, PTL DEF Spec

-----------------------------------------------------------------------------
(* A sum of fees that cannot be zero outweighs one rounding.               *)
LEMMA FeeOutweighsRounding ==
  ASSUME NEW k \in Nat, NEW q \in Nat, NEW d \in Nat \ {0}, NEW l \in Nat \ {0},
         k < q * d + d
  PROVE  /\ (q + l) * d >= k
         /\ d + l <= q => (d + l) * q >= k
<1>1. (q + l) * d = q * d + l * d /\ l * d >= d
  OBVIOUS
<1>2. q * d \in Nat /\ l * d \in Nat
  BY ProductNat
<1>3. (q + l) * d >= k
  BY <1>1, <1>2
<1>4. ASSUME d + l <= q PROVE (d + l) * q >= k
  <2>1. (d + l) * q = q * d + l * q /\ l * q >= q
    OBVIOUS
  <2>2. QED
    BY <1>2, <1>4, <2>1
<1>5. QED
  BY <1>3, <1>4

(* What a buy does to k: it does not lower it, unless the reserve ends up  *)
(* above the tokens that remain, and then k was small.                     *)
LEMMA BuyProduct ==
  ASSUME IInv, 0 \notin LpFees, NEW gross \in Amounts, NEW p \in ProtocolFees,
         NEW l \in LpFees, BuyStep(gross, p, l)
  PROVE  LET x == curve'.xlm_reserve
         IN /\ x \in Nat /\ curve'.tokens_remaining \in Nat /\ curve'.k \in Nat
            /\ x <= curve'.tokens_remaining => curve'.k >= curve.k
            /\ x > curve'.tokens_remaining => curve.k < x * (x - 1)
<1> USE MarketAssumption
<1> DEFINE d == curve.xlm_reserve + (gross - p - l)
           q == curve.k \div d
<1>1. curve \in Curve /\ curve.k \in Nat /\ curve.xlm_reserve \in Nat
      /\ curve.tokens_remaining \in Nat /\ curve.tokens_sold \in Nat
  BY DEF IInv, TypeOK, Curve
<1>2. d \in Nat \ {0} /\ l \in Nat \ {0}
  BY <1>1 DEF BuyStep, CanBuy
<1>3. /\ curve' = ExecuteBuyWithLpFee(curve, gross - p - l,
                                      CalculateBuy(curve, gross - p - l), l)
  BY DEF BuyStep
<1> HIDE DEF d
<1>4. q \in Nat /\ curve.k < q * d + d
  BY <1>1, <1>2, DivFloor
<1>5. curve.tokens_remaining - (curve.tokens_remaining - q) = q
  BY <1>1, <1>4
<1>6. /\ curve'.xlm_reserve = d + l
      /\ curve'.tokens_remaining = q
      /\ curve'.k = (d + l) * q
  BY <1>1, <1>3, <1>5 DEF ExecuteBuyWithLpFee, CalculateBuy, Curve, d
<1> HIDE DEF q
<1>7. d + l <= q => (d + l) * q >= curve.k
  BY <1>1, <1>2, <1>4, FeeOutweighsRounding
<1> DEFINE x == d + l
<1>8. x = d + l
  OBVIOUS
<1> HIDE DEF x
<1>9. ASSUME x > q PROVE curve.k < x * (x - 1)
  <2>1. x \in Nat /\ q + 1 <= x /\ d <= x - 1
    BY <1>2, <1>4, <1>8, <1>9
  <2>2. q * d + d = (q + 1) * d
    BY <1>2, <1>4
  <2>3. (q + 1) * d <= x * d
    BY <1>2, <1>4, <2>1
  <2>4. x * d <= x * (x - 1)
    BY <1>2, <2>1
  <2>5. /\ q * d \in Nat /\ (q + 1) * d \in Nat /\ x * d \in Nat /\ x * (x - 1) \in Int
    BY <1>2, <1>4, <2>1, ProductNat
  <2>6. QED
    BY <1>1, <1>4, <2>2, <2>3, <2>4, <2>5
<1>10. /\ curve'.xlm_reserve \in Nat /\ curve'.tokens_remaining \in Nat
       /\ curve'.k \in Nat
  <2>1. d + l \in Nat /\ (d + l) * q \in Nat
    BY <1>2, <1>4, ProductNat
  <2>2. QED
    BY <1>4, <1>6, <2>1
<1>11. curve'.xlm_reserve <= curve'.tokens_remaining => curve'.k >= curve.k
  BY <1>6, <1>7
<1>12. curve'.xlm_reserve > curve'.tokens_remaining =>
         curve.k < curve'.xlm_reserve * (curve'.xlm_reserve - 1)
  <2>1. curve'.xlm_reserve = x /\ curve'.tokens_remaining = q
    BY <1>6, <1>8
  <2>2. x \in Nat
    BY <1>2, <1>8
  <2>3. QED
    BY <1>9, <2>1, <2>2
<1>13. QED
  BY <1>10, <1>11, <1>12, Zenon

(* A sell never lowers k. *)
LEMMA SellProduct ==
  ASSUME IInv, 0 \notin LpFees, NEW t \in 1 .. curve.tokens_sold,
         NEW p \in ProtocolFees, NEW l \in LpFees, Sell(t, p, l)
  PROVE  curve'.k \in Nat /\ curve'.k >= curve.k
<1> USE MarketAssumption
<1> DEFINE d == curve.tokens_remaining + t
           q == curve.k \div d
<1>1. curve \in Curve /\ curve.k \in Nat /\ curve.xlm_reserve \in Nat
      /\ curve.tokens_remaining \in Nat /\ curve.tokens_sold \in Nat
  BY DEF IInv, TypeOK, Curve
<1>2. d \in Nat \ {0} /\ l \in Nat \ {0}
  BY <1>1
<1>3. curve' = ExecuteSellWithLpFee(curve, CalculateSell(curve, t), t, l)
  BY DEF Sell
<1> HIDE DEF d
<1>4. q \in Nat /\ curve.k < q * d + d
  BY <1>1, <1>2, DivFloor
<1>5. curve.xlm_reserve - ((curve.xlm_reserve - q) - l) = q + l
  BY <1>1, <1>2, <1>4
<1>6. curve'.k = (q + l) * d
  BY <1>1, <1>3, <1>5 DEF ExecuteSellWithLpFee, CalculateSell, Curve, d
<1> HIDE DEF q
<1>7. (q + l) * d >= curve.k
  BY <1>1, <1>2, <1>4, FeeOutweighsRounding
<1>8. (q + l) * d \in Nat
  BY <1>2, <1>4, ProductNat
<1>9. QED
  BY <1>6, <1>7, <1>8

(* In every market whose trades all leave an LP fee of at least one unit,  *)
(* no trade lowers k as long as the reserve holds no more units than the   *)
(* curve holds tokens.                                                     *)
THEOREM LiquidityAlwaysGrows ==
  ASSUME 0 \notin LpFees
  PROVE  Spec => LiquidityGrows
<1> DEFINE Grows == curve'.xlm_reserve <= curve'.tokens_remaining => curve'.k >= curve.k
<1>1. ASSUME IInv, [Next]_vars PROVE [Grows]_vars
  <2>1. ASSUME NEW gross \in Amounts, NEW p \in ProtocolFees, NEW l \in LpFees,
               BuyStep(gross, p, l)
        PROVE  Grows
    BY <1>1, <2>1, BuyProduct
  <2>2. ASSUME NEW t \in 1 .. curve.tokens_sold, NEW p \in ProtocolFees,
               NEW l \in LpFees, Sell(t, p, l)
        PROVE  Grows
    BY <1>1, <2>2, SellProduct
  <2>3. ASSUME UNCHANGED curve PROVE Grows
    <3>1. curve.k \in Nat
      BY <1>1 DEF IInv, TypeOK, Curve
    <3>2. QED
      BY <2>3, <3>1
  <2>4. QED
    BY <1>1, <2>1, <2>2, <2>3
       DEF Next, Launch, Buy, BuyAndGraduate, Graduate, vars
<1>2. IInv /\ [Next]_vars => [Grows]_vars
  BY <1>1
<1>3. QED
  BY <1>2, InitInv, StepInv, PTL DEF Spec, LiquidityGrows

-----------------------------------------------------------------------------
(* The liquidity a launch puts on the curve is never traded away.          *)
LaunchLiquidityKept == curve.k >= INITIAL_VIRTUAL_RESERVE * Supply

(* The reserves are small beside that liquidity.  The contract's are: its  *)
(* new curve has a product of 1.68 * 10^25, so a reserve may grow to       *)
(* 4 * 10^12, forty times the XLM at which a token graduates.              *)
ReservesAreSmall ==
  \A x \in Reserves : x * (x - 1) <= INITIAL_VIRTUAL_RESERVE * Supply

LEMMA LiquidityStep ==
  ASSUME 0 \notin LpFees, ReservesAreSmall, IInv, LaunchLiquidityKept, [Next]_vars
  PROVE  LaunchLiquidityKept'
<1> DEFINE floor == INITIAL_VIRTUAL_RESERVE * Supply
<1>1. floor \in Nat /\ curve.k \in Nat /\ curve.k >= floor
  BY MarketAssumption, VirtualReserveAssumption, ProductNat
     DEF IInv, TypeOK, Curve, LaunchLiquidityKept
<1>2. ASSUME NEW gross \in Amounts, NEW p \in ProtocolFees, NEW l \in LpFees,
             BuyStep(gross, p, l)
      PROVE  LaunchLiquidityKept'
  <2> DEFINE x == curve'.xlm_reserve
  <2>1. /\ x \in Nat /\ curve'.tokens_remaining \in Nat /\ curve'.k \in Nat
        /\ x <= curve'.tokens_remaining => curve'.k >= curve.k
        /\ x > curve'.tokens_remaining => curve.k < x * (x - 1)
    BY <1>2, BuyProduct
  <2>2. x \in Reserves
    <3>1. curve.xlm_reserve + (gross - p - l) + l \in Reserves
      BY <1>2 DEF BuyStep
    <3>2. x = curve.xlm_reserve + (gross - p)
      BY <1>2, BuyCurve
    <3>3. /\ curve.xlm_reserve \in Nat /\ gross \in Nat /\ p \in Nat /\ l \in Nat
      BY InvCurve, MarketAssumption
    <3>4. curve.xlm_reserve + (gross - p - l) + l = curve.xlm_reserve + (gross - p)
      BY <3>3
    <3>5. QED
      BY <3>1, <3>2, <3>4
  <2>3. x * (x - 1) <= floor
    BY <2>2 DEF ReservesAreSmall
  <2> HIDE DEF x, floor
  <2>4. x * (x - 1) \in Int
    BY <2>1
  <2>5. curve'.k >= floor
    BY <1>1, <2>1, <2>3, <2>4
  <2>6. QED
    BY <2>5 DEF LaunchLiquidityKept, floor
<1>3. ASSUME NEW t \in 1 .. curve.tokens_sold, NEW p \in ProtocolFees,
             NEW l \in LpFees, Sell(t, p, l)
      PROVE  LaunchLiquidityKept'
  <2>1. curve'.k \in Nat /\ curve'.k >= curve.k
    BY <1>3, SellProduct
  <2> HIDE DEF floor
  <2>2. curve'.k >= floor
    BY <1>1, <2>1
  <2>3. QED
    BY <2>2 DEF LaunchLiquidityKept, floor
<1>4. ASSUME UNCHANGED curve PROVE LaunchLiquidityKept'
  BY <1>4 DEF LaunchLiquidityKept
<1>5. QED
  BY <1>2, <1>3, <1>4 DEF Next, Launch, Buy, BuyAndGraduate, Graduate, vars

(* With that liquidity, even all the sold tokens at once leave the virtual *)
(* reserve behind, so that what is paid out is covered by the lock.        *)
LEMMA LiquidityCovers ==
  ASSUME IInv, LaunchLiquidityKept
  PROVE  LockCoversEverySale
<1> SUFFICES ASSUME phase = "Bonding", NEW n \in 1 .. curve.tokens_sold, NEW l \in LpFees
             PROVE  CalculateSell(curve, n) - l <= locked
  BY DEF LockCoversEverySale
<1> DEFINE V == INITIAL_VIRTUAL_RESERVE
           d == curve.tokens_remaining + n
           q == curve.k \div d
<1>1. /\ V \in Nat /\ Supply \in Nat /\ l \in Nat /\ locked \in Nat
      /\ curve.xlm_reserve = V + locked
      /\ curve.k \in Nat /\ curve.tokens_remaining \in Nat /\ curve.tokens_sold \in Nat
      /\ curve.tokens_sold + curve.tokens_remaining = Supply
      /\ curve.k >= V * Supply
  BY MarketAssumption, VirtualReserveAssumption
     DEF IInv, TypeOK, CurveConsistent, Curve, LaunchLiquidityKept
<1> HIDE DEF V
<1>2. d \in Nat \ {0} /\ d <= Supply /\ n \in Nat
  BY <1>1
<1> HIDE DEF d
<1>3. q \in Nat /\ curve.k < q * d + d
  BY <1>1, <1>2, DivFloor
<1>4. CalculateSell(curve, n) = curve.xlm_reserve - q
  BY DEF CalculateSell, d
<1> HIDE DEF q
<1>5. q >= V
  <2>1. SUFFICES ASSUME q + 1 <= V PROVE FALSE
    BY <1>1, <1>3
  <2>2. (q + 1) * d <= V * d
    BY <1>1, <1>2, <1>3, <2>1
  <2>3. V * d <= V * Supply
    BY <1>1, <1>2
  <2>4. q * d + d = (q + 1) * d
    BY <1>2, <1>3
  <2>5. (q + 1) * d \in Nat /\ V * d \in Nat /\ V * Supply \in Nat
    BY <1>1, <1>2, <1>3, ProductNat
  <2>6. QED
    BY <1>1, <1>3, <2>2, <2>3, <2>4, <2>5
<1>6. QED
  BY <1>1, <1>3, <1>4, <1>5

(* In every market whose trades all leave an LP fee of at least one unit   *)
(* and whose reserves stay small beside the liquidity of its launch, the   *)
(* lock covers every sale a holder may still make.                         *)
THEOREM LockAlwaysCovers ==
  ASSUME 0 \notin LpFees, ReservesAreSmall
  PROVE  Spec => []LockCoversEverySale
<1>1. Init => LaunchLiquidityKept
  <2> SUFFICES ASSUME Init PROVE LaunchLiquidityKept
    OBVIOUS
  <2>1. curve.k = INITIAL_VIRTUAL_RESERVE * Supply
    BY DEF Init, NewCurve
  <2>2. INITIAL_VIRTUAL_RESERVE * Supply \in Nat
    BY MarketAssumption, VirtualReserveAssumption, ProductNat
  <2>3. QED
    BY <2>1, <2>2 DEF LaunchLiquidityKept
<1>2. IInv /\ LaunchLiquidityKept /\ [Next]_vars => LaunchLiquidityKept'
  BY LiquidityStep
<1>3. IInv /\ LaunchLiquidityKept => LockCoversEverySale
  BY LiquidityCovers
<1>4. QED
  BY <1>1, <1>2, <1>3, InitInv, StepInv, PTL DEF Spec
=============================================================================
