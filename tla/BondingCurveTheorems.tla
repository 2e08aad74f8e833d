------------------------ MODULE BondingCurveTheorems ------------------------
(***************************************************************************)
(* What a trade does to a curve record, for every virtual reserve, supply  *)
(* and fee: the facts the proofs about one market and about the factory    *)
(* both rest on.                                                           *)
(***************************************************************************)
EXTENDS BondingCurve, ArithmeticTheorems

(* The curve stores what its reserves say, and its supply is split into    *)
(* tokens sold and tokens remaining.                                       *)
SoundCurve(c, supply) ==
  /\ c \in Curve
  /\ c.k = c.xlm_reserve * c.tokens_remaining
  /\ c.tokens_sold + c.tokens_remaining = c.total_supply
  /\ c.total_supply = supply

(* A new curve is sound. *)
LEMMA NewCurveSound ==
  ASSUME NEW supply \in Nat
  PROVE  /\ SoundCurve(NewCurve(supply), supply)
         /\ NewCurve(supply).tokens_remaining = supply
         /\ NewCurve(supply).xlm_reserve = INITIAL_VIRTUAL_RESERVE
<1>1. INITIAL_VIRTUAL_RESERVE \in Nat /\ INITIAL_VIRTUAL_RESERVE * supply \in Nat
  BY VirtualReserveAssumption, ProductNat
<1>2. QED
  BY <1>1 DEF SoundCurve, NewCurve, Curve

(* What a curve offers for an amount is an integer. *)
LEMMA QuotesAreIntegers ==
  ASSUME NEW supply, NEW c, SoundCurve(c, supply), NEW n \in Int
  PROVE  /\ c.xlm_reserve + n > 0 => CalculateBuy(c, n) \in Int
         /\ c.tokens_remaining + n > 0 => CalculateSell(c, n) \in Int
<1>1. /\ c.xlm_reserve \in Nat /\ c.tokens_remaining \in Nat /\ c.k \in Nat
  BY DEF SoundCurve, Curve
<1>2. ASSUME c.xlm_reserve + n > 0 PROVE CalculateBuy(c, n) \in Int
  BY <1>1, <1>2, DivFloor DEF CalculateBuy
<1>3. ASSUME c.tokens_remaining + n > 0 PROVE CalculateSell(c, n) \in Int
  BY <1>1, <1>3, DivFloor DEF CalculateSell
<1>4. QED
  BY <1>2, <1>3

(* A buy the curve accepts leaves a sound curve; the reserve grows by what *)
(* entered, the LP fee included.                                           *)
LEMMA BuyKeepsCurveSound ==
  ASSUME NEW supply, NEW c, SoundCurve(c, supply), NEW net \in Int, NEW lp \in Nat,
         CanBuy(c, net), CalculateBuy(c, net) < c.tokens_remaining
  PROVE  LET out == CalculateBuy(c, net)
             after == ExecuteBuyWithLpFee(c, net, out, lp)
         IN /\ out \in Nat \ {0}
            /\ SoundCurve(after, supply)
            /\ after.tokens_remaining = c.tokens_remaining - out
            /\ after.tokens_remaining > 0
            /\ after.tokens_sold = c.tokens_sold + out
            /\ after.xlm_reserve = c.xlm_reserve + net + lp
<1> DEFINE out == CalculateBuy(c, net)
           after == ExecuteBuyWithLpFee(c, net, out, lp)
           x == c.xlm_reserve + net + lp
           y == c.tokens_remaining - out
<1>1. /\ c \in Curve
      /\ c.xlm_reserve \in Nat /\ c.tokens_remaining \in Nat
      /\ c.tokens_sold \in Nat /\ c.total_supply \in Nat /\ c.k \in Nat
      /\ c.tokens_sold + c.tokens_remaining = c.total_supply
      /\ c.total_supply = supply
  BY DEF SoundCurve, Curve
<1>2. net > 0 /\ out > 0
  BY DEF CanBuy
<1>3. out \in Int
  BY <1>1, <1>2, QuotesAreIntegers
<1>4. after = [c EXCEPT !.xlm_reserve = x, !.tokens_remaining = y,
                        !.tokens_sold = @ + out, !.k = x * y]
  BY DEF ExecuteBuyWithLpFee
<1>5. out < c.tokens_remaining
  OBVIOUS
<1> HIDE DEF out, after
<1>6. x \in Nat /\ y \in Nat /\ y > 0 /\ c.tokens_sold + out \in Nat
      /\ (c.tokens_sold + out) + y = c.total_supply
  BY <1>1, <1>2, <1>3, <1>5
<1>7. x * y \in Nat
  BY <1>6, ProductNat
<1>8. /\ after.xlm_reserve = x /\ after.tokens_remaining = y
      /\ after.tokens_sold = c.tokens_sold + out
      /\ after.k = x * y /\ after.total_supply = c.total_supply
  BY <1>1, <1>4 DEF Curve
<1> HIDE DEF x, y
<1>9. after \in Curve
  BY <1>1, <1>4, <1>6, <1>7 DEF Curve
<1>10. SoundCurve(after, supply)
  BY <1>1, <1>6, <1>8, <1>9 DEF SoundCurve
<1>11. QED
  BY <1>2, <1>3, <1>6, <1>8, <1>10 DEF after, out, x, y

(* A sell the curve accepts leaves a sound curve, provided the reserve     *)
(* covers what leaves it.                                                  *)
LEMMA SellKeepsCurveSound ==
  ASSUME NEW supply, NEW c, SoundCurve(c, supply), NEW n \in Nat, NEW lp \in Nat,
         CanSell(c, n), CalculateSell(c, n) - lp <= c.xlm_reserve
  PROVE  LET gross == CalculateSell(c, n)
             after == ExecuteSellWithLpFee(c, gross, n, lp)
         IN /\ gross \in Nat \ {0}
            /\ SoundCurve(after, supply)
            /\ after.tokens_remaining = c.tokens_remaining + n
            /\ after.tokens_remaining > 0
            /\ after.tokens_sold = c.tokens_sold - n
            /\ after.xlm_reserve = c.xlm_reserve - (gross - lp)
<1> DEFINE gross == CalculateSell(c, n)
           after == ExecuteSellWithLpFee(c, gross, n, lp)
           x == c.xlm_reserve - (gross - lp)
           y == c.tokens_remaining + n
<1>1. /\ c \in Curve
      /\ c.xlm_reserve \in Nat /\ c.tokens_remaining \in Nat
      /\ c.tokens_sold \in Nat /\ c.total_supply \in Nat /\ c.k \in Nat
      /\ c.tokens_sold + c.tokens_remaining = c.total_supply
      /\ c.total_supply = supply
  BY DEF SoundCurve, Curve
<1>2. n > 0 /\ n <= c.tokens_sold /\ gross > 0
  BY DEF CanSell
<1>3. gross \in Int
  BY <1>1, <1>2, QuotesAreIntegers
<1>4. after = [c EXCEPT !.xlm_reserve = x, !.tokens_remaining = y,
                        !.tokens_sold = @ - n, !.k = x * y]
  BY DEF ExecuteSellWithLpFee
<1>5. gross - lp <= c.xlm_reserve
  OBVIOUS
<1> HIDE DEF gross, after
<1>6. x \in Nat /\ y \in Nat /\ y > 0 /\ c.tokens_sold - n \in Nat
      /\ (c.tokens_sold - n) + y = c.total_supply
  BY <1>1, <1>2, <1>3, <1>5
<1>7. x * y \in Nat
  BY <1>6, ProductNat
<1>8. /\ after.xlm_reserve = x /\ after.tokens_remaining = y
      /\ after.tokens_sold = c.tokens_sold - n
      /\ after.k = x * y /\ after.total_supply = c.total_supply
  BY <1>1, <1>4 DEF Curve
<1> HIDE DEF x, y
<1>9. after \in Curve
  BY <1>1, <1>4, <1>6, <1>7 DEF Curve
<1>10. SoundCurve(after, supply)
  BY <1>1, <1>6, <1>8, <1>9 DEF SoundCurve
<1>11. QED
  BY <1>2, <1>3, <1>6, <1>8, <1>10 DEF after, gross, x, y
=============================================================================
