---------------------------- MODULE BondingCurve ----------------------------
(***************************************************************************)
(* The constant-product curve of sac-factory (bonding_curve.rs): pure      *)
(* operators on the stored record.  A Can... operator is the condition     *)
(* under which the Rust method returns Ok; the matching operator gives the *)
(* value or the new record.  All amounts are integers in the smallest unit *)
(* and every division is the floor division of i128 on non-negatives.      *)
(* Overflow of i128 is out of reach of the amounts that exist (the product *)
(* of the whole XLM supply and a token's supply is below 2^127) and is     *)
(* left out.                                                               *)
(***************************************************************************)
EXTENDS Integers

CONSTANT INITIAL_VIRTUAL_RESERVE   \* XLM that prices the first token; never deposited

ASSUME VirtualReserveAssumption == INITIAL_VIRTUAL_RESERVE \in Nat \ {0}

Curve == [total_supply : Nat, tokens_sold : Nat, tokens_remaining : Nat,
          xlm_reserve : Nat, k : Nat]

NewCurve(supply) ==
  [total_supply |-> supply, tokens_sold |-> 0, tokens_remaining |-> supply,
   xlm_reserve |-> INITIAL_VIRTUAL_RESERVE, k |-> INITIAL_VIRTUAL_RESERVE * supply]

(* calculate_buy.  The reserve that must remain is rounded down, so the    *)
(* amount handed to the buyer is rounded up.                               *)
CalculateBuy(c, xlmIn) == c.tokens_remaining - c.k \div (c.xlm_reserve + xlmIn)
CanBuy(c, xlmIn) == xlmIn > 0 /\ CalculateBuy(c, xlmIn) > 0

(* calculate_sell.  The same rounding: up, for the seller. *)
CalculateSell_OneTooMany(c, tokensIn) == c.xlm_reserve - c.k \div (c.tokens_remaining + tokensIn + 1)
CalculateSell(c, tokensIn) == c.xlm_reserve - c.k \div (c.tokens_remaining + tokensIn)
CanSell(c, tokensIn) ==
  tokensIn > 0 /\ tokensIn <= c.tokens_sold /\ CalculateSell(c, tokensIn) > 0

(* execute_buy_with_lp_fee: the swap and the LP fee enter the reserve.     *)
ExecuteBuyWithLpFee(c, xlmForSwap, tokensOut, lpFee) ==
  LET x == c.xlm_reserve + xlmForSwap + lpFee
      y == c.tokens_remaining - tokensOut
  IN [c EXCEPT !.xlm_reserve = x, !.tokens_remaining = y,
               !.tokens_sold = @ + tokensOut, !.k = x * y]

(* execute_sell_with_lp_fee: the LP fee stays behind.                      *)
ExecuteSellWithLpFee(c, xlmOutGross, tokensIn, lpFee) ==
  LET x == c.xlm_reserve - (xlmOutGross - lpFee)
      y == c.tokens_remaining + tokensIn
  IN [c EXCEPT !.xlm_reserve = x, !.tokens_remaining = y,
               !.tokens_sold = @ - tokensIn, !.k = x * y]
=============================================================================
