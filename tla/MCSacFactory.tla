---------------------------- MODULE MCSacFactory ----------------------------
(***************************************************************************)
(* Small instances of the factory.  The amounts are scaled down: a virtual *)
(* reserve of 4, a supply of 48 and fees of tenths instead of basis points *)
(* make the rounding of every trade visible within a few trades.           *)
(***************************************************************************)
EXTENDS SacFactory

CONSTANTS O, A,              \* the owner, who also is the first treasury, and a trader
          T1, S1             \* a token and a symbol

(* Purses of the accounts. *)
Thrifty == [a \in Account |-> IF a = A THEN 6 ELSE 0]
OneBuyer == [a \in Account |-> IF a = A THEN 9 ELSE 0]
RichBoth == [a \in Account |-> 8]
BigBuyer == [a \in Account |-> IF a = A THEN 130 ELSE 0]

(* What fee admins try to set, some of it out of range. *)
MCRates == {-1, 0, 3}
MCCreationFees == {-1, 2}

(* Whale limits: half of the supply with a tax from a third of it on, a    *)
(* cooldown of one tick, and tiers that set_config must refuse.            *)
HalfWithTax == [enabled |-> TRUE, maxBps |-> 5, cooldown |-> 0,
                tiers |-> << <<1, 2>>, <<3, 4>> >>]
WithCooldown == [enabled |-> TRUE, maxBps |-> 3, cooldown |-> 1, tiers |-> << >>]
Unsorted == [enabled |-> TRUE, maxBps |-> 5, cooldown |-> 0,
             tiers |-> << <<3, 4>>, <<1, 2>> >>]
MCWhaleConfigs == {HalfWithTax, WithCooldown, Unsorted}

(* Each token, taken alone, is a market in the sense of CurveMarket.       *)
Market == INSTANCE CurveMarket WITH
  phase <- status[T1], curve <- curve[T1], raised <- raised[T1], locked <- locked[T1],
  Supply <- BONDING_CURVE_SUPPLY, Amounts <- BuyAmounts,
  ProtocolFees <- 0 .. 2, LpFees <- 0 .. 1,
  Reserves <- 0 .. INITIAL_VIRTUAL_RESERVE + 100
TokenIsMarket == Market!Spec
=============================================================================
