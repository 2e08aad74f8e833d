------------------------------ MODULE AmmPair -------------------------------
(***************************************************************************)
(* The AMM pair a graduated token trades on (contracts/amm-pair): a        *)
(* constant product pool of two tokens, its LP shares, and the deadline    *)
(* and minimum every call carries.  A call that returns an error changes   *)
(* nothing, so an action is a call that succeeds.  The arithmetic of       *)
(* math.rs is that of the crate astro_core_shared, by its formulas.        *)
(***************************************************************************)
EXTENDS Integers, FiniteSets

CONSTANTS
    Traders,            \* accounts that provide liquidity and swap
    MINIMUM_LIQUIDITY,  \* shares nobody owns, locked with the first deposit
    DepositAmounts,     \* amounts deposited, swapped, and shares withdrawn: never
                        \* negative, a token refuses to move a negative amount
    FirstPurse,         \* what each account holds of each token at first
    MaxLedgerTime,      \* bound of the model on the time
    PairOpsBound        \* bound of the model on calls

ASSUME PairAssumption ==
    /\ IsFiniteSet(Traders)
    /\ MINIMUM_LIQUIDITY \in Nat \ {0} /\ FirstPurse \in Nat /\ DepositAmounts \subseteq Nat
    /\ MaxLedgerTime \in Nat /\ PairOpsBound \in Nat

Sides == {0, 1}         \* token_0 and token_1
Other(s) == 1 - s
FEE_BPS == 30

VARIABLES
    pair,        \* PairInfo: [exists, reserve, total_supply]
    lpBalance,   \* storage: LP shares of each account
    purse,       \* external: the accounts' balances of the two tokens
    ledgerTime,  \* external: the timestamp of the ledger
    pairOps      \* calls so far

pairVars == <<pair, lpBalance, purse, ledgerTime, pairOps>>

NoPair == [exists |-> FALSE, reserve |-> [s \in Sides |-> 0], total_supply |-> 0]

-----------------------------------------------------------------------------
\* math.rs.  Each answers only where the contract does: positive amounts and reserves.
Positive(amount, in, out) == amount > 0 /\ in > 0 /\ out > 0
Sqrt(n) == CHOOSE r \in 0 .. n : r * r <= n /\ (r + 1) * (r + 1) > n
QuoteFor(amount, from, to) == (amount * to) \div from

GetAmountOut(amount, in, out) ==
    LET withFee == amount * (10000 - FEE_BPS)
    IN  (withFee * out) \div (in * 10000 + withFee)

-----------------------------------------------------------------------------
PairInit ==
    /\ pair = NoPair
    /\ lpBalance = [a \in Traders |-> 0]
    /\ purse = [a \in Traders |-> [s \in Sides |-> FirstPurse]]
    /\ ledgerTime = 0 /\ pairOps = 0

InTime(deadline) == ledgerTime <= deadline
Holds(a, amounts) == \A s \in Sides : amounts[s] <= purse[a][s]
Counted == pairOps < PairOpsBound /\ pairOps' = pairOps + 1

Initialize ==
    /\ ~pair.exists
    /\ pair' = [NoPair EXCEPT !.exists = TRUE]
    /\ UNCHANGED <<lpBalance, purse, ledgerTime, pairOps>>

\* What a deposit takes of the amounts desired: both at first, afterwards all of one
\* and of the other what the reserves ask for.
Optimal(s, desired) == QuoteFor(desired[s], pair.reserve[s], pair.reserve[Other(s)])
TakesAllOf0(desired) == Optimal(0, desired) <= desired[1]
Taken(desired) ==
    IF pair.total_supply = 0 THEN desired
    ELSE IF TakesAllOf0(desired) THEN [s \in Sides |-> IF s = 0 THEN desired[0] ELSE Optimal(0, desired)]
    ELSE [s \in Sides |-> IF s = 1 THEN desired[1] ELSE Optimal(1, desired)]
DepositAllowed(desired, minima) ==
    pair.total_supply > 0 =>
        IF TakesAllOf0(desired) THEN Optimal(0, desired) >= minima[1]
        ELSE Optimal(1, desired) \in minima[0] .. desired[0]

\* Mutant: a deposit is paid by its better side.
Minted_BetterSide(taken) ==
    IF pair.total_supply = 0 THEN Sqrt(taken[0] * taken[1]) - MINIMUM_LIQUIDITY
    ELSE LET share(s) == (taken[s] * pair.total_supply) \div pair.reserve[s]
         IN  IF share(0) > share(1) THEN share(0) ELSE share(1)

\* The shares a deposit is worth: the geometric mean at first, afterwards the share
\* of its worse side.
Minted(taken) ==
    IF pair.total_supply = 0 THEN Sqrt(taken[0] * taken[1]) - MINIMUM_LIQUIDITY
    ELSE LET share(s) == (taken[s] * pair.total_supply) \div pair.reserve[s]
         IN  IF share(0) < share(1) THEN share(0) ELSE share(1)

AddLiquidity(a, desired, minima, deadline) ==
    LET taken == Taken(desired)
    IN  /\ pair.exists /\ InTime(deadline)
        /\ DepositAllowed(desired, minima)
        /\ Minted(taken) > 0
        /\ Holds(a, taken)
        /\ Counted
        /\ pair' = [pair EXCEPT
               !.reserve = [s \in Sides |-> @[s] + taken[s]],
               !.total_supply = Minted(taken) + (IF @ = 0 THEN MINIMUM_LIQUIDITY ELSE @)]
        /\ lpBalance' = [lpBalance EXCEPT ![a] = @ + Minted(taken)]
        /\ purse' = [purse EXCEPT ![a] = [s \in Sides |-> @[s] - taken[s]]]
        /\ UNCHANGED ledgerTime

\* The part of the reserves that shares are worth, rounded down.
Returned(liquidity) == [s \in Sides |-> (liquidity * pair.reserve[s]) \div pair.total_supply]

RemoveLiquidity(a, liquidity, minima, deadline) ==
    /\ pair.exists /\ InTime(deadline)
    /\ liquidity <= lpBalance[a] /\ pair.total_supply > 0
    /\ \A s \in Sides : Returned(liquidity)[s] >= minima[s]
    /\ Counted
    /\ lpBalance' = [lpBalance EXCEPT ![a] = @ - liquidity]
    /\ pair' = [pair EXCEPT !.reserve = [s \in Sides |-> @[s] - Returned(liquidity)[s]],
                            !.total_supply = @ - liquidity]
    /\ purse' = [purse EXCEPT ![a] = [s \in Sides |-> @[s] + Returned(liquidity)[s]]]
    /\ UNCHANGED ledgerTime

\* The guards of a swap of token s, and what it pays.
SwapPays(s, amount) == GetAmountOut(amount, pair.reserve[s], pair.reserve[Other(s)])
SwapAccepted(s, amount, minimum, deadline) ==
    /\ pair.exists /\ InTime(deadline)
    /\ Positive(amount, pair.reserve[0], pair.reserve[1])
    /\ SwapPays(s, amount) >= minimum
KeepsProduct(s, amount) ==
    (pair.reserve[s] + amount) * (pair.reserve[Other(s)] - SwapPays(s, amount))
        >= pair.reserve[0] * pair.reserve[1]

Swapped(s, amount) ==
    [pair EXCEPT !.reserve[s] = @ + amount, !.reserve[Other(s)] = @ - SwapPays(s, amount)]

Swap(a, s, amount, minimum, deadline) ==
    /\ SwapAccepted(s, amount, minimum, deadline)
    /\ KeepsProduct(s, amount)
    /\ amount <= purse[a][s]
    /\ Counted
    /\ pair' = Swapped(s, amount)
    /\ purse' = [purse EXCEPT ![a][s] = @ - amount, ![a][Other(s)] = @ + SwapPays(s, amount)]
    /\ UNCHANGED <<lpBalance, ledgerTime>>

LedgerCloses ==
    /\ ledgerTime < MaxLedgerTime /\ ledgerTime' = ledgerTime + 1
    /\ UNCHANGED <<pair, lpBalance, purse, pairOps>>

PairNext ==
    \/ Initialize
    \/ LedgerCloses
    \/ \E a \in Traders, amount \in DepositAmounts, deadline \in 0 .. MaxLedgerTime :
          \/ \E other \in DepositAmounts : \E least \in {0, other} :
                AddLiquidity(a, [s \in Sides |-> IF s = 0 THEN amount ELSE other],
                             [s \in Sides |-> IF s = 0 THEN 0 ELSE least], deadline)
          \/ \E least \in {0, amount} :
                RemoveLiquidity(a, amount, [s \in Sides |-> least], deadline)
          \/ \E s \in Sides : \E minimum \in {0, amount} : Swap(a, s, amount, minimum, deadline)

PairSpec == PairInit /\ [][PairNext]_pairVars

-----------------------------------------------------------------------------
\* The shares left to everybody are worth at least as much, by the product of the
\* reserves, after every deposit, withdrawal and swap, whatever their rounding: no call
\* takes anything from the providers who do not take part in it.
ShareValueNeverFalls ==
    [][pair.total_supply > 0 =>
        pair'.reserve[0] * pair'.reserve[1] * pair.total_supply * pair.total_supply
            >= pair.reserve[0] * pair.reserve[1] * pair'.total_supply * pair'.total_supply]_pairVars
=============================================================================
