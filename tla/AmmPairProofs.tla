---------------------------- MODULE AmmPairProofs ---------------------------
(***************************************************************************)
(* Proofs about the AMM pair, for every set of traders, every amount and   *)
(* every minimum of locked shares: its books balance, its reserves are     *)
(* never emptied, and no call lowers what a share is worth.  And about the *)
(* web application's client of the factory beside that pair, for every     *)
(* first curve, every amount that can be typed and every size of the pool: *)
(* what it quotes is what is paid, and what it prepares is accepted.  And  *)
(* about its charts: what they draw is what they were given (ChartsInv,    *)
(* with the pass over the points of a line as an induction on its length). *)
(***************************************************************************)
EXTENDS FactoryClient, ArithmeticTheorems, MarketCharts, FunctionTheorems, SequenceTheorems

(* What a share is worth never falls when, side by side, the reserves grow *)
(* at least in the proportion the shares do: from T shares of a and b to   *)
(* U shares of c and d.                                                    *)
LEMMA SideBySide ==
  ASSUME NEW a \in Nat, NEW b \in Nat, NEW c \in Nat, NEW d \in Nat,
         NEW T \in Nat, NEW U \in Nat, c * T >= a * U, d * T >= b * U
  PROVE  c * d * T * T >= a * b * U * U
<1> DEFINE ct == c * T
           dt == d * T
           au == a * U
           bu == b * U
<1>1. ct \in Nat /\ dt \in Nat /\ au \in Nat /\ bu \in Nat /\ ct >= au /\ dt >= bu
  BY ProductNat
<1>2. c * d * T * T = ct * dt /\ a * b * U * U = au * bu
  OBVIOUS
<1> HIDE DEF ct, dt, au, bu
<1>3. ct * dt >= au * dt
  BY <1>1
<1>4. au * dt >= au * bu
  BY <1>1
<1>5. ct * dt \in Nat /\ au * dt \in Nat /\ au * bu \in Nat
  BY <1>1, ProductNat
<1>6. QED
  BY <1>2, <1>3, <1>4, <1>5

(* A share of a side, rounded down, costs at least its part of the side.   *)
LEMMA PartOfSide ==
  ASSUME NEW part \in Nat, NEW whole \in Nat \ {0}, NEW scale \in Nat
  PROVE  LET share == (part * scale) \div whole
         IN  share \in Nat /\ share * whole <= part * scale
<1>1. part * scale \in Nat
  BY ProductNat
<1>2. QED
  BY <1>1, DivFloor

(* The square root of math.rs is a natural number.                         *)
LEMMA RootExists ==
  ASSUME NEW n \in Nat
  PROVE  Sqrt(n) \in 0 .. n /\ Sqrt(n) * Sqrt(n) <= n
<1> DEFINE R == {r \in 0 .. n : r * r <= n}
<1>1. IsFiniteSet(R) /\ 0 \in R /\ \A i \in R : i \in Int
  <2>1. IsFiniteSet(0 .. n)
    BY FS_Interval
  <2>2. R \subseteq 0 .. n
    OBVIOUS
  <2>3. QED
    BY <2>1, <2>2, FS_Subset
<1>2. PICK r \in R : \A j \in R : j <= r
  BY <1>1, LargestElement
<1>3. (r + 1) * (r + 1) > n
  <2>1. CASE r + 1 \in R
    BY <1>2, <2>1
  <2>2. CASE r + 1 \notin 0 .. n
    <3>1. r = n
      BY <2>2
    <3>2. n * n \in Nat /\ (n + 1) * (n + 1) = n * n + n + n + 1
      BY ProductNat
    <3>3. QED
      BY <3>1, <3>2
  <2>3. CASE r + 1 \in 0 .. n /\ (r + 1) * (r + 1) > n
    BY <2>3
  <2>4. (r + 1) * (r + 1) \in Nat
    BY ProductNat
  <2>5. QED
    BY <2>1, <2>2, <2>3, <2>4
<1>4. r \in 0 .. n /\ r * r <= n /\ (r + 1) * (r + 1) > n
  BY <1>3
<1>5. QED
  BY <1>4, Zenon DEF Sqrt

-----------------------------------------------------------------------------
(* Every field has its type, and a pair that does not exist is empty.      *)
PairTypeOK ==
  /\ pair \in [exists : BOOLEAN, reserve : [Sides -> Nat], total_supply : Nat]
  /\ lpBalance \in [Traders -> Nat]
  /\ purse \in [Traders -> [Sides -> Nat]]
  /\ ledgerTime \in Nat /\ pairOps \in Nat
  /\ pair.exists \/ pair = NoPair

(* Without shares the pool holds nothing; with shares it holds something   *)
(* of each token, because the locked shares are never withdrawn.           *)
ReservesFollowShares ==
  \/ pair.total_supply = 0 /\ \A s \in Sides : pair.reserve[s] = 0
  \/ pair.total_supply >= MINIMUM_LIQUIDITY /\ \A s \in Sides : pair.reserve[s] > 0

(* Every share but the locked ones is in somebody's balance.               *)
SharesAddUp ==
  SumFunctionOnSet(lpBalance, Traders)
    = IF pair.total_supply = 0 THEN 0 ELSE pair.total_supply - MINIMUM_LIQUIDITY

PairInv == PairTypeOK /\ ReservesFollowShares /\ SharesAddUp

LEMMA SharesBounded ==
  ASSUME PairInv, NEW a \in Traders
  PROVE  /\ SumFunctionOnSet(lpBalance, Traders) \in Nat
         /\ lpBalance[a] <= SumFunctionOnSet(lpBalance, Traders)
         /\ pair.total_supply > 0 => lpBalance[a] < pair.total_supply
<1>1. IsFiniteSet(Traders) /\ MINIMUM_LIQUIDITY \in Nat \ {0}
  BY PairAssumption
<1>2. lpBalance \in [Traders -> Nat] /\ pair.total_supply \in Nat
  BY DEF PairInv, PairTypeOK
<1>3. \A x \in Traders : lpBalance[x] \in Int /\ lpBalance[x] >= 0
  BY <1>2
<1>4. /\ SumFunctionOnSet(lpBalance, Traders) \in Nat
      /\ lpBalance[a] <= SumFunctionOnSet(lpBalance, Traders)
  BY <1>1, <1>3, SumNonNegative
<1>5. QED
  BY <1>1, <1>2, <1>4 DEF PairInv, SharesAddUp

(* What a deposit takes and the shares it is given: something of each side *)
(* at first, afterwards no more shares than either side pays for.          *)
LEMMA DepositFacts ==
  ASSUME PairInv, NEW desired \in [Sides -> Nat], NEW minima \in [Sides -> Nat],
         DepositAllowed(desired, minima), Minted(Taken(desired)) > 0
  PROVE  LET taken == Taken(desired)
             m == Minted(taken)
         IN /\ taken \in [Sides -> Nat]
            /\ m \in Nat
            /\ pair.total_supply = 0 => taken[0] > 0 /\ taken[1] > 0
            /\ pair.total_supply > 0 =>
                 \A s \in Sides : m * pair.reserve[s] <= taken[s] * pair.total_supply
<1> DEFINE taken == Taken(desired)
           m == Minted(taken)
           T == pair.total_supply
<1>1. /\ T \in Nat /\ pair.reserve[0] \in Nat /\ pair.reserve[1] \in Nat
      /\ T > 0 => pair.reserve[0] > 0 /\ pair.reserve[1] > 0
      /\ desired[0] \in Nat /\ desired[1] \in Nat
  BY PairAssumption DEF PairInv, PairTypeOK, ReservesFollowShares, Sides
<1>2. taken \in [Sides -> Nat]
  <2>1. CASE T = 0
    BY <2>1 DEF Taken
  <2>2. CASE T > 0
    <3>1. Optimal(0, desired) \in Nat /\ Optimal(1, desired) \in Nat
      <4>1. desired[0] * pair.reserve[1] \in Nat /\ desired[1] * pair.reserve[0] \in Nat
        BY <1>1, ProductNat
      <4>2. QED
        BY <1>1, <2>2, <4>1, DivFloor DEF Optimal, QuoteFor, Other
    <3>2. QED
      BY <1>1, <2>2, <3>1 DEF Taken, TakesAllOf0
  <2>3. QED
    BY <1>1, <2>1, <2>2
<1>3. taken[0] \in Nat /\ taken[1] \in Nat
  BY <1>2 DEF Sides
<1> HIDE DEF taken
<1>4. CASE T = 0
  <2> DEFINE n == taken[0] * taken[1]
  <2>1. n \in Nat
    BY <1>3, ProductNat
  <2>2. m = Sqrt(n) - MINIMUM_LIQUIDITY /\ m > 0
    BY <1>4 DEF Minted, taken
  <2>3. Sqrt(n) \in Nat /\ Sqrt(n) <= n
    BY <2>1, RootExists
  <2> HIDE DEF m
  <2>4. m \in Nat /\ n > 0
    BY <2>1, <2>2, <2>3, PairAssumption
  <2>5. taken[0] # 0 /\ taken[1] # 0
    BY <1>3, <2>4
  <2>6. QED
    BY <1>2, <1>3, <1>4, <2>4, <2>5 DEF m, taken
<1>5. CASE T > 0
  <2> DEFINE share(s) == (taken[s] * T) \div pair.reserve[s]
  <2>1. /\ share(0) \in Nat /\ share(0) * pair.reserve[0] <= taken[0] * T
        /\ share(1) \in Nat /\ share(1) * pair.reserve[1] <= taken[1] * T
    <3>1. /\ pair.reserve[0] \in Nat \ {0} /\ pair.reserve[1] \in Nat \ {0}
          /\ T \in Nat
      BY <1>1, <1>5
    <3> HIDE DEF T
    <3>2. share(0) \in Nat /\ share(0) * pair.reserve[0] <= taken[0] * T
      BY <1>3, <3>1, PartOfSide
    <3>3. share(1) \in Nat /\ share(1) * pair.reserve[1] <= taken[1] * T
      BY <1>3, <3>1, PartOfSide
    <3>4. QED
      BY <3>2, <3>3
  <2>2. m = IF share(0) < share(1) THEN share(0) ELSE share(1)
    BY <1>1, <1>5 DEF Minted
  <2> HIDE DEF share, m
  <2>3. m \in Nat /\ m <= share(0) /\ m <= share(1)
    BY <2>1, <2>2
  <2>4. /\ m * pair.reserve[0] <= share(0) * pair.reserve[0]
        /\ m * pair.reserve[1] <= share(1) * pair.reserve[1]
    BY <1>1, <2>1, <2>3
  <2>5. /\ m * pair.reserve[0] \in Nat /\ m * pair.reserve[1] \in Nat
        /\ share(0) * pair.reserve[0] \in Nat /\ share(1) * pair.reserve[1] \in Nat
        /\ taken[0] * T \in Nat /\ taken[1] * T \in Nat
    BY <1>1, <1>3, <2>1, <2>3, ProductNat
  <2>6. \A s \in Sides : m * pair.reserve[s] <= taken[s] * T
    BY <2>1, <2>4, <2>5 DEF Sides
  <2>7. QED
    BY <1>2, <1>5, <2>3, <2>6 DEF m, taken
<1>6. QED
  BY <1>1, <1>4, <1>5

(* What a withdrawal returns of each side: never all of it.                *)
LEMMA WithdrawalFacts ==
  ASSUME PairInv, NEW a \in Traders, NEW liquidity \in Nat,
         liquidity <= lpBalance[a], pair.total_supply > 0
  PROVE  /\ liquidity < pair.total_supply
         /\ Returned(liquidity) \in [Sides -> Nat]
         /\ \A s \in Sides :
              /\ Returned(liquidity)[s] < pair.reserve[s]
              /\ Returned(liquidity)[s] * pair.total_supply <= liquidity * pair.reserve[s]
<1>1. /\ pair.total_supply \in Nat \ {0}
      /\ \A s \in Sides : pair.reserve[s] \in Nat /\ pair.reserve[s] > 0
      /\ lpBalance[a] \in Nat
  BY PairAssumption DEF PairInv, PairTypeOK, ReservesFollowShares
<1>2. liquidity < pair.total_supply
  BY <1>1, SharesBounded
<1>3. ASSUME NEW s \in Sides
      PROVE  LET part == Returned(liquidity)[s]
             IN /\ part \in Nat
                /\ part < pair.reserve[s]
                /\ part * pair.total_supply <= liquidity * pair.reserve[s]
  <2> DEFINE part == Returned(liquidity)[s]
             r == pair.reserve[s]
             T == pair.total_supply
  <2>1. part = (liquidity * r) \div T
    BY DEF Returned
  <2>2. r \in Nat /\ r > 0 /\ T \in Nat \ {0} /\ liquidity < T
    BY <1>1, <1>2
  <2> HIDE DEF part, r, T
  <2>3. part \in Nat /\ part * T <= liquidity * r
    BY <2>1, <2>2, PartOfSide
  <2>4. liquidity * r < T * r /\ T * r \in Nat /\ liquidity * r \in Nat /\ part * T \in Nat
    BY <2>2, <2>3, ProductNat
  <2>5. part < r
    <3>1. SUFFICES ASSUME part >= r PROVE FALSE
      BY <2>2, <2>3
    <3>2. part * T >= r * T /\ r * T = T * r
      BY <2>2, <2>3, <3>1
    <3>3. QED
      BY <2>3, <2>4, <3>2
  <2>6. QED
    BY <2>3, <2>5 DEF part, r, T
<1>4. QED
  BY <1>2, <1>3 DEF Returned

(* A swap pays less than the reserve it is paid from.                      *)
LEMMA SwapFacts ==
  ASSUME PairInv, NEW s \in Sides, NEW amount \in Nat, NEW minimum, NEW deadline,
         SwapAccepted(s, amount, minimum, deadline)
  PROVE  /\ Other(s) \in Sides /\ Other(s) # s
         /\ SwapPays(s, amount) \in Nat
         /\ SwapPays(s, amount) < pair.reserve[Other(s)]
<1> DEFINE i == pair.reserve[s]
           o == pair.reserve[Other(s)]
           w == amount * (10000 - FEE_BPS)
           d == i * 10000 + w
           out == SwapPays(s, amount)
<1>1. Other(s) \in Sides /\ Other(s) # s
  BY DEF Other, Sides
<1>2. /\ i \in Nat \ {0} /\ o \in Nat \ {0} /\ amount > 0
  BY <1>1 DEF PairInv, PairTypeOK, SwapAccepted, Positive, Sides
<1>3. w \in Nat
  BY DEF FEE_BPS
<1>4. out = (w * o) \div d
  BY DEF SwapPays, GetAmountOut
<1> HIDE DEF i, o, w, out
<1>5. d \in Nat \ {0} /\ w < d
  BY <1>2, <1>3
<1> HIDE DEF d
<1>6. out \in Nat /\ out * d <= w * o
  BY <1>2, <1>3, <1>4, <1>5, PartOfSide
<1>7. w * o < d * o /\ w * o \in Nat /\ d * o \in Nat /\ out * d \in Nat
  BY <1>2, <1>3, <1>5, <1>6, ProductNat
<1>8. out < o
  <2>1. SUFFICES ASSUME out >= o PROVE FALSE
    BY <1>2, <1>6
  <2>2. out * d >= o * d /\ o * d = d * o
    BY <1>2, <1>5, <1>6, <2>1
  <2>3. QED
    BY <1>6, <1>7, <2>2
<1>9. QED
  BY <1>1, <1>6, <1>8 DEF out, o

LEMMA DepositKeepsInv ==
  ASSUME PairInv, NEW a \in Traders, NEW desired \in [Sides -> Nat],
         NEW minima \in [Sides -> Nat], NEW deadline, AddLiquidity(a, desired, minima, deadline)
  PROVE  PairInv'
<1> DEFINE taken == Taken(desired)
           m == Minted(taken)
           T == pair.total_supply
<1>1. /\ DepositAllowed(desired, minima) /\ m > 0 /\ pair.exists
      /\ \A s \in Sides : taken[s] <= purse[a][s]
      /\ pair' = [pair EXCEPT
            !.reserve = [s \in Sides |-> @[s] + taken[s]],
            !.total_supply = m + (IF @ = 0 THEN MINIMUM_LIQUIDITY ELSE @)]
      /\ lpBalance' = [lpBalance EXCEPT ![a] = @ + m]
      /\ purse' = [purse EXCEPT ![a] = [s \in Sides |-> @[s] - taken[s]]]
      /\ ledgerTime' = ledgerTime /\ pairOps' = pairOps + 1
  BY DEF AddLiquidity, Holds, Counted
<1>2. /\ taken \in [Sides -> Nat] /\ m \in Nat \ {0}
      /\ T = 0 => taken[0] > 0 /\ taken[1] > 0
  BY <1>1, DepositFacts
<1>3. MINIMUM_LIQUIDITY \in Nat \ {0} /\ IsFiniteSet(Traders)
  BY PairAssumption
<1>4. /\ pair \in [exists : BOOLEAN, reserve : [Sides -> Nat], total_supply : Nat]
      /\ lpBalance \in [Traders -> Nat] /\ purse \in [Traders -> [Sides -> Nat]]
      /\ ledgerTime \in Nat /\ pairOps \in Nat
  BY DEF PairInv, PairTypeOK
<1>5. T \in Nat
  BY <1>4
<1> HIDE DEF taken, m
<1>6. /\ pair' \in [exists : BOOLEAN, reserve : [Sides -> Nat], total_supply : Nat]
      /\ pair'.exists
      /\ pair'.reserve = [s \in Sides |-> pair.reserve[s] + taken[s]]
      /\ pair'.total_supply = m + (IF T = 0 THEN MINIMUM_LIQUIDITY ELSE T)
  <2> DEFINE r == [s \in Sides |-> pair.reserve[s] + taken[s]]
             n == m + (IF T = 0 THEN MINIMUM_LIQUIDITY ELSE T)
  <2>1. pair' = [pair EXCEPT !.reserve = r, !.total_supply = n]
    BY <1>1
  <2>2. r \in [Sides -> Nat] /\ n \in Nat
    BY <1>2, <1>3, <1>4, <1>5
  <2> HIDE DEF r, n
  <2>3. /\ pair' \in [exists : BOOLEAN, reserve : [Sides -> Nat], total_supply : Nat]
        /\ pair'.exists = pair.exists /\ pair'.reserve = r /\ pair'.total_supply = n
    BY <1>4, <2>1, <2>2
  <2>4. QED
    BY <1>1, <2>3 DEF r, n
<1>7. PairTypeOK'
  <2>2. lpBalance' \in [Traders -> Nat]
    BY <1>1, <1>2, <1>4
  <2>3. purse' \in [Traders -> [Sides -> Nat]]
    <3>1. [s \in Sides |-> purse[a][s] - taken[s]] \in [Sides -> Nat]
      BY <1>1, <1>2, <1>4
    <3>2. QED
      BY <1>1, <1>4, <3>1
  <2>4. pairOps' \in Nat
    BY <1>1, <1>4
  <2>5. QED
    BY <1>1, <1>4, <1>6, <2>2, <2>3, <2>4, Zenon DEF PairTypeOK
<1>8. ReservesFollowShares'
  <2>1. \A s \in Sides : pair.reserve[s] \in Nat /\ taken[s] \in Nat
    BY <1>2, <1>4
  <2>2. \A s \in Sides : pair.reserve[s] + taken[s] > 0
    <3>1. CASE T = 0
      BY <1>2, <2>1, <3>1 DEF Sides
    <3>2. CASE T # 0
      BY <2>1, <3>2 DEF PairInv, ReservesFollowShares
    <3>3. QED
      BY <3>1, <3>2
  <2>3. m + (IF T = 0 THEN MINIMUM_LIQUIDITY ELSE T) >= MINIMUM_LIQUIDITY
    <3>1. T = 0 \/ T >= MINIMUM_LIQUIDITY
      BY DEF PairInv, ReservesFollowShares
    <3>2. QED
      BY <1>2, <1>3, <1>5, <3>1
  <2>4. QED
    BY <1>6, <2>2, <2>3 DEF ReservesFollowShares
<1>9. SharesAddUp'
  <2>1. /\ lpBalance \in [Traders -> Int] /\ lpBalance[a] + m \in Int /\ lpBalance[a] \in Nat
    BY <1>2, <1>4
  <2>2. /\ \A x \in Traders : lpBalance[x] \in Int /\ lpBalance'[x] \in Int
        /\ \A x \in Traders : x # a => lpBalance'[x] = lpBalance[x]
        /\ lpBalance'[a] = lpBalance[a] + m
    BY <1>1, <1>2, <2>1
  <2>3. /\ SumFunctionOnSet(lpBalance, Traders) \in Int
        /\ SumFunctionOnSet(lpBalance', Traders) = SumFunctionOnSet(lpBalance, Traders) + m
    <3>1. /\ SumFunctionOnSet(lpBalance, Traders) \in Int
          /\ SumFunctionOnSet(lpBalance', Traders)
               = SumFunctionOnSet(lpBalance, Traders) - lpBalance[a] + lpBalance'[a]
      BY <1>3, <2>2, SumDiffersAtOnePoint
    <3>2. QED
      BY <1>2, <2>1, <2>2, <3>1
  <2>4. pair'.total_supply = m + (IF T = 0 THEN MINIMUM_LIQUIDITY ELSE T)
    BY <1>6
  <2>5. SumFunctionOnSet(lpBalance, Traders) = IF T = 0 THEN 0 ELSE T - MINIMUM_LIQUIDITY
    BY DEF PairInv, SharesAddUp
  <2>6. QED
    BY <1>2, <1>3, <1>5, <2>3, <2>4, <2>5 DEF SharesAddUp
<1>10. QED
  BY <1>7, <1>8, <1>9 DEF PairInv

LEMMA WithdrawalKeepsInv ==
  ASSUME PairInv, NEW a \in Traders, NEW liquidity \in Nat, NEW minima,
         NEW deadline, RemoveLiquidity(a, liquidity, minima, deadline)
  PROVE  PairInv'
<1> DEFINE back == Returned(liquidity)
           T == pair.total_supply
<1>1. /\ pair.exists /\ liquidity <= lpBalance[a] /\ T > 0
      /\ lpBalance' = [lpBalance EXCEPT ![a] = @ - liquidity]
      /\ pair' = [pair EXCEPT !.reserve = [s \in Sides |-> @[s] - back[s]],
                              !.total_supply = @ - liquidity]
      /\ purse' = [purse EXCEPT ![a] = [s \in Sides |-> @[s] + back[s]]]
      /\ ledgerTime' = ledgerTime /\ pairOps' = pairOps + 1
  BY DEF RemoveLiquidity, Counted
<1>2. /\ liquidity < T /\ back \in [Sides -> Nat]
      /\ \A s \in Sides : back[s] < pair.reserve[s]
  BY <1>1, WithdrawalFacts
<1>3. MINIMUM_LIQUIDITY \in Nat \ {0} /\ IsFiniteSet(Traders)
  BY PairAssumption
<1>4. /\ pair \in [exists : BOOLEAN, reserve : [Sides -> Nat], total_supply : Nat]
      /\ lpBalance \in [Traders -> Nat] /\ purse \in [Traders -> [Sides -> Nat]]
      /\ ledgerTime \in Nat /\ pairOps \in Nat
  BY DEF PairInv, PairTypeOK
<1>5. T \in Nat
  BY <1>4
<1> HIDE DEF back
<1>6. /\ pair' \in [exists : BOOLEAN, reserve : [Sides -> Nat], total_supply : Nat]
      /\ pair'.exists
      /\ pair'.reserve = [s \in Sides |-> pair.reserve[s] - back[s]]
      /\ \A s \in Sides : pair'.reserve[s] > 0
      /\ pair'.total_supply = T - liquidity
  <2> DEFINE r == [s \in Sides |-> pair.reserve[s] - back[s]]
             n == T - liquidity
  <2>1. pair' = [pair EXCEPT !.reserve = r, !.total_supply = n]
    BY <1>1
  <2>2. r \in [Sides -> Nat] /\ n \in Nat /\ \A s \in Sides : r[s] > 0
    BY <1>2, <1>4, <1>5
  <2> HIDE DEF r, n
  <2>3. /\ pair' \in [exists : BOOLEAN, reserve : [Sides -> Nat], total_supply : Nat]
        /\ pair'.exists = pair.exists /\ pair'.reserve = r /\ pair'.total_supply = n
    BY <1>4, <2>1, <2>2
  <2>4. QED
    BY <1>1, <2>2, <2>3 DEF r, n
<1>7. PairTypeOK'
  <2>2. lpBalance' \in [Traders -> Nat]
    BY <1>1, <1>4
  <2>3. purse' \in [Traders -> [Sides -> Nat]]
    <3>1. [s \in Sides |-> purse[a][s] + back[s]] \in [Sides -> Nat]
      BY <1>2, <1>4
    <3>2. QED
      BY <1>1, <1>4, <3>1
  <2>4. pairOps' \in Nat
    BY <1>1, <1>4
  <2>5. QED
    BY <1>1, <1>4, <1>6, <2>2, <2>3, <2>4, Zenon DEF PairTypeOK
<1>8. SharesAddUp' /\ T - liquidity >= MINIMUM_LIQUIDITY
  <2>1. /\ lpBalance \in [Traders -> Int] /\ lpBalance[a] - liquidity \in Int
        /\ lpBalance[a] \in Nat
    BY <1>4
  <2>2. /\ \A x \in Traders : lpBalance[x] \in Int /\ lpBalance'[x] \in Int
        /\ \A x \in Traders : x # a => lpBalance'[x] = lpBalance[x]
        /\ lpBalance'[a] = lpBalance[a] - liquidity
    BY <1>1, <1>2, <2>1
  <2>3. /\ SumFunctionOnSet(lpBalance, Traders) \in Int
        /\ SumFunctionOnSet(lpBalance', Traders) = SumFunctionOnSet(lpBalance, Traders) - liquidity
    <3>1. /\ SumFunctionOnSet(lpBalance, Traders) \in Int
          /\ SumFunctionOnSet(lpBalance', Traders)
               = SumFunctionOnSet(lpBalance, Traders) - lpBalance[a] + lpBalance'[a]
      BY <1>3, <2>2, SumDiffersAtOnePoint
    <3>2. QED
      BY <1>2, <2>1, <2>2, <3>1
  <2>4. pair'.total_supply = T - liquidity
    BY <1>6
  <2>5. SumFunctionOnSet(lpBalance, Traders) = T - MINIMUM_LIQUIDITY
    BY <1>1, <1>5 DEF PairInv, SharesAddUp
  <2>6. liquidity <= SumFunctionOnSet(lpBalance, Traders)
    BY <1>1, <2>1, <2>2, SharesBounded
  <2>7. QED
    BY <1>1, <1>3, <1>5, <2>3, <2>4, <2>5, <2>6 DEF SharesAddUp
<1>9. ReservesFollowShares'
  BY <1>6, <1>8 DEF ReservesFollowShares
<1>10. QED
  BY <1>7, <1>8, <1>9 DEF PairInv

LEMMA SwapKeepsInv ==
  ASSUME PairInv, NEW a \in Traders, NEW s \in Sides, NEW amount \in Nat, NEW minimum,
         NEW deadline, Swap(a, s, amount, minimum, deadline)
  PROVE  PairInv'
<1> DEFINE out == SwapPays(s, amount)
           o == Other(s)
<1>1. /\ SwapAccepted(s, amount, minimum, deadline) /\ amount <= purse[a][s]
      /\ pair' = [pair EXCEPT !.reserve[s] = @ + amount, !.reserve[o] = @ - out]
      /\ purse' = [purse EXCEPT ![a][s] = @ - amount, ![a][o] = @ + out]
      /\ lpBalance' = lpBalance /\ ledgerTime' = ledgerTime /\ pairOps' = pairOps + 1
  BY DEF Swap, Swapped, Counted
<1>2. o \in Sides /\ o # s /\ out \in Nat /\ out < pair.reserve[o]
  BY <1>1, SwapFacts
<1>3. /\ pair \in [exists : BOOLEAN, reserve : [Sides -> Nat], total_supply : Nat]
      /\ lpBalance \in [Traders -> Nat] /\ purse \in [Traders -> [Sides -> Nat]]
      /\ ledgerTime \in Nat /\ pairOps \in Nat
  BY DEF PairInv, PairTypeOK
<1>4. pair.exists /\ \A x \in Sides : pair.reserve[x] > 0
  BY <1>1, <1>3 DEF SwapAccepted, Positive, Sides
<1> HIDE DEF out, o
<1>5. /\ pair'.exists = pair.exists /\ pair'.total_supply = pair.total_supply
      /\ pair'.reserve \in [Sides -> Nat]
      /\ pair' \in [exists : BOOLEAN, reserve : [Sides -> Nat], total_supply : Nat]
      /\ \A x \in Sides : pair'.reserve[x] > 0
  <2> DEFINE r == [pair.reserve EXCEPT ![s] = @ + amount, ![o] = @ - out]
  <2>1. pair' = [pair EXCEPT !.reserve = r]
    BY <1>1, <1>2, <1>3
  <2>2. r \in [Sides -> Nat] /\ \A x \in Sides : r[x] > 0
    BY <1>2, <1>3, <1>4
  <2>3. QED
    BY <1>3, <2>1, <2>2
<1>6. purse' \in [Traders -> [Sides -> Nat]]
  BY <1>1, <1>2, <1>3
<1>7. PairTypeOK'
  BY <1>1, <1>3, <1>4, <1>5, <1>6 DEF PairTypeOK
<1>8. ReservesFollowShares'
  BY <1>4, <1>5 DEF PairInv, ReservesFollowShares
<1>9. SharesAddUp'
  BY <1>1, <1>5 DEF PairInv, SharesAddUp
<1>10. QED
  BY <1>7, <1>8, <1>9 DEF PairInv

(* A pair that comes into existence is empty. *)
LEMMA InitializeKeepsInv ==
  ASSUME PairInv, Initialize
  PROVE  PairInv' /\ pair'.total_supply = pair.total_supply /\ pair'.reserve = pair.reserve
<1>1. pair = NoPair /\ pair' = [NoPair EXCEPT !.exists = TRUE]
  BY DEF PairInv, PairTypeOK, Initialize
<1>2. /\ lpBalance' = lpBalance /\ purse' = purse
      /\ ledgerTime' = ledgerTime /\ pairOps' = pairOps
  BY DEF Initialize
<1>3. /\ pair'.exists /\ pair'.total_supply = pair.total_supply /\ pair'.reserve = pair.reserve
      /\ pair' \in [exists : BOOLEAN, reserve : [Sides -> Nat], total_supply : Nat]
  BY <1>1 DEF NoPair
<1>4. PairTypeOK'
  BY <1>2, <1>3, Zenon DEF PairInv, PairTypeOK
<1>5. ReservesFollowShares' /\ SharesAddUp'
  BY <1>2, <1>3 DEF PairInv, ReservesFollowShares, SharesAddUp
<1>6. QED
  BY <1>3, <1>4, <1>5 DEF PairInv

LEMMA PairStep ==
  ASSUME PairInv, [PairNext]_pairVars
  PROVE  PairInv'
<1>1. CASE UNCHANGED pairVars
  BY <1>1 DEF pairVars, PairInv, PairTypeOK, ReservesFollowShares, SharesAddUp
<1>2. CASE Initialize
  BY <1>2, InitializeKeepsInv
<1>3. CASE LedgerCloses
  <2>1. ledgerTime' \in Nat
    BY <1>3 DEF LedgerCloses, PairInv, PairTypeOK
  <2>2. QED
    BY <1>3, <2>1, Zenon
    DEF LedgerCloses, PairInv, PairTypeOK, ReservesFollowShares, SharesAddUp
<1>4. ASSUME NEW a \in Traders, NEW amount \in DepositAmounts, NEW deadline \in 0 .. MaxLedgerTime,
             \/ \E other \in DepositAmounts : \E least \in {0, other} :
                   AddLiquidity(a, [s \in Sides |-> IF s = 0 THEN amount ELSE other],
                                [s \in Sides |-> IF s = 0 THEN 0 ELSE least], deadline)
             \/ \E least \in {0, amount} :
                   RemoveLiquidity(a, amount, [s \in Sides |-> least], deadline)
             \/ \E s \in Sides : \E minimum \in {0, amount} : Swap(a, s, amount, minimum, deadline)
      PROVE  PairInv'
  <2>1. amount \in Nat /\ \A other \in DepositAmounts : other \in Nat
    BY PairAssumption
  <2>2. ASSUME NEW other \in DepositAmounts, NEW least \in {0, other},
               AddLiquidity(a, [s \in Sides |-> IF s = 0 THEN amount ELSE other],
                            [s \in Sides |-> IF s = 0 THEN 0 ELSE least], deadline)
        PROVE  PairInv'
    <3> DEFINE desired == [s \in Sides |-> IF s = 0 THEN amount ELSE other]
               minima == [s \in Sides |-> IF s = 0 THEN 0 ELSE least]
    <3>1. desired \in [Sides -> Nat] /\ minima \in [Sides -> Nat]
      BY <2>1
    <3>2. AddLiquidity(a, desired, minima, deadline)
      BY <2>2
    <3> HIDE DEF desired, minima
    <3>3. QED
      BY <3>1, <3>2, DepositKeepsInv
  <2>3. ASSUME NEW least, RemoveLiquidity(a, amount, [s \in Sides |-> least], deadline)
        PROVE  PairInv'
    BY <2>1, <2>3, WithdrawalKeepsInv
  <2>4. ASSUME NEW s \in Sides, NEW minimum, Swap(a, s, amount, minimum, deadline)
        PROVE  PairInv'
    BY <2>1, <2>4, SwapKeepsInv
  <2>5. QED
    BY <1>4, <2>2, <2>3, <2>4
<1>5. QED
  BY <1>1, <1>2, <1>3, <1>4 DEF PairNext

(* The books of the pair balance: every share but the locked ones is in an *)
(* account (lib.rs, mint and burn of LP shares), and the reserves are      *)
(* empty exactly as long as nobody ever deposited.                         *)
THEOREM PairBooksBalance == PairSpec => []PairInv
<1>1. PairInit => PairInv
  <2>1. ASSUME PairInit PROVE PairTypeOK /\ ReservesFollowShares
    BY <2>1, PairAssumption
    DEF PairInit, PairTypeOK, ReservesFollowShares, NoPair, Sides
  <2>2. ASSUME PairInit PROVE SharesAddUp
    <3>1. IsFiniteSet(Traders) /\ \A x \in Traders : lpBalance[x] = 0
      BY <2>2, PairAssumption DEF PairInit
    <3>2. SumFunctionOnSet(lpBalance, Traders) = 0
      BY <3>1, SumNonNegative
    <3>3. QED
      BY <2>2, <3>2 DEF PairInit, SharesAddUp, NoPair
  <2>3. QED
    BY <2>1, <2>2 DEF PairInv
<1>2. PairInv /\ [PairNext]_pairVars => PairInv'
  BY PairStep
<1>3. QED
  BY <1>1, <1>2, PTL DEF PairSpec

-----------------------------------------------------------------------------
(* The property of AmmPair, as an action. *)
ShareValueKept ==
  pair.total_supply > 0 =>
    pair'.reserve[0] * pair'.reserve[1] * pair.total_supply * pair.total_supply
      >= pair.reserve[0] * pair.reserve[1] * pair'.total_supply * pair'.total_supply

LEMMA DepositKeepsValue ==
  ASSUME PairInv, NEW a \in Traders, NEW desired \in [Sides -> Nat],
         NEW minima \in [Sides -> Nat], NEW deadline, AddLiquidity(a, desired, minima, deadline)
  PROVE  ShareValueKept
<1> DEFINE taken == Taken(desired)
           m == Minted(taken)
           T == pair.total_supply
           r0 == pair.reserve[0]
           r1 == pair.reserve[1]
           t0 == taken[0]
           t1 == taken[1]
<1>1. SUFFICES ASSUME T > 0 PROVE ShareValueKept
  BY DEF ShareValueKept
<1>2. /\ DepositAllowed(desired, minima) /\ m > 0
      /\ pair' = [pair EXCEPT
            !.reserve = [s \in Sides |-> @[s] + taken[s]],
            !.total_supply = m + (IF @ = 0 THEN MINIMUM_LIQUIDITY ELSE @)]
  BY DEF AddLiquidity
<1>3. /\ pair \in [exists : BOOLEAN, reserve : [Sides -> Nat], total_supply : Nat]
      /\ 0 \in Sides /\ 1 \in Sides
  BY DEF PairInv, PairTypeOK, Sides
<1>4. /\ taken \in [Sides -> Nat] /\ m \in Nat
      /\ m * r0 <= t0 * T /\ m * r1 <= t1 * T
  BY <1>1, <1>2, <1>3, DepositFacts
<1> HIDE DEF taken, m
<1>5. /\ pair'.reserve[0] = r0 + t0 /\ pair'.reserve[1] = r1 + t1
      /\ pair'.total_supply = T + m
      /\ T \in Nat /\ r0 \in Nat /\ r1 \in Nat /\ t0 \in Nat /\ t1 \in Nat
  BY <1>1, <1>2, <1>3, <1>4
<1> HIDE DEF T, r0, r1, t0, t1
<1>6. (r0 + t0) * T >= r0 * (T + m) /\ (r1 + t1) * T >= r1 * (T + m)
  <2>1. /\ (r0 + t0) * T = r0 * T + t0 * T /\ r0 * (T + m) = r0 * T + m * r0
        /\ (r1 + t1) * T = r1 * T + t1 * T /\ r1 * (T + m) = r1 * T + m * r1
    BY <1>4, <1>5
  <2>2. /\ r0 * T \in Nat /\ t0 * T \in Nat /\ m * r0 \in Nat
        /\ r1 * T \in Nat /\ t1 * T \in Nat /\ m * r1 \in Nat
    BY <1>4, <1>5, ProductNat
  <2>3. QED
    BY <1>4, <2>1, <2>2
<1>7. r0 + t0 \in Nat /\ r1 + t1 \in Nat /\ T + m \in Nat
  BY <1>4, <1>5
<1>8. (r0 + t0) * (r1 + t1) * T * T >= r0 * r1 * (T + m) * (T + m)
  BY <1>5, <1>6, <1>7, SideBySide
<1>9. QED
  BY <1>5, <1>8 DEF ShareValueKept, T, r0, r1

LEMMA WithdrawalKeepsValue ==
  ASSUME PairInv, NEW a \in Traders, NEW liquidity \in Nat, NEW minima,
         NEW deadline, RemoveLiquidity(a, liquidity, minima, deadline)
  PROVE  ShareValueKept
<1> DEFINE back == Returned(liquidity)
           T == pair.total_supply
           r0 == pair.reserve[0]
           r1 == pair.reserve[1]
           b0 == back[0]
           b1 == back[1]
<1>1. /\ liquidity <= lpBalance[a] /\ T > 0
      /\ pair' = [pair EXCEPT !.reserve = [s \in Sides |-> @[s] - back[s]],
                              !.total_supply = @ - liquidity]
  BY DEF RemoveLiquidity
<1>2. /\ pair \in [exists : BOOLEAN, reserve : [Sides -> Nat], total_supply : Nat]
      /\ 0 \in Sides /\ 1 \in Sides
  BY DEF PairInv, PairTypeOK, Sides
<1>3. /\ back \in [Sides -> Nat] /\ liquidity < T
      /\ b0 < r0 /\ b0 * T <= liquidity * r0 /\ b1 < r1 /\ b1 * T <= liquidity * r1
  BY <1>1, <1>2, WithdrawalFacts
<1> HIDE DEF back
<1>4. /\ pair'.reserve[0] = r0 - b0 /\ pair'.reserve[1] = r1 - b1
      /\ pair'.total_supply = T - liquidity
      /\ T \in Nat /\ r0 \in Nat /\ r1 \in Nat /\ b0 \in Nat /\ b1 \in Nat
  BY <1>1, <1>2, <1>3
<1> HIDE DEF T, r0, r1, b0, b1
<1>5. (r0 - b0) * T >= r0 * (T - liquidity) /\ (r1 - b1) * T >= r1 * (T - liquidity)
  <2>1. /\ (r0 - b0) * T = r0 * T - b0 * T /\ r0 * (T - liquidity) = r0 * T - liquidity * r0
        /\ (r1 - b1) * T = r1 * T - b1 * T /\ r1 * (T - liquidity) = r1 * T - liquidity * r1
    BY <1>4
  <2>2. /\ r0 * T \in Nat /\ b0 * T \in Nat /\ liquidity * r0 \in Nat
        /\ r1 * T \in Nat /\ b1 * T \in Nat /\ liquidity * r1 \in Nat
    BY <1>4, ProductNat
  <2>3. QED
    BY <1>3, <2>1, <2>2
<1>6. r0 - b0 \in Nat /\ r1 - b1 \in Nat /\ T - liquidity \in Nat
  BY <1>3, <1>4
<1>7. (r0 - b0) * (r1 - b1) * T * T >= r0 * r1 * (T - liquidity) * (T - liquidity)
  BY <1>4, <1>5, <1>6, SideBySide
<1>8. QED
  BY <1>4, <1>7 DEF ShareValueKept, T, r0, r1

(* The same shares of a larger product are worth more. *)
LEMMA LargerProduct ==
  ASSUME NEW p \in Nat, NEW q \in Nat, p >= q, NEW T \in Nat
  PROVE  p * T * T >= q * T * T
<1>1. p * T >= q * T /\ p * T \in Nat /\ q * T \in Nat
  BY ProductNat
<1> DEFINE x == p * T
           y == q * T
<1> HIDE DEF x, y
<1>2. x \in Nat /\ y \in Nat /\ x >= y
  BY <1>1 DEF x, y
<1>3. x * T >= y * T
  BY <1>2
<1>4. QED
  BY <1>3 DEF x, y

LEMMA SwapKeepsValue ==
  ASSUME PairInv, NEW a \in Traders, NEW s \in Sides, NEW amount \in Nat, NEW minimum,
         NEW deadline, Swap(a, s, amount, minimum, deadline)
  PROVE  ShareValueKept
<1> DEFINE out == SwapPays(s, amount)
           o == Other(s)
           x0 == pair'.reserve[0]
           x1 == pair'.reserve[1]
           r0 == pair.reserve[0]
           r1 == pair.reserve[1]
           T == pair.total_supply
<1>1. /\ SwapAccepted(s, amount, minimum, deadline) /\ KeepsProduct(s, amount)
      /\ pair' = [pair EXCEPT !.reserve[s] = @ + amount, !.reserve[o] = @ - out]
  BY DEF Swap, Swapped
<1>2. o \in Sides /\ o # s /\ out \in Nat /\ out < pair.reserve[o]
  BY <1>1, SwapFacts
<1>3. pair \in [exists : BOOLEAN, reserve : [Sides -> Nat], total_supply : Nat]
  BY DEF PairInv, PairTypeOK
<1>4. (pair.reserve[s] + amount) * (pair.reserve[o] - out) >= r0 * r1
  BY <1>1 DEF KeepsProduct
<1> HIDE DEF out, o
<1>5. /\ pair'.reserve[s] = pair.reserve[s] + amount
      /\ pair'.reserve[o] = pair.reserve[o] - out
      /\ pair'.total_supply = T
  BY <1>1, <1>2, <1>3
<1>6. /\ r0 \in Nat /\ r1 \in Nat /\ x0 \in Nat /\ x1 \in Nat /\ T \in Nat
  BY <1>2, <1>3, <1>5 DEF Sides
<1>7. x0 * x1 >= r0 * r1
  <2>1. pair'.reserve[s] * pair'.reserve[o] >= r0 * r1
    BY <1>4, <1>5
  <2>2. CASE s = 0
    BY <1>2, <2>1, <2>2 DEF Sides
  <2>3. CASE s = 1
    <3>1. x1 * x0 >= r0 * r1 /\ x1 * x0 = x0 * x1
      BY <1>2, <1>6, <2>1, <2>3 DEF Sides
    <3>2. QED
      BY <3>1
  <2>4. QED
    BY <2>2, <2>3 DEF Sides
<1> HIDE DEF x0, x1, r0, r1, T
<1>8. x0 * x1 \in Nat /\ r0 * r1 \in Nat
  BY <1>6, ProductNat
<1>9. x0 * x1 * T * T >= r0 * r1 * T * T
  BY <1>6, <1>7, <1>8, LargerProduct
<1>10. QED
  BY <1>5, <1>9 DEF ShareValueKept, x0, x1, r0, r1, T

(* No deposit, withdrawal or swap takes from the providers who do not take *)
(* part in it: the product of the reserves per square of the shares never  *)
(* falls, whatever the roundings of lib.rs and math.rs.                    *)
THEOREM ProvidersNeverLose == PairSpec => ShareValueNeverFalls
<1>1. ASSUME PairInv, [PairNext]_pairVars
      PROVE  [ShareValueKept]_pairVars
  <2>1. CASE UNCHANGED pairVars
    BY <2>1
  <2>2. CASE Initialize
    <3>1. pair.total_supply = 0
      BY <1>1, <2>2 DEF Initialize, PairInv, PairTypeOK, NoPair
    <3>2. QED
      BY <3>1 DEF ShareValueKept
  <2>3. CASE LedgerCloses
    <3>1. /\ pair' = pair
          /\ pair.reserve[0] \in Nat /\ pair.reserve[1] \in Nat /\ pair.total_supply \in Nat
      BY <1>1, <2>3 DEF LedgerCloses, PairInv, PairTypeOK, Sides
    <3>2. /\ pair.reserve[0] * pair.reserve[1] \in Nat
      BY <3>1, ProductNat
    <3>3. QED
      BY <3>1, <3>2, LargerProduct DEF ShareValueKept
  <2>4. ASSUME NEW a \in Traders, NEW amount \in DepositAmounts, NEW deadline \in 0 .. MaxLedgerTime,
               \/ \E other \in DepositAmounts : \E least \in {0, other} :
                     AddLiquidity(a, [s \in Sides |-> IF s = 0 THEN amount ELSE other],
                                  [s \in Sides |-> IF s = 0 THEN 0 ELSE least], deadline)
               \/ \E least \in {0, amount} :
                     RemoveLiquidity(a, amount, [s \in Sides |-> least], deadline)
               \/ \E s \in Sides : \E minimum \in {0, amount} : Swap(a, s, amount, minimum, deadline)
        PROVE  ShareValueKept
    <3>1. amount \in Nat /\ \A other \in DepositAmounts : other \in Nat
      BY PairAssumption
    <3>2. ASSUME NEW other \in DepositAmounts, NEW least \in {0, other},
                 AddLiquidity(a, [s \in Sides |-> IF s = 0 THEN amount ELSE other],
                              [s \in Sides |-> IF s = 0 THEN 0 ELSE least], deadline)
          PROVE  ShareValueKept
      <4> DEFINE desired == [s \in Sides |-> IF s = 0 THEN amount ELSE other]
                 minima == [s \in Sides |-> IF s = 0 THEN 0 ELSE least]
      <4>1. desired \in [Sides -> Nat] /\ minima \in [Sides -> Nat]
        BY <3>1
      <4>2. AddLiquidity(a, desired, minima, deadline)
        BY <3>2
      <4> HIDE DEF desired, minima
      <4>3. QED
        BY <1>1, <4>1, <4>2, DepositKeepsValue
    <3>3. ASSUME NEW least, RemoveLiquidity(a, amount, [s \in Sides |-> least], deadline)
          PROVE  ShareValueKept
      BY <1>1, <3>1, <3>3, WithdrawalKeepsValue
    <3>4. ASSUME NEW s \in Sides, NEW minimum, Swap(a, s, amount, minimum, deadline)
          PROVE  ShareValueKept
      BY <1>1, <3>1, <3>4, SwapKeepsValue
    <3>5. QED
      BY <2>4, <3>2, <3>3, <3>4
  <2>5. QED
    BY <1>1, <2>1, <2>2, <2>3, <2>4 DEF PairNext
<1>2. QED
  BY <1>1, PairBooksBalance, PTL DEF PairSpec, ShareValueNeverFalls, ShareValueKept

-----------------------------------------------------------------------------
(* f reads the digits d after a. *)
Reading(f, n, a, d) == f = [i \in 0 .. n |-> IF i = 0 THEN a ELSE 10 * f[i - 1] + d[i]]

(* Reading digits one after the other gives a natural number, whatever     *)
(* they are: there is such a reading, and every one is natural.            *)
LEMMA DigitsRead ==
  ASSUME NEW n \in Nat, NEW a \in Nat, NEW d, \A i \in 1 .. n : d[i] \in Nat
  PROVE  /\ \E f : Reading(f, n, a, d)
         /\ \A f : Reading(f, n, a, d) => f[n] \in Nat
<1>0. IsFiniteSet(0 .. n)
  BY FS_Interval
<1>1. ASSUME NEW f, Reading(f, n, a, d)
      PROVE  f[n] \in Nat
  <2> DEFINE R == {i \in 0 .. n : f[i] \in Nat /\ \A j \in 0 .. i : f[j] \in Nat}
  <2>0. f[0] = a /\ \A i \in 1 .. n : f[i] = 10 * f[i - 1] + d[i]
    <3>1. \A i \in 0 .. n : f[i] = IF i = 0 THEN a ELSE 10 * f[i - 1] + d[i]
      BY <1>1, Zenon DEF Reading
    <3>2. \A i \in 1 .. n : i \in 0 .. n /\ i # 0
      OBVIOUS
    <3>3. 0 \in 0 .. n
      OBVIOUS
    <3>4. QED
      BY <3>1, <3>2, <3>3, Zenon
  <2>1. 0 \in R /\ \A i \in R : i \in Int
    BY <2>0
  <2>2. IsFiniteSet(R)
    <3>1. R \subseteq 0 .. n
      OBVIOUS
    <3>2. QED
      BY <3>1, <1>0, FS_Subset
  <2>3. PICK m \in R : \A j \in R : j <= m
    <3> HIDE DEF R
    <3>1. QED
      BY <2>1, <2>2, LargestElement
  <2>4. CASE m < n
    <3>1. m + 1 \in 1 .. n /\ m \in 0 .. n /\ f[m] \in Nat /\ d[m + 1] \in Nat
      BY <2>4
    <3>2. f[m + 1] = 10 * f[m] + d[m + 1]
      BY <2>0, <3>1
    <3>3. f[m + 1] \in Nat
      BY <3>1, <3>2
    <3>4. \A j \in 0 .. m + 1 : j = m + 1 \/ j \in 0 .. m
      BY <3>1
    <3>5. m + 1 \in R
      BY <3>1, <3>3, <3>4
    <3>6. QED
      BY <2>3, <3>1, <3>5
  <2>5. CASE m = n
    BY <2>5
  <2>6. QED
    BY <2>4, <2>5
<1> DEFINE S == {m \in 0 .. n : \E f : Reading(f, m, a, d)}
<1>2. \E f : Reading(f, n, a, d)
  <2>1. 0 \in S
    <3>1. Reading([i \in 0 .. 0 |-> a], 0, a, d)
      <4>1. \A i \in 0 .. 0 : i = 0
        OBVIOUS
      <4>2. QED
        BY <4>1 DEF Reading
    <3>2. 0 \in 0 .. n
      OBVIOUS
    <3>3. QED
      BY <3>1, <3>2
  <2>2. IsFiniteSet(S)
    <3>1. S \subseteq 0 .. n
      OBVIOUS
    <3>2. QED
      BY <3>1, <1>0, FS_Subset
  <2>3. PICK m \in S : \A j \in S : j <= m
    <3>1. \A i \in S : i \in Int
      OBVIOUS
    <3> HIDE DEF S
    <3>2. QED
      BY <2>1, <2>2, <3>1, LargestElement
  <2>4. CASE m < n
    <3>1. PICK f : Reading(f, m, a, d)
      OBVIOUS
    <3> DEFINE g == [i \in 0 .. m + 1 |-> IF i = m + 1 THEN 10 * f[m] + d[m + 1] ELSE f[i]]
    <3>2. m \in Nat
      OBVIOUS
    <3>3. \A i \in 0 .. m : f[i] = IF i = 0 THEN a ELSE 10 * f[i - 1] + d[i]
      BY <3>1, Zenon DEF Reading
    <3>4. ASSUME NEW i \in 0 .. m + 1 PROVE g[i] = IF i = 0 THEN a ELSE 10 * g[i - 1] + d[i]
      <4>1. CASE i = m + 1
        <5>1. g[i] = 10 * f[m] + d[m + 1]
          BY <4>1
        <5>2. i - 1 = m /\ i # 0 /\ m \in 0 .. m + 1 /\ m # m + 1
          BY <4>1, <3>2
        <5>3. g[i - 1] = f[m]
          BY <5>2
        <5>4. QED
          BY <5>1, <5>2, <5>3, <4>1
      <4>2. CASE i # m + 1 /\ i # 0
        <5>1. i \in 0 .. m /\ i - 1 \in 0 .. m + 1 /\ i - 1 # m + 1
          BY <4>2, <3>2
        <5>2. g[i] = f[i] /\ g[i - 1] = f[i - 1]
          BY <5>1, <4>2
        <5>3. f[i] = 10 * f[i - 1] + d[i]
          BY <5>1, <4>2, <3>3
        <5>4. QED
          BY <5>2, <5>3, <4>2
      <4>3. CASE i = 0
        <5>1. 0 \in 0 .. m /\ 0 # m + 1
          BY <3>2
        <5>2. g[0] = f[0] /\ f[0] = a
          BY <5>1, <3>3
        <5>3. QED
          BY <5>2, <4>3
      <4>4. QED
        BY <4>1, <4>2, <4>3
    <3> DEFINE h == [i \in 0 .. m + 1 |-> IF i = 0 THEN a ELSE 10 * g[i - 1] + d[i]]
    <3>5. g = h
      <4>1. \A i \in 0 .. m + 1 : g[i] = h[i]
        BY <3>4
      <4>2. g = [i \in 0 .. m + 1 |-> g[i]] /\ h = [i \in 0 .. m + 1 |-> h[i]]
        OBVIOUS
      <4> HIDE DEF g, h
      <4>3. QED
        BY <4>1, <4>2
    <3>6. Reading(g, m + 1, a, d)
      BY <3>5, Zenon DEF Reading
    <3> HIDE DEF g, h
    <3>7. m + 1 \in 0 .. n
      BY <2>4, <3>2
    <3>8. m + 1 \in S
      BY <3>6, <3>7
    <3>9. QED
      BY <2>3, <3>2, <3>8
  <2>5. CASE m = n
    BY <2>5
  <2>6. QED
    BY <2>4, <2>5
<1>3. QED
  BY <1>1, <1>2

(* An amount typed is a natural number of stroops.                         *)
LEMMA StroopsNatural ==
  ASSUME NEW t \in Decimals
  PROVE  ToStroops(t) \in Nat
<1> DEFINE Digit(i) == IF i <= Len(t.frac) THEN t.frac[i] ELSE 0
           n == DecimalPlaces
           d == [i \in 1 .. n |-> Digit(i)]
<1>1. n \in Nat /\ t.int \in Nat /\ t.frac \in Seq(0 .. 9)
  BY FactoryClientAssumption
<1>2. \A i \in 1 .. n : d[i] \in Nat
  <2>1. Len(t.frac) \in Nat /\ \A i \in 1 .. Len(t.frac) : t.frac[i] \in 0 .. 9
    BY <1>1
  <2>2. ASSUME NEW i \in 1 .. n PROVE d[i] \in Nat
    <3>1. CASE i <= Len(t.frac)
      <4>1. i \in 1 .. Len(t.frac)
        BY <1>1, <2>1, <3>1
      <4>2. t.frac[i] \in 0 .. 9
        BY <2>1, <4>1
      <4>3. QED
        BY <3>1, <4>2
    <3>2. CASE ~ (i <= Len(t.frac))
      BY <3>2
    <3>3. QED
      BY <3>1, <3>2
  <2>3. QED
    BY <2>2
<1> HIDE DEF Digit
<1> DEFINE value == CHOOSE f : f = [i \in 0 .. n |-> IF i = 0 THEN t.int ELSE 10 * f[i - 1] + Digit(i)]
<1>3. \A f : Reading(f, n, t.int, d)
               <=> f = [i \in 0 .. n |-> IF i = 0 THEN t.int ELSE 10 * f[i - 1] + Digit(i)]
  <2>1. \A i \in 0 .. n : i # 0 => d[i] = Digit(i)
    BY <1>1
  <2> HIDE DEF d
  <2>2. QED
    BY <2>1 DEF Reading
<1> HIDE DEF d
<1>4. /\ \E f : Reading(f, n, t.int, d)
      /\ \A f : Reading(f, n, t.int, d) => f[n] \in Nat
  BY <1>1, <1>2, DigitsRead
<1>5. \E f : f = [i \in 0 .. n |-> IF i = 0 THEN t.int ELSE 10 * f[i - 1] + Digit(i)]
  <2>1. PICK f : Reading(f, n, t.int, d)
    BY <1>4
  <2>2. QED
    BY <1>3, <2>1, Zenon
<1>6. value = [i \in 0 .. n |-> IF i = 0 THEN t.int ELSE 10 * value[i - 1] + Digit(i)]
  BY <1>5, Zenon
<1> HIDE DEF value
<1>7. value[n] \in Nat
  BY <1>3, <1>4, <1>6, Zenon
<1>8. ToStroops(t) = value[n]
  BY Zenon DEF ToStroops, value, Digit
<1>9. QED
  BY <1>7, <1>8

(* The fees and the tiers of the limits the factory may be given.          *)
WhaleFees == 0 .. 5000
Tier == [from : Nat, fee : WhaleFees]
SettingsInv ==
  /\ settings = [fees |-> settings.fees, active |-> settings.active, astro |-> settings.astro,
                 tokens |-> settings.tokens, whales |-> settings.whales]
  /\ settings.fees.protocol \in 0 .. 100 /\ settings.fees.lp \in 0 .. 100
  /\ settings.whales.tiers \in Seq(Tier)

LEMMA FeeUpWithin ==
  ASSUME NEW x \in Nat, NEW b \in 0 .. 100
  PROVE  FeeUp(x, b) \in Nat /\ FeeUp(x, b) <= x
<1> DEFINE w == x * b
<1>1. b \in Nat /\ b <= 100
  OBVIOUS
<1>2. w \in Nat
  BY <1>1, ProductNat
<1>3. w <= x * 100
  BY <1>1
<1>4. FeeUp(x, b) = (w + 9999) \div 10000
  BY DEF FeeUp
<1> HIDE DEF w
<1>5. QED
  BY <1>2, <1>3, <1>4

(* Whatever the administrators choose, the fees are natural numbers; with  *)
(* those the client knows, what they leave is no more than its net amount, *)
(* and from 300 stroops within one per cent of the whole.                  *)
LEMMA FeesWithin ==
  ASSUME NEW x \in Nat
  PROVE  /\ NetOf(x) \in Nat /\ NetOf(x) <= x
         /\ ApplyTradingFee(x) \in NetOf(x) - 1 .. NetOf(x)
         /\ SettingsInv => LpFee(x) \in Nat /\ AfterFees(x) \in Int /\ AfterFees(x) <= x
         /\ ChargesAreKnown => /\ AfterFees(x) \in Int /\ AfterFees(x) <= NetOf(x)
                               /\ x >= 300 => 100 * AfterFees(x) >= 99 * x
<1> DEFINE f5 == (x * 5) \div 10000
           f25 == (x * 25) \div 10000
           f30 == (x * 30) \div 10000
           c5 == (x * 5 + 9999) \div 10000
           c25 == (x * 25 + 9999) \div 10000
<1>1. /\ f5 \in Nat /\ f5 * 10000 <= x * 5 /\ x * 5 < f5 * 10000 + 10000
      /\ f25 \in Nat /\ f25 * 10000 <= x * 25 /\ x * 25 < f25 * 10000 + 10000
      /\ f30 \in Nat /\ f30 * 10000 <= x * 30 /\ x * 30 < f30 * 10000 + 10000
  OBVIOUS
<1>2. /\ c5 \in Nat /\ c5 * 10000 <= x * 5 + 9999 /\ x * 5 + 9999 < c5 * 10000 + 10000
      /\ c25 \in Nat /\ c25 * 10000 <= x * 25 + 9999 /\ x * 25 + 9999 < c25 * 10000 + 10000
  OBVIOUS
<1>3. NetOf(x) = x - f5 - f25 /\ ApplyTradingFee(x) = x - f30
  BY DEF NetOf, FeeBreakdown, ApplyTradingFee
<1>4. ChargesAreKnown => AfterFees(x) = x - c5 - c25
  BY DEF ChargesAreKnown, FeeUp, LpFee, AfterFees
<1> HIDE DEF f5, f25, f30, c5, c25
<1>5. ASSUME SettingsInv PROVE LpFee(x) \in Nat /\ AfterFees(x) \in Int /\ AfterFees(x) <= x
  <2>1. /\ FeeUp(x, settings.fees.lp) \in Nat
        /\ FeeUp(x, settings.fees.protocol) \in Nat
    <3>1. settings.fees.lp \in 0 .. 100 /\ settings.fees.protocol \in 0 .. 100
      BY <1>5 DEF SettingsInv
    <3>2. QED
      BY <3>1, FeeUpWithin, Zenon
  <2>2. QED
    BY <2>1 DEF LpFee, AfterFees
<1>6. QED
  BY <1>1, <1>2, <1>3, <1>4, <1>5

(* The tax of a buy is that of one of the tiers, or none, and what a buy   *)
(* brings to the curve is never more than the amount.                      *)
LEMMA TaxWithin ==
  ASSUME SettingsInv, NEW c, NEW x, NEW held
  PROVE  TaxBps(c, x, held) \in WhaleFees
<1>0. PICK tiers : tiers = settings.whales.tiers
  OBVIOUS
<1> DEFINE chosen == {i \in DOMAIN tiers : tiers[i].from <= HoldingsBps(c, x, held)}
           reached == Cardinality(chosen)
<1>1. tiers \in Seq(Tier)
  BY <1>0 DEF SettingsInv
<1> DEFINE n == Len(tiers)
<1>2. n \in Nat /\ DOMAIN tiers = 1 .. n /\ \A i \in 1 .. n : tiers[i] \in Tier
  BY <1>1
<1>3. chosen \in SUBSET (1 .. n)
  BY <1>2
<1>4. TaxBps(c, x, held) = IF settings.whales.enabled /\ reached > 0 THEN tiers[reached].fee ELSE 0
  BY <1>0, Zenon DEF TaxBps
<1> HIDE DEF chosen, n
<1>5. IsFiniteSet(1 .. n) /\ Cardinality(1 .. n) = IF 1 > n THEN 0 ELSE n - 1 + 1
  BY <1>2, FS_Interval
<1>6. IsFiniteSet(chosen) /\ reached <= Cardinality(1 .. n)
  BY <1>3, <1>5, FS_Subset
<1>7. reached \in Nat /\ reached <= n
  BY <1>2, <1>5, <1>6, FS_CardinalityType
<1> HIDE DEF reached
<1>8. ASSUME reached > 0 PROVE tiers[reached].fee \in WhaleFees
  <2>1. reached \in 1 .. n
    BY <1>2, <1>7, <1>8
  <2>2. tiers[reached] \in Tier
    BY <1>2, <2>1
  <2>3. QED
    BY <2>2 DEF Tier
<1>9. QED
  BY <1>4, <1>8 DEF WhaleFees

LEMMA NetOfBuyWithin ==
  ASSUME SettingsInv, NEW c, NEW x \in Nat, NEW held
  PROVE  /\ NetOfBuy(c, x, held) \in Int /\ NetOfBuy(c, x, held) <= x
         /\ TaxBps(c, x, held) = 0 => NetOfBuy(c, x, held) = AfterFees(x)
<1> DEFINE a == AfterFees(x)
           b == TaxBps(c, x, held)
           w == a * b
           d == w \div 10000
<1>1. a \in Int /\ a <= x
  BY FeesWithin
<1>2. b \in Nat /\ b <= 5000
  <2>1. b \in WhaleFees
    BY TaxWithin, Zenon
  <2> HIDE DEF b
  <2>2. QED
    BY <2>1 DEF WhaleFees
<1>3. NetOfBuy(c, x, held) = a - d
  BY DEF NetOfBuy
<1> HIDE DEF a, b
<1>4. w \in Int /\ (b = 0 => w = 0)
  BY <1>1, <1>2
<1>5. (a >= 0 => w >= 0) /\ (a < 0 => w >= a * 10000)
  <2>1. CASE a >= 0
    <3>1. a \in Nat
      BY <1>1, <2>1
    <3>2. w \in Nat
      BY <1>2, <3>1, ProductNat
    <3> HIDE DEF w
    <3>3. QED
      BY <2>1, <3>1, <3>2
  <2>2. CASE a < 0
    <3>1. a * b >= a * 10000
      <4> DEFINE m == -a
                 n == 10000 - b
      <4>1. m \in Nat /\ n \in Nat
        BY <1>1, <1>2, <2>2
      <4>2. m * n \in Nat
        BY <4>1, ProductNat
      <4>3. a * b - a * 10000 = m * n
        BY <1>1, <1>2
      <4> HIDE DEF m, n
      <4>4. a * b \in Int /\ a * 10000 \in Int
        BY <1>1, <1>2
      <4>5. QED
        BY <4>2, <4>3, <4>4
    <3>2. QED
      BY <1>1, <2>2, <3>1
  <2>3. QED
    BY <1>1, <2>1, <2>2
<1> HIDE DEF w
<1>6. d \in Int /\ d * 10000 <= w /\ w < d * 10000 + 10000
  BY <1>4
<1> HIDE DEF d
<1>7. QED
  BY <1>1, <1>3, <1>4, <1>5, <1>6 DEF a, b

(* Of an input within one per cent of another, a curve gives no more and   *)
(* at least the other's output less one per cent: the tolerance covers the *)
(* fees, whatever the reserves are.                                        *)
LEMMA ToleranceCovers ==
  ASSUME NEW X \in Nat \ {0}, NEW Y \in Nat, NEW n \in Nat, NEW x \in Nat, n <= x
  PROVE  LET p == Y - (X * Y) \div (X + n)
             r == Y - (X * Y) \div (X + x)
         IN  p <= r /\ (100 * n >= 99 * x => p >= (r * 9900) \div 10000)
<1> DEFINE p == Y - (X * Y) \div (X + n)
           r == Y - (X * Y) \div (X + x)
           a == X + n
           b == X + x
<1>1. /\ p \in Nat /\ p * a >= Y * n
      /\ r \in Nat /\ (r - 1) * b < Y * x
  BY QuoteBounds
<1>2. p <= r
  <2>1. X * Y \in Nat /\ a \in Nat \ {0} /\ b \in Nat \ {0} /\ a <= b
    BY ProductNat
  <2>2. (X * Y) \div b <= (X * Y) \div a
    BY <2>1, DivAntitone
  <2>3. (X * Y) \div a \in Int /\ (X * Y) \div b \in Int
    BY <2>1, DivFloor
  <2> DEFINE u == (X * Y) \div a
             v == (X * Y) \div b
  <2> HIDE DEF u, v
  <2>4. u \in Int /\ v \in Int /\ v <= u
    BY <2>2, <2>3 DEF u, v
  <2>5. p = Y - u /\ r = Y - v
    BY DEF u, v
  <2>6. QED
    BY <2>4, <2>5
<1>3. a \in Nat \ {0} /\ b \in Nat \ {0}
  OBVIOUS
<1>4. ASSUME 100 * n >= 99 * x, 100 * p <= 99 * (r - 1) PROVE FALSE
  <2> HIDE DEF p, r
  <2> DEFINE pa == p * a
             rb == (r - 1) * b
             yn == Y * n
             yx == Y * x
  <2>1. pa \in Nat /\ rb \in Int /\ yn \in Nat /\ yx \in Nat /\ pa >= yn /\ rb < yx
    BY <1>1, <1>3, ProductNat
  <2>2. 100 * (pa * b) <= 99 * (rb * a)
    <3>1. (100 * p) * (a * b) <= (99 * (r - 1)) * (a * b)
      <4>1. a * b \in Nat
        BY <1>3, ProductNat
      <4>2. 100 * p \in Int /\ 99 * (r - 1) \in Int
        BY <1>1
      <4> DEFINE u == 100 * p
                 v == 99 * (r - 1)
                 w == a * b
      <4> HIDE DEF u, v, w
      <4>3. u \in Int /\ v \in Int /\ w \in Nat /\ u <= v
        BY <1>4, <4>1, <4>2 DEF u, v, w
      <4>4. u * w <= v * w
        BY <4>3
      <4>5. QED
        BY <4>4 DEF u, v, w
    <3>2. (100 * p) * (a * b) = 100 * (pa * b) /\ (99 * (r - 1)) * (a * b) = 99 * (rb * a)
      BY <1>1, <1>3
    <3>3. QED
      BY <3>1, <3>2
  <2> HIDE DEF pa, rb, a, b
  <2>3. pa * b >= yn * b /\ rb * a < yx * a
    <3> HIDE DEF yn, yx
    <3>1. pa * b >= yn * b
      BY <1>3, <2>1
    <3>2. rb * a < yx * a
      BY <1>3, <2>1
    <3>3. QED
      BY <3>1, <3>2
  <2>4. 100 * (yn * b) < 99 * (yx * a)
    <3>1. pa * b \in Int /\ yn * b \in Int /\ rb * a \in Int /\ yx * a \in Int
      BY <1>3, <2>1
    <3> DEFINE u == pa * b
               v == yn * b
               w == rb * a
               z == yx * a
    <3> HIDE DEF u, v, w, z
    <3>2. u \in Int /\ v \in Int /\ w \in Int /\ z \in Int /\ 100 * u <= 99 * w /\ u >= v /\ w < z
      BY <2>2, <2>3, <3>1 DEF u, v, w, z
    <3>3. 100 * v < 99 * z
      BY <3>2
    <3>4. QED
      BY <3>3 DEF v, z
  <2>5. yn * b = Y * (n * b) /\ yx * a = Y * (x * a)
    BY <1>3
  <2>6. 100 * (n * b) >= 99 * (x * a)
    <3>1. n * b = n * X + n * x /\ x * a = x * X + x * n
      BY DEF a, b
    <3>2. n * X \in Nat /\ x * X \in Nat /\ n * x \in Nat /\ x * n = n * x
      BY ProductNat
    <3>3. 100 * (n * X) >= 99 * (x * X)
      <4>1. (100 * n) * X >= (99 * x) * X
        <5> DEFINE u == 100 * n
                   v == 99 * x
        <5>1. u \in Nat /\ v \in Nat /\ u >= v
          BY <1>4
        <5> HIDE DEF u, v
        <5>2. u * X >= v * X
          BY <5>1
        <5>3. QED
          BY <5>2 DEF u, v
      <4>2. QED
        BY <4>1
    <3>4. QED
      BY <3>1, <3>2, <3>3
  <2>7. 100 * (Y * (n * b)) >= 99 * (Y * (x * a))
    <3> DEFINE u == n * b
               v == x * a
    <3>1. u \in Nat /\ v \in Nat /\ 100 * u >= 99 * v
      BY <1>3, <2>6, ProductNat
    <3> HIDE DEF u, v
    <3>2. Y * (100 * u) >= Y * (99 * v)
      <4> DEFINE s == 100 * u
                 t == 99 * v
      <4>1. s \in Nat /\ t \in Nat /\ s >= t
        BY <3>1
      <4> HIDE DEF s, t
      <4>2. Y * s >= Y * t
        BY <4>1
      <4>3. QED
        BY <4>2 DEF s, t
    <3>3. Y * (100 * u) = 100 * (Y * u) /\ Y * (99 * v) = 99 * (Y * v)
      BY <3>1
    <3>4. QED
      BY <3>2, <3>3 DEF u, v
  <2>8. Y * (n * b) \in Nat /\ Y * (x * a) \in Nat
    BY <1>3, ProductNat
  <2>9. QED
    BY <2>4, <2>5, <2>7, <2>8
<1> HIDE DEF p, r
<1>5. ASSUME 100 * n >= 99 * x PROVE p >= (r * 9900) \div 10000
  <2>1. 100 * p > 99 * (r - 1)
    BY <1>1, <1>4, <1>5
  <2> DEFINE m == (r * 9900) \div 10000
  <2>2. m \in Nat /\ m * 10000 <= r * 9900
    BY <1>1
  <2> HIDE DEF m
  <2>3. p >= m
    BY <1>1, <2>1, <2>2
  <2>4. QED
    BY <2>3 DEF m
<1>6. QED
  BY <1>2, <1>5 DEF p, r

(* Dividing twice by the quotient leads back: three floors are one.        *)
LEMMA ThreeFloors ==
  ASSUME NEW K \in Nat, NEW m \in Nat \ {0}, K \div m > 0
  PROVE  LET q == K \div m
             p == K \div q
         IN  p \in Nat /\ p >= m /\ K \div p = q
<1> DEFINE q == K \div m
           p == K \div q
           u == K \div p
<1>1. q \in Nat \ {0} /\ q * m <= K
  BY DivFloor
<1> HIDE DEF q
<1>2. p \in Nat /\ p * q <= K /\ K < p * q + q
  BY <1>1, DivFloor
<1>3. p >= m
  <2> HIDE DEF p
  <2>1. SUFFICES ASSUME p + 1 <= m PROVE FALSE
    BY <1>2
  <2>2. (p + 1) * q <= m * q
    BY <1>1, <1>2, <2>1
  <2>3. (p + 1) * q = p * q + q /\ m * q = q * m
    BY <1>1, <1>2
  <2>4. p * q \in Nat /\ q * m \in Nat
    BY <1>1, <1>2, ProductNat
  <2>5. QED
    BY <1>1, <1>2, <2>2, <2>3, <2>4
<1>4. p \in Nat \ {0}
  BY <1>2, <1>3
<1> HIDE DEF p
<1>5. u \in Nat /\ u * p <= K /\ K < u * p + p
  BY <1>4, DivFloor
<1>6. u <= q
  BY <1>3, <1>4, DivAntitone DEF q
<1>7. u >= q
  <2> HIDE DEF u
  <2>1. SUFFICES ASSUME u + 1 <= q PROVE FALSE
    BY <1>1, <1>5
  <2>2. (u + 1) * p <= q * p
    BY <1>1, <1>4, <1>5, <2>1
  <2>3. (u + 1) * p = u * p + p /\ q * p = p * q
    BY <1>1, <1>4, <1>5
  <2>4. u * p \in Nat /\ p * q \in Nat
    BY <1>1, <1>4, <1>5, ProductNat
  <2>5. QED
    BY <1>2, <1>4, <1>5, <2>2, <2>3, <2>4
<1>8. u = q
  BY <1>1, <1>5, <1>6, <1>7
<1>9. QED
  BY <1>2, <1>3, <1>8 DEF p, u, q

(* Both reserves of the curve hold something and their product is k.       *)
SoundReserves(c) ==
  /\ c.xlm \in Nat \ {0} /\ c.token \in Nat \ {0} /\ c.k = c.xlm * c.token

(* The curve is sound, and the pair holds both tokens or neither.          *)
ChainInv ==
  /\ factoryToken \in [status : {"Bonding", "Graduated"}, xlm : Nat, token : Nat, k : Nat, raised : Int]
  /\ SoundReserves(factoryToken)
  /\ pair \in [exists : BOOLEAN, reserve : [Sides -> Nat], total_supply : Nat]
  /\ pair.reserve[0] > 0 <=> pair.reserve[1] > 0

(* What the curve of utils gives, on sound reserves.                       *)
LEMMA OutputsOnSoundReserves ==
  ASSUME NEW c, SoundReserves(c), NEW x \in Int
  PROVE  /\ x > 0 => BuyOutputOf(c, x) = c.token - (c.xlm * c.token) \div (c.xlm + x)
         /\ x > 0 => SellOutputOf(c, x) = c.xlm - (c.xlm * c.token) \div (c.token + x)
         /\ x <= 0 => BuyOutputOf(c, x) = 0 /\ SellOutputOf(c, x) = 0
         /\ BuyOutputOf(c, x) \in Nat /\ BuyOutputOf(c, x) <= c.token
         /\ SellOutputOf(c, x) \in Nat /\ SellOutputOf(c, x) <= c.xlm
<1>1. /\ c.xlm \in Nat \ {0} /\ c.token \in Nat \ {0} /\ c.k = c.xlm * c.token
  BY DEF SoundReserves
<1>2. c.k > 0 /\ Usable(c)
  <2>1. c.xlm * c.token > 0
    BY <1>1
  <2>2. QED
    BY <1>1, <2>1 DEF Usable
<1>3. /\ x > 0 => BuyOutputOf(c, x) = c.token - (c.xlm * c.token) \div (c.xlm + x)
      /\ x > 0 => SellOutputOf(c, x) = c.xlm - (c.xlm * c.token) \div (c.token + x)
      /\ x <= 0 => BuyOutputOf(c, x) = 0 /\ SellOutputOf(c, x) = 0
  BY <1>1, <1>2 DEF BuyOutputOf, SellOutputOf
<1>4. CASE x > 0
  <2>1. x \in Nat /\ c.xlm * c.token = c.token * c.xlm /\ c.xlm + x > 0 /\ c.token + x > 0
        /\ c.xlm \in Nat /\ c.token \in Nat
    BY <1>1, <1>4
  <2>2. LET out == c.token - (c.xlm * c.token) \div (c.xlm + x) IN out \in Nat /\ out <= c.token
    BY <2>1, QuoteBounds
  <2>3. LET out == c.xlm - (c.token * c.xlm) \div (c.token + x) IN out \in Nat /\ out <= c.xlm
    BY <2>1, QuoteBounds
  <2>4. BuyOutputOf(c, x) \in Nat /\ BuyOutputOf(c, x) <= c.token
    BY <1>3, <1>4, <2>2, Zenon
  <2>5. SellOutputOf(c, x) \in Nat /\ SellOutputOf(c, x) <= c.xlm
    BY <1>3, <1>4, <2>1, <2>3, Zenon
  <2>6. QED
    BY <1>3, <2>4, <2>5, Zenon
<1>5. CASE x <= 0
  BY <1>1, <1>3, <1>5
<1>6. QED
  BY <1>4, <1>5

(* The minimum the client asks of a buy is one the factory pays, unless it *)
(* charges more than one per cent; and with the charges the client knows   *)
(* the net quote is no less and within the same tolerance.                 *)
LEMMA BuysWithinTolerance ==
  ASSUME SettingsInv, NEW c, SoundReserves(c), NEW x \in Nat, NEW held
  PROVE  /\ FactoryBuyPays(c, x, held) \in Nat
         /\ ~MoreThanTolerated(x, NetOfBuy(c, x, held)) =>
                FactoryBuyPays(c, x, held) >= ApplyOutputTolerance(BuyOutputOf(c, x))
         /\ ChargesAreKnown /\ TaxBps(c, x, held) = 0 =>
                /\ FactoryBuyPays(c, x, held) <= BuyOutputOf(c, NetOf(x))
                /\ x >= 300 => FactoryBuyPays(c, x, held) >= ApplyOutputTolerance(BuyOutputOf(c, NetOf(x)))
<1> DEFINE n == NetOfBuy(c, x, held)
           m == NetOf(x)
           F(z) == c.token - (c.xlm * c.token) \div (c.xlm + z)
           known == ChargesAreKnown /\ TaxBps(c, x, held) = 0
<1>1. /\ n \in Int /\ n <= x /\ m \in Nat /\ m <= x
      /\ known => n <= m /\ (x >= 300 => 100 * n >= 99 * x)
  BY FeesWithin, NetOfBuyWithin
<1>2. c.xlm \in Nat \ {0} /\ c.token \in Nat \ {0}
  BY DEF SoundReserves
<1>3. ~MoreThanTolerated(x, n) => 100 * n >= 99 * x
  <2> HIDE DEF n
  <2>1. QED
    BY <1>1 DEF MoreThanTolerated
<1> HIDE DEF known
<1>4. FactoryBuyPays(c, x, held) = BuyOutputOf(c, n)
  BY DEF FactoryBuyPays
<1> HIDE DEF n, m
<1>5. BuyOutputOf(c, n) \in Nat /\ BuyOutputOf(c, m) \in Nat /\ BuyOutputOf(c, x) \in Nat
  BY <1>1, OutputsOnSoundReserves
<1>6. ASSUME NEW z \in Nat, n <= z
      PROVE  /\ BuyOutputOf(c, n) <= BuyOutputOf(c, z)
             /\ 100 * n >= 99 * z => BuyOutputOf(c, n) >= ApplyOutputTolerance(BuyOutputOf(c, z))
  <2>1. BuyOutputOf(c, z) \in Nat
    BY OutputsOnSoundReserves
  <2>2. CASE n <= 0
    <3>1. BuyOutputOf(c, n) = 0 /\ (z = 0 => BuyOutputOf(c, z) = 0)
      BY <1>1, <2>2, OutputsOnSoundReserves
    <3>2. 100 * n >= 99 * z => z = 0
      BY <1>1, <2>2
    <3>3. ApplyOutputTolerance(0) = 0
      BY DEF ApplyOutputTolerance
    <3>4. QED
      BY <2>1, <3>1, <3>2, <3>3
  <2>3. CASE n > 0
    <3>1. n \in Nat /\ z > 0
      BY <1>1, <1>6, <2>3
    <3>2. BuyOutputOf(c, n) = F(n) /\ BuyOutputOf(c, z) = F(z)
      BY <1>1, <2>3, <3>1, OutputsOnSoundReserves
    <3>3. F(n) <= F(z) /\ (100 * n >= 99 * z => F(n) >= (F(z) * 9900) \div 10000)
      <4> DEFINE X == c.xlm
                 Y == c.token
      <4>1. X \in Nat \ {0} /\ Y \in Nat
        BY <1>2
      <4> HIDE DEF X, Y
      <4>2. LET p == Y - (X * Y) \div (X + n)
                r == Y - (X * Y) \div (X + z)
            IN  p <= r /\ (100 * n >= 99 * z => p >= (r * 9900) \div 10000)
        BY <1>6, <3>1, <4>1, ToleranceCovers
      <4>3. QED
        BY <4>2 DEF X, Y
    <3>4. QED
      BY <3>2, <3>3 DEF ApplyOutputTolerance
  <2>4. QED
    BY <1>1, <2>2, <2>3
<1>7. known => BuyOutputOf(c, n) <= BuyOutputOf(c, m)
               /\ (x >= 300 => BuyOutputOf(c, n) >= ApplyOutputTolerance(BuyOutputOf(c, m)))
  <2>1. known /\ x >= 300 => 100 * n >= 99 * m
    BY <1>1
  <2>2. QED
    BY <1>1, <1>6, <2>1
<1>8. 100 * n >= 99 * x => BuyOutputOf(c, n) >= ApplyOutputTolerance(BuyOutputOf(c, x))
  BY <1>1, <1>6
<1>9. QED
  BY <1>3, <1>4, <1>5, <1>7, <1>8 DEF known, m, n

(* The same of a sell: its charges are taken from its output.              *)
LEMMA SellsWithinTolerance ==
  ASSUME SettingsInv, NEW c, SoundReserves(c), NEW x \in Nat
  PROVE  /\ FactorySellPays(c, x) \in Int
         /\ ~MoreThanTolerated(SellOutputOf(c, x), FactorySellPays(c, x)) =>
                FactorySellPays(c, x) >= ApplyOutputTolerance(SellOutputOf(c, x))
         /\ ChargesAreKnown =>
              /\ FactorySellPays(c, x) <= NetOf(SellOutputOf(c, x))
              /\ SellOutputOf(c, x) >= 300 =>
                     FactorySellPays(c, x) >= ApplyOutputTolerance(NetOf(SellOutputOf(c, x)))
<1> DEFINE g == SellOutputOf(c, x)
           n == AfterFees(g)
           m == NetOf(g)
<1>1. g \in Nat
  BY OutputsOnSoundReserves
<1> HIDE DEF g
<1>2. /\ n \in Int /\ n <= g /\ m \in Nat /\ m <= g
      /\ ChargesAreKnown => n <= m /\ (g >= 300 => 100 * n >= 99 * g)
  BY <1>1, FeesWithin
<1>3. FactorySellPays(c, x) = n
  BY DEF FactorySellPays, g
<1> HIDE DEF n, m
<1>4. /\ 100 * n >= 99 * g => n >= (m * 9900) \div 10000 /\ n >= (g * 9900) \div 10000
      /\ ~MoreThanTolerated(g, n) => 100 * n >= 99 * g
  <2>1. /\ ((m * 9900) \div 10000) * 10000 <= m * 9900 /\ (m * 9900) \div 10000 \in Nat
        /\ ((g * 9900) \div 10000) * 10000 <= g * 9900 /\ (g * 9900) \div 10000 \in Nat
    BY <1>1, <1>2
  <2>2. ~MoreThanTolerated(g, n) => 100 * n >= 99 * g
    BY <1>1, <1>2 DEF MoreThanTolerated
  <2>3. QED
    BY <1>1, <1>2, <2>1, <2>2
<1>5. QED
  BY <1>2, <1>3, <1>4 DEF ApplyOutputTolerance, m, g

(* Dividing a product by one of its factors gives the other.               *)
LEMMA ProductQuotient ==
  ASSUME NEW X \in Nat \ {0}, NEW Y \in Nat \ {0}
  PROVE  (X * Y) \div Y = X
<1> DEFINE d == (X * Y) \div Y
<1>1. X * Y \in Nat
  BY ProductNat
<1>2. d \in Nat /\ d * Y <= X * Y /\ X * Y < d * Y + Y
  BY <1>1, DivFloor
<1> HIDE DEF d
<1>3. d * Y \in Nat
  BY <1>2, ProductNat
<1>4. ~(d >= X + 1)
  <2>1. SUFFICES ASSUME d >= X + 1 PROVE FALSE
    OBVIOUS
  <2>2. d * Y >= (X + 1) * Y /\ (X + 1) * Y = X * Y + Y
    BY <1>2, <2>1
  <2>3. QED
    BY <1>1, <1>2, <1>3, <2>2
<1>5. ~(d <= X - 1)
  <2>1. SUFFICES ASSUME d <= X - 1 PROVE FALSE
    OBVIOUS
  <2>2. (d + 1) * Y <= X * Y /\ (d + 1) * Y = d * Y + Y
    BY <1>2, <2>1
  <2>3. QED
    BY <1>1, <1>2, <1>3, <2>2
<1>6. d = X
  BY <1>2, <1>4, <1>5
<1>7. QED
  BY <1>6 DEF d

ExactBuy(X, Y, K, n, q) ==
  /\ q \in Nat /\ q <= Y /\ (X + n) * q <= K /\ K - (X + n) * q < X + n
  /\ q > 0 => K \div Y = X /\ K \div q \in Nat /\ K \div q >= X + n /\ K \div (K \div q) = q

(* After a buy at the net amount: what is left is a valid trade as long as *)
(* the product is large, selling returns what was paid, and the XLM asked  *)
(* for the output buys it.                                                 *)
LEMMA NetBuyIsExact ==
  ASSUME NEW X \in Nat \ {0}, NEW Y \in Nat \ {0}, NEW K, K = X * Y, NEW n \in Nat \ {0},
         NEW q, q = K \div (X + n)
  PROVE  ExactBuy(X, Y, K, n, q)
<1>1. X + n \in Nat \ {0} /\ K \in Nat
  BY ProductNat
<1>2. q \in Nat /\ q * (X + n) <= K /\ K < q * (X + n) + (X + n)
  BY <1>1, DivFloor
<1>3. q * (X + n) = (X + n) * q /\ q * (X + n) \in Nat
  BY <1>1, <1>2, ProductNat
<1>4. q <= Y
  <2>1. LET out == Y - (X * Y) \div (X + n) IN out \in Nat /\ out <= Y
    BY QuoteBounds
  <2>2. Y - q \in Nat
    BY <2>1
  <2>3. QED
    BY <1>2, <2>2
<1>5. K \div Y = X
  BY ProductQuotient
<1>6. ASSUME q > 0 PROVE K \div q \in Nat /\ K \div q >= X + n /\ K \div (K \div q) = q
  <2> DEFINE m == X + n
  <2>1. m \in Nat \ {0} /\ K \div m > 0 /\ q = K \div m
    BY <1>1, <1>6
  <2> HIDE DEF m
  <2>2. LET r == K \div m
            p == K \div r
        IN  p \in Nat /\ p >= m /\ K \div p = r
    BY <1>1, <2>1, ThreeFloors
  <2>3. QED
    BY <2>1, <2>2 DEF m
<1>7. QED
  BY <1>1, <1>2, <1>3, <1>4, <1>5, <1>6 DEF ExactBuy

(* The quotes of a sound curve agree with what the factory pays, for every *)
(* amount the form can hold.                                               *)
LEMMA SoundCurveQuotes ==
  ASSUME ChainInv, SettingsInv
  PROVE  CurveQuotesAgree
<1> SUFFICES ASSUME NEW x \in FactoryAmounts
             PROVE  LET info == AdaptTokenInfo(factoryToken)
                        out == BuyOutputOf(info.curve, NetOf(x))
                    IN  /\ QuoteWithinTolerance(info.curve, x, out, NetOf(SellOutputOf(info.curve, x)))
                        /\ QuoteIsSound(info.curve, x, out)
  BY DEF CurveQuotesAgree, CalculateBuyOutputNet, CalculateSellOutputNet, BuyOutputNet, SellOutputNet
<1> DEFINE info == AdaptTokenInfo(factoryToken)
           c == info.curve
           n == NetOf(x)
           out == BuyOutputOf(c, n)
           g == SellOutputOf(c, x)
           paid == NetOf(g)
           after == [c EXCEPT !.xlm = @ + n, !.token = @ - out]
           held == wallet.holdings
           known == ChargesAreKnown /\ TaxBps(c, x, held) = 0
<1>0. MinTrade \in Nat /\ MinTrade >= 300
  BY FactoryClientAssumption
<1>1. x \in Nat
  BY StroopsNatural DEF FactoryAmounts
<1>2. c = [xlm |-> factoryToken.xlm, token |-> factoryToken.token, k |-> factoryToken.k]
  BY DEF AdaptTokenInfo, AdaptBondingCurve
<1>3. SoundReserves(c)
  BY <1>2 DEF ChainInv, SoundReserves
<1> HIDE DEF info, c
<1>5. known => /\ FactoryBuyPays(c, x, held) <= out
               /\ x >= MinTrade => FactoryBuyPays(c, x, held) >= ApplyOutputTolerance(out)
  <2>1. known => /\ FactoryBuyPays(c, x, held) <= BuyOutputOf(c, NetOf(x))
                 /\ x >= 300 => FactoryBuyPays(c, x, held) >= ApplyOutputTolerance(BuyOutputOf(c, NetOf(x)))
    BY <1>1, <1>3, BuysWithinTolerance
  <2>2. x >= MinTrade => x >= 300
    BY <1>0, <1>1
  <2> HIDE DEF known
  <2>3. QED
    BY <2>1, <2>2
<1>6. ChargesAreKnown /\ g >= MinTrade => FactorySellPays(c, x) \in ApplyOutputTolerance(paid) .. paid
  <2>1. /\ FactorySellPays(c, x) \in Int
        /\ ChargesAreKnown =>
             /\ FactorySellPays(c, x) <= NetOf(SellOutputOf(c, x))
             /\ SellOutputOf(c, x) >= 300 => FactorySellPays(c, x) >= ApplyOutputTolerance(NetOf(SellOutputOf(c, x)))
    BY <1>1, <1>3, SellsWithinTolerance
  <2>2. g \in Nat
    BY <1>1, <1>3, OutputsOnSoundReserves
  <2>3. g >= MinTrade => g >= 300
    BY <1>0, <2>2
  <2> DEFINE pays == FactorySellPays(c, x)
             least == ApplyOutputTolerance(paid)
  <2>4. paid \in Nat
    BY <2>2, FeesWithin
  <2>5. least \in Int
    <3> HIDE DEF paid
    <3>1. QED
      BY <2>4 DEF ApplyOutputTolerance
  <2>6. pays \in Int /\ (ChargesAreKnown => pays <= paid /\ (g >= 300 => pays >= least))
    BY <2>1
  <2> HIDE DEF pays, least, paid, g
  <2>7. ChargesAreKnown /\ g >= MinTrade => pays \in least .. paid
    BY <2>3, <2>4, <2>5, <2>6
  <2>8. QED
    BY <2>7 DEF pays, least
<1>7. ApplyTradingFee(x) \in n - 1 .. n /\ n \in Nat /\ n <= x
  BY <1>1, FeesWithin
<1>8. c.xlm \in Nat \ {0} /\ c.token \in Nat \ {0} /\ c.k = c.xlm * c.token /\ c.k \in Nat
  BY <1>3, ProductNat DEF SoundReserves
<1>9. CurveInvariantHolds(c)
  <2>1. Apart(c.k, c.k) = 0
    BY <1>8 DEF Apart
  <2>2. c.k \div 1000 >= 0
    BY <1>8
  <2>3. QED
    BY <1>8, <2>1, <2>2 DEF CurveInvariantHolds
<1> DEFINE X == c.xlm
           Y == c.token
           K == c.k
           q == K \div (X + n)
<1>10. X \in Nat \ {0} /\ Y \in Nat \ {0} /\ K = X * Y /\ K \in Nat
  BY <1>8
<1>11. /\ after.xlm = X + n /\ after.token = Y - out /\ after.k = K
       /\ n > 0 => out = Y - q
       /\ n = 0 => out = 0
  <2>1. n > 0 => out = Y - q
    BY <1>3, <1>7, <1>8, OutputsOnSoundReserves
  <2>2. n = 0 => out = 0
    BY <1>3, <1>7, OutputsOnSoundReserves
  <2>3. DOMAIN c = {"xlm", "token", "k"}
    BY <1>2
  <2> HIDE DEF n, out
  <2>4. after.xlm = X + n /\ after.token = Y - out /\ after.k = K
    BY <1>2, <2>3
  <2>5. QED
    BY <2>1, <2>2, <2>4
<1>12. out \in Nat /\ out <= Y
  BY <1>3, <1>7, OutputsOnSoundReserves
<1> HIDE DEF n, out, X, Y, K, after, q, held, known
<1>13. n > 0 => /\ q \in Nat /\ q <= Y /\ (X + n) * q <= K /\ K - (X + n) * q < X + n
                /\ q > 0 => /\ K \div Y = X
                            /\ K \div q \in Nat /\ K \div q >= X + n /\ K \div (K \div q) = q
  <2>1. ASSUME n > 0
        PROVE  /\ q \in Nat /\ q <= Y /\ (X + n) * q <= K /\ K - (X + n) * q < X + n
               /\ q > 0 => /\ K \div Y = X
                           /\ K \div q \in Nat /\ K \div q >= X + n /\ K \div (K \div q) = q
    <3>1. n \in Nat \ {0} /\ q = K \div (X + n)
      BY <1>7, <2>1 DEF q
    <3>2. X \in Nat \ {0} /\ Y \in Nat \ {0} /\ K = X * Y
      BY <1>10
    <3>3. ExactBuy(X, Y, K, n, q)
      BY <3>1, <3>2, NetBuyIsExact
    <3>4. QED
      BY <3>3 DEF ExactBuy
  <2>2. QED
    BY <2>1
<1>14. (X + x) * 10000 <= K => ValidTrade(c, n, -out)
  <2>1. SUFFICES ASSUME (X + x) * 10000 <= K PROVE ValidTrade(c, n, -out)
    OBVIOUS
  <2>2. K \div 10000 \in Nat /\ X + x <= K \div 10000
    BY <1>1, <1>10, <2>1
  <2>3. CASE n = 0
    <3>1. X + n = X /\ Y + (-out) = Y
      BY <1>10, <1>11, <2>3
    <3>2. Apart(X * Y, K) = 0
      BY <1>10 DEF Apart
    <3>3. X + n > 0 /\ Y + (-out) > 0 /\ Apart((X + n) * (Y + (-out)), K) <= K \div 10000
      BY <1>10, <2>2, <3>1, <3>2
    <3>4. QED
      BY <3>3 DEF ValidTrade, X, Y, K
  <2>4. CASE n > 0
    <3>1. Y + (-out) = q
      BY <1>10, <1>11, <1>12, <1>13, <2>4
    <3>2. q > 0
      <4>1. SUFFICES ASSUME q = 0 PROVE FALSE
        BY <1>13, <2>4
      <4>2. (X + n) * q = 0
        BY <1>7, <1>10, <4>1
      <4>3. K < X + n
        BY <1>7, <1>10, <1>13, <2>4, <4>2
      <4>4. QED
        BY <1>1, <1>7, <1>10, <2>1, <4>3
    <3>3. (X + n) * q \in Nat
      BY <1>7, <1>10, <1>13, <2>4, ProductNat
    <3>4. Apart((X + n) * q, K) = K - (X + n) * q
      BY <1>10, <1>13, <2>4, <3>3 DEF Apart
    <3>5. K - (X + n) * q <= K \div 10000
      BY <1>1, <1>7, <1>10, <1>13, <2>2, <2>4, <3>3
    <3>6. X + n > 0 /\ Y + (-out) > 0 /\ Apart((X + n) * (Y + (-out)), K) <= K \div 10000
      BY <1>7, <1>10, <3>1, <3>2, <3>4, <3>5
    <3>7. QED
      BY <3>6 DEF ValidTrade, X, Y, K
  <2>5. QED
    BY <1>7, <2>3, <2>4
<1>15. SellOutputOf(after, out) <= n
  <2>1. CASE Usable(after) /\ out > 0
    <3>1. n > 0 /\ Y - out = q /\ q > 0
      <4>1. n > 0
        BY <1>7, <1>11, <2>1
      <4>2. Y - out = q
        BY <1>10, <1>11, <1>12, <1>13, <4>1
      <4>3. QED
        BY <1>11, <2>1, <4>1, <4>2 DEF Usable
    <3>2. SellOutputOf(after, out) = (X + n) - K \div (q + out)
      BY <1>11, <2>1, <3>1 DEF SellOutputOf
    <3>3. q + out = Y
      BY <1>10, <1>12, <1>13, <3>1
    <3>4. K \div Y = X
      BY <1>13, <3>1
    <3>5. QED
      BY <1>7, <1>10, <3>2, <3>3, <3>4
  <2>2. CASE ~(Usable(after) /\ out > 0)
    BY <1>7, <2>2 DEF SellOutputOf
  <2>3. QED
    BY <2>1, <2>2
<1>16. out < Y => BuyOutputOf(c, RequiredXlm(c, out)) = out
  <2>1. SUFFICES ASSUME out < Y PROVE BuyOutputOf(c, RequiredXlm(c, out)) = out
    OBVIOUS
  <2>2. RequiredXlm(c, out) = K \div (Y - out) - X
    BY DEF RequiredXlm, X, Y, K
  <2>3. CASE n = 0
    <3>1. out = 0 /\ Y - out = Y
      BY <1>10, <1>11, <2>3
    <3>2. K \div Y = X
      BY <1>10, ProductQuotient
    <3>3. RequiredXlm(c, out) = 0
      BY <1>10, <2>2, <3>1, <3>2
    <3>4. BuyOutputOf(c, 0) = 0
      BY <1>3, OutputsOnSoundReserves
    <3>5. QED
      BY <3>1, <3>3, <3>4
  <2>4. CASE n > 0
    <3>1. Y - out = q /\ q > 0 /\ out = Y - q
      BY <1>10, <1>11, <1>12, <1>13, <2>1, <2>4
    <3> DEFINE p == K \div q
    <3>2. p \in Nat /\ p >= X + n /\ K \div p = q
      BY <1>13, <2>4, <3>1
    <3>3. RequiredXlm(c, out) = p - X
      BY <2>2, <3>1
    <3> HIDE DEF p
    <3>4. p - X > 0 /\ p - X \in Int /\ X + (p - X) = p
      BY <1>7, <1>10, <2>4, <3>2
    <3>5. BuyOutputOf(c, p - X) = Y - K \div (X + (p - X))
      <4>1. BuyOutputOf(c, p - X) = c.token - (c.xlm * c.token) \div (c.xlm + (p - X))
        BY <1>3, <3>4, OutputsOnSoundReserves
      <4>2. QED
        BY <1>8, <4>1 DEF X, Y, K
    <3>6. QED
      BY <3>1, <3>2, <3>3, <3>4, <3>5
  <2>5. QED
    BY <1>7, <2>3, <2>4
<1>17. QuoteWithinTolerance(c, x, out, paid)
  <2> HIDE DEF g, paid
  <2>1. ChargesAreKnown /\ SellOutputOf(c, x) >= MinTrade =>
            FactorySellPays(c, x) \in ApplyOutputTolerance(paid) .. paid
    BY <1>6 DEF g
  <2>2. ApplyTradingFee(x) \in NetOf(x) - 1 .. NetOf(x)
    BY <1>7 DEF n
  <2>3. ChargesAreKnown /\ TaxBps(c, x, wallet.holdings) = 0 =>
            /\ FactoryBuyPays(c, x, wallet.holdings) <= out
            /\ x >= MinTrade => FactoryBuyPays(c, x, wallet.holdings) >= ApplyOutputTolerance(out)
    BY <1>5 DEF known, held
  <2>4. QED
    BY <2>1, <2>2, <2>3, Zenon DEF QuoteWithinTolerance
<1>18. QuoteIsSound(c, x, out)
  <2>1. (c.xlm + x) * 10000 <= c.k => ValidTrade(c, NetOf(x), -out)
    BY <1>14 DEF X, K, n
  <2>2. out < c.token => BuyOutputOf(c, RequiredXlm(c, out)) = out
    BY <1>16 DEF Y
  <2>3. SellOutputOf(AfterNetBuy(c, x, out), out) <= NetOf(x)
    BY <1>15 DEF AfterNetBuy, after, n
  <2>4. QED
    BY <1>9, <2>1, <2>2, <2>3, Z3 DEF QuoteIsSound
<1>19. QED
  <2>1. out = BuyOutputOf(c, NetOf(x)) /\ paid = NetOf(SellOutputOf(c, x))
    BY DEF n, out, g
  <2> HIDE DEF g, paid
  <2>2. /\ QuoteWithinTolerance(c, x, BuyOutputOf(c, NetOf(x)), NetOf(SellOutputOf(c, x)))
        /\ QuoteIsSound(c, x, BuyOutputOf(c, NetOf(x)))
    BY <1>17, <1>18, <2>1, Zenon
  <2>3. QED
    BY <2>2, Zenon DEF info, c

(* The fee as 997 of 1000 and as 9970 of 10000 is the same quotient.       *)
LEMMA FeeInThousands ==
  ASSUME NEW x \in Nat \ {0}, NEW i \in Nat \ {0}, NEW o \in Nat \ {0}
  PROVE  AmmSwapOutput(x, i, o) = GetAmountOut(x, i, o)
<1> DEFINE a == x * 997 * o
           b == i * 1000 + x * 997
           p == a \div b
           r == (10 * a) \div (10 * b)
<1>1. a \in Nat /\ b \in Nat \ {0}
  <2>1. x * 997 \in Nat \ {0} /\ i * 1000 \in Nat
    OBVIOUS
  <2>2. a \in Nat
    BY <2>1, ProductNat
  <2>3. QED
    BY <2>1, <2>2
<1>2. AmmSwapOutput(x, i, o) = p
  BY DEF AmmSwapOutput, Positive
<1>3. GetAmountOut(x, i, o) = r
  <2>1. (x * (10000 - FEE_BPS)) * o = 10 * a
    BY DEF FEE_BPS
  <2>2. i * 10000 + x * (10000 - FEE_BPS) = 10 * b
    BY DEF FEE_BPS
  <2>3. QED
    BY <2>1, <2>2 DEF GetAmountOut
<1> HIDE DEF a, b
<1>4. 10 * a \in Nat /\ 10 * b \in Nat \ {0}
  BY <1>1
<1>5. p \in Nat /\ p * b <= a /\ a < p * b + b
  BY <1>1, DivFloor
<1>6. r \in Nat /\ r * (10 * b) <= 10 * a /\ 10 * a < r * (10 * b) + 10 * b
  BY <1>4, DivFloor
<1> HIDE DEF p, r
<1>7. r * (10 * b) = 10 * (r * b) /\ r * b \in Nat /\ p * b \in Nat
  BY <1>1, <1>5, <1>6, ProductNat
<1>8. r * b <= a /\ a < r * b + b
  BY <1>1, <1>6, <1>7
<1>9. ~ (r >= p + 1)
  <2>1. SUFFICES ASSUME r >= p + 1 PROVE FALSE
    OBVIOUS
  <2>2. r * b >= (p + 1) * b /\ (p + 1) * b = p * b + b
    BY <1>1, <1>5, <1>6, <2>1
  <2>3. QED
    BY <1>1, <1>5, <1>7, <1>8, <2>2
<1>10. ~ (p >= r + 1)
  <2>1. SUFFICES ASSUME p >= r + 1 PROVE FALSE
    OBVIOUS
  <2>2. p * b >= (r + 1) * b /\ (r + 1) * b = r * b + b
    BY <1>1, <1>5, <1>6, <2>1
  <2>3. QED
    BY <1>1, <1>5, <1>7, <1>8, <2>2
<1>11. p = r
  BY <1>5, <1>6, <1>9, <1>10
<1>12. QED
  BY <1>2, <1>3, <1>11

(* A pool that holds both tokens or neither is quoted as it pays.          *)
LEMMA SoundPoolQuotes ==
  ASSUME ChainInv
  PROVE  SwapQuoteIsPaid
<1> SUFFICES ASSUME NEW s \in Sides, NEW x \in 1 .. PairDeposit
             PROVE  AmmSwapOutput(x, pair.reserve[s], pair.reserve[Other(s)]) = SwapPays(s, x)
  BY Zenon DEF SwapQuoteIsPaid
<1> DEFINE i == pair.reserve[s]
           o == pair.reserve[Other(s)]
<1>1. x \in Nat \ {0}
  BY FactoryClientAssumption
<1>2. i \in Nat /\ o \in Nat /\ (i > 0 <=> o > 0)
  <2>1. Other(s) \in Sides /\ ((s = 0 /\ Other(s) = 1) \/ (s = 1 /\ Other(s) = 0))
    BY DEF Sides, Other
  <2>2. QED
    BY <2>1 DEF ChainInv, Sides
<1>3. SwapPays(s, x) = GetAmountOut(x, i, o)
  BY DEF SwapPays
<1> HIDE DEF i, o
<1>4. AmmSwapOutput(x, i, o) = GetAmountOut(x, i, o)
  <2>1. CASE i > 0
    BY <1>1, <1>2, <2>1, FeeInThousands
  <2>2. CASE i = 0
    <3>1. o = 0
      BY <1>2, <2>2
    <3>2. AmmSwapOutput(x, i, o) = 0
      BY <2>2 DEF AmmSwapOutput, Positive
    <3>3. x * (10000 - FEE_BPS) \in Nat \ {0} /\ 0 * 10000 + x * (10000 - FEE_BPS) = x * (10000 - FEE_BPS)
      BY <1>1 DEF FEE_BPS
    <3>4. (x * (10000 - FEE_BPS)) * 0 = 0
      BY <3>3
    <3>5. 0 \div (x * (10000 - FEE_BPS)) = 0
      BY <3>3
    <3>6. GetAmountOut(x, i, o) = 0
      BY <2>2, <3>1, <3>3, <3>4, <3>5 DEF GetAmountOut
    <3>7. QED
      BY <3>2, <3>6
  <2>3. QED
    BY <1>2, <2>1, <2>2
<1>5. QED
  BY <1>3, <1>4 DEF i, o

-----------------------------------------------------------------------------
(* A buy and a sell that the factory accepts leave a sound curve, and a    *)
(* graduation opens a pair that holds both tokens or neither.              *)
LEMMA BuyKeepsChain ==
  ASSUME ChainInv, SettingsInv, NEW x \in Nat, NEW held,
         WithinBounds(factoryToken, FALSE, x, held), FactoryBuys(x, held)
  PROVE  ChainInv' /\ (factoryToken.status = "Graduated" => factoryToken'.status = "Graduated")
<1> DEFINE t == factoryToken
           pays == FactoryBuyPays(t, x, held)
           net == NetOfBuy(t, x, held)
           X == t.xlm + net + LpFee(x)
           Y == t.token - pays
           u == [t EXCEPT !.xlm = X, !.token = Y, !.raised = @ + x]
<1>1. /\ t \in [status : {"Bonding", "Graduated"}, xlm : Nat, token : Nat, k : Nat, raised : Int]
      /\ SoundReserves(t)
      /\ t.xlm \in Nat \ {0} /\ t.token \in Nat \ {0}
  BY DEF ChainInv, SoundReserves
<1>2. MinTrade \in Nat /\ MinTrade >= 300 /\ PairDeposit \in Nat
  BY FactoryClientAssumption
<1>3. pays \in 1 .. t.token - 1
  BY DEF WithinBounds
<1>4. LpFee(x) \in Nat /\ net \in Int /\ net > 0
  <2>1. LpFee(x) \in Nat /\ net \in Int
    BY FeesWithin, NetOfBuyWithin
  <2>2. pays = BuyOutputOf(t, net)
    BY DEF FactoryBuyPays
  <2>3. net <= 0 => BuyOutputOf(t, net) = 0
    BY <1>1, <2>1, OutputsOnSoundReserves
  <2> HIDE DEF net, pays, t
  <2>4. pays # 0
    BY <1>3
  <2>5. QED
    BY <2>1, <2>2, <2>3, <2>4
<1> HIDE DEF net
<1> HIDE DEF pays
<1>5. X \in Nat \ {0} /\ Y \in Nat \ {0}
  BY <1>1, <1>3, <1>4
<1>6. X * Y \in Nat
  BY <1>5, ProductNat
<1>7. AfterBuy(t, x, held) = [u EXCEPT !.k = X * Y]
  <2>1. u.xlm = X /\ u.token = Y
    BY <1>1
  <2>2. AfterBuy(t, x, held) =
            WithProduct([t EXCEPT !.xlm = t.xlm + net + LpFee(x), !.token = t.token - pays,
                                  !.raised = t.raised + x])
    BY DEF AfterBuy, pays, net
  <2>3. QED
    BY <2>1, <2>2 DEF WithProduct
<1> HIDE DEF X, Y
<1>8. PICK G : G = Graduating(t, x, held)
  OBVIOUS
<1>9. factoryToken' = [AfterBuy(t, x, held) EXCEPT !.status = IF G THEN "Graduated" ELSE @]
      /\ pair' = IF G THEN FirstPool ELSE pair
  BY <1>8 DEF FactoryBuys
<1>10. AfterBuy(t, x, held) \in [status : {"Bonding", "Graduated"}, xlm : Nat, token : Nat, k : Nat, raised : Int]
       /\ AfterBuy(t, x, held).xlm = X /\ AfterBuy(t, x, held).token = Y /\ AfterBuy(t, x, held).k = X * Y
       /\ AfterBuy(t, x, held).status = t.status
  <2> DEFINE P == X * Y
  <2>1. P \in Nat
    BY <1>6
  <2> HIDE DEF P
  <2>2. AfterBuy(t, x, held) = [u EXCEPT !.k = P]
    BY <1>7 DEF P
  <2>3. u \in [status : {"Bonding", "Graduated"}, xlm : Nat, token : Nat, k : Nat, raised : Int]
    <3>1. X \in Nat /\ Y \in Nat /\ t.raised + x \in Int
      BY <1>1, <1>5
    <3> HIDE DEF t
    <3>2. QED
      BY <1>1, <3>1
  <2>4. u.xlm = X /\ u.token = Y /\ u.status = t.status
    BY <1>1
  <2> HIDE DEF u
  <2>5. /\ AfterBuy(t, x, held) \in [status : {"Bonding", "Graduated"}, xlm : Nat, token : Nat, k : Nat, raised : Int]
        /\ AfterBuy(t, x, held).xlm = X /\ AfterBuy(t, x, held).token = Y /\ AfterBuy(t, x, held).k = P
        /\ AfterBuy(t, x, held).status = t.status
    BY <2>1, <2>2, <2>3, <2>4
  <2>6. QED
    BY <2>5 DEF P
<1> DEFINE b == AfterBuy(t, x, held)
           v == factoryToken'
<1> HIDE DEF u, b
<1>11. /\ v \in [status : {"Bonding", "Graduated"}, xlm : Nat, token : Nat, k : Nat, raised : Int]
       /\ v.xlm = X /\ v.token = Y /\ v.k = b.k
       /\ t.status = "Graduated" => v.status = "Graduated"
  <2>1. v = [b EXCEPT !.status = IF G THEN "Graduated" ELSE @]
    BY <1>9 DEF b
  <2>2. /\ b \in [status : {"Bonding", "Graduated"}, xlm : Nat, token : Nat, k : Nat, raised : Int]
        /\ b.xlm = X /\ b.token = Y /\ b.status = t.status
    BY <1>10 DEF b
  <2> HIDE DEF v, t
  <2>3. QED
    BY <2>1, <2>2
<1>12. SoundReserves(v)
  <2>1. v.k = X * Y
    BY <1>10, <1>11 DEF b
  <2>2. v.xlm \in Nat \ {0} /\ v.token \in Nat \ {0} /\ v.k = v.xlm * v.token
    BY <1>5, <1>11, <2>1
  <2>3. QED
    BY <2>2 DEF SoundReserves
<1>13. /\ pair' \in [exists : BOOLEAN, reserve : [Sides -> Nat], total_supply : Nat]
       /\ pair'.reserve[0] > 0 <=> pair'.reserve[1] > 0
  <2>1. CASE G
    <3>1. PairDeposit * PairDeposit \in Nat
      BY <1>2, ProductNat
    <3>2. Sqrt(PairDeposit * PairDeposit) \in Nat
      <4>1. Sqrt(PairDeposit * PairDeposit) \in 0 .. PairDeposit * PairDeposit
        BY <3>1, RootExists
      <4>2. QED
        BY <3>1, <4>1
    <3>3. QED
      BY <1>2, <1>9, <2>1, <3>2 DEF FirstPool, Sides
  <2>2. CASE ~G
    BY <1>9, <2>2 DEF ChainInv
  <2>3. QED
    BY <2>1, <2>2
<1>14. QED
  BY <1>11, <1>12, <1>13 DEF ChainInv

LEMMA SellKeepsChain ==
  ASSUME ChainInv, SettingsInv, NEW x \in Nat, NEW held,
         WithinBounds(factoryToken, TRUE, x, held), FactorySells(x)
  PROVE  ChainInv' /\ factoryToken'.status = factoryToken.status
<1> DEFINE t == factoryToken
           g == SellOutputOf(t, x)
           out == Released(t, x)
           X == t.xlm - out
           Y == t.token + x
           u == [t EXCEPT !.token = Y, !.xlm = X, !.raised = @ - g]
<1>1. /\ t \in [status : {"Bonding", "Graduated"}, xlm : Nat, token : Nat, k : Nat, raised : Int]
      /\ SoundReserves(t)
      /\ t.xlm \in Nat \ {0} /\ t.token \in Nat \ {0}
  BY DEF ChainInv, SoundReserves
<1>2. VirtualReserve \in Nat \ {0}
  BY FactoryClientAssumption
<1>3. g \in Nat
  BY <1>1, OutputsOnSoundReserves
<1>4. out \in Int
  <2>1. out = g - LpFee(g)
    BY DEF Released
  <2> HIDE DEF out, g
  <2>2. LpFee(g) \in Nat
    BY <1>3, FeesWithin
  <2>3. QED
    BY <1>3, <2>1, <2>2
<1>5. AfterSell(t, x) = WithProduct(u)
  BY DEF AfterSell
<1>6. out <= t.xlm - VirtualReserve
  BY DEF WithinBounds
<1> HIDE DEF g, out
<1>7. X \in Nat \ {0} /\ Y \in Nat \ {0}
  BY <1>1, <1>2, <1>4, <1>6
<1>8. X * Y \in Nat
  BY <1>7, ProductNat
<1> HIDE DEF X, Y
<1>9. u \in [status : {"Bonding", "Graduated"}, xlm : Nat, token : Nat, k : Nat, raised : Int]
      /\ u.xlm = X /\ u.token = Y /\ u.status = t.status
  <2>1. X \in Nat /\ Y \in Nat /\ t.raised - g \in Int
    BY <1>1, <1>3, <1>7
  <2> HIDE DEF t
  <2>2. QED
    BY <1>1, <2>1
<1> DEFINE P == X * Y
           v == factoryToken'
<1>10. v = [u EXCEPT !.k = P] /\ P \in Nat /\ pair' = pair
  BY <1>5, <1>8, <1>9 DEF WithProduct, FactorySells, pairVars
<1> HIDE DEF u, P
<1>11. /\ v \in [status : {"Bonding", "Graduated"}, xlm : Nat, token : Nat, k : Nat, raised : Int]
       /\ v.xlm = X /\ v.token = Y /\ v.k = P /\ v.status = t.status
  <2> HIDE DEF v, t
  <2>1. QED
    BY <1>9, <1>10
<1>12. SoundReserves(v)
  <2>1. v.k = v.xlm * v.token
    BY <1>11 DEF P
  <2>2. QED
    BY <1>7, <1>11, <2>1 DEF SoundReserves
<1>13. QED
  BY <1>10, <1>11, <1>12 DEF ChainInv

(* A swap of others keeps the product of the pair's reserves positive.     *)
LEMMA OthersSwapKeepsChain ==
  ASSUME ChainInv, NEW s \in Sides, OthersSwap(s)
  PROVE  ChainInv'
<1> DEFINE o == Other(s)
           out == SwapPays(s, SwapAmount)
           r == pair.reserve
<1>1. /\ o \in Sides /\ o # s /\ SwapAmount \in Nat
      /\ ((s = 0 /\ o = 1) \/ (s = 1 /\ o = 0))
  BY FactoryClientAssumption DEF Other, Sides
<1>2. /\ r \in [Sides -> Nat] /\ r[0] \in Nat \ {0} /\ r[1] \in Nat \ {0} /\ SwapAmount \in Nat \ {0}
      /\ r[s] \in Nat \ {0} /\ r[o] \in Nat \ {0}
  <2>1. r \in [Sides -> Nat] /\ SwapAmount > 0 /\ r[0] > 0 /\ r[1] > 0
    BY DEF OthersSwap, SwapAccepted, Positive, ChainInv
  <2>2. QED
    BY <1>1, <2>1 DEF Sides
<1>3. /\ pair' = [pair EXCEPT !.reserve[s] = @ + SwapAmount, !.reserve[o] = @ - out]
      /\ factoryToken' = factoryToken
      /\ (r[s] + SwapAmount) * (r[o] - out) >= r[0] * r[1]
  BY DEF OthersSwap, Swapped, KeepsProduct
<1>4. out \in Nat /\ out <= r[o]
  <2> DEFINE i == r[s]
             w == SwapAmount * (10000 - FEE_BPS)
             d == i * 10000 + w
             m == r[o]
  <2>1. out = (w * m) \div d /\ i \in Nat \ {0} /\ m \in Nat \ {0} /\ w \in Nat
    BY <1>2 DEF SwapPays, GetAmountOut, FEE_BPS
  <2> HIDE DEF i, w, m, out
  <2>2. d \in Nat \ {0} /\ w <= d
    BY <2>1
  <2> HIDE DEF d
  <2>3. out \in Nat /\ out * d <= w * m
    BY <2>1, <2>2, PartOfSide
  <2>4. w * m <= d * m /\ w * m \in Nat /\ d * m \in Nat /\ out * d \in Nat
    BY <2>1, <2>2, <2>3, ProductNat
  <2>5. out <= m
    <3>1. SUFFICES ASSUME out >= m + 1 PROVE FALSE
      BY <2>1, <2>3
    <3>2. out * d >= (m + 1) * d /\ (m + 1) * d = d * m + d
      BY <2>1, <2>2, <2>3, <3>1
    <3>3. QED
      BY <2>2, <2>3, <2>4, <3>2
  <2>6. QED
    BY <2>3, <2>5 DEF m
<1> HIDE DEF out, o
<1>5. r[o] - out > 0
  <2>1. r[0] * r[1] > 0
    BY <1>2
  <2>2. (r[s] + SwapAmount) * 0 = 0
    BY <1>2
  <2>3. CASE r[o] - out = 0
    BY <1>2, <1>3, <2>1, <2>2, <2>3
  <2>4. QED
    BY <1>2, <1>4, <2>3
<1>6. /\ pair' \in [exists : BOOLEAN, reserve : [Sides -> Nat], total_supply : Nat]
      /\ \A z \in Sides : pair'.reserve[z] > 0
  <2> DEFINE q == [r EXCEPT ![s] = @ + SwapAmount, ![o] = @ - out]
  <2>0. pair \in [exists : BOOLEAN, reserve : [Sides -> Nat], total_supply : Nat]
    BY DEF ChainInv
  <2>1. pair' = [pair EXCEPT !.reserve = q]
    BY <1>1, <1>3, <2>0
  <2>2. q \in [Sides -> Nat] /\ \A z \in Sides : q[z] > 0
    <3>1. \A z \in Sides : z = s \/ z = o
      BY <1>1 DEF Sides
    <3>2. QED
      BY <1>1, <1>2, <1>4, <1>5, <3>1
  <2> HIDE DEF q
  <2>3. QED
    BY <2>0, <2>1, <2>2
<1>7. QED
  BY <1>3, <1>6 DEF ChainInv, Sides

(* The method at work: whose step it is, and that a buy which found its    *)
(* trustline still has it.                                                 *)
CallInv ==
  /\ call = [method |-> call.method, at |-> call.at, typed |-> call.typed, amount |-> call.amount,
             info |-> call.info]
  /\ call.amount \in Nat
  /\ call.at \in {"account", "again"} => call.method = "buyWithTrustline"
  /\ call.at = "simulate" => call.method \in {"buyWithTrustline", "buy", "sell"}
  /\ call.at \in {"again", "simulate"} /\ call.method = "buyWithTrustline" => hasTrustline

(* The trades that wait for the wallet and for the network.                *)
TradeInv ==
  /\ hasTrustline \in BOOLEAN
  /\ prepared.kind = "trade" => prepared.operation.amount \in Nat
  /\ sent = [at |-> sent.at, operation |-> sent.operation]
  /\ sent.at = "pending" => sent.operation.amount \in Nat

ClientInv == ChainInv /\ SettingsInv /\ CallInv /\ TradeInv /\ FreshTradesSimulate

LEMMA ClientInitially == ASSUME FactoryInit PROVE ClientInv
<1>1. ChainInv
  <2>1. /\ FirstCurve.xlm \in Nat \ {0} /\ FirstCurve.token \in Nat \ {0} /\ FirstCurve.raised \in Nat
    BY FactoryClientAssumption
  <2> DEFINE P == FirstCurve.xlm * FirstCurve.token
  <2>2. P \in Nat
    BY <2>1, ProductNat
  <2>3. factoryToken = [status |-> "Bonding", xlm |-> FirstCurve.xlm, token |-> FirstCurve.token,
                        k |-> P, raised |-> FirstCurve.raised]
    BY DEF FactoryInit
  <2>4. P = FirstCurve.xlm * FirstCurve.token
    OBVIOUS
  <2> HIDE DEF P
  <2>5. /\ factoryToken \in [status : {"Bonding", "Graduated"}, xlm : Nat, token : Nat, k : Nat, raised : Int]
        /\ factoryToken.xlm = FirstCurve.xlm /\ factoryToken.token = FirstCurve.token /\ factoryToken.k = P
    BY <2>1, <2>2, <2>3
  <2>6. SoundReserves(factoryToken)
    BY <2>1, <2>4, <2>5 DEF SoundReserves
  <2>7. pair = NoPair
    BY DEF FactoryInit, PairInit
  <2>8. QED
    BY <2>5, <2>6, <2>7 DEF ChainInv, NoPair, Sides
<1>2. CallInv
  <2>1. call = NoCall
    BY DEF FactoryInit
  <2> HIDE DEF NoInfo
  <2>2. QED
    BY <2>1 DEF CallInv, NoCall
<1>3. TradeInv /\ FreshTradesSimulate
  BY DEF FactoryInit, TradeInv, FreshTradesSimulate, NoAnswer, NotSent
<1>4. SettingsInv
  <2>1. settings = FirstSettings
    BY DEF FactoryInit
  <2>2. <<>> \in Seq(Tier)
    OBVIOUS
  <2>3. DefaultFees.protocol \in 0 .. 100 /\ DefaultFees.lp \in 0 .. 100
    BY DEF DefaultFees
  <2>4. NoLimits.tiers = <<>>
    BY DEF NoLimits
  <2>5. PICK f, w : f = DefaultFees /\ w = NoLimits
    OBVIOUS
  <2>6. settings = [fees |-> f, active |-> TRUE, astro |-> FALSE, tokens |-> <<>>, whales |-> w]
    BY <2>1, <2>5 DEF FirstSettings
  <2>7. f.protocol \in 0 .. 100 /\ f.lp \in 0 .. 100 /\ w.tiers \in Seq(Tier)
    BY <2>2, <2>3, <2>4, <2>5, Zenon
  <2>8. QED
    BY <2>6, <2>7 DEF SettingsInv
<1>5. QED
  BY <1>1, <1>2, <1>3, <1>4 DEF ClientInv

(* An answer that is neither a trade nor a failed simulation.              *)
LEMMA PlainAnswer ==
  ASSUME ClientInv, ChainInv', SettingsInv', NEW kind, kind \notin {"trade", "Simulation failed"},
         call' = NoCall, prepared' = [NoAnswer EXCEPT !.kind = kind],
         hasTrustline' \in BOOLEAN, hasTrustline => hasTrustline',
         sent' = [at |-> sent'.at, operation |-> sent'.operation],
         sent'.at = "pending" => sent'.operation.amount \in Nat
  PROVE  ClientInv'
<1>1. CallInv'
  BY DEF CallInv, NoCall
<1>2. prepared'.kind = kind
  BY DEF NoAnswer
<1>3. TradeInv' /\ FreshTradesSimulate'
  BY <1>2 DEF TradeInv, FreshTradesSimulate
<1>4. QED
  BY <1>1, <1>3 DEF ClientInv

(* What is prepared stays as it was, whatever the chain does.              *)
LEMMA PreparedStays ==
  ASSUME ClientInv, ChainInv', SettingsInv', CallInv', UNCHANGED <<prepared, hasTrustline>>,
         sent' = [at |-> sent'.at, operation |-> sent'.operation],
         sent'.at = "pending" => sent'.operation.amount \in Nat
  PROVE  ClientInv'
<1>1. TradeInv'
  BY DEF ClientInv, TradeInv
<1>2. FreshTradesSimulate'
  BY DEF ClientInv, FreshTradesSimulate
<1>3. QED
  BY <1>1, <1>2 DEF ClientInv

(* The chain moves: others trade and swap, and the network executes.       *)
LEMMA ChainStep ==
  ASSUME ClientInv, ChainMoves \/ ExecuteTrade
  PROVE  ClientInv'
<1>0. ChainInv /\ SettingsInv /\ CallInv /\ TradeInv
  BY DEF ClientInv
<1>1. ASSUME NEW x \in FactoryAmounts, OthersTrade(x) PROVE ClientInv'
  <2>1. x \in Nat
    BY StroopsNatural DEF FactoryAmounts
  <2>2. ChainInv'
    <3>1. CASE WithinBounds(factoryToken, FALSE, x, 0) /\ FactoryBuys(x, 0)
      BY <1>0, <2>1, <3>1, BuyKeepsChain
    <3>2. CASE WithinBounds(factoryToken, TRUE, x, 0) /\ FactorySells(x)
      BY <1>0, <2>1, <3>2, SellKeepsChain
    <3>3. QED
      BY <1>1, <3>1, <3>2 DEF OthersTrade
  <2>3. UNCHANGED <<settings, call, prepared, hasTrustline, sent>>
    BY <1>1 DEF OthersTrade, clientVars, settingVars, tradeVars
  <2>4. CallInv' /\ SettingsInv'
    BY <1>0, <2>3 DEF CallInv, SettingsInv
  <2>5. QED
    BY <1>0, <2>2, <2>3, <2>4, PreparedStays DEF TradeInv
<1>2. ASSUME NEW s \in Sides, OthersSwap(s) PROVE ClientInv'
  <2>1. ChainInv' /\ UNCHANGED <<settings, call, prepared, hasTrustline, sent>>
    BY <1>0, <1>2, OthersSwapKeepsChain DEF OthersSwap, clientVars, settingVars, tradeVars
  <2>2. CallInv' /\ SettingsInv'
    BY <1>0, <2>1 DEF CallInv, SettingsInv
  <2>3. QED
    BY <1>0, <2>1, <2>2, PreparedStays DEF TradeInv
<1>3. ASSUME ExecuteTrade PROVE ClientInv'
  <2> DEFINE x == sent.operation.amount
             sell == Sells(sent.operation)
  <2>1. sent.at = "pending" /\ x \in Nat
    BY <1>0, <1>3 DEF ExecuteTrade, TradeInv
  <2>2. UNCHANGED <<hasTrustline, call, prepared, settings>>
    BY <1>3 DEF ExecuteTrade, settingVars
  <2>3. ChainInv'
    <3>1. CASE Accepted(sent.operation)
      <4>1. WithinBounds(factoryToken, sell, x, wallet.holdings) /\ UserTrades(sell, x)
        BY <1>3, <3>1 DEF ExecuteTrade, Accepted, Takes
      <4>2. CASE sell
        <5>1. sell = TRUE
          BY <4>2 DEF Sells
        <5> HIDE DEF sell
        <5>2. WithinBounds(factoryToken, TRUE, x, wallet.holdings) /\ FactorySells(x)
          BY <4>1, <5>1 DEF UserTrades
        <5>3. QED
          BY <1>0, <2>1, <5>2, SellKeepsChain
      <4>3. CASE ~sell
        <5>1. sell = FALSE
          BY <4>3 DEF Sells
        <5> HIDE DEF sell
        <5>2. WithinBounds(factoryToken, FALSE, x, wallet.holdings) /\ FactoryBuys(x, wallet.holdings)
          BY <4>1, <5>1 DEF UserTrades
        <5>3. QED
          BY <1>0, <2>1, <5>2, BuyKeepsChain
      <4>4. QED
        BY <4>2, <4>3
    <3>2. CASE ~Accepted(sent.operation)
      <4>1. UNCHANGED <<factoryToken, pairVars>>
        BY <1>3, <3>2 DEF ExecuteTrade
      <4>2. QED
        BY <1>0, <4>1 DEF pairVars, ChainInv
    <3>3. QED
      BY <3>1, <3>2
  <2>4. CallInv' /\ SettingsInv'
    BY <1>0, <2>2 DEF CallInv, SettingsInv
  <2>5. /\ sent' = [at |-> sent'.at, operation |-> sent'.operation]
        /\ sent'.at = "pending" => sent'.operation.amount \in Nat
    <3>1. Ends("success") \/ Ends("failed")
      BY <1>3 DEF ExecuteTrade
    <3>2. sent' = NotSent \/ sent' = [sent EXCEPT !.at = "success"] \/ sent' = [sent EXCEPT !.at = "failed"]
      BY <3>1 DEF Ends
    <3>3. sent = [at |-> sent.at, operation |-> sent.operation]
      BY <1>0 DEF TradeInv
    <3>4. CASE sent' = NotSent
      BY <3>4 DEF NotSent
    <3>5. CASE sent' = [sent EXCEPT !.at = "success"]
      BY <3>3, <3>5
    <3>6. CASE sent' = [sent EXCEPT !.at = "failed"]
      BY <3>3, <3>6
    <3>7. QED
      BY <3>2, <3>4, <3>5, <3>6
  <2>6. QED
    BY <2>2, <2>3, <2>4, <2>5, PreparedStays
<1>4. QED
  BY <1>1, <1>2, <1>3 DEF ChainMoves

(* The reads of the methods, up to the simulation.                         *)
LEMMA ReadStep ==
  ASSUME ClientInv, NEW ok \in BOOLEAN,
         \/ (\E okAddress, okPair \in BOOLEAN : ReadContext(ok, okAddress, okPair))
         \/ ReadTradeInfo(ok) \/ (\E again \in BOOLEAN : LoadAccount(ok, again)) \/ ReadForMinimum(ok)
         \/ BuyTokens(ok) \/ SellTokens(ok)
  PROVE  ClientInv'
<1>0. ChainInv /\ SettingsInv /\ CallInv /\ TradeInv
  BY DEF ClientInv
<1>1. UNCHANGED <<chainVars, hasTrustline, sent, settings>>
  BY DEF settingVars, ReadContext, ReadTradeInfo, LoadAccount, ReadForMinimum,
         BuyTokens, SellTokens, DeprecatedTrade, Reads
<1>2. ChainInv' /\ SettingsInv'
  BY <1>0, <1>1 DEF chainVars, pairVars, ChainInv, SettingsInv
<1>3. /\ sent' = [at |-> sent'.at, operation |-> sent'.operation]
      /\ sent'.at = "pending" => sent'.operation.amount \in Nat
  BY <1>0, <1>1 DEF TradeInv
<1>4. ASSUME CallInv', UNCHANGED prepared PROVE ClientInv'
  BY <1>1, <1>2, <1>3, <1>4, PreparedStays
<1>5. ASSUME NEW kind, kind \notin {"trade", "Simulation failed"}, Answer(kind) PROVE ClientInv'
  BY <1>0, <1>1, <1>2, <1>3, <1>5, PlainAnswer DEF Answer, TradeInv
<1>6. call = [method |-> call.method, at |-> call.at, typed |-> call.typed, amount |-> call.amount,
              info |-> call.info] /\ call.amount \in Nat
  BY <1>0 DEF CallInv
<1>7. ASSUME call' = NoCall PROVE CallInv'
  BY <1>7 DEF CallInv, NoCall
<1>8. ASSUME NEW okAddress \in BOOLEAN, NEW okPair \in BOOLEAN, ReadContext(ok, okAddress, okPair)
      PROVE  ClientInv'
  <2>1. prepared' = prepared /\ call' = NoCall
    BY <1>8 DEF ReadContext
  <2>2. QED
    BY <1>4, <1>7, <2>1
<1>10. CASE ReadTradeInfo(ok)
  <2>1. CASE GetTokenInfo(ok).found
    <3>1. call.method = "buyWithTrustline" /\ call' = [call EXCEPT !.at = "account"] /\ prepared' = prepared
      BY <1>10, <2>1 DEF ReadTradeInfo
    <3>2. CallInv'
      BY <1>6, <3>1 DEF CallInv
    <3>3. QED
      BY <1>4, <3>1, <3>2
  <2>2. CASE ~GetTokenInfo(ok).found
    <3>1. Answer("Token not found")
      BY <1>10, <2>2 DEF ReadTradeInfo
    <3>2. QED
      BY <1>5, <3>1
  <2>3. QED
    BY <2>1, <2>2
<1>11. ASSUME NEW again \in BOOLEAN, LoadAccount(ok, again) PROVE ClientInv'
  <2>1. CASE ok /\ hasTrustline
    <3>1. call.at = "account" /\ call' = [call EXCEPT !.at = "again"] /\ prepared' = prepared
      BY <1>11, <2>1 DEF LoadAccount
    <3>2. CallInv'
      BY <1>0, <1>1, <1>6, <2>1, <3>1 DEF CallInv
    <3>3. QED
      BY <1>4, <3>1, <3>2
  <2>2. CASE ~(ok /\ hasTrustline)
    <3>1. PICK kind : kind \in {"trustline", "Unable to create trustline"} /\ Answer(kind)
      BY <1>11, <2>2 DEF LoadAccount
    <3>2. QED
      BY <1>5, <3>1
  <2>3. QED
    BY <2>1, <2>2
<1>12. CASE ReadForMinimum(ok)
  <2>1. CASE GetTokenInfo(ok).found
    <3>1. PICK f : call' = [call EXCEPT !.at = "simulate", !.info = f]
      BY <1>12, <2>1 DEF ReadForMinimum
    <3>2. (call.at = "again" \/ (call.method \in {"buy", "sell"} /\ call.at = "info")) /\ prepared' = prepared
      BY <1>12, <2>1 DEF ReadForMinimum
    <3>3. call'.method = call.method /\ call'.at = "simulate" /\ call'.amount = call.amount
          /\ call' = [method |-> call'.method, at |-> call'.at, typed |-> call'.typed, amount |-> call'.amount,
                      info |-> call'.info]
      BY <1>6, <3>1
    <3>4. CallInv'
      BY <1>0, <1>1, <3>2, <3>3 DEF CallInv
    <3>5. QED
      BY <1>4, <3>2, <3>4
  <2>2. CASE ~GetTokenInfo(ok).found
    <3>1. Answer("Token not found")
      BY <1>12, <2>2 DEF ReadForMinimum
    <3>2. QED
      BY <1>5, <3>1
  <2>3. QED
    BY <2>1, <2>2
<1>13. CASE BuyTokens(ok) \/ SellTokens(ok)
  <2>1. PICK kind : kind \in {"Use prepareBuyTransaction flow", "Use prepareSellTransaction flow", "Token not found"}
                    /\ Answer(kind)
    BY <1>13 DEF BuyTokens, SellTokens, DeprecatedTrade, Deprecated
  <2>2. QED
    BY <1>5, <2>1
<1>14. QED
  BY <1>8, <1>10, <1>11, <1>12, <1>13

(* The simulation: the minimum computed of the token as it is on the chain *)
(* is one that the factory pays.                                           *)
LEMMA SimulateStep ==
  ASSUME ClientInv, NEW ok \in BOOLEAN, Simulate(ok)
  PROVE  ClientInv'
<1>0. ChainInv /\ SettingsInv /\ CallInv /\ TradeInv
  BY DEF ClientInv
<1>1. call.at = "simulate" /\ UNCHANGED <<chainVars, hasTrustline, sent, settings>> /\ call' = NoCall
  BY DEF Simulate, Reads, settingVars
<1>2. ChainInv' /\ SettingsInv'
  BY <1>0, <1>1 DEF chainVars, pairVars, ChainInv, SettingsInv
<1>3. CallInv'
  BY <1>1 DEF CallInv, NoCall
<1> DEFINE x == call.amount
           op == TradeOperation
           t == factoryToken
           held == wallet.holdings
           sell == Sells(op)
<1>4. /\ x \in Nat /\ op.amount = x /\ (sell <=> call.method = "sell")
      /\ op.function = IF call.method = "sell" THEN "sell" ELSE "buy"
      /\ sell \in BOOLEAN
  BY <1>0 DEF CallInv, TradeOperation, SellOperation, BuyOperation, BuildOperation, Sells
<1>5. PICK A : A = Accepted(op)
  OBVIOUS
<1>6. PICK s, w, v, f, G : /\ s = (AdaptTokenInfo(t) # call.info)
                           /\ w = ~Takes(sell, x)
                           /\ v = Costly(sell, x)
                           /\ f = ~ok /\ G = (IF ok /\ A THEN "trade" ELSE "Simulation failed")
  OBVIOUS
<1>7. prepared' = [kind |-> G, method |-> call.method, operation |-> op, faulty |-> f, stale |-> s,
                   refused |-> w, costly |-> v]
  BY <1>5, <1>6 DEF Simulate
<1>8. ASSUME AdaptTokenInfo(t) = call.info, Takes(sell, x), ~Costly(sell, x), sell \/ hasTrustline
      PROVE  A
  <2>0. SoundReserves(t)
    BY <1>0 DEF ChainInv
  <2>1. call.info.curve = [xlm |-> t.xlm, token |-> t.token, k |-> t.k]
    BY <1>8 DEF AdaptTokenInfo, AdaptBondingCurve
  <2>2. /\ BuyOutputOf(call.info.curve, x) = BuyOutputOf(t, x)
        /\ SellOutputOf(call.info.curve, x) = SellOutputOf(t, x)
    <3> DEFINE c == call.info.curve
    <3>1. c.xlm = t.xlm /\ c.token = t.token /\ c.k = t.k
      BY <2>1
    <3> HIDE DEF c
    <3>2. QED
      BY <3>1 DEF BuyOutputOf, SellOutputOf, Usable, c
  <2>3. Pays(sell, x) >= op.least
    <3>1. CASE sell = TRUE
      <4>1. op.least = ApplyOutputTolerance(SellOutputOf(t, x))
        BY <1>4, <2>2, <3>1 DEF TradeOperation, SellOperation, BuildOperation, CalculateSellOutput
      <4>2. ~MoreThanTolerated(SellOutputOf(t, x), FactorySellPays(t, x)) /\ Pays(sell, x) = FactorySellPays(t, x)
        <5> HIDE DEF sell
        <5>1. QED
          BY <1>8, <3>1 DEF Costly, Pays
      <4>3. FactorySellPays(t, x) >= ApplyOutputTolerance(SellOutputOf(t, x))
        BY <1>0, <1>4, <2>0, <4>2, SellsWithinTolerance
      <4> HIDE DEF op
      <4>4. QED
        BY <4>1, <4>2, <4>3
    <3>2. CASE sell = FALSE
      <4>1. op.least = ApplyOutputTolerance(BuyOutputOf(t, x))
        BY <1>4, <2>2, <3>2 DEF TradeOperation, BuyOperation, BuildOperation, CalculateBuyOutput
      <4>2. ~MoreThanTolerated(x, NetOfBuy(t, x, held)) /\ Pays(sell, x) = FactoryBuyPays(t, x, held)
        <5> HIDE DEF sell
        <5>1. QED
          BY <1>8, <3>2 DEF Costly, Pays
      <4>3. FactoryBuyPays(t, x, held) >= ApplyOutputTolerance(BuyOutputOf(t, x))
        BY <1>0, <1>4, <2>0, <4>2, BuysWithinTolerance
      <4> HIDE DEF op
      <4>4. QED
        BY <4>1, <4>2, <4>3
    <3>3. QED
      BY <1>4, <3>1, <3>2
  <2> HIDE DEF op
  <2>4. QED
    BY <1>4, <1>5, <1>8, <2>3 DEF Accepted
<1>9. ASSUME A PROVE sell \/ hasTrustline
  BY <1>5, <1>9 DEF Accepted
<1> HIDE DEF op, x, t
<1>10. FreshTradesSimulate'
  <2>1. ASSUME prepared'.kind = "Simulation failed"
        PROVE  \/ prepared'.faulty \/ prepared'.stale \/ prepared'.refused \/ prepared'.costly
               \/ prepared'.method = "buy" /\ ~hasTrustline'
    <3>1. /\ G = "Simulation failed" /\ prepared'.faulty = f /\ prepared'.stale = s
          /\ prepared'.refused = w /\ prepared'.costly = v /\ prepared'.method = call.method
      BY <1>7, <2>1
    <3>2. f \/ ~A
      BY <1>6, <3>1
    <3>3. ASSUME ~A, ~s, ~w, ~v PROVE call.method = "buy" /\ ~hasTrustline
      <4>1. ~(sell \/ hasTrustline)
        BY <1>6, <1>8, <3>3
      <4>2. call.method # "sell" /\ ~hasTrustline
        BY <1>4, <4>1
      <4>3. call.method \in {"buyWithTrustline", "buy", "sell"} /\ call.method # "buyWithTrustline"
        BY <1>0, <1>1, <4>2 DEF CallInv
      <4>4. QED
        BY <4>2, <4>3
    <3>4. QED
      BY <1>1, <3>1, <3>2, <3>3
  <2>2. ASSUME prepared'.kind = "trade", prepared'.operation.function = "buy" PROVE hasTrustline'
    <3>1. G = "trade" /\ op.function = "buy"
      BY <1>7, <2>2
    <3>2. A /\ ~sell
      BY <1>6, <3>1 DEF Sells
    <3>3. QED
      BY <1>1, <1>9, <3>2
  <2>3. QED
    BY <2>1, <2>2 DEF FreshTradesSimulate
<1>11. TradeInv'
  <2>1. prepared'.operation.amount \in Nat
    BY <1>4, <1>7
  <2>2. QED
    BY <1>0, <1>1, <2>1 DEF TradeInv
<1>12. QED
  BY <1>2, <1>3, <1>10, <1>11 DEF ClientInv

(* The calls, the submissions and the settings.                            *)
LEMMA OtherStep ==
  ASSUME ClientInv,
         \/ \E m \in {"buyWithTrustline", "buy", "sell", "buyTokens", "sellTokens", "context"},
               d \in Decimals : StartCall(m, d)
         \/ \E ok \in BOOLEAN : SubmitTrustline(ok) \/ SubmitBuyTransaction(ok) \/ SubmitSellTransaction(ok)
                                \/ EndPolls(ok)
         \/ TradeExpires \/ SettingsNext \/ UNCHANGED factoryVars
  PROVE  ClientInv'
<1>0. ChainInv /\ SettingsInv /\ CallInv /\ TradeInv
  BY DEF ClientInv
<1>1. UNCHANGED <<pairVars, factoryToken>>
  BY DEF chainVars, StartCall, SubmitTrustline, SubmitBuyTransaction, SubmitSellTransaction, SubmitTrade, EndPolls,
         TradeExpires, SettingsNext, AdministratorActs, CooldownEnds, OtherSettings, SubmitHoldings, AskFactory,
         PrepareResetWalletHoldings, PrepareClearWalletHoldings, PrepareHoldings, factoryVars
<1>2. ChainInv' /\ SettingsInv'
  <2>1. ChainInv'
    BY <1>0, <1>1 DEF pairVars, ChainInv
  <2>2. ASSUME AdministratorActs PROVE SettingsInv'
    <3>1. ASSUME NEW f \in FeeConfigs, settings' = [settings EXCEPT !.fees = f] PROVE SettingsInv'
      <4>1. f \in [creation : Nat, protocol : 0 .. 100, lp : 0 .. 100]
        BY FactoryClientAssumption
      <4>2. QED
        BY <1>0, <3>1, <4>1 DEF SettingsInv
    <3>2. ASSUME NEW w \in WhaleConfigs, settings' = [settings EXCEPT !.whales = w] PROVE SettingsInv'
      <4>1. w.tiers \in Seq(Tier)
        BY FactoryClientAssumption DEF Tier, WhaleFees
      <4>2. QED
        BY <1>0, <3>2, <4>1 DEF SettingsInv
    <3>3. ASSUME settings' = [settings EXCEPT !.active = ~@] PROVE SettingsInv'
      BY <1>0, <3>3 DEF SettingsInv
    <3>4. QED
      BY <2>2, <3>1, <3>2, <3>3 DEF AdministratorActs
  <2>3. ASSUME OtherSettings PROVE SettingsInv'
    <3>1. PICK a, n : \/ settings' = [settings EXCEPT !.astro = a]
                      \/ settings' = [settings EXCEPT !.tokens = n]
      BY <2>3 DEF OtherSettings
    <3>2. ASSUME settings' = [settings EXCEPT !.astro = a] PROVE SettingsInv'
      BY <1>0, <3>2 DEF SettingsInv
    <3>3. ASSUME settings' = [settings EXCEPT !.tokens = n] PROVE SettingsInv'
      BY <1>0, <3>3 DEF SettingsInv
    <3>4. QED
      BY <3>1, <3>2, <3>3
  <2>4. AdministratorActs \/ OtherSettings \/ settings' = settings
    BY DEF StartCall, SubmitTrustline, SubmitBuyTransaction, SubmitSellTransaction, SubmitTrade, EndPolls,
           TradeExpires, SettingsNext, CooldownEnds, SubmitHoldings, AskFactory, PrepareResetWalletHoldings,
           PrepareClearWalletHoldings, PrepareHoldings, factoryVars, clientVars, settingVars
  <2>5. ASSUME settings' = settings PROVE SettingsInv'
    BY <1>0, <2>5 DEF SettingsInv
  <2>6. QED
    BY <2>1, <2>2, <2>3, <2>4, <2>5
<1>3. /\ sent = [at |-> sent.at, operation |-> sent.operation]
      /\ sent.at = "pending" => sent.operation.amount \in Nat
      /\ hasTrustline \in BOOLEAN
  BY <1>0 DEF TradeInv
<1>4. ASSUME CallInv', UNCHANGED <<prepared, hasTrustline, sent>> PROVE ClientInv'
  BY <1>2, <1>3, <1>4, PreparedStays
<1>5. ASSUME UNCHANGED <<call, hasTrustline>> PROVE CallInv'
  BY <1>0, <1>5 DEF CallInv
<1>6. ASSUME NEW m \in {"buyWithTrustline", "buy", "sell", "buyTokens", "sellTokens", "context"},
             NEW d \in Decimals, StartCall(m, d)
      PROVE  ClientInv'
  <2>1. ToStroops(d) \in Nat
    BY StroopsNatural
  <2>2. call' = [NoCall EXCEPT !.method = m, !.at = "info", !.typed = d, !.amount = ToStroops(d)]
        /\ UNCHANGED <<prepared, hasTrustline, sent>>
    BY <1>6 DEF StartCall, tradeVars
  <2>3. PICK n : n = ToStroops(d)
    OBVIOUS
  <2>4. CallInv'
    <3>1. call' = [NoCall EXCEPT !.method = m, !.at = "info", !.typed = d, !.amount = n] /\ n \in Nat
      BY <2>1, <2>2, <2>3
    <3>2. QED
      BY <3>1 DEF CallInv, NoCall
  <2>5. QED
    BY <1>4, <2>2, <2>4
<1>7. ASSUME NEW ok \in BOOLEAN, SubmitTrustline(ok) PROVE ClientInv'
  <2>1. /\ UNCHANGED <<call, sent>> /\ hasTrustline' = (hasTrustline \/ ok)
        /\ prepared' = NoAnswer
    BY <1>7 DEF SubmitTrustline
  <2>2. CallInv'
    BY <1>0, <2>1 DEF CallInv
  <2>3. TradeInv' /\ FreshTradesSimulate'
    BY <1>0, <2>1 DEF TradeInv, FreshTradesSimulate, NoAnswer
  <2>4. QED
    BY <1>2, <2>2, <2>3 DEF ClientInv
<1>8. ASSUME NEW ok \in BOOLEAN, NEW function, SubmitTrade(function, ok) PROVE ClientInv'
  <2>1. UNCHANGED hasTrustline /\ prepared.kind = "trade" /\ call.at = "idle"
    BY <1>8 DEF SubmitTrade
  <2>2. CASE ok
    <3>1. /\ call' = [NoCall EXCEPT !.method = "submit", !.at = "poll"]
          /\ sent' = [at |-> "pending", operation |-> prepared.operation]
          /\ prepared' = NoAnswer
      BY <1>8, <2>2 DEF SubmitTrade
    <3>2. CallInv'
      BY <3>1 DEF CallInv, NoCall
    <3>3. TradeInv'
      BY <1>0, <2>1, <3>1 DEF TradeInv, NoAnswer
    <3>4. FreshTradesSimulate'
      BY <3>1 DEF FreshTradesSimulate, NoAnswer
    <3>5. QED
      BY <1>2, <3>2, <3>3, <3>4 DEF ClientInv
  <2>3. CASE ~ok
    <3>1. prepared' = [NoAnswer EXCEPT !.kind = "Transaction submission failed"] /\ UNCHANGED <<call, sent>>
      BY <1>8, <2>3 DEF SubmitTrade
    <3>2. CallInv'
      BY <1>5, <2>1, <3>1
    <3>3. TradeInv' /\ FreshTradesSimulate'
      BY <1>0, <2>1, <3>1 DEF TradeInv, FreshTradesSimulate, NoAnswer
    <3>4. QED
      BY <1>2, <3>2, <3>3 DEF ClientInv
  <2>4. QED
    BY <2>2, <2>3
<1>9. ASSUME NEW ok \in BOOLEAN, EndPolls(ok) PROVE ClientInv'
  <2>1. hasTrustline' = hasTrustline /\ (sent' = NotSent \/ sent' = sent)
    BY <1>9 DEF EndPolls
  <2>2. PICK kind : /\ kind \in {"submitted", "Transaction failed", "Transaction timed out waiting for confirmation"}
                    /\ Answer(kind)
    BY <1>9 DEF EndPolls
  <2>3. sent' = [at |-> sent'.at, operation |-> sent'.operation]
        /\ (sent'.at = "pending" => sent'.operation.amount \in Nat)
    BY <1>3, <2>1 DEF NotSent
  <2>4. QED
    BY <1>2, <1>3, <2>1, <2>2, <2>3, PlainAnswer DEF Answer
<1>10. ASSUME TradeExpires PROVE ClientInv'
  <2>1. UNCHANGED <<call, prepared, hasTrustline>> /\ sent' = NotSent
    BY <1>10 DEF TradeExpires
  <2>2. CallInv'
    BY <1>5, <2>1
  <2>3. QED
    BY <1>2, <2>1, <2>2, PreparedStays DEF NotSent
<1>11. ASSUME SettingsNext PROVE ClientInv'
  <2>1. UNCHANGED <<call, hasTrustline, sent>>
    BY <1>11 DEF SettingsNext, AdministratorActs, CooldownEnds, OtherSettings, SubmitHoldings, AskFactory,
       PrepareResetWalletHoldings, PrepareClearWalletHoldings, PrepareHoldings, tradeVars, clientVars
  <2>2. CallInv'
    BY <1>5, <2>1
  <2>3. CASE prepared' = prepared
    BY <1>4, <2>1, <2>2, <2>3
  <2>4. CASE prepared' # prepared
    <3>1. PICK op : \/ prepared' = NoAnswer
                    \/ prepared' = [NoAnswer EXCEPT !.kind = "holdings", !.operation = op]
                    \/ prepared' = [NoAnswer EXCEPT !.kind = "Simulation failed", !.faulty = TRUE]
      BY <1>11, <2>4 DEF SettingsNext, AdministratorActs, CooldownEnds, OtherSettings, SubmitHoldings, AskFactory,
         PrepareResetWalletHoldings, PrepareClearWalletHoldings, PrepareHoldings, tradeVars, clientVars
    <3>2. prepared'.kind # "trade" /\ (prepared'.kind = "Simulation failed" => prepared'.faulty = TRUE)
      <4>1. CASE prepared' = NoAnswer
        BY <4>1 DEF NoAnswer
      <4>2. CASE prepared' = [NoAnswer EXCEPT !.kind = "holdings", !.operation = op]
        BY <4>2 DEF NoAnswer
      <4>3. CASE prepared' = [NoAnswer EXCEPT !.kind = "Simulation failed", !.faulty = TRUE]
        <5>1. prepared'.faulty = TRUE
          BY <4>3, Zenon DEF NoAnswer
        <5>2. prepared'.kind = "Simulation failed"
          BY <4>3 DEF NoAnswer
        <5>3. QED
          BY <5>1, <5>2
      <4>4. QED
        BY <3>1, <4>1, <4>2, <4>3
    <3>3. TradeInv'
      BY <1>0, <2>1, <3>2 DEF TradeInv
    <3>4. FreshTradesSimulate'
      BY <3>2 DEF FreshTradesSimulate
    <3>5. QED
      BY <1>2, <2>2, <3>3, <3>4 DEF ClientInv
  <2>5. QED
    BY <2>3, <2>4
<1>12. ASSUME UNCHANGED factoryVars PROVE ClientInv'
  BY <1>4, <1>5, <1>12 DEF factoryVars, clientVars, tradeVars
<1>13. QED
  BY <1>6, <1>7, <1>8, <1>9, <1>10, <1>11, <1>12 DEF SubmitBuyTransaction, SubmitSellTransaction

(* Every step of the client, of the chain beside it and of its settings.   *)
LEMMA ClientStep ==
  ASSUME ClientInv, [FactoryNext \/ SettingsNext]_factoryVars
  PROVE  ClientInv'
<1>1. CASE ChainMoves \/ ExecuteTrade
  BY <1>1, ChainStep
<1>2. ASSUME NEW ok \in BOOLEAN,
             \/ (\E okAddress, okPair \in BOOLEAN : ReadContext(ok, okAddress, okPair))
             \/ ReadTradeInfo(ok) \/ (\E again \in BOOLEAN : LoadAccount(ok, again)) \/ ReadForMinimum(ok)
             \/ BuyTokens(ok) \/ SellTokens(ok)
      PROVE  ClientInv'
  BY <1>2, ReadStep, Zenon
<1>3. ASSUME NEW ok \in BOOLEAN, Simulate(ok) PROVE ClientInv'
  BY <1>3, SimulateStep
<1>4. ASSUME \/ \E m \in {"buyWithTrustline", "buy", "sell", "buyTokens", "sellTokens", "context"},
                   d \in Decimals : StartCall(m, d)
             \/ \E ok \in BOOLEAN : SubmitTrustline(ok) \/ SubmitBuyTransaction(ok) \/ SubmitSellTransaction(ok)
                                    \/ EndPolls(ok)
             \/ TradeExpires \/ SettingsNext \/ UNCHANGED factoryVars
      PROVE  ClientInv'
  BY <1>4, OtherStep, Zenon
<1>5. QED
  BY <1>1, <1>2, <1>3, <1>4, Zenon DEF FactoryNext

(* A trade prepared of an unmoved market is refused only for what the      *)
(* factory takes under no minimum, for charges of more than one per cent   *)
(* or for the trustline: the tolerance covers the fees and the tax that    *)
(* the client leaves out of the expected output, on every curve, for every *)
(* amount, whatever fees and limits the administrators choose              *)
(* (sac-factory.service.ts against lib.rs and fee_management.rs).          *)
THEOREM FreshTradesAreTaken == FactorySpec => []FreshTradesSimulate
<1>1. FactoryInit => ClientInv
  BY ClientInitially
<1>2. ClientInv /\ [FactoryNext \/ SettingsNext]_factoryVars => ClientInv'
  BY ClientStep
<1>3. ClientInv => FreshTradesSimulate
  BY DEF ClientInv
<1>4. QED
  BY <1>1, <1>2, <1>3, PTL DEF FactorySpec

(* While the factory charges what the web application takes it to charge,  *)
(* what the application computes is what the contracts pay: the quotes of  *)
(* bonding-curve.utils.ts, on every curve the factory can reach, and of    *)
(* calculateAmmSwapOutput, on every pair.                                  *)
THEOREM QuotesArePaid == FactorySpec => []QuotesAgree
<1>1. FactoryInit => ClientInv
  BY ClientInitially
<1>2. ClientInv /\ [FactoryNext \/ SettingsNext]_factoryVars => ClientInv'
  BY ClientStep
<1>3. ClientInv => QuotesAgree
  BY SoundCurveQuotes, SoundPoolQuotes DEF ClientInv, QuotesAgree
<1>4. QED
  BY <1>1, <1>2, <1>3, PTL DEF FactorySpec

-----------------------------------------------------------------------------
(* A recursion over an interval whose steps stay in a set has a solution,  *)
(* and every solution stays in that set.                                   *)
Recursion(f, n, a, next) == f = [i \in 0 .. n |-> IF i = 0 THEN a ELSE next[i][f[i - 1]]]

LEMMA RecursionStays ==
  ASSUME NEW n \in Nat, NEW V, NEW a \in V, NEW next \in [1 .. n -> [V -> V]],
         NEW f, Recursion(f, n, a, next)
  PROVE  f \in [0 .. n -> V] /\ f[0] = a /\ \A i \in 1 .. n : f[i] = next[i][f[i - 1]]
<1>1. \A i \in 0 .. n : f[i] = IF i = 0 THEN a ELSE next[i][f[i - 1]]
  BY Zenon DEF Recursion
<1>2. 0 \in 0 .. n /\ \A i \in 1 .. n : i \in 0 .. n /\ i # 0
  OBVIOUS
<1>3. f[0] = a /\ \A i \in 1 .. n : f[i] = next[i][f[i - 1]]
  BY <1>1, <1>2, Zenon
<1> DEFINE S == {i \in 0 .. n : f[i] \in V}
<1>4. \A i \in 0 .. n : i \in S
  <2>1. 0 \in S
    BY <1>2, <1>3
  <2>2. ASSUME NEW i \in 0 .. n - 1, i \in S
        PROVE  i + 1 \in S
    <3>1. i + 1 \in 1 .. n /\ i + 1 \in 0 .. n /\ (i + 1) - 1 = i
      OBVIOUS
    <3>2. f[i + 1] = next[i + 1][f[i]]
      BY <1>3, <3>1
    <3>3. next[i + 1][f[i]] \in V
      BY <2>2, <3>1
    <3>4. QED
      BY <3>1, <3>2, <3>3
  <2> HIDE DEF S
  <2>3. QED
    BY <2>1, <2>2, FiniteInduction
<1>5. f = [i \in 0 .. n |-> f[i]]
  BY Zenon DEF Recursion
<1>6. f \in [0 .. n -> V]
  BY <1>4, <1>5
<1>7. QED
  BY <1>3, <1>6

LEMMA RecursionExists ==
  ASSUME NEW n \in Nat, NEW V, NEW a \in V, NEW next \in [1 .. n -> [V -> V]]
  PROVE  \E f : Recursion(f, n, a, next)
<1> DEFINE S == {m \in 0 .. n : \E f : Recursion(f, m, a, next)}
<1>1. 0 \in S
  <2>1. \A i \in 0 .. 0 : i = 0
    OBVIOUS
  <2>2. Recursion([i \in 0 .. 0 |-> a], 0, a, next)
    BY <2>1 DEF Recursion
  <2>3. QED
    BY <2>2
<1>2. ASSUME NEW m \in 0 .. n - 1, m \in S
      PROVE  m + 1 \in S
  <2>1. PICK f : Recursion(f, m, a, next)
    BY <1>2
  <2> DEFINE g == [i \in 0 .. m + 1 |-> IF i = m + 1 THEN next[m + 1][f[m]] ELSE f[i]]
             h == [i \in 0 .. m + 1 |-> IF i = 0 THEN a ELSE next[i][g[i - 1]]]
  <2>2. m \in Nat /\ m + 1 \in 0 .. n
    OBVIOUS
  <2>3. \A i \in 0 .. m : f[i] = IF i = 0 THEN a ELSE next[i][f[i - 1]]
    BY <2>1, Zenon DEF Recursion
  <2>4. ASSUME NEW i \in 0 .. m + 1
        PROVE  g[i] = h[i]
    <3>1. CASE i = m + 1
      <4>1. g[i] = next[m + 1][f[m]]
        BY <3>1
      <4>2. i - 1 = m /\ i # 0 /\ m \in 0 .. m + 1 /\ m # m + 1
        BY <2>2, <3>1
      <4>3. g[i - 1] = f[m]
        BY <4>2
      <4>4. QED
        BY <3>1, <4>1, <4>2, <4>3
    <3>2. CASE i # m + 1 /\ i # 0
      <4>1. i \in 0 .. m /\ i - 1 \in 0 .. m + 1 /\ i - 1 # m + 1
        BY <2>2, <3>2
      <4>2. g[i] = f[i] /\ g[i - 1] = f[i - 1]
        BY <3>2, <4>1
      <4>3. f[i] = next[i][f[i - 1]]
        BY <2>3, <3>2, <4>1
      <4>4. h[i] = next[i][g[i - 1]]
        BY <3>2
      <4>5. QED
        BY <4>2, <4>3, <4>4
    <3>3. CASE i = 0
      <4>1. 0 \in 0 .. m /\ 0 # m + 1
        BY <2>2
      <4>2. g[0] = f[0] /\ f[0] = a
        BY <2>3, <4>1
      <4>3. QED
        BY <3>3, <4>2
    <3>4. QED
      BY <3>1, <3>2, <3>3
  <2>5. g = h
    <3>1. g = [i \in 0 .. m + 1 |-> g[i]] /\ h = [i \in 0 .. m + 1 |-> h[i]]
      OBVIOUS
    <3> HIDE DEF g, h
    <3>2. QED
      BY <2>4, <3>1
  <2>6. Recursion(g, m + 1, a, next)
    BY <2>5, Zenon DEF Recursion
  <2> HIDE DEF g, h
  <2>7. QED
    BY <2>2, <2>6
<1>3. n \in S
  <2> HIDE DEF S
  <2>1. \A i \in 0 .. n : i \in S
    BY <1>1, <1>2, FiniteInduction
  <2>2. QED
    BY <2>1
<1>4. QED
  BY <1>3

(* The n-th of a finite set of integers.                                   *)
NumberBelow(T, t) == Cardinality({u \in T : u < t})
Nth(T, n) == CHOOSE t \in T : NumberBelow(T, t) = n - 1

LEMMA NthAscends ==
  ASSUME NEW T, T \subseteq Int, IsFiniteSet(T)
  PROVE  /\ Cardinality(T) \in Nat
         /\ \A n \in 1 .. Cardinality(T) : Nth(T, n) \in T
         /\ \A m, n \in 1 .. Cardinality(T) : m < n => Nth(T, m) < Nth(T, n)
<1> DEFINE c == Cardinality(T)
           P == 0 .. c - 1
           f == [t \in T |-> NumberBelow(T, t)]
<1>1. c \in Nat
  BY FS_CardinalityType
<1>2. ASSUME NEW t \in T, NEW u \in T, u < t
      PROVE  NumberBelow(T, u) < NumberBelow(T, t)
  <2> DEFINE A == {v \in T : v < u}
             B == {v \in T : v < t}
  <2>1. A \subseteq B /\ u \in B /\ u \notin A /\ B \subseteq T
    <3>1. \A v \in T : v \in Int
      OBVIOUS
    <3>2. u \in Int /\ t \in Int /\ ~(u < u)
      BY <3>1
    <3>3. \A v \in T : v < u => v < t
      BY <1>2, <3>1, <3>2
    <3>4. QED
      BY <1>2, <3>2, <3>3
  <2> HIDE DEF A, B
  <2>2. IsFiniteSet(B) /\ IsFiniteSet(A)
    BY <2>1, FS_Subset
  <2>3. A # B
    BY <2>1
  <2>4. Cardinality(A) <= Cardinality(B) /\ Cardinality(A) # Cardinality(B)
    BY <2>1, <2>2, <2>3, FS_Subset
  <2>5. Cardinality(A) \in Nat /\ Cardinality(B) \in Nat
    BY <2>2, FS_CardinalityType
  <2>6. Cardinality(A) < Cardinality(B)
    BY <2>4, <2>5
  <2>7. QED
    BY <2>6 DEF NumberBelow, A, B
<1>3. ASSUME NEW t \in T
      PROVE  NumberBelow(T, t) \in P
  <2> DEFINE A == {u \in T : u < t}
  <2>1. A \subseteq T \ {t}
    OBVIOUS
  <2>2. IsFiniteSet(T \ {t}) /\ Cardinality(T \ {t}) = c - 1
    BY FS_RemoveElement
  <2> HIDE DEF A, c
  <2>3. IsFiniteSet(A) /\ Cardinality(A) <= c - 1
    BY <2>1, <2>2, FS_Subset
  <2>4. Cardinality(A) \in Nat
    BY <2>3, FS_CardinalityType
  <2>5. QED
    BY <1>1, <2>3, <2>4 DEF NumberBelow, A
<1>4. \A t, u \in T : NumberBelow(T, t) = NumberBelow(T, u) => t = u
  <2>1. \A t \in T : NumberBelow(T, t) \in Int
    <3> HIDE DEF c
    <3>1. QED
      BY <1>1, <1>3
  <2>2. \A t, u \in T : t \in Int /\ u \in Int
    OBVIOUS
  <2>3. QED
    BY <1>2, <2>1, <2>2
<1>5. f \in Injection(T, P)
  <2>1. f \in [T -> P] /\ \A t, u \in T : f[t] = f[u] => t = u
    BY <1>3, <1>4
  <2> HIDE DEF f, P
  <2>2. QED
    BY <2>1 DEF Injection, IsInjective
<1>6. IsFiniteSet(P) /\ Cardinality(P) = c
  <2> HIDE DEF c
  <2>1. QED
    BY <1>1, FS_Interval
<1>7. f \in Surjection(T, P)
  <2> HIDE DEF f, P, c
  <2>1. Cardinality(T) = c
    BY DEF c
  <2>2. QED
    BY <1>5, <1>6, <2>1, FS_Injection
<1>8. ASSUME NEW n \in 1 .. c
      PROVE  Nth(T, n) \in T /\ NumberBelow(T, Nth(T, n)) = n - 1
  <2>1. n - 1 \in P
    <3> HIDE DEF c
    <3>1. QED
      BY <1>1
  <2>2. \E t \in T : f[t] = n - 1
    <3> HIDE DEF f, P
    <3>1. QED
      BY <1>7, <2>1 DEF Surjection
  <2>3. \E t \in T : NumberBelow(T, t) = n - 1
    BY <2>2
  <2>4. QED
    BY <2>3 DEF Nth
<1>9. ASSUME NEW m \in 1 .. c, NEW n \in 1 .. c, m < n
      PROVE  Nth(T, m) < Nth(T, n)
  <2>1. /\ Nth(T, m) \in T /\ NumberBelow(T, Nth(T, m)) = m - 1
        /\ Nth(T, n) \in T /\ NumberBelow(T, Nth(T, n)) = n - 1
    BY <1>8
  <2>2. Nth(T, m) \in Int /\ Nth(T, n) \in Int /\ m - 1 < n - 1 /\ m - 1 \in Int /\ n - 1 \in Int
    <3>1. Nth(T, m) \in Int /\ Nth(T, n) \in Int
      BY <2>1
    <3>2. m \in Int /\ n \in Int
      OBVIOUS
    <3>3. QED
      BY <1>9, <3>1, <3>2
  <2>3. Nth(T, m) # Nth(T, n)
    BY <2>1, <2>2
  <2>4. ~(Nth(T, n) < Nth(T, m))
    <3>1. SUFFICES ASSUME Nth(T, n) < Nth(T, m) PROVE FALSE
      OBVIOUS
    <3>2. NumberBelow(T, Nth(T, n)) < NumberBelow(T, Nth(T, m))
      BY <1>2, <2>1, <3>1
    <3>3. n - 1 < m - 1
      BY <2>1, <3>2
    <3>4. QED
      BY <2>2, <3>3
  <2>5. QED
    BY <2>2, <2>3, <2>4
<1>10. QED
  BY <1>1, <1>8, <1>9

-----------------------------------------------------------------------------
(***************************************************************************)
(* Candles: what the single pass of TradingViewChart makes of a line.      *)
(***************************************************************************)
Point == [time : Int, value : Int]
Candle == [time : Int, open : Int, high : Int, low : Int, close : Int]

Summary(c, line, n, interval) ==
    LET in(i) == Bucket(line[i], interval) = c.time
    IN  /\ \A i \in 1 .. n : in(i) => c.low <= line[i].value /\ line[i].value <= c.high
        /\ \E i \in 1 .. n : in(i) /\ line[i].value = c.low
        /\ \E i \in 1 .. n : in(i) /\ line[i].value = c.high
        /\ \E i \in 1 .. n : in(i) /\ line[i].value = c.open /\ \A j \in 1 .. n : in(j) => i <= j
        /\ \E i \in 1 .. n : in(i) /\ line[i].value = c.close /\ \A j \in 1 .. n : in(j) => j <= i

CandlesUpTo(candles, line, n, interval) ==
    /\ Ascends(candles)
    /\ \A k \in DOMAIN candles : Summary(candles[k], line, n, interval)
    /\ \A i \in 1 .. n : \E k \in DOMAIN candles : candles[k].time = Bucket(line[i], interval)
    /\ n = 0 => candles = <<>>
    /\ n # 0 => candles # <<>> /\ Last(candles).time = Bucket(line[n], interval)

LEMMA DivMonotoneInt ==
  ASSUME NEW a \in Int, NEW b \in Int, a <= b, NEW d \in Nat \ {0}
  PROVE  a \div d \in Int /\ (a \div d) * d <= (b \div d) * d
<1> DEFINE p == a \div d
           q == b \div d
           pd == p * d
           qd == q * d
<1>1. p \in Int /\ pd <= a /\ a < pd + d
  OBVIOUS
<1>2. q \in Int /\ qd <= b /\ b < qd + d
  OBVIOUS
<1>3. CASE p <= q
  <2>1. pd <= qd
    <3> HIDE DEF p, q
    <3>1. QED
      BY <1>1, <1>2, <1>3
  <2>2. QED
    BY <1>1, <2>1
<1>4. CASE q < p
  <2>1. p >= q + 1
    <3> HIDE DEF p, q
    <3>1. QED
      BY <1>1, <1>2, <1>4
  <2>2. pd >= (q + 1) * d /\ (q + 1) * d = qd + d
    <3> HIDE DEF p, q
    <3>1. QED
      BY <1>1, <1>2, <2>1
  <2>3. pd \in Int /\ qd \in Int
    <3> HIDE DEF p, q
    <3>1. QED
      BY <1>1, <1>2
  <2>4. QED
    <3> HIDE DEF p, q, pd, qd
    <3>1. QED
      BY <1>1, <1>2, <2>2, <2>3
<1>5. QED
  BY <1>1, <1>2, <1>3, <1>4

LEMMA BucketMonotone ==
  ASSUME NEW p, NEW q, p.time \in Int, q.time \in Int, p.time <= q.time,
         NEW interval \in Nat \ {0}
  PROVE  /\ Bucket(p, interval) \in Int /\ Bucket(q, interval) \in Int
         /\ Bucket(p, interval) <= Bucket(q, interval)
<1>1. p.time \div interval \in Int /\ q.time \div interval \in Int
  BY DivMonotoneInt
<1>2. QED
  BY <1>1, DivMonotoneInt DEF Bucket

LEMMA PointTypes ==
  ASSUME NEW line \in Seq(Point), NEW i \in DOMAIN line, NEW interval \in Nat \ {0}
  PROVE  line[i].time \in Int /\ line[i].value \in Int /\ Bucket(line[i], interval) \in Int
<1>1. line[i] \in Point
  OBVIOUS
<1>2. line[i].time \in Int /\ line[i].value \in Int
  BY <1>1 DEF Point
<1>3. QED
  BY <1>2, BucketMonotone

(* A candle of another interval is as it was when a point is added.        *)
LEMMA SummaryStays ==
  ASSUME NEW line, NEW interval, NEW n \in Nat, NEW c,
         Summary(c, line, n, interval), Bucket(line[n + 1], interval) # c.time
  PROVE  Summary(c, line, n + 1, interval)
<1> DEFINE in(i) == Bucket(line[i], interval) = c.time
<1>1. \A i \in 1 .. n + 1 : in(i) => i \in 1 .. n
  OBVIOUS
<1>2. \A i \in 1 .. n : i \in 1 .. n + 1
  OBVIOUS
<1>3. /\ \A i \in 1 .. n : in(i) => c.low <= line[i].value /\ line[i].value <= c.high
      /\ \E i \in 1 .. n : in(i) /\ line[i].value = c.low
      /\ \E i \in 1 .. n : in(i) /\ line[i].value = c.high
      /\ \E i \in 1 .. n : in(i) /\ line[i].value = c.open /\ \A j \in 1 .. n : in(j) => i <= j
      /\ \E i \in 1 .. n : in(i) /\ line[i].value = c.close /\ \A j \in 1 .. n : in(j) => j <= i
  BY Zenon DEF Summary
<1> HIDE DEF in
<1>4. /\ \A i \in 1 .. n + 1 : in(i) => c.low <= line[i].value /\ line[i].value <= c.high
      /\ \E i \in 1 .. n + 1 : in(i) /\ line[i].value = c.low
      /\ \E i \in 1 .. n + 1 : in(i) /\ line[i].value = c.high
  BY <1>1, <1>2, <1>3, Zenon
<1>5. \E i \in 1 .. n + 1 :
         in(i) /\ line[i].value = c.open /\ \A j \in 1 .. n + 1 : in(j) => i <= j
  BY <1>1, <1>2, <1>3, Zenon
<1>6. \E i \in 1 .. n + 1 :
         in(i) /\ line[i].value = c.close /\ \A j \in 1 .. n + 1 : in(j) => j <= i
  BY <1>1, <1>2, <1>3, Zenon
<1>7. QED
  BY <1>4, <1>5, <1>6, Zenon DEF Summary, in

(* The first point of an interval opens a candle.                          *)
LEMMA SummaryOpens ==
  ASSUME NEW line, NEW interval, NEW n \in Nat, line[n + 1].value \in Int,
         \A i \in 1 .. n : Bucket(line[i], interval) # Bucket(line[n + 1], interval)
  PROVE  Summary(NewCandle(line[n + 1], interval), line, n + 1, interval)
<1> DEFINE c == NewCandle(line[n + 1], interval)
           in(i) == Bucket(line[i], interval) = c.time
<1>1. /\ c.time = Bucket(line[n + 1], interval) /\ c.open = line[n + 1].value
      /\ c.low = line[n + 1].value /\ c.high = line[n + 1].value /\ c.close = line[n + 1].value
  BY DEF NewCandle
<1>2. \A i \in 1 .. n + 1 : i \in 1 .. n \/ i = n + 1
  OBVIOUS
<1>3. n + 1 \in 1 .. n + 1 /\ n + 1 <= n + 1 /\ line[n + 1].value <= line[n + 1].value
  OBVIOUS
<1> HIDE DEF c
<1>4. \A i \in 1 .. n + 1 : in(i) <=> i = n + 1
  BY <1>1, <1>2, Zenon
<1> HIDE DEF in
<1>5. /\ \A i \in 1 .. n + 1 : in(i) => c.low <= line[i].value /\ line[i].value <= c.high
      /\ \E i \in 1 .. n + 1 : in(i) /\ line[i].value = c.low
      /\ \E i \in 1 .. n + 1 : in(i) /\ line[i].value = c.high
  BY <1>1, <1>3, <1>4, Zenon
<1>6. \E i \in 1 .. n + 1 :
         in(i) /\ line[i].value = c.open /\ \A j \in 1 .. n + 1 : in(j) => i <= j
  BY <1>1, <1>3, <1>4, Zenon
<1>7. \E i \in 1 .. n + 1 :
         in(i) /\ line[i].value = c.close /\ \A j \in 1 .. n + 1 : in(j) => j <= i
  BY <1>1, <1>3, <1>4, Zenon
<1>8. Summary(c, line, n + 1, interval)
  BY <1>5, <1>6, <1>7, Zenon DEF Summary, in
<1>9. QED
  BY <1>8 DEF c

(* A later point of its interval extends the candle.                       *)
LEMMA SummaryExtends ==
  ASSUME NEW line, NEW interval, NEW n \in Nat, NEW c \in Candle,
         \A i \in 1 .. n + 1 : line[i].value \in Int,
         Summary(c, line, n, interval), c.time = Bucket(line[n + 1], interval)
  PROVE  /\ Extended(c, line[n + 1]) \in Candle
         /\ Extended(c, line[n + 1]).time = c.time
         /\ Summary(Extended(c, line[n + 1]), line, n + 1, interval)
<1> DEFINE in(i) == Bucket(line[i], interval) = c.time
           v == line[n + 1].value
           x == Extended(c, line[n + 1])
<1>1. n + 1 \in 1 .. n + 1 /\ \A i \in 1 .. n + 1 : i \in 1 .. n \/ i = n + 1
  OBVIOUS
<1>2. \A i \in 1 .. n : i \in 1 .. n + 1 /\ i <= n + 1 /\ i \in Int
  OBVIOUS
<1>3. v \in Int
  BY <1>1
<1>4. c.low \in Int /\ c.high \in Int
  BY DEF Candle
<1>5. /\ x \in Candle /\ x.time = c.time /\ x.open = c.open /\ x.close = v
      /\ x.high = (IF v > c.high THEN v ELSE c.high)
      /\ x.low = (IF v < c.low THEN v ELSE c.low)
  BY <1>3 DEF Extended, Candle
<1>6. /\ \A i \in 1 .. n : in(i) => c.low <= line[i].value /\ line[i].value <= c.high
      /\ \E i \in 1 .. n : in(i) /\ line[i].value = c.low
      /\ \E i \in 1 .. n : in(i) /\ line[i].value = c.high
      /\ \E i \in 1 .. n : in(i) /\ line[i].value = c.open /\ \A j \in 1 .. n : in(j) => i <= j
  BY Zenon DEF Summary
<1>7. in(n + 1)
  OBVIOUS
<1> HIDE DEF in, x
<1>8. x.low <= v /\ v <= x.high /\ x.low <= c.low /\ c.high <= x.high /\ x.low \in Int /\ x.high \in Int
  BY <1>3, <1>4, <1>5
<1>9. ASSUME NEW i \in 1 .. n + 1, in(i)
      PROVE  x.low <= line[i].value /\ line[i].value <= x.high
  <2>1. CASE i = n + 1
    BY <1>8, <2>1
  <2>2. CASE i \in 1 .. n
    <3>1. c.low <= line[i].value /\ line[i].value <= c.high /\ line[i].value \in Int
      BY <1>6, <1>9, <2>2
    <3>2. QED
      BY <1>4, <1>8, <3>1
  <2>3. QED
    BY <1>1, <2>1, <2>2
<1>10. \E i \in 1 .. n + 1 : in(i) /\ line[i].value = x.low
  <2>1. CASE v < c.low
    BY <1>1, <1>5, <1>7, <2>1
  <2>2. CASE ~(v < c.low)
    BY <1>2, <1>5, <1>6, <2>2
  <2>3. QED
    BY <2>1, <2>2
<1>11. \E i \in 1 .. n + 1 : in(i) /\ line[i].value = x.high
  <2>1. CASE v > c.high
    BY <1>1, <1>5, <1>7, <2>1
  <2>2. CASE ~(v > c.high)
    BY <1>2, <1>5, <1>6, <2>2
  <2>3. QED
    BY <2>1, <2>2
<1>12. \E i \in 1 .. n + 1 :
          in(i) /\ line[i].value = x.open /\ \A j \in 1 .. n + 1 : in(j) => i <= j
  BY <1>1, <1>2, <1>5, <1>6, Zenon
<1>13. \E i \in 1 .. n + 1 :
          in(i) /\ line[i].value = x.close /\ \A j \in 1 .. n + 1 : in(j) => j <= i
  <2>1. \A j \in 1 .. n + 1 : j <= n + 1
    OBVIOUS
  <2>2. QED
    BY <1>1, <1>5, <1>7, <2>1, Zenon
<1>14. Summary(x, line, n + 1, interval)
  <2>1. \A i : in(i) <=> Bucket(line[i], interval) = x.time
    BY <1>5 DEF in
  <2>2. QED
    BY <1>9, <1>10, <1>11, <1>12, <1>13, <2>1, Zenon DEF Summary
<1>15. QED
  BY <1>5, <1>14 DEF x

(* One more point keeps the row of candles right.                          *)
LEMMA WithPointKeeps ==
  ASSUME NEW interval \in Nat \ {0}, NEW line \in Seq(Point), Ascends(line),
         NEW n \in 0 .. Len(line) - 1, NEW candles \in Seq(Candle),
         CandlesUpTo(candles, line, n, interval)
  PROVE  CandlesUpTo(WithPoint(candles, line[n + 1], interval), line, n + 1, interval)
<1> DEFINE p == line[n + 1]
           b == Bucket(p, interval)
           last == Len(candles)
           row == WithPoint(candles, p, interval)
<1>1. n \in Nat /\ n + 1 \in 1 .. Len(line) /\ n + 1 # 0 /\ \A i \in 1 .. n + 1 : i \in DOMAIN line
  OBVIOUS
<1>2. \A i \in 1 .. n + 1 : /\ line[i].time \in Int /\ line[i].value \in Int
                            /\ Bucket(line[i], interval) \in Int
  BY <1>1, PointTypes
<1>3. n + 1 \in 1 .. n + 1 /\ p.time \in Int /\ p.value \in Int /\ b \in Int
  BY <1>1, <1>2
<1>4. NewCandle(p, interval) \in Candle /\ NewCandle(p, interval).time = b
  BY <1>3 DEF NewCandle, Candle
<1>5. \A k \in DOMAIN candles : candles[k] \in Candle /\ candles[k].time \in Int
  <2>1. \A k \in DOMAIN candles : candles[k] \in Candle
    OBVIOUS
  <2>2. \A c \in Candle : c.time \in Int
    BY DEF Candle
  <2>3. QED
    BY <2>1, <2>2
<1>6. /\ Ascends(candles)
      /\ \A k \in DOMAIN candles : Summary(candles[k], line, n, interval)
      /\ \A i \in 1 .. n : \E k \in DOMAIN candles : candles[k].time = Bucket(line[i], interval)
      /\ n = 0 => candles = <<>>
      /\ n # 0 => candles # <<>> /\ Last(candles).time = Bucket(line[n], interval)
  BY DEF CandlesUpTo
<1>7. DOMAIN candles = 1 .. last /\ last \in Nat /\ (candles # <<>> => last \in 1 .. last)
  OBVIOUS
<1>8. candles # <<>> => /\ Last(candles) = candles[last]
                        /\ \A k \in 1 .. last - 1 : candles[k].time < candles[last].time
  <2>1. SUFFICES ASSUME candles # <<>>
                 PROVE  \A k \in 1 .. last - 1 : candles[k].time < candles[last].time
    BY DEF Last
  <2>2. \A k \in 1 .. last - 1 : k \in 1 .. last /\ k < last
    BY <1>7
  <2>3. \A i, j \in 1 .. last : i < j => candles[i].time < candles[j].time
    BY <1>6, <1>7, Zenon DEF Ascends
  <2>4. QED
    BY <1>7, <2>1, <2>2, <2>3
<1>9. CASE candles # <<>> /\ Last(candles).time = b
  <2> DEFINE x == Extended(candles[last], p)
  <2>1. last \in DOMAIN candles /\ candles[last] \in Candle /\ candles[last].time = b
    BY <1>5, <1>7, <1>8, <1>9
  <2>2. x \in Candle /\ x.time = b /\ Summary(x, line, n + 1, interval)
    BY <1>1, <1>2, <1>6, <2>1, SummaryExtends
  <2>3. row = [candles EXCEPT ![last] = x]
    BY <1>9 DEF WithPoint
  <2> HIDE DEF x, row
  <2>4. /\ DOMAIN row = 1 .. last /\ Len(row) = last /\ row # <<>>
        /\ row[last] = x /\ \A k \in 1 .. last : k # last => row[k] = candles[k]
    BY <1>5, <1>7, <2>1, <2>2, <2>3
  <2>5. \A k \in 1 .. last : row[k].time = candles[k].time
    BY <2>1, <2>2, <2>4
  <2>6. Ascends(row)
    BY <1>6, <1>7, <2>4, <2>5, Zenon DEF Ascends
  <2>7. ASSUME NEW k \in 1 .. last
        PROVE  Summary(row[k], line, n + 1, interval)
    <3>1. CASE k = last
      BY <2>2, <2>4, <3>1
    <3>2. CASE k # last
      <4>1. k \in 1 .. last - 1
        <5> HIDE DEF last
        <5>1. QED
          BY <1>7, <3>2
      <4>2. candles[k].time < b /\ candles[k].time \in Int
        BY <1>5, <1>7, <1>8, <1>9, <2>1, <4>1
      <4>3. b # candles[k].time
        BY <1>3, <4>2
      <4>4. Summary(candles[k], line, n, interval)
        BY <1>6, <1>7
      <4>5. Summary(candles[k], line, n + 1, interval)
        BY <1>1, <4>3, <4>4, SummaryStays
      <4>6. QED
        BY <2>4, <3>2, <4>5
    <3>3. QED
      BY <3>1, <3>2
  <2>8. ASSUME NEW i \in 1 .. n + 1
        PROVE  \E k \in 1 .. last : row[k].time = Bucket(line[i], interval)
    <3>1. CASE i = n + 1
      BY <1>7, <1>9, <2>2, <2>4, <3>1
    <3>2. CASE i \in 1 .. n
      BY <1>6, <1>7, <2>5, <3>2
    <3>3. QED
      BY <1>1, <3>1, <3>2
  <2>9. Last(row).time = b
    BY <2>2, <2>4 DEF Last
  <2> HIDE DEF b
  <2>10. CandlesUpTo(row, line, n + 1, interval)
    BY <1>1, <2>4, <2>6, <2>7, <2>8, <2>9 DEF CandlesUpTo, b
  <2>11. QED
    BY <2>10 DEF row
<1>10. CASE ~(candles # <<>> /\ Last(candles).time = b)
  <2> DEFINE x == NewCandle(p, interval)
  <2>1. row = Append(candles, x)
    BY <1>10, Zenon DEF WithPoint
  <2>2. \A k \in 1 .. last : candles[k].time < b
    <3>1. CASE candles = <<>>
      <4>1. last = 0
        BY <3>1
      <4>2. QED
        BY <4>1
    <3>2. CASE candles # <<>>
      <4>1. n # 0 /\ n \in 1 .. n + 1
        BY <1>1, <1>6, <3>2
      <4>2. n \in DOMAIN line /\ n + 1 \in DOMAIN line /\ n < n + 1
        BY <1>1, <4>1
      <4>3. line[n].time < p.time
        BY <4>2, Zenon DEF Ascends
      <4>4. Bucket(line[n], interval) <= b
        <5>1. line[n].time \in Int /\ line[n].time <= p.time
          BY <1>2, <1>3, <4>1, <4>3
        <5>2. QED
          BY <1>3, <5>1, BucketMonotone
      <4>5. candles[last].time = Bucket(line[n], interval) /\ candles[last].time # b
        BY <1>6, <1>8, <1>10, <3>2, <4>1
      <4>6. candles[last].time \in Int
        BY <1>5, <1>7, <3>2
      <4>7. candles[last].time < b
        BY <1>3, <4>4, <4>5, <4>6
      <4>8. ASSUME NEW k \in 1 .. last
            PROVE  candles[k].time < b
        <5>1. CASE k = last
          BY <4>7, <5>1
        <5>2. CASE k # last
          <6>1. k \in 1 .. last - 1
            <7> HIDE DEF last
            <7>1. QED
              BY <1>7, <5>2
          <6>2. candles[k].time < candles[last].time /\ candles[k].time \in Int
            BY <1>5, <1>7, <1>8, <3>2, <6>1
          <6>3. QED
            BY <1>3, <4>6, <4>7, <6>2
        <5>3. QED
          BY <5>1, <5>2
      <4>9. QED
        BY <4>8
    <3>3. QED
      BY <3>1, <3>2
  <2>3. \A k \in 1 .. last : candles[k].time # b
    BY <1>3, <1>5, <1>7, <2>2
  <2>4. x \in Candle /\ x.time = b
    BY <1>4
  <2>5. Summary(x, line, n + 1, interval)
    <3>1. ASSUME NEW i \in 1 .. n
          PROVE  Bucket(line[i], interval) # b
      BY <1>6, <1>7, <2>3
    <3>2. QED
      BY <1>1, <1>3, <3>1, SummaryOpens
  <2> HIDE DEF x, row
  <2>6. /\ DOMAIN row = 1 .. last + 1 /\ Len(row) = last + 1 /\ row # <<>>
        /\ row[last + 1] = x /\ \A k \in 1 .. last : row[k] = candles[k]
    BY <1>7, <2>1, <2>4
  <2>7. \A k \in 1 .. last + 1 : k \in 1 .. last \/ k = last + 1
    BY <1>7
  <2>8. Ascends(row)
    <3>1. ASSUME NEW i \in 1 .. last + 1, NEW j \in 1 .. last + 1, i < j
          PROVE  row[i].time < row[j].time
      <4>1. i \in 1 .. last
        BY <1>7, <3>1
      <4>2. CASE j = last + 1
        BY <2>2, <2>4, <2>6, <4>1, <4>2
      <4>3. CASE j \in 1 .. last
        <5>1. candles[i].time < candles[j].time
          BY <1>6, <1>7, <3>1, <4>1, <4>3, Zenon DEF Ascends
        <5>2. QED
          BY <2>6, <4>1, <4>3, <5>1
      <4>4. QED
        BY <2>7, <4>2, <4>3
    <3>2. QED
      BY <2>6, <3>1, Zenon DEF Ascends
  <2>9. ASSUME NEW k \in 1 .. last + 1
        PROVE  Summary(row[k], line, n + 1, interval)
    <3>1. CASE k = last + 1
      BY <2>5, <2>6, <3>1
    <3>2. CASE k \in 1 .. last
      <4>1. Summary(candles[k], line, n, interval) /\ b # candles[k].time
        BY <1>6, <1>7, <2>3, <3>2
      <4>2. Summary(candles[k], line, n + 1, interval)
        BY <1>1, <4>1, SummaryStays
      <4>3. QED
        BY <2>6, <3>2, <4>2
    <3>3. QED
      BY <2>7, <3>1, <3>2
  <2>10. last + 1 \in 1 .. last + 1 /\ \A k \in 1 .. last : k \in 1 .. last + 1
    BY <1>7
  <2>11. ASSUME NEW i \in 1 .. n + 1
         PROVE  \E k \in 1 .. last + 1 : row[k].time = Bucket(line[i], interval)
    <3>1. CASE i = n + 1
      BY <2>4, <2>6, <2>10, <3>1
    <3>2. CASE i \in 1 .. n
      BY <1>6, <1>7, <2>6, <2>10, <3>2
    <3>3. QED
      BY <1>1, <3>1, <3>2
  <2>12. Last(row).time = b
    BY <2>4, <2>6 DEF Last
  <2> HIDE DEF b
  <2>13. CandlesUpTo(row, line, n + 1, interval)
    BY <1>1, <2>6, <2>8, <2>9, <2>11, <2>12 DEF CandlesUpTo, b
  <2>14. QED
    BY <2>13 DEF row
<1>11. QED
  BY <1>9, <1>10

LEMMA WithPointTypes ==
  ASSUME NEW interval \in Nat \ {0}, NEW candles \in Seq(Candle), NEW p \in Point
  PROVE  WithPoint(candles, p, interval) \in Seq(Candle)
<1>1. p.time \in Int /\ p.value \in Int
  BY DEF Point
<1>2. Bucket(p, interval) \in Int
  BY <1>1, BucketMonotone
<1>3. NewCandle(p, interval) \in Candle
  BY <1>1, <1>2 DEF NewCandle, Candle
<1>4. \A c \in Candle : Extended(c, p) \in Candle
  BY <1>1 DEF Extended, Candle
<1>5. CASE candles # <<>> /\ Last(candles).time = Bucket(p, interval)
  <2> DEFINE x == Extended(candles[Len(candles)], p)
  <2>1. Len(candles) \in DOMAIN candles
    BY <1>5
  <2>2. x \in Candle
    BY <1>4, <2>1
  <2>3. WithPoint(candles, p, interval) = [candles EXCEPT ![Len(candles)] = x]
    BY <1>5 DEF WithPoint
  <2> HIDE DEF x
  <2>4. QED
    BY <2>1, <2>2, <2>3
<1>6. CASE ~(candles # <<>> /\ Last(candles).time = Bucket(p, interval))
  <2>1. WithPoint(candles, p, interval) = Append(candles, NewCandle(p, interval))
    BY <1>6, Zenon DEF WithPoint
  <2>2. QED
    BY <1>3, <2>1
<1>7. QED
  BY <1>5, <1>6

(* The whole pass.                                                         *)
LEMMA CandlesDraw ==
  ASSUME NEW interval \in Nat \ {0}, NEW line \in Seq(Point), Ascends(line)
  PROVE  CandlesUpTo(Candles(line, interval), line, Len(line), interval)
<1> DEFINE N == Len(line)
           V == Seq(Candle)
           next == [i \in 1 .. N |-> [c \in V |-> WithPoint(c, line[i], interval)]]
           Pass(f) == f = [n \in 0 .. N |->
                              IF n = 0 THEN <<>> ELSE WithPoint(f[n - 1], line[n], interval)]
           after == CHOOSE f : Pass(f)
<1>1. N \in Nat /\ <<>> \in V
  OBVIOUS
<1>2. \A i \in 1 .. N : line[i] \in Point
  OBVIOUS
<1>3. next \in [1 .. N -> [V -> V]]
  <2>1. \A i \in 1 .. N : [c \in V |-> WithPoint(c, line[i], interval)] \in [V -> V]
    <3>1. \A i \in 1 .. N : \A c \in V : WithPoint(c, line[i], interval) \in V
      BY <1>2, WithPointTypes
    <3> HIDE DEF V
    <3>2. QED
      BY <3>1
  <2>2. QED
    BY <2>1
<1>4. \A i \in 1 .. N : \A c \in V : next[i][c] = WithPoint(c, line[i], interval)
  <2> HIDE DEF V
  <2>1. QED
    OBVIOUS
<1> HIDE DEF next, V
<1>5. PICK g : Recursion(g, N, <<>>, next)
  <2> HIDE DEF N
  <2>1. QED
    BY <1>1, <1>3, RecursionExists
<1>6. g \in [0 .. N -> V] /\ g[0] = <<>> /\ \A i \in 1 .. N : g[i] = next[i][g[i - 1]]
  <2> HIDE DEF N
  <2>1. QED
    BY <1>1, <1>3, <1>5, RecursionStays
<1>7. Pass(g)
  <2> DEFINE h == [n \in 0 .. N |->
                      IF n = 0 THEN <<>> ELSE WithPoint(g[n - 1], line[n], interval)]
  <2>1. ASSUME NEW n \in 0 .. N
        PROVE  g[n] = h[n]
    <3>1. CASE n = 0
      BY <1>6, <3>1
    <3>2. CASE n # 0
      <4>1. n \in 1 .. N /\ n - 1 \in 0 .. N
        BY <1>1, <3>2
      <4>2. g[n - 1] \in V
        BY <1>6, <4>1
      <4>3. g[n] = WithPoint(g[n - 1], line[n], interval)
        BY <1>4, <1>6, <4>1, <4>2
      <4>4. QED
        BY <3>2, <4>3
    <3>3. QED
      BY <3>1, <3>2
  <2>2. g = [n \in 0 .. N |-> g[n]]
    BY <1>6
  <2>3. h = [n \in 0 .. N |-> h[n]]
    OBVIOUS
  <2>4. g = h
    <3> HIDE DEF h
    <3>1. QED
      BY <2>1, <2>2, <2>3
  <2>5. QED
    BY <2>4
<1>8. Pass(after)
  <2> HIDE DEF Pass
  <2>1. QED
    BY <1>7
<1>9. \A n \in 0 .. N :
         after[n] = IF n = 0 THEN <<>> ELSE WithPoint(after[n - 1], line[n], interval)
  <2> HIDE DEF after
  <2>1. QED
    BY <1>8, Zenon
<1> DEFINE S == {n \in 0 .. N : after[n] \in Seq(Candle)
                                /\ CandlesUpTo(after[n], line, n, interval)}
<1> HIDE DEF after, Pass
<1>10. 0 \in S
  <2>1. 0 \in 0 .. N /\ after[0] = <<>> /\ after[0] \in Seq(Candle)
    <3>1. 0 \in 0 .. N
      BY <1>1
    <3>2. after[0] = <<>>
      BY <1>9, <3>1, Zenon
    <3>3. QED
      BY <3>1, <3>2
  <2>2. Ascends(<<>>) /\ DOMAIN <<>> = {} /\ 1 .. 0 = {}
    BY DEF Ascends
  <2>3. CandlesUpTo(<<>>, line, 0, interval)
    BY <2>2 DEF CandlesUpTo
  <2>4. QED
    BY <2>1, <2>3
<1>11. ASSUME NEW n \in 0 .. N - 1, n \in S
       PROVE  n + 1 \in S
  <2>1. n + 1 \in 0 .. N /\ n + 1 \in 1 .. N /\ n + 1 # 0 /\ (n + 1) - 1 = n
    BY <1>1
  <2>2. after[n + 1] = WithPoint(after[n], line[n + 1], interval)
    BY <1>9, <2>1
  <2>3. after[n] \in Seq(Candle) /\ CandlesUpTo(after[n], line, n, interval)
    BY <1>11
  <2>4. after[n + 1] \in Seq(Candle)
    BY <1>2, <2>1, <2>2, <2>3, WithPointTypes
  <2>5. CandlesUpTo(after[n + 1], line, n + 1, interval)
    BY <2>2, <2>3, WithPointKeeps
  <2>6. QED
    BY <2>1, <2>4, <2>5
<1>12. N \in S
  <2> HIDE DEF S, N
  <2>1. \A n \in 0 .. N : n \in S
    BY <1>1, <1>10, <1>11, FiniteInduction
  <2>2. N \in 0 .. N
    BY <1>1
  <2>3. QED
    BY <2>1, <2>2
<1>13. Candles(line, interval) = after[N]
  BY Zenon DEF Candles, after, Pass
<1>14. QED
  BY <1>12, <1>13

-----------------------------------------------------------------------------
(***************************************************************************)
(* The points the charts keep.                                             *)
(***************************************************************************)
Deal == [time : Int, side : {"buy", "sell"}, xlm : Int]
SimplePoint == [time : Int, price : Int, raised : Int]
TradingPoint == [time : Int, price : Int]
Polled == [chart : {"none", "simple", "trading", "progress"}, left : SUBSET {"price", "info"},
           price : Int, raised : Int, empty : BOOLEAN]

(* Appending a later point keeps a line ascending, and so does forgetting  *)
(* its first.                                                              *)
LEMMA AppendAscends ==
  ASSUME NEW T, \A t \in T : t.time \in Int, NEW points \in Seq(T), Ascends(points),
         NEW p \in T, points # <<>> => Last(points).time < p.time
  PROVE  Append(points, p) \in Seq(T) /\ Ascends(Append(points, p))
<1> DEFINE n == Len(points)
           more == Append(points, p)
<1>1. n \in Nat /\ DOMAIN points = 1 .. n /\ \A i \in 1 .. n : points[i] \in T
  OBVIOUS
<1>2. /\ more \in Seq(T) /\ DOMAIN more = 1 .. n + 1 /\ more[n + 1] = p
      /\ \A i \in 1 .. n : more[i] = points[i]
  OBVIOUS
<1>3. points # <<>> => Last(points) = points[n]
  BY DEF Last
<1> HIDE DEF n, more
<1>4. ASSUME NEW i \in 1 .. n
      PROVE  points[i].time < p.time
  <2>1. points # <<>> /\ n \in 1 .. n
    BY <1>1
  <2>2. points[n].time < p.time /\ points[n].time \in Int /\ points[i].time \in Int /\ p.time \in Int
    BY <1>1, <1>3, <2>1
  <2>3. CASE i = n
    BY <2>2, <2>3
  <2>4. CASE i # n
    <3>1. i < n
      BY <1>1, <2>4
    <3>2. points[i].time < points[n].time
      BY <1>1, <2>1, <3>1, Zenon DEF Ascends
    <3>3. QED
      BY <2>2, <3>2
  <2>5. QED
    BY <2>3, <2>4
<1>5. ASSUME NEW i \in 1 .. n + 1, NEW j \in 1 .. n + 1, i < j
      PROVE  more[i].time < more[j].time
  <2>1. i \in 1 .. n /\ (j \in 1 .. n \/ j = n + 1)
    BY <1>1, <1>5
  <2>2. CASE j = n + 1
    BY <1>2, <1>4, <2>1, <2>2
  <2>3. CASE j \in 1 .. n
    <3>1. points[i].time < points[j].time
      BY <1>1, <1>5, <2>1, <2>3, Zenon DEF Ascends
    <3>2. QED
      BY <1>2, <2>1, <2>3, <3>1
  <2>4. QED
    BY <2>1, <2>2, <2>3
<1>6. Ascends(more)
  BY <1>2, <1>5, Zenon DEF Ascends
<1>7. QED
  BY <1>2, <1>6 DEF more

LEMMA TailAscends ==
  ASSUME NEW T, NEW points \in Seq(T), Ascends(points), points # <<>>
  PROVE  /\ Tail(points) \in Seq(T) /\ Ascends(Tail(points))
         /\ Tail(points) # <<>> => Last(Tail(points)) = Last(points)
<1> DEFINE n == Len(points)
           less == Tail(points)
<1>1. n \in Nat \ {0} /\ DOMAIN points = 1 .. n
  OBVIOUS
<1>2. /\ less \in Seq(T) /\ Len(less) = n - 1 /\ DOMAIN less = 1 .. n - 1
      /\ \A i \in 1 .. n - 1 : less[i] = points[i + 1]
  OBVIOUS
<1>3. less # <<>> => Len(less) \in 1 .. n - 1
  BY <1>2
<1> HIDE DEF n, less
<1>4. \A i \in 1 .. n - 1 : i + 1 \in 1 .. n
  BY <1>1
<1>5. ASSUME NEW i \in 1 .. n - 1, NEW j \in 1 .. n - 1, i < j
      PROVE  less[i].time < less[j].time
  <2>1. i + 1 < j + 1
    BY <1>5
  <2>2. points[i + 1].time < points[j + 1].time
    BY <1>1, <1>4, <2>1, Zenon DEF Ascends
  <2>3. QED
    BY <1>2, <2>2
<1>6. Ascends(less)
  BY <1>2, <1>5, Zenon DEF Ascends
<1>7. less # <<>> => Last(less) = Last(points)
  <2>1. SUFFICES ASSUME less # <<>> PROVE less[n - 1] = points[n]
    BY <1>2 DEF Last, n
  <2>2. n - 1 \in 1 .. n - 1 /\ (n - 1) + 1 = n
    BY <1>1, <1>2, <1>3, <2>1
  <2>3. QED
    BY <1>2, <2>2
<1>8. QED
  BY <1>2, <1>6, <1>7 DEF less

LEMMA AddPointAscends ==
  ASSUME NEW T, \A t \in T : t.time \in Int, NEW points \in Seq(T), Ascends(points),
         NEW p \in T
  PROVE  AddPoint(points, p) \in Seq(T) /\ Ascends(AddPoint(points, p))
<1>1. CASE points # <<>> /\ p.time <= Last(points).time
  BY <1>1, Zenon DEF AddPoint
<1>2. CASE ~(points # <<>> /\ p.time <= Last(points).time)
  <2>1. points # <<>> => Last(points).time < p.time
    <3>1. SUFFICES ASSUME points # <<>> PROVE Last(points).time < p.time
      OBVIOUS
    <3>2. Last(points) \in T
      BY <3>1 DEF Last
    <3>3. Last(points).time \in Int /\ p.time \in Int
      BY <3>2
    <3>4. QED
      BY <1>2, <3>1, <3>3
  <2>2. CASE Len(points) = MaxPoints
    <3>1. points # <<>>
      BY <2>2, MarketChartsAssumption
    <3>2. Tail(points) \in Seq(T) /\ Ascends(Tail(points))
          /\ (Tail(points) # <<>> => Last(Tail(points)) = Last(points))
      BY <3>1, TailAscends
    <3>3. Tail(points) # <<>> => Last(Tail(points)).time < p.time
      BY <2>1, <3>1, <3>2, Zenon
    <3>4. AddPoint(points, p) = Append(Tail(points), p)
      BY <1>2, <2>2, Zenon DEF AddPoint
    <3>5. Append(Tail(points), p) \in Seq(T) /\ Ascends(Append(Tail(points), p))
      BY <3>2, <3>3, AppendAscends
    <3>6. QED
      BY <3>4, <3>5
  <2>3. CASE Len(points) # MaxPoints
    <3>1. AddPoint(points, p) = Append(points, p)
      BY <1>2, <2>3, Zenon DEF AddPoint
    <3>2. QED
      BY <2>1, <3>1, AppendAscends
  <2>4. QED
    BY <2>2, <2>3
<1>3. QED
  BY <1>1, <1>2

LEMMA LineOfAscends ==
  ASSUME NEW points \in Seq(Point), Ascends(points), NEW made, Len(points) = 1 => made \in Int
  PROVE  LineOf(points, made) \in Seq(Point) /\ Ascends(LineOf(points, made))
<1>1. CASE Len(points) = 1
  <2> DEFINE p == points[1]
             q == [time |-> p.time - Lead, value |-> made]
             line == <<q, p>>
  <2>1. p \in Point
    BY <1>1
  <2>2. Lead \in Nat \ {0}
    BY MarketChartsAssumption
  <2>3. q \in Point /\ q.time = p.time - Lead /\ p.time \in Int
    BY <1>1, <2>1, <2>2 DEF Point
  <2>4. q.time < p.time
    BY <2>2, <2>3
  <2>5. LineOf(points, made) = line
    BY <1>1, Zenon DEF LineOf
  <2> HIDE DEF p, q
  <2>6. line \in Seq(Point) /\ DOMAIN line = {1, 2} /\ line[1] = q /\ line[2] = p
    BY <2>1, <2>3
  <2> HIDE DEF line
  <2>7. \A i, j \in {1, 2} : i < j => i = 1 /\ j = 2
    OBVIOUS
  <2>8. Ascends(line)
    BY <2>4, <2>6, <2>7 DEF Ascends
  <2>9. QED
    BY <2>5, <2>6, <2>8
<1>2. CASE Len(points) # 1
  BY <1>2, Zenon DEF LineOf
<1>3. QED
  BY <1>1, <1>2

(* The history made of the trades: one point for each second that has one. *)
LEMMA HistoryAscends ==
  ASSUME NEW listed \in Seq(Deal)
  PROVE  HistoryPoints(listed) \in Seq(TradingPoint) /\ Ascends(HistoryPoints(listed))
<1> DEFINE N == Len(listed)
           Sums(f) == f = [i \in 0 .. N |->
                              IF i = 0 THEN 0
                              ELSE IF listed[i].side = "buy" THEN f[i - 1] + listed[i].xlm
                              ELSE IF f[i - 1] > listed[i].xlm THEN f[i - 1] - listed[i].xlm
                              ELSE 0]
           upTo == CHOOSE f : Sums(f)
           times == {listed[i].time : i \in DOMAIN listed}
           first(t) == CHOOSE i \in DOMAIN listed :
                          listed[i].time = t /\ \A j \in 1 .. i - 1 : listed[j].time # t
           points == [n \in 1 .. Cardinality(times) |->
                         [time |-> Nth(times, n),
                          price |-> VirtualXlm + upTo[first(Nth(times, n))]]]
           V == Int
           next == [i \in 1 .. N |-> [x \in V |->
                       IF listed[i].side = "buy" THEN x + listed[i].xlm
                       ELSE IF x > listed[i].xlm THEN x - listed[i].xlm ELSE 0]]
<1>1. N \in Nat /\ DOMAIN listed = 1 .. N /\ VirtualXlm \in Int
  BY MarketChartsAssumption
<1>2. \A i \in 1 .. N : listed[i].time \in Int /\ listed[i].xlm \in Int
  <2>1. \A i \in 1 .. N : listed[i] \in Deal
    OBVIOUS
  <2>2. \A d \in Deal : d.time \in Int /\ d.xlm \in Int
    BY DEF Deal
  <2>3. QED
    BY <2>1, <2>2
<1>3. next \in [1 .. N -> [V -> V]] /\ 0 \in V
  <2>1. \A i \in 1 .. N : \A x \in Int :
           (IF listed[i].side = "buy" THEN x + listed[i].xlm
            ELSE IF x > listed[i].xlm THEN x - listed[i].xlm ELSE 0) \in Int
    <3> HIDE DEF N
    <3>1. QED
      BY <1>2
  <2> HIDE DEF N
  <2>2. QED
    BY <2>1
<1>4. \A i \in 1 .. N : \A x \in Int :
         next[i][x] = IF listed[i].side = "buy" THEN x + listed[i].xlm
                      ELSE IF x > listed[i].xlm THEN x - listed[i].xlm ELSE 0
  OBVIOUS
<1> HIDE DEF next, N, V
<1>5. PICK g : Recursion(g, N, 0, next)
  BY <1>1, <1>3, RecursionExists
<1>6. g \in [0 .. N -> Int] /\ g[0] = 0 /\ \A i \in 1 .. N : g[i] = next[i][g[i - 1]]
  <2>1. g \in [0 .. N -> V] /\ g[0] = 0 /\ \A i \in 1 .. N : g[i] = next[i][g[i - 1]]
    BY <1>1, <1>3, <1>5, RecursionStays
  <2>2. QED
    BY <2>1 DEF V
<1>7. Sums(g)
  <2> DEFINE h == [i \in 0 .. N |->
                      IF i = 0 THEN 0
                      ELSE IF listed[i].side = "buy" THEN g[i - 1] + listed[i].xlm
                      ELSE IF g[i - 1] > listed[i].xlm THEN g[i - 1] - listed[i].xlm
                      ELSE 0]
  <2>1. ASSUME NEW i \in 0 .. N
        PROVE  g[i] = h[i]
    <3>1. CASE i = 0
      BY <1>6, <3>1
    <3>2. CASE i # 0
      <4>1. i \in 1 .. N /\ i - 1 \in 0 .. N
        BY <1>1, <3>2
      <4>2. g[i - 1] \in Int /\ g[i] = next[i][g[i - 1]]
        BY <1>6, <4>1
      <4>3. next[i][g[i - 1]] = IF listed[i].side = "buy" THEN g[i - 1] + listed[i].xlm
                                ELSE IF g[i - 1] > listed[i].xlm THEN g[i - 1] - listed[i].xlm
                                ELSE 0
        BY <1>4, <4>1, <4>2
      <4>4. h[i] = IF listed[i].side = "buy" THEN g[i - 1] + listed[i].xlm
                   ELSE IF g[i - 1] > listed[i].xlm THEN g[i - 1] - listed[i].xlm
                   ELSE 0
        BY <3>2
      <4> HIDE DEF h
      <4>5. QED
        BY <4>2, <4>3, <4>4, Zenon
    <3>3. QED
      BY <3>1, <3>2
  <2>2. g = [i \in 0 .. N |-> g[i]]
    BY <1>6
  <2>3. h = [i \in 0 .. N |-> h[i]]
    OBVIOUS
  <2>4. g = h
    <3> HIDE DEF h
    <3>1. QED
      BY <2>1, <2>2, <2>3
  <2>5. QED
    BY <2>4
<1>8. Sums(upTo)
  <2> HIDE DEF Sums
  <2>1. QED
    BY <1>7
<1>9. \A i \in 0 .. N : upTo[i] \in Int
  <2> HIDE DEF upTo
  <2>1. \A i \in 0 .. N :
           upTo[i] = IF i = 0 THEN 0
                     ELSE IF listed[i].side = "buy" THEN upTo[i - 1] + listed[i].xlm
                     ELSE IF upTo[i - 1] > listed[i].xlm THEN upTo[i - 1] - listed[i].xlm
                     ELSE 0
    BY <1>8, Zenon
  <2> HIDE DEF Sums
  <2> DEFINE S == {i \in 0 .. N : upTo[i] \in Int}
  <2>2. 0 \in S
    <3>1. 0 \in 0 .. N
      BY <1>1
    <3>2. upTo[0] = 0
      BY <2>1, <3>1
    <3>3. QED
      BY <3>1, <3>2
  <2>3. ASSUME NEW i \in 0 .. N - 1, i \in S
        PROVE  i + 1 \in S
    <3>1. i + 1 \in 1 .. N /\ i + 1 \in 0 .. N /\ i + 1 # 0 /\ (i + 1) - 1 = i
      BY <1>1
    <3>2. upTo[i] \in Int /\ listed[i + 1].xlm \in Int
      BY <1>2, <2>3, <3>1
    <3>3. upTo[i + 1] \in Int
      BY <2>1, <3>1, <3>2
    <3>4. QED
      BY <3>1, <3>3
  <2> HIDE DEF S
  <2>4. \A i \in 0 .. N : i \in S
    BY <1>1, <2>2, <2>3, FiniteInduction
  <2>5. QED
    BY <2>4 DEF S
<1>10. times \subseteq Int /\ IsFiniteSet(times)
  <2>1. times \subseteq Int
    BY <1>1, <1>2
  <2> DEFINE f == [i \in 1 .. N |-> listed[i].time]
  <2>2. IsFiniteSet(1 .. N)
    BY <1>1, FS_Interval
  <2>3. times = {listed[i].time : i \in 1 .. N}
    BY <1>1
  <2>4. f \in Surjection(1 .. N, times)
    BY <2>3 DEF Surjection
  <2>5. IsFiniteSet(times)
    <3> HIDE DEF f, times
    <3>1. QED
      BY <2>2, <2>4, FS_Surjection
  <2>6. QED
    BY <2>1, <2>5
<1>11. ASSUME NEW t \in times
       PROVE  first(t) \in 1 .. N
  <2> DEFINE R == {m \in 0 .. N : \A j \in 1 .. m : listed[j].time # t}
  <2>1. 0 \in R /\ (\A i \in R : i \in Int) /\ R \subseteq 0 .. N
    BY <1>1
  <2>2. IsFiniteSet(0 .. N)
    BY <1>1, FS_Interval
  <2>3. PICK r \in R : \A j \in R : j <= r
    <3> HIDE DEF R
    <3>1. IsFiniteSet(R)
      BY <2>1, <2>2, FS_Subset
    <3>2. QED
      BY <2>1, <3>1, LargestElement
  <2>4. PICK k \in 1 .. N : listed[k].time = t
    BY <1>1
  <2>5. r \in 0 .. N /\ \A j \in 1 .. r : listed[j].time # t
    OBVIOUS
  <2>6. r + 1 \in 1 .. N
    <3>1. r # N
      BY <2>4, <2>5
    <3>2. QED
      BY <1>1, <2>5, <3>1
  <2>7. listed[r + 1].time = t
    <3>1. SUFFICES ASSUME listed[r + 1].time # t PROVE FALSE
      OBVIOUS
    <3>2. \A j \in 1 .. r + 1 : j \in 1 .. r \/ j = r + 1
      BY <2>5
    <3>3. r + 1 \in 0 .. N /\ \A j \in 1 .. r + 1 : listed[j].time # t
      BY <1>1, <2>5, <2>6, <3>1, <3>2
    <3>4. r + 1 \in R
      BY <3>3
    <3>5. r + 1 <= r /\ r \in Int
      BY <2>3, <2>5, <3>4
    <3>6. QED
      BY <3>5
  <2>8. (r + 1) - 1 = r
    BY <2>5
  <2>9. \E i \in DOMAIN listed : listed[i].time = t /\ \A j \in 1 .. i - 1 : listed[j].time # t
    BY <1>1, <2>5, <2>6, <2>7, <2>8
  <2>10. QED
    BY <1>1, <2>9
<1>12. HistoryPoints(listed) = points
  BY Zenon DEF HistoryPoints, Nth, NumberBelow, Sums, upTo, N, first, times
<1> HIDE DEF upTo, times, first, Sums
<1>13. /\ Cardinality(times) \in Nat
       /\ \A n \in 1 .. Cardinality(times) : Nth(times, n) \in times
       /\ \A m, n \in 1 .. Cardinality(times) : m < n => Nth(times, m) < Nth(times, n)
  BY <1>10, NthAscends
<1>14. ASSUME NEW n \in 1 .. Cardinality(times)
       PROVE  points[n] \in TradingPoint /\ points[n].time = Nth(times, n)
  <2>1. Nth(times, n) \in times /\ Nth(times, n) \in Int
    BY <1>10, <1>13
  <2>2. first(Nth(times, n)) \in 1 .. N
    BY <1>11, <2>1
  <2>3. first(Nth(times, n)) \in 0 .. N
    BY <1>1, <2>2
  <2>4. upTo[first(Nth(times, n))] \in Int
    BY <1>9, <2>3
  <2>5. VirtualXlm + upTo[first(Nth(times, n))] \in Int
    BY <1>1, <2>4
  <2>6. points[n] = [time |-> Nth(times, n), price |-> VirtualXlm + upTo[first(Nth(times, n))]]
    OBVIOUS
  <2> HIDE DEF points
  <2>7. QED
    BY <2>1, <2>5, <2>6 DEF TradingPoint
<1>15. points \in Seq(TradingPoint) /\ DOMAIN points = 1 .. Cardinality(times)
  <2>1. points = [n \in 1 .. Cardinality(times) |-> points[n]]
    OBVIOUS
  <2> HIDE DEF points
  <2>2. QED
    BY <1>13, <1>14, <2>1
<1>16. Ascends(points)
  <2> HIDE DEF points
  <2>1. QED
    BY <1>13, <1>14, <1>15 DEF Ascends
<1>17. QED
  <2> HIDE DEF points
  <2>1. QED
    BY <1>12, <1>15, <1>16

-----------------------------------------------------------------------------
(***************************************************************************)
(* The inductive invariant of the charts: the reads of a poll and the      *)
(* trades are numbers, and what the two line charts keep ascends.          *)
(***************************************************************************)
SimpleState == [points : Seq(SimplePoint), loading : BOOLEAN, graduated : BOOLEAN,
                canvas : {"none", "attached", "detached"}]
TradingState == [points : Seq(TradingPoint), initialized : BOOLEAN, last : Int,
                 loading : BOOLEAN, txLoading : BOOLEAN]
ChartsInv ==
    /\ second \in Int /\ raised \in Int /\ deals \in Seq(Deal)
    /\ poll \in [ChartSlots -> Polled]
    /\ simple \in SimpleState /\ Ascends(simple.points)
    /\ trading \in TradingState /\ Ascends(trading.points)

LEMMA ChartsInvInit ==
  ChartsInit => ChartsInv
<1> SUFFICES ASSUME ChartsInit PROVE ChartsInv
  OBVIOUS
<1>1. second \in Int /\ raised \in Int /\ deals \in Seq(Deal)
  <2>1. VirtualXlm \in Int
    BY MarketChartsAssumption
  <2>2. QED
    BY <2>1 DEF ChartsInit
<1>2. NoPoll \in Polled
  BY DEF NoPoll, Polled, Unread
<1>3. poll \in [ChartSlots -> Polled]
  BY <1>2 DEF ChartsInit
<1>4. Ascends(<<>>)
  BY DEF Ascends
<1>5. PICK graduated \in BOOLEAN :
         simple = [points |-> <<>>, loading |-> TRUE, graduated |-> graduated,
                   canvas |-> IF graduated THEN "none" ELSE "attached"]
  BY DEF ChartsInit
<1>6. simple \in SimpleState /\ simple.points = <<>>
  <2>1. <<>> \in Seq(SimplePoint)
    OBVIOUS
  <2>2. QED
    BY <1>5, <2>1 DEF SimpleState
<1>7. trading \in TradingState /\ trading.points = <<>>
  <2>1. <<>> \in Seq(TradingPoint)
    OBVIOUS
  <2>2. QED
    BY <2>1 DEF ChartsInit, TradingState
<1>8. QED
  BY <1>1, <1>3, <1>4, <1>6, <1>7 DEF ChartsInv

LEMMA PollsKeep ==
  ASSUME ChartsInv, NEW s \in ChartSlots, NEW ok \in BOOLEAN,
         NEW chart \in {"simple", "trading", "progress"},
         StartPoll(s, chart) \/ ReadPollPrice(s, ok) \/ ReadPollInfo(s, ok)
  PROVE  ChartsInv'
<1>1. poll \in [ChartSlots -> Polled] /\ raised \in Int
  BY DEF ChartsInv
<1>2. poll[s] \in Polled
  BY <1>1
<1>3. UNCHANGED <<second, raised, deals, simple, trading>>
  BY DEF StartPoll, ReadPollPrice, ReadPollInfo, marketVars
<1>4. \E p \in Polled : poll' = [poll EXCEPT ![s] = p]
  <2>1. CASE StartPoll(s, chart)
    <3> DEFINE e == progress.points = <<>>
               k == Kept(chart)
               p == [NoPoll EXCEPT !.chart = chart, !.left = k, !.empty = e]
    <3>1. poll' = [poll EXCEPT ![s] = p]
      BY <2>1 DEF StartPoll
    <3>2. e \in BOOLEAN /\ k \in SUBSET {"price", "info"} /\ Unread \in Int
      BY DEF Kept, Unread
    <3> HIDE DEF e, k
    <3>3. NoPoll \in Polled
      BY DEF NoPoll, Polled, Unread
    <3>4. chart \in {"none", "simple", "trading", "progress"}
      OBVIOUS
    <3> DEFINE n == NoPoll
    <3> HIDE DEF n
    <3>5. n \in Polled /\ p = [n EXCEPT !.chart = chart, !.left = k, !.empty = e]
      BY <3>3 DEF n
    <3> HIDE DEF p
    <3>6. p \in Polled
      BY <3>2, <3>4, <3>5 DEF Polled
    <3>7. QED
      BY <3>1, <3>6
  <2>2. CASE ReadPollPrice(s, ok)
    <3> DEFINE l == poll[s].left \ {"price"}
               x == IF ok THEN raised ELSE 0
               p == [poll[s] EXCEPT !.left = l, !.price = x]
    <3>1. poll' = [poll EXCEPT ![s] = p]
      BY <1>1, <2>2 DEF ReadPollPrice
    <3>2. l \in SUBSET {"price", "info"} /\ x \in Int
      BY <1>1, <1>2 DEF Polled
    <3> HIDE DEF l, x
    <3>3. p \in Polled
      BY <1>2, <3>2 DEF Polled
    <3> HIDE DEF p
    <3>4. QED
      BY <3>1, <3>3
  <2>3. CASE ReadPollInfo(s, ok)
    <3> DEFINE l == poll[s].left \ {"info"}
               x == IF ok THEN raised ELSE Unread
               p == [poll[s] EXCEPT !.left = l, !.raised = x]
    <3>1. poll' = [poll EXCEPT ![s] = p]
      BY <1>1, <2>3 DEF ReadPollInfo
    <3>2. l \in SUBSET {"price", "info"} /\ x \in Int
      BY <1>1, <1>2 DEF Polled, Unread
    <3> HIDE DEF l, x
    <3>3. p \in Polled
      BY <1>2, <3>2 DEF Polled
    <3> HIDE DEF p
    <3>4. QED
      BY <3>1, <3>3
  <2>4. QED
    BY <2>1, <2>2, <2>3
<1>5. poll' \in [ChartSlots -> Polled]
  BY <1>1, <1>4
<1>6. QED
  BY <1>3, <1>5 DEF ChartsInv

LEMMA ArrivalKeeps ==
  ASSUME ChartsInv, NEW s \in ChartSlots, NEW chart, Arrived(s, chart)
  PROVE  poll' \in [ChartSlots -> Polled] /\ UNCHANGED <<second, raised, deals>>
<1>1. NoPoll \in Polled
  BY DEF NoPoll, Polled, Unread
<1>2. poll \in [ChartSlots -> Polled]
  BY DEF ChartsInv
<1>3. poll' = [poll EXCEPT ![s] = NoPoll]
  BY DEF Arrived
<1>4. QED
  BY <1>1, <1>2, <1>3 DEF Arrived, marketVars

LEMMA SimpleArrivesKeeps ==
  ASSUME ChartsInv, NEW s \in ChartSlots, SimpleArrives(s)
  PROVE  ChartsInv'
<1> DEFINE p == [time |-> second, price |-> poll[s].price,
                 raised |-> IF poll[s].raised = Unread THEN 0 ELSE poll[s].raised]
           points == IF p.price > 0 \/ p.raised > 0 THEN AddPoint(simple.points, p)
                     ELSE simple.points
<1>1. Arrived(s, "simple") /\ UNCHANGED <<trading, progress>>
      /\ simple' = [simple EXCEPT !.loading = FALSE, !.points = points]
  BY DEF SimpleArrives
<1>2. simple \in SimpleState /\ second \in Int /\ poll[s] \in Polled /\ Ascends(simple.points)
  BY DEF ChartsInv
<1>3. simple.points \in Seq(SimplePoint)
  BY <1>2 DEF SimpleState
<1>4. p \in SimplePoint
  BY <1>2 DEF SimplePoint, Polled
<1>5. \A t \in SimplePoint : t.time \in Int
  BY DEF SimplePoint
<1>6. AddPoint(simple.points, p) \in Seq(SimplePoint) /\ Ascends(AddPoint(simple.points, p))
  <2> HIDE DEF p
  <2>1. QED
    BY <1>2, <1>3, <1>4, <1>5, AddPointAscends
<1>7. points \in Seq(SimplePoint) /\ Ascends(points)
  BY <1>2, <1>3, <1>6
<1> HIDE DEF points
<1>8. simple' \in SimpleState /\ simple'.points = points
  BY <1>1, <1>2, <1>7 DEF SimpleState
<1>9. poll' \in [ChartSlots -> Polled] /\ UNCHANGED <<second, raised, deals>>
  BY <1>1, ArrivalKeeps
<1>10. QED
  BY <1>1, <1>7, <1>8, <1>9 DEF ChartsInv

LEMMA TradingArrivesKeeps ==
  ASSUME ChartsInv, NEW s \in ChartSlots, TradingArrives(s)
  PROVE  ChartsInv'
<1> DEFINE p == [time |-> second, price |-> poll[s].price]
           points == AddPoint(trading.points, p)
           x == poll[s].price
<1>1. Arrived(s, "trading") /\ UNCHANGED <<simple, progress>>
  BY DEF TradingArrives
<1>2. \/ trading' = [trading EXCEPT !.loading = FALSE, !.last = x, !.points = points]
      \/ trading' = [trading EXCEPT !.loading = FALSE]
  BY DEF TradingArrives
<1>3. trading \in TradingState /\ second \in Int /\ poll[s] \in Polled /\ Ascends(trading.points)
  BY DEF ChartsInv
<1>4. trading.points \in Seq(TradingPoint)
  BY <1>3 DEF TradingState
<1>5. p \in TradingPoint /\ x \in Int
  BY <1>3 DEF TradingPoint, Polled
<1>6. \A t \in TradingPoint : t.time \in Int
  BY DEF TradingPoint
<1>7. points \in Seq(TradingPoint) /\ Ascends(points)
  <2> HIDE DEF p
  <2>1. QED
    BY <1>3, <1>4, <1>5, <1>6, AddPointAscends
<1> HIDE DEF points, x
<1>8. trading' \in TradingState /\ Ascends(trading'.points)
  <2>1. CASE trading' = [trading EXCEPT !.loading = FALSE, !.last = x, !.points = points]
    <3>1. trading' \in TradingState /\ trading'.points = points
      BY <1>3, <1>5, <1>7, <2>1 DEF TradingState
    <3>2. QED
      BY <1>7, <3>1
  <2>2. CASE trading' = [trading EXCEPT !.loading = FALSE]
    <3>1. trading' \in TradingState /\ trading'.points = trading.points
      BY <1>3, <2>2 DEF TradingState
    <3>2. QED
      BY <1>3, <3>1
  <2>3. QED
    BY <1>2, <2>1, <2>2
<1>9. poll' \in [ChartSlots -> Polled] /\ UNCHANGED <<second, raised, deals>>
  BY <1>1, ArrivalKeeps
<1>10. QED
  BY <1>1, <1>8, <1>9 DEF ChartsInv

LEMMA HistoryArrivesKeeps ==
  ASSUME ChartsInv, HistoryArrives
  PROVE  ChartsInv'
<1> DEFINE points == HistoryPoints(Reverse(deals))
           x == Last(points).price
<1>1. UNCHANGED <<second, raised, deals, poll, simple>>
  BY DEF HistoryArrives, marketVars
<1>2. \/ trading' = [trading EXCEPT !.txLoading = FALSE]
      \/ trading' = [trading EXCEPT !.txLoading = FALSE, !.initialized = TRUE]
      \/ /\ points # <<>>
         /\ trading' = [trading EXCEPT !.txLoading = FALSE, !.initialized = TRUE,
                                       !.points = points, !.last = x]
  BY DEF HistoryArrives
<1>3. trading \in TradingState /\ deals \in Seq(Deal) /\ Ascends(trading.points)
  BY DEF ChartsInv
<1>4. Reverse(deals) \in Seq(Deal)
  BY <1>3 DEF Reverse
<1>5. points \in Seq(TradingPoint) /\ Ascends(points)
  BY <1>4, HistoryAscends
<1>6. points # <<>> => x \in Int
  <2> HIDE DEF points
  <2>1. SUFFICES ASSUME points # <<>> PROVE Last(points) \in TradingPoint
    BY DEF TradingPoint
  <2>2. QED
    BY <1>5, <2>1 DEF Last
<1> HIDE DEF points, x
<1>7. trading' \in TradingState /\ Ascends(trading'.points)
  <2>1. CASE trading' = [trading EXCEPT !.txLoading = FALSE]
    <3>1. trading' \in TradingState /\ trading'.points = trading.points
      BY <1>3, <2>1 DEF TradingState
    <3>2. QED
      BY <1>3, <3>1
  <2>2. CASE trading' = [trading EXCEPT !.txLoading = FALSE, !.initialized = TRUE]
    <3>1. trading' \in TradingState /\ trading'.points = trading.points
      BY <1>3, <2>2 DEF TradingState
    <3>2. QED
      BY <1>3, <3>1
  <2>3. CASE /\ points # <<>>
             /\ trading' = [trading EXCEPT !.txLoading = FALSE, !.initialized = TRUE,
                                           !.points = points, !.last = x]
    <3>1. trading' \in TradingState /\ trading'.points = points
      BY <1>3, <1>5, <1>6, <2>3 DEF TradingState
    <3>2. QED
      BY <1>5, <3>1
  <2>4. QED
    BY <1>2, <2>1, <2>2, <2>3
<1>8. QED
  BY <1>1, <1>7 DEF ChartsInv

LEMMA MarketKeeps ==
  ASSUME ChartsInv, MarketMoves
  PROVE  ChartsInv'
<1>1. second \in Int /\ raised \in Int /\ deals \in Seq(Deal)
  BY DEF ChartsInv
<1>2. CASE SecondPasses
  <2>1. second' \in Int /\ UNCHANGED <<raised, deals, poll, simple, trading>>
    BY <1>1, <1>2 DEF SecondPasses
  <2>2. QED
    BY <2>1 DEF ChartsInv
<1>3. ASSUME NEW side \in {"buy", "sell"}, NEW xlm \in DealSizes, OthersDeal(side, xlm)
      PROVE  ChartsInv'
  <2> DEFINE d == [time |-> second, side |-> side, xlm |-> xlm]
  <2>1. xlm \in Int
    BY MarketChartsAssumption
  <2>2. d \in Deal
    BY <1>1, <2>1 DEF Deal
  <2>3. deals' = Append(deals, d) /\ UNCHANGED <<second, poll, simple, trading>>
    BY <1>3 DEF OthersDeal
  <2>4. raised' \in Int
    BY <1>1, <1>3, <2>1 DEF OthersDeal
  <2> HIDE DEF d
  <2>5. deals' \in Seq(Deal)
    BY <1>1, <2>2, <2>3
  <2>6. QED
    BY <2>3, <2>4, <2>5 DEF ChartsInv
<1>4. QED
  BY <1>2, <1>3 DEF MarketMoves

LEMMA GraduationKeeps ==
  ASSUME ChartsInv, GraduatedChanges
  PROVE  ChartsInv'
<1>1. simple \in SimpleState /\ Ascends(simple.points)
  BY DEF ChartsInv
<1> DEFINE g == ~simple.graduated
           c == IF simple.canvas = "attached" THEN "detached" ELSE simple.canvas
<1>2. simple' = [simple EXCEPT !.graduated = g, !.canvas = c]
      /\ UNCHANGED <<second, raised, deals, poll, trading>>
  BY DEF GraduatedChanges, marketVars
<1>3. g \in BOOLEAN /\ c \in {"none", "attached", "detached"}
  BY <1>1 DEF SimpleState
<1> HIDE DEF g, c
<1>4. simple' \in SimpleState /\ simple'.points = simple.points
  BY <1>1, <1>2, <1>3 DEF SimpleState
<1>5. QED
  BY <1>1, <1>2, <1>4 DEF ChartsInv

LEMMA ChartsInvStep ==
  ChartsInv /\ [SimpleChartNext \/ TradingViewChartNext \/ BondingCurveChartNext]_chartVars
    => ChartsInv'
<1> SUFFICES ASSUME ChartsInv,
                    [SimpleChartNext \/ TradingViewChartNext \/ BondingCurveChartNext]_chartVars
             PROVE  ChartsInv'
  OBVIOUS
<1>1. CASE MarketMoves
  BY <1>1, MarketKeeps
<1>2. ASSUME NEW chart \in {"simple", "trading", "progress"}, Polls(chart)
      PROVE  ChartsInv'
  <2>1. PICK s \in ChartSlots :
           \/ StartPoll(s, chart)
           \/ \E ok \in BOOLEAN : ReadPollPrice(s, ok)
           \/ \E ok \in BOOLEAN : ReadPollInfo(s, ok)
    BY <1>2 DEF Polls
  <2>2. QED
    BY <2>1, PollsKeep
<1>3. ASSUME NEW s \in ChartSlots, SimpleArrives(s) \/ TradingArrives(s)
      PROVE  ChartsInv'
  BY <1>3, SimpleArrivesKeeps, TradingArrivesKeeps
<1>4. ASSUME NEW s \in ChartSlots, ProgressArrives(s)
      PROVE  ChartsInv'
  <2>1. Arrived(s, "progress") /\ UNCHANGED <<simple, trading>>
    BY <1>4 DEF ProgressArrives
  <2>2. poll' \in [ChartSlots -> Polled] /\ UNCHANGED <<second, raised, deals>>
    BY <2>1, ArrivalKeeps
  <2>3. QED
    BY <2>1, <2>2 DEF ChartsInv
<1>5. CASE HistoryArrives
  BY <1>5, HistoryArrivesKeeps
<1>6. CASE GraduatedChanges
  BY <1>6, GraduationKeeps
<1>7. CASE UNCHANGED chartVars
  <2>1. UNCHANGED <<second, raised, deals, poll, simple, trading>>
    BY <1>7 DEF chartVars
  <2>2. QED
    BY <2>1 DEF ChartsInv
<1>8. QED
  BY <1>1, <1>2, <1>3, <1>4, <1>5, <1>6, <1>7
     DEF SimpleChartNext, TradingViewChartNext, BondingCurveChartNext

(* What is drawn of points that ascend.                                    *)
LEMMA LinesAscend ==
  ASSUME ChartsInv
  PROVE  /\ \A view \in {"cap", "price"} : Ascends(SimpleLine(view))
         /\ TradingLine \in Seq(Point) /\ Ascends(TradingLine)
<1>1. /\ simple.points \in Seq(SimplePoint) /\ Ascends(simple.points)
      /\ trading.points \in Seq(TradingPoint) /\ Ascends(trading.points)
  BY DEF ChartsInv, SimpleState, TradingState
<1>2. ASSUME NEW view \in {"cap", "price"}
      PROVE  Ascends(SimpleLine(view))
  <2> DEFINE points == simple.points
             line == [i \in DOMAIN points |->
                         [time |-> points[i].time,
                          value |-> IF view = "cap" THEN points[i].raised ELSE points[i].price]]
  <2>1. \A i \in DOMAIN points : points[i] \in SimplePoint
    BY <1>1
  <2>2. \A p \in SimplePoint : p.time \in Int /\ p.raised \in Int /\ p.price \in Int
    BY DEF SimplePoint
  <2>3. \A i \in DOMAIN points : line[i] \in Point /\ line[i].time = points[i].time
    BY <2>1, <2>2 DEF Point
  <2>4. DOMAIN points = 1 .. Len(points) /\ Len(points) \in Nat
    BY <1>1
  <2>5. line = [i \in DOMAIN points |-> line[i]] /\ DOMAIN line = DOMAIN points
    OBVIOUS
  <2>6. SimpleLine(view) = LineOf(line, (99 * line[1].value) \div 100)
    BY Zenon DEF SimpleLine
  <2> HIDE DEF points, line
  <2>7. line \in Seq(Point)
    BY <2>3, <2>4, <2>5
  <2>8. Ascends(points)
    BY <1>1 DEF points
  <2>9. Ascends(line)
    BY <2>3, <2>5, <2>8, Zenon DEF Ascends
  <2>10. Len(line) = 1 => (99 * line[1].value) \div 100 \in Int
    <3>1. \A p \in Point : p.value \in Int
      BY DEF Point
    <3>2. Len(line) = 1 => line[1] \in Point
      <4>1. Len(line) = 1 => 1 \in DOMAIN line
        BY <2>7
      <4>2. QED
        BY <2>3, <2>5, <4>1, Zenon
    <3>3. \A v \in Int : (99 * v) \div 100 \in Int
      OBVIOUS
    <3>4. QED
      BY <3>1, <3>2, <3>3, Zenon
  <2>11. QED
    BY <2>6, <2>7, <2>9, <2>10, LineOfAscends
<1>3. TradingLine \in Seq(Point) /\ Ascends(TradingLine)
  <2> DEFINE points == trading.points
             line == [i \in DOMAIN points |-> [time |-> points[i].time, value |-> points[i].price]]
  <2>1. \A i \in DOMAIN points : points[i] \in TradingPoint
    BY <1>1
  <2>2. \A p \in TradingPoint : p.time \in Int /\ p.price \in Int
    BY DEF TradingPoint
  <2>3. \A i \in DOMAIN points : line[i] \in Point /\ line[i].time = points[i].time
    BY <2>1, <2>2 DEF Point
  <2>4. DOMAIN points = 1 .. Len(points) /\ Len(points) \in Nat
    BY <1>1
  <2>5. line = [i \in DOMAIN points |-> line[i]] /\ DOMAIN line = DOMAIN points
    OBVIOUS
  <2>6. TradingLine = LineOf(line, line[1].value)
    BY Zenon DEF TradingLine
  <2> HIDE DEF points, line
  <2>7. line \in Seq(Point)
    BY <2>3, <2>4, <2>5
  <2>8. Ascends(points)
    BY <1>1 DEF points
  <2>9. Ascends(line)
    BY <2>3, <2>5, <2>8, Zenon DEF Ascends
  <2>10. Len(line) = 1 => line[1].value \in Int
    <3>1. \A p \in Point : p.value \in Int
      BY DEF Point
    <3>2. Len(line) = 1 => line[1] \in Point
      <4>1. Len(line) = 1 => 1 \in DOMAIN line
        BY <2>7
      <4>2. QED
        BY <2>3, <2>5, <4>1, Zenon
    <3>3. QED
      BY <3>1, <3>2, Zenon
  <2>11. QED
    BY <2>6, <2>7, <2>9, <2>10, LineOfAscends
<1>4. QED
  BY <1>2, <1>3

(* A row of candles that the pass made sums up its line.                   *)
RowSumsUp(candles, line, interval) ==
    LET at(c) == {i \in DOMAIN line : Bucket(line[i], interval) = c.time}
    IN  /\ \A i \in DOMAIN line : \E k \in DOMAIN candles : i \in at(candles[k])
        /\ \A k \in DOMAIN candles :
              LET c == candles[k]
                  values == {line[i].value : i \in at(c)}
              IN  /\ {c.low, c.high} \subseteq values
                  /\ \A v \in values : v \in c.low .. c.high
                  /\ \E i \in at(c) : line[i].value = c.open /\ \A j \in at(c) : i <= j
                  /\ \E i \in at(c) : line[i].value = c.close /\ \A j \in at(c) : j <= i

LEMMA PassSumsUp ==
  ASSUME NEW interval \in Nat \ {0}, NEW line \in Seq(Point), NEW candles,
         CandlesUpTo(candles, line, Len(line), interval)
  PROVE  RowSumsUp(candles, line, interval)
<1> DEFINE at(c) == {i \in DOMAIN line : Bucket(line[i], interval) = c.time}
           N == Len(line)
<1>1. DOMAIN line = 1 .. N
  OBVIOUS
<1>2. \A i \in 1 .. N : line[i].value \in Int
  BY <1>1, PointTypes
<1> HIDE DEF N
<1>3. \A i \in 1 .. N : \E k \in DOMAIN candles : candles[k].time = Bucket(line[i], interval)
  BY Zenon DEF CandlesUpTo, N
<1>4. \A i \in DOMAIN line : \E k \in DOMAIN candles : i \in at(candles[k])
  BY <1>1, <1>3
<1>5. ASSUME NEW k \in DOMAIN candles
      PROVE  LET c == candles[k]
                 values == {line[i].value : i \in at(c)}
             IN  /\ {c.low, c.high} \subseteq values
                 /\ \A v \in values : v \in c.low .. c.high
                 /\ \E i \in at(c) : line[i].value = c.open /\ \A j \in at(c) : i <= j
                 /\ \E i \in at(c) : line[i].value = c.close /\ \A j \in at(c) : j <= i
  <2> DEFINE c == candles[k]
             values == {line[i].value : i \in at(c)}
             in(i) == Bucket(line[i], interval) = c.time
  <2>1. Summary(c, line, N, interval)
    BY Zenon DEF CandlesUpTo, N
  <2>2. /\ \A i \in 1 .. N : in(i) => c.low <= line[i].value /\ line[i].value <= c.high
        /\ \E i \in 1 .. N : in(i) /\ line[i].value = c.low
        /\ \E i \in 1 .. N : in(i) /\ line[i].value = c.high
        /\ \E i \in 1 .. N : in(i) /\ line[i].value = c.open /\ \A j \in 1 .. N : in(j) => i <= j
        /\ \E i \in 1 .. N : in(i) /\ line[i].value = c.close /\ \A j \in 1 .. N : in(j) => j <= i
    BY <2>1, Zenon DEF Summary
  <2>3. \A i : i \in at(c) <=> i \in 1 .. N /\ in(i)
    BY <1>1
  <2>4. \A v : v \in values <=> \E i \in at(c) : v = line[i].value
    OBVIOUS
  <2> HIDE DEF c, in, at, values
  <2>5. c.low \in values /\ c.high \in values
    BY <2>2, <2>3, <2>4, Zenon
  <2>6. c.low \in Int /\ c.high \in Int
    BY <1>2, <2>2, Zenon
  <2>7. ASSUME NEW v \in values
        PROVE  v \in c.low .. c.high
    <3>1. PICK i \in 1 .. N : in(i) /\ v = line[i].value
      BY <2>3, <2>4, Zenon
    <3>2. v \in Int /\ c.low <= v /\ v <= c.high
      BY <1>2, <2>2, <3>1
    <3>3. QED
      BY <2>6, <3>2
  <2>8. \E i \in at(c) : line[i].value = c.open /\ \A j \in at(c) : i <= j
    BY <2>2, <2>3, Zenon
  <2>9. \E i \in at(c) : line[i].value = c.close /\ \A j \in at(c) : j <= i
    BY <2>2, <2>3, Zenon
  <2>10. {c.low, c.high} \subseteq values
    BY <2>5
  <2>11. QED
    BY <2>7, <2>8, <2>9, <2>10, Zenon DEF c, values
<1>6. QED
  BY <1>4, <1>5, Zenon DEF RowSumsUp

LEMMA ChartsInvDraws ==
  ChartsInv => ChartsDrawPoints
<1> SUFFICES ASSUME ChartsInv PROVE ChartsDrawPoints
  OBVIOUS
<1>1. /\ \A view \in {"cap", "price"} : Ascends(SimpleLine(view))
      /\ TradingLine \in Seq(Point) /\ Ascends(TradingLine)
  BY LinesAscend
<1>2. ASSUME NEW interval \in Intervals
      PROVE  CandlesUpTo(Candles(TradingLine, interval), TradingLine, Len(TradingLine), interval)
  <2>1. interval \in Nat \ {0}
    BY MarketChartsAssumption
  <2>2. QED
    BY <1>1, <2>1, CandlesDraw
<1>3. SeriesAscend
  <2>1. \A interval \in Intervals : Ascends(Candles(TradingLine, interval))
    BY <1>2, Zenon DEF CandlesUpTo
  <2>2. QED
    BY <1>1, <2>1, Zenon DEF SeriesAscend
<1>4. CandlesSumUpPoints
  <2>1. ASSUME NEW interval \in Intervals
        PROVE  RowSumsUp(Candles(TradingLine, interval), TradingLine, interval)
    <3>1. interval \in Nat \ {0}
      BY MarketChartsAssumption
    <3>2. QED
      BY <1>1, <1>2, <3>1, PassSumsUp
  <2>2. QED
    BY <2>1, Zenon DEF CandlesSumUpPoints, RowSumsUp
<1>5. QED
  BY <1>3, <1>4 DEF ChartsDrawPoints

(* SimpleChart and TradingViewChart always hand the chart library a line   *)
(* in ascending time, and each candle sums up exactly the points of its    *)
(* interval, for every number of polls under way at once, every window,    *)
(* every interval and every history of trades.                             *)
THEOREM ChartsAreTrue == ChartsSpec => []ChartsDrawPoints
<1>1. ChartsInit => ChartsInv
  BY ChartsInvInit
<1>2. ChartsInv /\ [SimpleChartNext \/ TradingViewChartNext \/ BondingCurveChartNext]_chartVars
        => ChartsInv'
  BY ChartsInvStep
<1>3. ChartsInv => ChartsDrawPoints
  BY ChartsInvDraws
<1>4. QED
  BY <1>1, <1>2, <1>3, PTL DEF ChartsSpec
=============================================================================
