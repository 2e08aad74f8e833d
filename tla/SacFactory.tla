----------------------------- MODULE SacFactory -----------------------------
(***************************************************************************)
(* The launchpad contract sac-factory (lib.rs with its modules): tokens    *)
(* are launched on a bonding curve, bought and sold against it, and        *)
(* graduate to an external AMM or bridge when enough XLM was raised.       *)
(*                                                                         *)
(* A Soroban call is one atomic transaction: it runs alone, and a call     *)
(* that returns an error or traps leaves no trace in the ledger.  So every *)
(* action is one successful call, with the conditions of its early returns *)
(* and of the transfers it makes as guards; a failed call is no step,      *)
(* except that a failed graduation is remembered in the history variable   *)
(* failedGraduations, because the code has a recovery path for it.         *)
(*                                                                         *)
(* External contracts are modelled by what the factory needs of them: the  *)
(* XLM asset and the launched tokens are balances; the AMM pairs, the      *)
(* ASTRO pool and the bridge are one account DEX that takes what the       *)
(* factory authorises, or fails and takes the whole call down with it.     *)
(***************************************************************************)
EXTENDS BondingCurve, FeeManagement, AntiWhale, Functions

CONSTANTS Token,                \* the addresses that can be launched
          Symbol, NoSymbol,     \* ticker symbols, and the mark of none
          Kinds,                \* the kinds of token launched: "V1" (SAC), "V2" (pure Soroban)
          DEX,                  \* the AMM pairs and the bridge, as one account
          INITIAL_SUPPLY,       \* total supply the holdings cap is measured against
          BONDING_CURVE_SUPPLY, \* tokens put on the curve
          DEFAULT_GRADUATION_THRESHOLD,
          FirstTreasuries,      \* bound: the treasuries initialize is given
          InitialXlm,           \* XLM of every account at the start
          BuyAmounts, SellAmounts,          \* bound: amounts a trader asks for
          MinOuts, Deadlines,               \* bound: limits a trader sets
          WithdrawAmounts, ThresholdChoices,\* bound: inputs of two admin calls
          TransferAmounts,                  \* bound: tokens moved between holders
          OwnerCalls,           \* bound: which of the configuration calls owners make
          MaxTime               \* bound: the clock stops here

ASSUME FactoryAssumption ==
  /\ IsFiniteSet(Token) /\ IsFiniteSet(Account)
  /\ NoSymbol \notin Symbol
  /\ Kinds \subseteq {"V1", "V2"}
  /\ DEX \notin Account /\ DEX # FACTORY
  /\ INITIAL_SUPPLY \in Nat \ {0}
  /\ BONDING_CURVE_SUPPLY \in 1 .. INITIAL_SUPPLY
  /\ DEFAULT_GRADUATION_THRESHOLD \in Nat \ {0}
  /\ FirstTreasuries \subseteq Account
  /\ InitialXlm \in [Account -> Nat]
  /\ BuyAmounts \subseteq Nat \ {0} /\ SellAmounts \subseteq Nat \ {0}
  /\ MinOuts \subseteq Nat /\ Deadlines \subseteq Nat
  /\ WithdrawAmounts \subseteq Int /\ ThresholdChoices \subseteq Int
  /\ TransferAmounts \subseteq Nat \ {0}
  /\ MaxTime \in Nat

Holder == Account \cup {FACTORY, DEX}

VARIABLES
  status, curve, raised, locked, \* TokenInfo: status, bonding_curve, xlm_raised, locked_xlm_amount
  symbolOf, kindOf,              \* TokenInfo: symbol, issuer (empty for V2)
  usedSymbols,                   \* the symbols marked used
  totalLocked,                   \* InstanceKey::TotalLockedXlm
  threshold,                     \* InstanceKey::GraduationThreshold
  dex,                           \* the configuration graduation depends on
  pool,                          \* XLM put into the token's XLM pair at graduation
  mintable,                      \* external: the factory is the token's admin
  xlm,                           \* external: balances of the native asset
  bal,                           \* external: balances of each launched token
  now,                           \* the ledger timestamp
  withdrawn,                     \* history: XLM taken by withdraw_fees
  failedGraduations              \* history: tokens a graduation failed for

tokenVars == <<symbolOf, kindOf, usedSymbols>>
marketVars == <<status, curve, raised, locked, totalLocked>>
configVars == <<threshold, dex>>
ledgerVars == <<xlm, bal>>
historyVars == <<withdrawn, failedGraduations>>
vars == <<accessVars, feeVars, whaleVars, tokenVars, marketVars, configVars,
          ledgerVars, historyVars, pool, mintable, now>>

(* TokenStatus, with a mark for a token nobody launched. *)
Statuses == {"Unlaunched", "Bonding", "GraduationInProgress", "Graduated",
             "GraduationFailed"}

DexConfig == [tokenWasm : BOOLEAN, ammWasm : BOOLEAN, astro : BOOLEAN, bridge : BOOLEAN,
              minMarketCap : BOOLEAN, oracle : BOOLEAN]
NoDex == [tokenWasm |-> FALSE, ammWasm |-> FALSE, astro |-> FALSE, bridge |-> FALSE,
          minMarketCap |-> FALSE, oracle |-> FALSE]

Init ==
  /\ AccessInit /\ FeeInit /\ WhaleInit
  /\ status = [t \in Token |-> "Unlaunched"]
  /\ curve = [t \in Token |-> NewCurve(BONDING_CURVE_SUPPLY)]
  /\ raised = [t \in Token |-> 0]
  /\ locked = [t \in Token |-> 0]
  /\ symbolOf = [t \in Token |-> NoSymbol]
  /\ kindOf = [t \in Token |-> "V2"]
  /\ usedSymbols = {}
  /\ totalLocked = 0
  /\ threshold = DEFAULT_GRADUATION_THRESHOLD
  /\ dex = NoDex
  /\ pool = [t \in Token |-> 0]
  /\ mintable = [t \in Token |-> FALSE]
  /\ xlm = [h \in Holder |-> IF h \in Account THEN InitialXlm[h] ELSE 0]
  /\ bal = [t \in Token |-> [h \in Holder |-> 0]]
  /\ now = 1
  /\ withdrawn = 0
  /\ failedGraduations = {}

-----------------------------------------------------------------------------
(* Balances of an asset after a transfer and after a mint. *)
Move(b, from, to, amount) ==
  LET paid == [b EXCEPT ![from] = @ - amount] IN [paid EXCEPT ![to] = @ + amount]
Mint(b, to, amount) == [b EXCEPT ![to] = @ + amount]

AtLeastZero(n) == IF n > 0 THEN n ELSE 0
Larger(m, n) == IF m > n THEN m ELSE n
Smaller(m, n) == IF m < n THEN m ELSE n

Active == contractState = "Active"

Tradable(t) == status[t] = "Bonding"

Initialize(admin, treasury) ==
  /\ InitializeAccess(admin)
  /\ feeConfig' = DefaultFeeConfig(treasury)
  /\ UNCHANGED <<accumulatedFees, whaleVars, tokenVars, marketVars, configVars,
                 ledgerVars, historyVars, pool, mintable, now>>

(* Launching *)

SymbolsAfterLaunch(symbol) == usedSymbols \cup {symbol}

(* launch_token (V1) and launch_token_v2 (V2).  The creation fee is XLM    *)
(* that goes straight to the treasury.  A V2 token is deployed with the    *)
(* factory as admin, a V1 token is not.                                    *)
Launch(creator, t, symbol, kind) ==
  LET fee == feeConfig.creation_fee
  IN /\ Active
     /\ status[t] = "Unlaunched"
     /\ symbol \notin usedSymbols
     /\ kind = "V2" => dex.tokenWasm
     /\ fee <= xlm[creator]
     /\ xlm' = Move(xlm, creator, feeConfig.treasury, fee)
     /\ accumulatedFees' = accumulatedFees + fee
     /\ status' = [status EXCEPT ![t] = "Bonding"]
     /\ curve' = [curve EXCEPT ![t] = NewCurve(BONDING_CURVE_SUPPLY)]
     /\ symbolOf' = [symbolOf EXCEPT ![t] = symbol]
     /\ kindOf' = [kindOf EXCEPT ![t] = kind]
     /\ usedSymbols' = SymbolsAfterLaunch(symbol)
     /\ mintable' = [mintable EXCEPT ![t] = (kind = "V2")]
     /\ UNCHANGED <<accessVars, feeConfig, whaleVars, raised, locked, totalLocked,
                    configVars, bal, historyVars, pool, now>>

(* The issuer of a V1 token hands the asset's admin role to the factory.   *)
MakeMintable(t) ==
  /\ status[t] # "Unlaunched" /\ ~ mintable[t]
  /\ mintable' = [mintable EXCEPT ![t] = TRUE]
  /\ UNCHANGED <<accessVars, feeVars, whaleVars, tokenVars, marketVars, configVars,
                 ledgerVars, historyVars, pool, now>>

(* Trading *)

(* The fees of a buy: on the gross amount, the whale tax taken from what   *)
(* they leave and added to the protocol's part.                            *)
BuyFees(buyer, t, gross) ==
  LET fees == FeeBreakdown(gross)
      expected == CalculateBuy(curve[t], gross)
      whaleFee == (fees.net * ExtraFeeBps(buyer, expected, INITIAL_SUPPLY)) \div WHALE_BPS
  IN [fees EXCEPT !.protocol = @ + whaleFee, !.net = @ - whaleFee]

TokensOut(buyer, t, gross) == CalculateBuy(curve[t], BuyFees(buyer, t, gross).net)

(* Every condition under which buy returns an error before it would        *)
(* graduate, the payment it demands and the mint it ends with included.    *)
CanExecuteBuy(buyer, t, gross, minTokens, deadline) ==
  LET fees == BuyFees(buyer, t, gross)
      out == TokensOut(buyer, t, gross)
  IN /\ now <= deadline
     /\ Active
     /\ Tradable(t)
     /\ CanBuy(curve[t], gross)
     /\ BuyAllowed(buyer, CalculateBuy(curve[t], gross), INITIAL_SUPPLY, now)
     /\ gross <= xlm[buyer]
     /\ CanTradeFor(gross)
     /\ CanBuy(curve[t], fees.net)
     /\ out >= minTokens
     /\ out < curve[t].tokens_remaining      \* get_current_price after the trade
     /\ mintable[t]

LockedByBuy_Gross(fees) == fees.gross
LockedByBuy(fees) == fees.net + fees.lp

(* What a buy does to the token's curve and to the books, whether or not   *)
(* it also graduates.  The protocol's fee is minted to the treasury in     *)
(* units of the token (transfer_protocol_fee); the XLM of that fee stays   *)
(* with the factory.                                                       *)
ExecuteBuy(buyer, t, gross) ==
  LET fees == BuyFees(buyer, t, gross)
      out == TokensOut(buyer, t, gross)
  IN /\ curve' = [curve EXCEPT ![t] = ExecuteBuyWithLpFee(@, fees.net, out, fees.lp)]
     /\ raised' = [raised EXCEPT ![t] = @ + gross]
     /\ RecordBuy(buyer, out, now)
     /\ accumulatedFees' = accumulatedFees + fees.protocol
     /\ UNCHANGED <<accessVars, feeConfig, whaleConfig, tokenVars, configVars,
                    historyVars, mintable, now>>

(* The token balances a buy leaves, before a graduation mints more.        *)
BalancesAfterBuy_FeeOnOutput(buyer, t, gross) ==
  LET fees == BuyFees(buyer, t, gross)
  IN Mint(Mint(bal[t], buyer, TokensOut(buyer, t, gross) - fees.protocol - fees.lp),
          feeConfig.treasury, fees.protocol)
BalancesAfterBuy(buyer, t, gross) ==
  Mint(Mint(bal[t], buyer, TokensOut(buyer, t, gross)),
       feeConfig.treasury, BuyFees(buyer, t, gross).protocol)

ReachesThreshold_Exceeds(raisedNow) == raisedNow > threshold
ReachesThreshold(raisedNow) == raisedNow >= threshold

Buy(buyer, t, gross, minTokens, deadline) ==
  LET lock == LockedByBuy(BuyFees(buyer, t, gross))
  IN /\ CanExecuteBuy(buyer, t, gross, minTokens, deadline)
     /\ ~ ReachesThreshold(raised[t] + gross)
     /\ ExecuteBuy(buyer, t, gross)
     /\ locked' = [locked EXCEPT ![t] = @ + lock]
     /\ totalLocked' = totalLocked + lock
     /\ xlm' = Move(xlm, buyer, FACTORY, gross)
     /\ bal' = [bal EXCEPT ![t] = BalancesAfterBuy(buyer, t, gross)]
     /\ UNCHANGED <<status, pool>>

SellFees(t, amount) == FeeBreakdown(CalculateSell(curve[t], amount))

(* The two safe_sub of sell: neither book may go below zero.               *)
BooksCoverSale_Unchecked(t, fees) == TRUE
BooksCoverSale(t, fees) ==
  fees.gross - fees.lp <= locked[t] /\ fees.gross <= raised[t]

ReleasedBySell(fees) == fees.gross - fees.lp

Sell(seller, t, amount, minXlm, deadline) ==
  LET fees == SellFees(t, amount)
      released == ReleasedBySell(fees)
  IN /\ now <= deadline
     /\ Active
     /\ Tradable(t)
     /\ amount <= bal[t][seller]
     /\ CanSell(curve[t], amount)
     /\ CanTradeFor(fees.gross)
     /\ fees.net >= minXlm
     /\ BooksCoverSale(t, fees)
     /\ fees.net + fees.protocol <= xlm[FACTORY]
     /\ curve' = [curve EXCEPT ![t] = ExecuteSellWithLpFee(@, fees.gross, amount, fees.lp)]
     /\ locked' = [locked EXCEPT ![t] = @ - released]
     /\ totalLocked' = AtLeastZero(totalLocked - released)
     /\ raised' = [raised EXCEPT ![t] = @ - fees.gross]
     /\ RecordSell(seller, amount)
     /\ bal' = [bal EXCEPT ![t][seller] = @ - amount]
     /\ xlm' = Move(Move(xlm, FACTORY, seller, fees.net),
                    FACTORY, feeConfig.treasury, fees.protocol)
     /\ UNCHANGED <<accessVars, feeVars, whaleConfig, tokenVars, status, configVars,
                    historyVars, pool, mintable, now>>

(* External: a holder sends tokens to another account. *)
Transfer(t, from, to, amount) ==
  /\ from # to
  /\ amount <= bal[t][from]
  /\ bal' = [bal EXCEPT ![t] = Move(@, from, to, amount)]
  /\ UNCHANGED <<accessVars, feeVars, whaleVars, tokenVars, marketVars, configVars,
                 xlm, historyVars, pool, mintable, now>>

(* Graduation *)

(* calculate_dual_pool_allocation: with ASTRO configured, 75% of the XLM   *)
(* and of the remaining tokens go to the XLM pair and 23% to the ASTRO     *)
(* pair; 2% of the XLM buys ASTRO to burn.  Each part is rounded down, and *)
(* the bridge always takes everything.                                     *)
UsesAstro == dex.astro /\ ~ dex.bridge
Percent(amount, p) == (amount * p) \div 100
MainPoolXlm(total) == IF UsesAstro THEN Percent(total, 75) ELSE total

PaidOut_SwapForgotten(total) ==
  IF UsesAstro THEN Percent(total, 75) + Percent(total, 2) ELSE total
PaidOut(total) ==
  IF UsesAstro THEN Percent(total, 75) + Percent(total, 23) + Percent(total, 2) ELSE total
TokensOutlaid(total, remaining) ==
  IF ~ UsesAstro THEN remaining
  ELSE Percent(remaining, 75)
       + (IF Percent(total, 23) > 0 THEN Percent(remaining, 23) ELSE 0)

(* graduate_to_amm and graduate_via_bridge succeed only under these        *)
(* conditions; balance is the factory's XLM when the AMM or bridge pulls.  *)
CanGraduate(t, total, remaining, balance) ==
  /\ status[t] = "Bonding"
  /\ dex.minMarketCap => dex.oracle
  /\ total > 0 /\ remaining > 0
  /\ dex.bridge \/ dex.ammWasm
  /\ mintable[t]
  /\ PaidOut(total) <= balance

(* The lock a graduation releases, when the call locked added more before. *)
ReleasedByGraduation_Raised(t, total, added) == total
ReleasedByGraduation(t, total, added) == locked[t] + added

GraduateBooks(t, total, added) ==
  /\ status' = [status EXCEPT ![t] = "Graduated"]
  /\ locked' = [locked EXCEPT ![t] = 0]
  /\ totalLocked' = AtLeastZero(totalLocked + added - ReleasedByGraduation(t, total, added))
  /\ pool' = [pool EXCEPT ![t] = MainPoolXlm(total)]

BuyAndGraduate(buyer, t, gross, minTokens, deadline) ==
  LET total == raised[t] + gross
      remaining == curve[t].tokens_remaining - TokensOut(buyer, t, gross)
  IN /\ CanExecuteBuy(buyer, t, gross, minTokens, deadline)
     /\ ReachesThreshold(total)
     /\ CanGraduate(t, total, remaining, xlm[FACTORY] + gross)
     /\ ExecuteBuy(buyer, t, gross)
     /\ GraduateBooks(t, total, LockedByBuy(BuyFees(buyer, t, gross)))
     /\ xlm' = Move(Move(xlm, buyer, FACTORY, gross), FACTORY, DEX, PaidOut(total))
     /\ bal' = [bal EXCEPT ![t] = Mint(BalancesAfterBuy(buyer, t, gross), DEX,
                                       TokensOutlaid(total, remaining))]

(* The graduation of a buy fails (a missing configuration, a trap in the   *)
(* oracle, the AMM or the bridge): the error ends the call, so the buy and *)
(* the status written for it are rolled back.                              *)
BuyFailsToGraduate(buyer, t, gross, minTokens, deadline) ==
  /\ CanExecuteBuy(buyer, t, gross, minTokens, deadline)
  /\ ReachesThreshold(raised[t] + gross)
  /\ failedGraduations' = failedGraduations \cup {t}
  /\ UNCHANGED <<accessVars, feeVars, whaleVars, tokenVars, marketVars, configVars,
                 ledgerVars, withdrawn, pool, mintable, now>>

MayGraduateManually(admin, t) ==
  HasRole(admin, "Owner") /\ status[t] = "Bonding" /\ ReachesThreshold(raised[t])

ManualGraduation(admin, t) ==
  LET remaining == curve[t].tokens_remaining
  IN /\ MayGraduateManually(admin, t)
     /\ CanGraduate(t, raised[t], remaining, xlm[FACTORY])
     /\ GraduateBooks(t, raised[t], 0)
     /\ xlm' = Move(xlm, FACTORY, DEX, PaidOut(raised[t]))
     /\ bal' = [bal EXCEPT ![t] = Mint(@, DEX, TokensOutlaid(raised[t], remaining))]
     /\ UNCHANGED <<accessVars, feeVars, whaleVars, tokenVars, curve, raised,
                    configVars, historyVars, mintable, now>>

ManualGraduationFails(admin, t) ==
  /\ MayGraduateManually(admin, t)
  /\ failedGraduations' = failedGraduations \cup {t}
  /\ UNCHANGED <<accessVars, feeVars, whaleVars, tokenVars, marketVars, configVars,
                 ledgerVars, withdrawn, pool, mintable, now>>

(* retry_graduation and recover_to_bonding demand this first.  No step     *)
(* stores the status GraduationFailed, so neither is an action of Next.    *)
MayRecover(admin, t) == HasRole(admin, "Owner") /\ status[t] = "GraduationFailed"

(* Administration *)

(* withdraw_fees: an amount of zero or less asks for all there is.         *)
Available == xlm[FACTORY] - totalLocked
WithdrawFees(admin, amount) ==
  LET taken == IF amount <= 0 THEN Available ELSE Smaller(amount, Available)
  IN /\ HasAnyRole(admin, {"TreasuryAdmin", "Owner"})
     /\ Available > 0
     /\ xlm' = Move(xlm, FACTORY, feeConfig.treasury, taken)
     /\ withdrawn' = withdrawn + taken
     /\ UNCHANGED <<accessVars, feeVars, whaleVars, tokenVars, marketVars, configVars,
                    bal, failedGraduations, pool, mintable, now>>

SetGraduationThreshold(admin, amount) ==
  /\ HasRole(admin, "Owner")
  /\ amount > 0
  /\ threshold' = amount
  /\ UNCHANGED dex

(* The configuration calls of an owner that graduation depends on:         *)
(* set_token_wasm_hash, set_amm_wasm_hash, set_astro_config and            *)
(* clear_astro_config, set_bridge_config, set_min_market_cap_usd,          *)
(* set_oracle_address.  A hash and an oracle are never unset.              *)
Configure(admin, call) ==
  /\ HasRole(admin, "Owner")
  /\ \/ call = "set_token_wasm_hash" /\ dex' = [dex EXCEPT !.tokenWasm = TRUE]
     \/ call = "set_amm_wasm_hash" /\ dex' = [dex EXCEPT !.ammWasm = TRUE]
     \/ call = "set_astro_config" /\ dex' = [dex EXCEPT !.astro = TRUE]
     \/ call = "clear_astro_config" /\ dex' = [dex EXCEPT !.astro = FALSE]
     \/ call = "set_bridge_config" /\ \E on \in BOOLEAN : dex' = [dex EXCEPT !.bridge = on]
     \/ call = "set_min_market_cap_usd"
        /\ \E on \in BOOLEAN : dex' = [dex EXCEPT !.minMarketCap = on]
     \/ call = "set_oracle_address" /\ dex' = [dex EXCEPT !.oracle = TRUE]
  /\ UNCHANGED threshold

Tick ==
  /\ now < MaxTime
  /\ now' = now + 1
  /\ UNCHANGED <<accessVars, feeVars, whaleVars, tokenVars, marketVars, configVars,
                 ledgerVars, historyVars, pool, mintable>>

-----------------------------------------------------------------------------
TraderStep ==
  \E a \in Account, t \in Token, deadline \in Deadlines, minOut \in MinOuts :
    \/ \E gross \in BuyAmounts :
         \/ Buy(a, t, gross, minOut, deadline)
         \/ BuyAndGraduate(a, t, gross, minOut, deadline)
         \/ BuyFailsToGraduate(a, t, gross, minOut, deadline)
    \/ \E amount \in SellAmounts : Sell(a, t, amount, minOut, deadline)

IssuerStep ==
  \/ \E a \in Account, t \in Token, symbol \in Symbol, kind \in Kinds :
       Launch(a, t, symbol, kind)
  \/ \E t \in Token : MakeMintable(t)

HolderStep ==
  \E t \in Token, from, to \in Account, amount \in TransferAmounts :
    Transfer(t, from, to, amount)

OwnerStep ==
  \E a \in Account :
    \/ \E t \in Token : ManualGraduation(a, t) \/ ManualGraduationFails(a, t)
    \/ \E amount \in WithdrawAmounts : WithdrawFees(a, amount)

(* The steps of the modules this one is composed of, and of the            *)
(* configuration: they leave tokens, balances and the clock alone.         *)
AdminStep ==
  /\ \/ (PauseStep \/ RoleStep) /\ UNCHANGED <<feeVars, whaleVars, configVars>>
     \/ /\ \E a \in Account : FeeAdminStep(a)
        /\ UNCHANGED <<accessVars, whaleVars, configVars>>
     \/ /\ \E a \in Account : WhaleAdminStep(a)
        /\ UNCHANGED <<accessVars, feeVars, configVars>>
     \/ /\ \E a \in Account :
             \/ \E amount \in ThresholdChoices : SetGraduationThreshold(a, amount)
             \/ \E call \in OwnerCalls : Configure(a, call)
        /\ UNCHANGED <<accessVars, feeVars, whaleVars>>
  /\ UNCHANGED <<tokenVars, marketVars, ledgerVars, historyVars, pool, mintable, now>>

Next ==
  \/ \E admin \in FirstOwners, treasury \in FirstTreasuries : Initialize(admin, treasury)
  \/ TraderStep \/ IssuerStep \/ HolderStep \/ OwnerStep \/ AdminStep \/ Tick

Spec == Init /\ [][Next]_vars

-----------------------------------------------------------------------------
(* Every variable has its type; the two statuses of a graduation under way *)
(* or failed are never what the ledger holds between two calls.            *)
TypeOK ==
  /\ AccessTypeOK /\ FeeTypeOK /\ WhaleTypeOK
  /\ status \in [Token -> Statuses \ {"GraduationInProgress", "GraduationFailed"}]
  /\ curve \in [Token -> Curve]
  /\ raised \in [Token -> Nat] /\ locked \in [Token -> Nat]
  /\ symbolOf \in [Token -> Symbol \cup {NoSymbol}]
  /\ kindOf \in [Token -> {"V1", "V2"}]
  /\ usedSymbols \subseteq Symbol
  /\ totalLocked \in Nat
  /\ threshold \in Nat \ {0}
  /\ dex \in DexConfig
  /\ pool \in [Token -> Nat]
  /\ mintable \in [Token -> BOOLEAN]
  /\ xlm \in [Holder -> Nat]
  /\ bal \in [Token -> [Holder -> Nat]]
  /\ now \in Nat
  /\ withdrawn \in Nat
  /\ failedGraduations \subseteq Token

(* For every token the stored curve, the lock and the life cycle agree: k  *)
(* is the product of the reserves, sold and remaining add up to the supply *)
(* and the reserve of a token on the curve is the virtual reserve plus its *)
(* lock; a token off the curve has nothing locked (the bookkeeping of      *)
(* lib.rs:508-520, 712-724 against bonding_curve.rs).                      *)
CurvesConsistent ==
  \A t \in Token :
    /\ curve[t].k = curve[t].xlm_reserve * curve[t].tokens_remaining
    /\ curve[t].tokens_sold + curve[t].tokens_remaining = curve[t].total_supply
    /\ curve[t].total_supply = BONDING_CURVE_SUPPLY
    /\ IF status[t] = "Bonding"
         THEN curve[t].xlm_reserve = INITIAL_VIRTUAL_RESERVE + locked[t]
         ELSE locked[t] = 0

(* The global counter that protects the reserves is at all times the sum   *)
(* of what the tokens have locked, although each call updates the two in   *)
(* different storage entries and the counter saturates (storage.rs:210-229).*)
LockedTotal == totalLocked = SumFunctionOnSet(locked, Token)

(* What the factory still owes for a token on the curve: what its sellers  *)
(* may take back, or what its graduation will pay out, the larger of them. *)
Owed == [t \in Token |->
           IF status[t] = "Bonding" THEN Larger(locked[t], raised[t]) ELSE 0]

(* No trade, launch or graduation ever leaves the factory with less XLM    *)
(* than it owes over all tokens: any shortfall is no larger than what      *)
(* withdraw_fees took.  xlm_raised counts gross amounts and the lock       *)
(* counts net amounts, so neither book alone says this.                    *)
Backing == xlm[FACTORY] + withdrawn >= SumFunctionOnSet(Owed, Token)

(* A token can only sit on the curve at or above the threshold if the      *)
(* owner lowered the threshold under it: a buy that reaches it graduates   *)
(* the token in the same call or does not happen (lib.rs:538-552).         *)
NoGraduationSkipped ==
  [][\A t \in Token :
       status'[t] = "Bonding" /\ raised'[t] >= threshold' =>
         raised[t] >= threshold']_vars

(* A graduated token is done: no call trades it on the curve again, counts *)
(* its XLM again or pays its pool a second time.                           *)
GraduationIsFinal ==
  [][\A t \in Token :
       status[t] = "Graduated" =>
         /\ status'[t] = "Graduated"
         /\ <<curve[t], raised[t], locked[t], pool[t]>>'
              = <<curve[t], raised[t], locked[t], pool[t]>>]_vars

(* Graduation hands over what was raised, all of it and only once: over    *)
(* any history the DEX received the raised XLM of the graduated tokens,    *)
(* less at most two units a token, which the three rounded shares of the   *)
(* ASTRO split leave behind (astro_client.rs:232-287).                     *)
GraduatedTokens == {t \in Token : status[t] = "Graduated"}
RaisedXlmReachesDex ==
  LET due == SumFunctionOnSet(raised, GraduatedTokens)
  IN xlm[DEX] \in (due - 2 * Cardinality(GraduatedTokens)) .. due

(* While the contract is paused nobody's position on a curve changes: what *)
(* is sold and what was raised stay, whatever the owner does meanwhile.    *)
PauseStopsTrading ==
  [][contractState # "Active" => curve' = curve /\ raised' = raised]_vars

(* Two launched tokens never share a symbol (FIX #M8, lib.rs:191, 287).         *)
SymbolsUnique ==
  \A t, u \in Token :
    t # u /\ status[t] # "Unlaunched" /\ status[u] # "Unlaunched" =>
      symbolOf[t] # symbolOf[u]

(* Every token counted as sold is in somebody's account, so the curve can  *)
(* be bought out of: burns and mints never fall behind tokens_sold.        *)
SoldTokensExist ==
  \A t \in Token :
    SumFunctionOnSet(bal[t], Account) >= curve[t].tokens_sold

(* A buy never takes the recorded holdings of its buyer above the cap,     *)
(* although the cap is tested with an estimate made before the fees, and   *)
(* the holdings grow by what is minted after them (lib.rs:428-447, 559).   *)
CapRespected ==
  [][\A a \in Account :
       whaleConfig.enabled /\ bal' # bal /\ walletHoldings'[a] > walletHoldings[a] =>
         HoldingsBps(walletHoldings'[a], INITIAL_SUPPLY) <= whaleConfig.maxBps]_vars

-----------------------------------------------------------------------------
(* What comments and documents of the repository say, and the code does    *)
(* not do.                                                                 *)

(* "Protect bonding curve reserves from withdrawal" (lib.rs:984; the       *)
(* counter's own comment, storage.rs:199-200, says the amount cannot be    *)
(* withdrawn): what is locked for the tokens on the curve is there.        *)
ReservesProtected == xlm[FACTORY] >= totalLocked

(* "Failed - mark as GraduationFailed so recovery is possible"             *)
(* (lib.rs:2202), and manual_graduation "is useful if automatic graduation *)
(* failed due to external factors" (lib.rs:2167): for a token whose        *)
(* graduation failed, one of the owner's recovery calls is open.           *)
FailedGraduationRecoverable ==
  \A t \in failedGraduations :
    status[t] = "Bonding" =>
      \E a \in Account : MayRecover(a, t) \/ MayGraduateManually(a, t)

(* "This ensures at least 80% goes to the main XLM/TOKEN pool"             *)
(* (lib.rs:1350, of set_astro_config).                                     *)
MainPoolGetsItsShare ==
  \A t \in Token : status[t] = "Graduated" => pool[t] >= Percent(raised[t], 80)

(* "Protocol Fee (0.05%): 0.05 XLM -> Treasury multi-sig"                  *)
(* (FEE_SYSTEM_IMPLEMENTATION.md:41): fees are XLM, so the tokens in       *)
(* accounts are the tokens the curve sold.                                 *)
OnlySoldTokensExist ==
  \A t \in Token : SumFunctionOnSet(bal[t], Account) = curve[t].tokens_sold

(* "Maximum wallet holdings as basis points of total supply.  Above this,  *)
(* purchases are BLOCKED" (anti_whale.rs:59-60): with the cap enabled, no  *)
(* buy leaves its buyer with more of the token than the cap.               *)
HoldingsWithinCap ==
  [][\A a \in Account, t \in Token :
       whaleConfig.enabled /\ walletHoldings'[a] > walletHoldings[a] /\ bal'[t][a] > bal[t][a] =>
         HoldingsBps(bal'[t][a], INITIAL_SUPPLY) <= whaleConfig.maxBps]_vars
=============================================================================
