--------------------------- MODULE FactoryClient ----------------------------
(***************************************************************************)
(* The web application's client of the factory (sac-factory.service.ts,    *)
(* base-contract.service.ts) with the arithmetic it shares with the pages  *)
(* (bonding-curve.utils.ts) and the adapter of the contract's answers      *)
(* (contract-adapter.ts), at work beside the factory and the pair of one   *)
(* token, which others trade and which graduates in the meantime.          *)
(* Every method is a sequence of reads of the network; a read sees the     *)
(* chain of its own moment, or fails.                                      *)
(***************************************************************************)
EXTENDS AmmPair, Sequences

CONSTANTS
    FirstCurve,      \* [xlm, token, raised] of the bonding curve at first
    INITIAL_SUPPLY,  \* tokens the curve begins with
    VirtualReserve,  \* XLM the curve begins with, which nobody paid
    FirstAccount,    \* [xlm, token, holdings] of the user at first
    FeeConfigs,      \* fees the administrators choose from: [creation, protocol, lp]
    WhaleConfigs,    \* limits they choose from: [enabled, max, tiers, cooldown]
    Decimals,        \* amounts of XLM or tokens typed, as [int, frac]: digits before
                     \* and after the point
    DecimalPlaces,   \* 7 in the code: digits of an amount in stroops
    SwapAmount,      \* the amount others swap on the pair
    PairDeposit,     \* what a graduation puts into each side of the pair
    Raised,          \* XLM raised at which the token graduates
    MinTrade,        \* the smallest trade the factory accepts, 0.1 XLM
    CallBound,       \* bound of the model on the methods called
    ClientMoves,     \* bound of the model on the trades of others beside a method
    MarketBound      \* bound of the model on the trades of others in all

ASSUME FactoryClientAssumption ==
    /\ {DecimalPlaces, CallBound, ClientMoves, MarketBound, SwapAmount, PairDeposit} \subseteq Nat
    /\ FirstCurve \in [xlm : Nat \ {0}, token : Nat \ {0}, raised : Nat] /\ Raised \in Nat \ {0}
    /\ INITIAL_SUPPLY \in Nat \ {0} /\ VirtualReserve \in Nat \ {0}
    /\ FeeConfigs \subseteq [creation : Nat, protocol : 0 .. 100, lp : 0 .. 100]
    /\ \A w \in WhaleConfigs : w.tiers \in Seq([from : Nat, fee : 0 .. 5000])
    \* A million stroops in the code: the client's one per cent covers the fees from 300.
    /\ MinTrade \in Nat /\ MinTrade >= 300
    /\ \A d \in Decimals : d.int \in Nat /\ d.frac \in Seq(0 .. 9)

VARIABLES
    factoryToken,  \* TokenInfo of the factory: [status, xlm, token, k, raised]
    wallet,        \* external: the account of the user, with what the factory records of
                   \* it: [xlm, token, holdings, cooling]
    marketMoves,   \* trades of others so far
    hasTrustline,  \* external: the user's account trusts the token's asset
    call,          \* the method at work: [method, at, typed, amount, info]
    context,       \* the last answer of getTradingContext
    prepared,      \* the last answer of a method that prepares a transaction
    sent,          \* external: the signed trade on the network: [at, operation]
    calls,         \* methods called so far
    settings,      \* the factory's configuration and counters: [fees, active, astro,
                   \* tokens, whales]
    answer         \* the last answer of a getter, as a function of its name

chainVars == <<pairVars, factoryToken, wallet, marketMoves>>
settingVars == <<settings, answer>>
tradeVars == <<prepared, sent>>
clientVars == <<hasTrustline, call, context, tradeVars, calls, settingVars>>
factoryVars == <<chainVars, clientVars>>

-----------------------------------------------------------------------------
\* bonding-curve.utils.ts.  A curve with an empty reserve gives nothing.
Usable(c) == c.xlm > 0 /\ c.token > 0 /\ c.k > 0
BuyOutputOf(c, x) == IF Usable(c) /\ x > 0 THEN c.token - c.k \div (c.xlm + x) ELSE 0
SellOutputOf(c, x) == IF Usable(c) /\ x > 0 THEN c.xlm - c.k \div (c.token + x) ELSE 0

\* calculateFeeBreakdown with the default fees of 5 and 25 bps, each rounded down.
FeeBreakdown(x) == [gross |-> x, protocol |-> (x * 5) \div 10000, lp |-> (x * 25) \div 10000]
NetOf(x) == x - FeeBreakdown(x).protocol - FeeBreakdown(x).lp
\* applyTradingFee, deprecated: the two fees rounded down together.
ApplyTradingFee(x) == x - (x * 30) \div 10000
BuyOutputNet(c, x) == BuyOutputOf(c, NetOf(x))
SellOutputNet(c, x) == NetOf(SellOutputOf(c, x))

\* A minimum one per cent below the output computed.
ApplyOutputTolerance(amount) == (amount * 9900) \div 10000

\* validateTradeInvariant: both reserves stay positive and their product within 0.01 %.
Apart(m, n) == IF m > n THEN m - n ELSE n - m
ValidTrade(c, dXlm, dToken) ==
    /\ c.xlm + dXlm > 0 /\ c.token + dToken > 0
    /\ Apart((c.xlm + dXlm) * (c.token + dToken), c.k) <= c.k \div 10000

\* The XLM a wanted output of tokens, below the reserve, asks for.
RequiredXlm(c, wanted) == c.k \div (c.token - wanted) - c.xlm

\* calculateAmmSwapOutput.  Mutant: without the fee.
AmmSwapOutput_NoFee(x, in, out) ==
    IF Positive(x, in, out) THEN (x * out) \div (in + x) ELSE 0
\* The fee as 997 of 1000.
AmmSwapOutput(x, in, out) ==
    IF Positive(x, in, out) THEN (x * 997 * out) \div (in * 1000 + x * 997) ELSE 0

-----------------------------------------------------------------------------
\* toStroopsBigInt: the digits after the point are cut or padded to seven, and the digits
\* before and after it are read as one number.
ToStroops(d) ==
    LET digit(i) == IF i <= Len(d.frac) THEN d.frac[i] ELSE 0
        value[i \in 0 .. DecimalPlaces] == IF i = 0 THEN d.int ELSE 10 * value[i - 1] + digit(i)
    IN  value[DecimalPlaces]

-----------------------------------------------------------------------------
\* contract-adapter.ts.  The adapter looks for the variant's name among the keys of the
\* status; but a unit enum arrives as an array of one symbol, whose only key is its index.
Keys(status) == {"0"}

\* Whatever is not recognised counts as Bonding, and so every token does: the branches of
\* the application for a graduated token follow the code below, and are never taken.
AdaptTokenStatus(status) == IF "Graduated" \in Keys(status) THEN "Graduated" ELSE "Bonding"

\* token_reserve is the contract's tokens_remaining; validateBondingCurveInvariant allows
\* the product to be 0.1 % away and only warns.
AdaptBondingCurve(t) == [xlm |-> t.xlm, token |-> t.token, k |-> t.k]
CurveInvariantHolds(c) == Apart(c.xlm * c.token, c.k) <= c.k \div 1000

NoInfo == [found |-> FALSE, status |-> "Bonding", curve |-> [xlm |-> 0, token |-> 0, k |-> 0],
           raised |-> 0]
AdaptTokenInfo(t) ==
    [found |-> TRUE, status |-> AdaptTokenStatus(t.status), curve |-> AdaptBondingCurve(t),
     raised |-> t.raised]
IsTokenGraduated(info) == info.status = "Graduated"
\* Never so: the adapter knows no failed graduation.
IsGraduationFailed(info) == info.status = "GraduationFailed"

\* What the service makes of a token's curve: the output before fees, for the minimum of
\* a trade, and after fees, for the screens.
CalculateBuyOutput(info, x) == BuyOutputOf(info.curve, x)
CalculateSellOutput(info, x) == SellOutputOf(info.curve, x)
CalculateBuyOutputNet(info, x) == BuyOutputNet(info.curve, x)
CalculateSellOutputNet(info, x) == SellOutputNet(info.curve, x)

\* The calls of contracts a transaction can carry; each lives for five minutes.
BuildOperation(function, amount, least) == [function |-> function, amount |-> amount, least |-> least]
BuyOperation(x, minTokens) == BuildOperation("buy", x, minTokens)
SellOperation(x, minXlm) == BuildOperation("sell", x, minXlm)
ResetWalletHoldingsOperation(balance) == BuildOperation("reset_wallet_holdings", balance, 0)
ClearWalletHoldingsOperation == BuildOperation("clear_wallet_holdings", 0, 0)
NoOperation == BuildOperation("none", 0, 0)

-----------------------------------------------------------------------------
\* The getters of one call each.  callReadOnly throws on a timeout of 15 seconds, on a
\* failed simulation and on an unexpected answer; each getter catches that and answers
\* a default of its own, which is also its answer to an empty result.
GetTokenInfo(ok) == IF ok THEN AdaptTokenInfo(factoryToken) ELSE NoInfo
GetAmmPairAddress(ok) == ok /\ factoryToken.status = "Graduated"
NoPairInfo == [found |-> FALSE, reserve |-> [s \in Sides |-> 0]]
GetAmmPairInfo(ok) == IF ok THEN [found |-> TRUE, reserve |-> pair.reserve] ELSE NoPairInfo

\* The getters of the configuration and of the counters.  The default of each is what
\* the factory was deployed with, whatever it has been changed to since.
DefaultFees == [creation |-> 10, protocol |-> 5, lp |-> 25]
GetTotalTradingFeeBps(config) == config.protocol + config.lp
GetFeeConfig(ok) == IF ok THEN settings.fees ELSE DefaultFees
GetState(ok) == ok => settings.active
GetAstroConfig(ok) == IF ok /\ settings.astro THEN "configured" ELSE "none"
IsAstroEnabled(ok) == ok /\ settings.astro
GetTokenCount(ok) == IF ok THEN Len(settings.tokens) ELSE 0
GetCreatorTokens(ok) == IF ok THEN settings.tokens ELSE <<>>
GetCreatorTokensPaginated(ok, limit) ==
    SubSeq(GetCreatorTokens(ok), 1, IF Len(GetCreatorTokens(ok)) < limit THEN Len(GetCreatorTokens(ok)) ELSE limit)
DefaultLimits == [enabled |-> TRUE, max |-> 5000, cooldown |-> TRUE]
GetAntiWhaleConfig(ok) ==
    IF ok THEN [x \in DOMAIN DefaultLimits |-> settings.whales[x]] ELSE DefaultLimits
IsAntiWhaleEnabled(ok) == ok => settings.whales.enabled
GetWalletTrackedHoldings(ok) == IF ok THEN wallet.holdings ELSE 0
GetPrice(ok) == IF ok THEN (factoryToken.xlm * 100) \div factoryToken.token ELSE 0
GetGraduationProgress(ok) ==
    IF ~ok THEN 0 ELSE IF factoryToken.raised < Raised THEN (factoryToken.raised * 10000) \div Raised ELSE 10000

\* calculateAstroAllocation with its defaults: three shares, each rounded down.
AstroAllocation(xlm) ==
    [main |-> (xlm * 8500) \div 10000, astro |-> (xlm * 1000) \div 10000,
     buyback |-> (xlm * 500) \div 10000]
AstroAllocationPercentages ==
    [main |-> (10000 - 1000 - 500) \div 100, astro |-> 1000 \div 100, buyback |-> 500 \div 100]

-----------------------------------------------------------------------------
\* The chain beside the client.
FactoryAmounts == {ToStroops(d) : d \in Decimals}
NoCall == [method |-> "none", at |-> "idle", typed |-> [int |-> 0, frac |-> <<>>], amount |-> 0,
           info |-> NoInfo]
NoContext == [info |-> NoInfo, pair |-> NoPairInfo, mode |-> "disabled", onChain |-> "Bonding",
              enabled |-> FALSE, failed |-> FALSE]
NoAnswer == [kind |-> "none", method |-> "none", operation |-> NoOperation, faulty |-> FALSE, stale |-> FALSE,
             refused |-> FALSE, costly |-> FALSE]
NotSent == [at |-> "none", operation |-> NoOperation]

\* A factory begins with the default fees and without limits on purchases.
NoLimits == [enabled |-> FALSE, max |-> 10000, tiers |-> <<>>, cooldown |-> FALSE]
FirstSettings == [fees |-> DefaultFees, active |-> TRUE, astro |-> FALSE, tokens |-> <<>>, whales |-> NoLimits]

FactoryInit ==
    /\ PairInit
    /\ factoryToken = [status |-> "Bonding", xlm |-> FirstCurve.xlm, token |-> FirstCurve.token,
                       k |-> FirstCurve.xlm * FirstCurve.token, raised |-> FirstCurve.raised]
    /\ wallet = [xlm |-> FirstAccount.xlm, token |-> FirstAccount.token,
                 holdings |-> FirstAccount.holdings, cooling |-> FALSE]
    /\ marketMoves = 0
    /\ hasTrustline = FALSE
    /\ call = NoCall /\ context = NoContext /\ prepared = NoAnswer /\ sent = NotSent
    /\ calls = 0 /\ settings = FirstSettings
    /\ answer = [x \in {"none"} |-> <<>>]

\* buy and sell of the factory, under its settings of now.  Each fee is rounded up; the LP
\* fee stays on the curve and the XLM raised are counted with the fees.
FeeUp(x, bps) == (x * bps + 9999) \div 10000
LpFee(x) == FeeUp(x, settings.fees.lp)
AfterFees(x) == x - FeeUp(x, settings.fees.protocol) - LpFee(x)

\* The limits on purchases look at the holdings recorded of the buyer, held, with what the
\* buy would bring before fees; the last tier reached is a tax on what the fees leave.
HoldingsBps(c, x, held) == ((held + BuyOutputOf(c, x)) * 10000) \div INITIAL_SUPPLY
WithinLimits(c, x, held, cooling) ==
    settings.whales.enabled => /\ settings.whales.cooldown => ~cooling
                               /\ HoldingsBps(c, x, held) <= settings.whales.max
TaxBps(c, x, held) ==
    LET tiers == settings.whales.tiers
        reached == Cardinality({i \in DOMAIN tiers : tiers[i].from <= HoldingsBps(c, x, held)})
    IN  IF settings.whales.enabled /\ reached > 0 THEN tiers[reached].fee ELSE 0
NetOfBuy(c, x, held) == AfterFees(x) - (AfterFees(x) * TaxBps(c, x, held)) \div 10000

FactoryBuyPays(c, x, held) == BuyOutputOf(c, NetOfBuy(c, x, held))
FactorySellPays(c, x) == AfterFees(SellOutputOf(c, x))
WithProduct(t) == [t EXCEPT !.k = t.xlm * t.token]
AfterBuy(t, x, held) ==
    WithProduct([t EXCEPT !.xlm = @ + NetOfBuy(t, x, held) + LpFee(x),
                          !.token = @ - FactoryBuyPays(t, x, held), !.raised = @ + x])
Released(t, x) == SellOutputOf(t, x) - LpFee(SellOutputOf(t, x))
AfterSell(t, x) ==
    WithProduct([t EXCEPT !.token = @ + x, !.xlm = @ - Released(t, x), !.raised = @ - SellOutputOf(t, x)])

\* The sizes the factory takes: no trade too small, no buy of nothing or of every token
\* left, which would leave no price, and no sell of more tokens than were sold, of more XLM
\* than were raised or of more than is locked, which is what the virtual reserve leaves.
WithinBounds(t, sell, x, held) ==
    IF sell THEN /\ x <= INITIAL_SUPPLY - t.token
                 /\ SellOutputOf(t, x) \in MinTrade .. t.raised
                 /\ Released(t, x) <= t.xlm - VirtualReserve
    ELSE x >= MinTrade /\ FactoryBuyPays(t, x, held) \in 1 .. t.token - 1

\* A buy that reaches the threshold graduates the token in the same call: the factory
\* opens the pair and makes its first deposit.  It succeeds here.
Graduating(t, x, held) == AfterBuy(t, x, held).raised >= Raised
FirstPool == [exists |-> TRUE, reserve |-> [s \in Sides |-> PairDeposit],
              total_supply |-> Sqrt(PairDeposit * PairDeposit)]
FactoryBuys(x, held) ==
    LET graduates == Graduating(factoryToken, x, held)
    IN  /\ factoryToken' = [AfterBuy(factoryToken, x, held) EXCEPT !.status = IF graduates THEN "Graduated" ELSE @]
        /\ pair' = IF graduates THEN FirstPool ELSE pair
        /\ UNCHANGED <<lpBalance, purse, ledgerTime, pairOps>>
FactorySells(x) == factoryToken' = AfterSell(factoryToken, x) /\ UNCHANGED pairVars

\* The user's own trades: what the factory refuses whatever the minimum, and what it leaves
\* the user.  It records what it sold, whoever has it since.
Takes(sell, x) ==
    /\ settings.active /\ factoryToken.status = "Bonding"
    /\ WithinBounds(factoryToken, sell, x, wallet.holdings)
    /\ IF sell THEN x <= wallet.token
       ELSE x <= wallet.xlm /\ WithinLimits(factoryToken, x, wallet.holdings, wallet.cooling)
Pays(sell, x) ==
    IF sell THEN FactorySellPays(factoryToken, x) ELSE FactoryBuyPays(factoryToken, x, wallet.holdings)
UserTrades(sell, x) ==
    LET out == Pays(sell, x)
    IN  IF sell
        THEN /\ FactorySells(x)
             /\ wallet' = [wallet EXCEPT !.xlm = @ + out, !.token = @ - x,
                                         !.holdings = IF @ > x THEN @ - x ELSE 0]
        ELSE /\ FactoryBuys(x, wallet.holdings)
             /\ wallet' = [wallet EXCEPT !.xlm = @ - x, !.token = @ + out, !.holdings = @ + out,
                                         !.cooling = TRUE]

\* Others, of whom the factory has no record yet and who can pay.
OthersTrade(x) ==
    /\ settings.active /\ factoryToken.status = "Bonding" /\ marketMoves < MarketBound
    /\ \/ /\ WithinBounds(factoryToken, FALSE, x, 0) /\ WithinLimits(factoryToken, x, 0, FALSE)
          /\ FactoryBuys(x, 0)
       \/ WithinBounds(factoryToken, TRUE, x, 0) /\ FactorySells(x)
    /\ marketMoves' = marketMoves + 1
    /\ UNCHANGED <<wallet, clientVars>>

OthersSwap(s) ==
    /\ marketMoves < MarketBound /\ marketMoves' = marketMoves + 1
    /\ SwapAccepted(s, SwapAmount, 0, ledgerTime) /\ KeepsProduct(s, SwapAmount)
    /\ pair' = Swapped(s, SwapAmount)
    /\ UNCHANGED <<lpBalance, purse, ledgerTime, pairOps, factoryToken, wallet, clientVars>>

-----------------------------------------------------------------------------
\* A method is called when no other is at work (the page awaits it).
StartCall(method, typed) ==
    /\ call.at = "idle" /\ calls < CallBound
    /\ call' = [NoCall EXCEPT !.method = method, !.at = "info", !.typed = typed,
                            !.amount = ToStroops(typed)]
    /\ calls' = calls + 1
    /\ UNCHANGED <<chainVars, hasTrustline, context, tradeVars, settingVars>>

Reads == UNCHANGED <<chainVars, hasTrustline, sent, calls, settingVars>>

\* getTradingContext.  A token that is not found is disabled, one that is not graduated
\* trades on the curve, and one that is on its pair, read as of the same moment here.
TradingContext(info, okAddress, okPair) ==
    LET mode == CASE ~info.found -> "disabled"
                  [] info.found /\ ~IsTokenGraduated(info) -> "bonding"
                  [] OTHER -> IF GetAmmPairAddress(okAddress) THEN "amm" ELSE "disabled"
    IN  [info |-> info, mode |-> mode, pair |-> IF mode = "amm" THEN GetAmmPairInfo(okPair) ELSE NoPairInfo]
ContextOf(c, onChain) ==
    [info |-> c.info, pair |-> c.pair, mode |-> c.mode, onChain |-> onChain,
     enabled |-> c.mode = "bonding" \/ c.pair.found, failed |-> IsGraduationFailed(c.info)]
ReadContext(ok, okAddress, okPair) ==
    /\ call.method = "context" /\ call.at = "info" /\ Reads /\ UNCHANGED prepared
    /\ call' = NoCall
    /\ context' = ContextOf(TradingContext(GetTokenInfo(ok), okAddress, okPair), factoryToken.status)

\* prepareBuyWithTrustline: the token, the account's trustlines (read once more when the
\* first read fails, to build the trustline all the same), and the buy only when there is
\* one.  prepareSellTransaction and prepareBuyTransaction start at "again".
Answer(kind) == /\ call' = NoCall /\ UNCHANGED context
                /\ prepared' = [NoAnswer EXCEPT !.kind = kind]
ReadTradeInfo(ok) ==
    /\ call.method = "buyWithTrustline" /\ call.at = "info" /\ Reads
    /\ IF GetTokenInfo(ok).found THEN /\ call' = [call EXCEPT !.at = "account"]
                                      /\ UNCHANGED <<context, prepared>>
       ELSE Answer("Token not found")

\* Mutant: an account that could not be read is taken to have a trustline.
LoadAccount_Optimistic(ok, again) ==
    /\ call.at = "account" /\ Reads
    /\ IF ok /\ ~hasTrustline THEN Answer("trustline")
       ELSE call' = [call EXCEPT !.at = "again"] /\ UNCHANGED <<context, prepared>>

LoadAccount(ok, again) ==
    /\ call.at = "account" /\ Reads
    /\ IF ok /\ hasTrustline
       THEN call' = [call EXCEPT !.at = "again"] /\ UNCHANGED <<context, prepared>>
       ELSE Answer(IF ok \/ again THEN "trustline" ELSE "Unable to create trustline")

\* The read of the token for the minimum, the second one of a buy with its trustline.
ReadForMinimum(ok) ==
    LET info == GetTokenInfo(ok)
    IN  /\ \/ call.at = "again"
           \/ call.method \in {"buy", "sell"} /\ call.at = "info"
        /\ Reads
        /\ IF info.found THEN /\ call' = [call EXCEPT !.at = "simulate", !.info = info]
                              /\ UNCHANGED <<context, prepared>>
           ELSE Answer("Token not found")

\* prepareTransaction loads the account and simulates the call: the factory refuses what it
\* does not take, an output below the minimum and a buyer without trustline.
TradeOperation ==
    IF call.method = "sell"
    THEN SellOperation(call.amount, ApplyOutputTolerance(CalculateSellOutput(call.info, call.amount)))
    ELSE BuyOperation(call.amount, ApplyOutputTolerance(CalculateBuyOutput(call.info, call.amount)))
Sells(operation) == operation.function = "sell"
Accepted(operation) ==
    /\ Takes(Sells(operation), operation.amount)
    /\ Sells(operation) \/ hasTrustline
    /\ Pays(Sells(operation), operation.amount) >= operation.least

\* The charges of a trade are more than one per cent of the XLM that go in or come out.
MoreThanTolerated(gross, net) == 100 * (gross - net) > gross
Costly(sell, x) ==
    IF sell THEN MoreThanTolerated(SellOutputOf(factoryToken, x), FactorySellPays(factoryToken, x))
    ELSE MoreThanTolerated(x, NetOfBuy(factoryToken, x, wallet.holdings))
Simulate(ok) ==
    LET sell == Sells(TradeOperation)
    IN  /\ call.at = "simulate" /\ Reads /\ UNCHANGED context
        /\ call' = NoCall
        /\ prepared' = [kind |-> IF ok /\ Accepted(TradeOperation) THEN "trade" ELSE "Simulation failed",
                        method |-> call.method, operation |-> TradeOperation, faulty |-> ~ok,
                        stale |-> AdaptTokenInfo(factoryToken) # call.info,
                        refused |-> ~Takes(sell, call.amount), costly |-> Costly(sell, call.amount)]

\* The trustline that was handed out is signed and submitted; Horizon may refuse it.
SubmitTrustline(ok) ==
    /\ call.at = "idle" /\ prepared.kind = "trustline"
    /\ hasTrustline' = (hasTrustline \/ ok)
    /\ prepared' = NoAnswer
    /\ UNCHANGED <<chainVars, call, context, sent, calls, settingVars>>

\* submitBuyTransaction and submitSellTransaction, of the trade the wallet has signed: the
\* network takes it, or refuses it at once.
SubmitTrade(function, ok) ==
    /\ call.at = "idle" /\ prepared.kind = "trade" /\ prepared.operation.function = function
    /\ UNCHANGED <<chainVars, hasTrustline, context, calls, settingVars>>
    /\ IF ok THEN /\ call' = [NoCall EXCEPT !.method = "submit", !.at = "poll"]
                  /\ sent' = [at |-> "pending", operation |-> prepared.operation]
                  /\ prepared' = NoAnswer
       ELSE prepared' = [NoAnswer EXCEPT !.kind = "Transaction submission failed"] /\ UNCHANGED <<call, sent>>
SubmitBuyTransaction(ok) == SubmitTrade("buy", ok)
SubmitSellTransaction(ok) == SubmitTrade("sell", ok)

\* The polls end with the trade's result, or after 30 of them, when the trade may still
\* be executed: it lives for ten times as long.
EndPolls(ok) ==
    LET known == ok /\ sent.at \in {"success", "failed"}
    IN  /\ call.at = "poll" /\ UNCHANGED <<chainVars, hasTrustline, calls, settingVars>>
        /\ sent' = IF known THEN NotSent ELSE sent
        /\ Answer(CASE known /\ sent.at = "success" -> "submitted"
                     [] known /\ sent.at = "failed" -> "Transaction failed"
                     [] OTHER -> "Transaction timed out waiting for confirmation")

\* External: the network executes the trade, or its five minutes are over.
Ends(result) == sent' = IF call.at = "poll" THEN [sent EXCEPT !.at = result] ELSE NotSent
ExecuteTrade ==
    LET x == sent.operation.amount
    IN  /\ sent.at = "pending"
        /\ IF Accepted(sent.operation)
           THEN Ends("success") /\ UserTrades(Sells(sent.operation), x)
           ELSE Ends("failed") /\ UNCHANGED <<factoryToken, wallet, pairVars>>
        /\ UNCHANGED <<marketMoves, hasTrustline, call, context, prepared, calls, settingVars>>
TradeExpires ==
    /\ sent.at = "pending" /\ call.at # "poll"
    /\ sent' = NotSent
    /\ UNCHANGED <<chainVars, hasTrustline, call, context, prepared, calls, settingVars>>

\* buyTokens and sellTokens, deprecated: they build the call and answer an error.
Deprecated == [buyTokens |-> "Use prepareBuyTransaction flow", sellTokens |-> "Use prepareSellTransaction flow"]
DeprecatedTrade(method, ok) ==
    /\ call.method = method /\ call.at = "info" /\ Reads
    /\ Answer(IF GetTokenInfo(ok).found THEN Deprecated[method] ELSE "Token not found")
BuyTokens(ok) == DeprecatedTrade("buyTokens", ok)
SellTokens(ok) == DeprecatedTrade("sellTokens", ok)

\* The administrators of the factory change its fees and its limits and pause it, people
\* launch tokens, and the time since the user's last buy passes.
AdministratorActs ==
    /\ \/ \E f \in FeeConfigs : settings' = [settings EXCEPT !.fees = f]
       \/ \E w \in WhaleConfigs : settings' = [settings EXCEPT !.whales = w]
       \/ settings' = [settings EXCEPT !.active = ~@]
    /\ UNCHANGED <<chainVars, hasTrustline, call, context, tradeVars, calls, answer>>
CooldownEnds ==
    /\ wallet.cooling /\ wallet' = [wallet EXCEPT !.cooling = FALSE]
    /\ UNCHANGED <<pairVars, factoryToken, marketMoves, clientVars>>
OtherSettings ==
    /\ \/ settings' = [settings EXCEPT !.astro = ~@]
       \/ Len(settings.tokens) < MarketBound
             /\ settings' = [settings EXCEPT !.tokens = Append(@, Len(@) + 1)]
    /\ UNCHANGED <<chainVars, hasTrustline, call, context, tradeVars, calls, answer>>

\* prepareResetWalletHoldingsTransaction and prepareClearWalletHoldingsTransaction, which
\* the factory grants its owner alone; signed and submitted, they replace what it holds
\* the wallet to own.
PrepareHoldings(operation, ok) ==
    /\ prepared' = IF ok THEN [NoAnswer EXCEPT !.kind = "holdings", !.operation = operation]
                   ELSE [NoAnswer EXCEPT !.kind = "Simulation failed", !.faulty = TRUE]
    /\ UNCHANGED <<chainVars, hasTrustline, call, context, sent, calls, settingVars>>
PrepareResetWalletHoldings(balance, ok) == PrepareHoldings(ResetWalletHoldingsOperation(balance), ok)
PrepareClearWalletHoldings(ok) == PrepareHoldings(ClearWalletHoldingsOperation, ok)
SubmitHoldings ==
    /\ prepared.kind = "holdings"
    /\ wallet' = [wallet EXCEPT !.holdings = prepared.operation.amount,
                                !.cooling = @ /\ prepared.operation # ClearWalletHoldingsOperation]
    /\ prepared' = NoAnswer
    /\ UNCHANGED <<pairVars, factoryToken, marketMoves, hasTrustline, call, context, sent, calls, settingVars>>

Getters(ok) ==
    [fees |-> GetFeeConfig(ok), tradingFee |-> GetTotalTradingFeeBps(GetFeeConfig(ok)), state |-> GetState(ok), astro |-> GetAstroConfig(ok),
     astroEnabled |-> IsAstroEnabled(ok), count |-> GetTokenCount(ok),
     created |-> GetCreatorTokens(ok), page |-> GetCreatorTokensPaginated(ok, 1),
     whales |-> GetAntiWhaleConfig(ok), whalesEnabled |-> IsAntiWhaleEnabled(ok),
     holdings |-> GetWalletTrackedHoldings(ok), price |-> GetPrice(ok),
     progress |-> GetGraduationProgress(ok), allocation |-> AstroAllocation(Raised),
     percentages |-> AstroAllocationPercentages]
AskFactory(g, ok) ==
    /\ answer' = [x \in {g} |-> Getters(ok)[x]]
    /\ UNCHANGED <<chainVars, hasTrustline, call, context, tradeVars, calls, settings>>
SettingsNext ==
    \/ AdministratorActs \/ CooldownEnds \/ OtherSettings \/ SubmitHoldings
    \/ \E ok \in BOOLEAN :
          \/ \E g \in DOMAIN Getters(TRUE) : AskFactory(g, ok)
          \/ PrepareResetWalletHoldings(1, ok) \/ PrepareClearWalletHoldings(ok)

ChainMoves ==
    /\ marketMoves < ClientMoves
    /\ (\E x \in FactoryAmounts : OthersTrade(x)) \/ (\E s \in Sides : OthersSwap(s))

FactoryNext ==
    \/ ChainMoves
    \/ \E m \in {"buyWithTrustline", "buy", "sell", "buyTokens", "sellTokens", "context"},
          d \in Decimals :
          StartCall(m, d)
    \/ \E ok \in BOOLEAN :
          \/ \E okAddress, okPair \in BOOLEAN : ReadContext(ok, okAddress, okPair)
          \/ ReadTradeInfo(ok)
          \/ \E again \in BOOLEAN : LoadAccount(ok, again)
          \/ ReadForMinimum(ok)
          \/ Simulate(ok)
          \/ SubmitTrustline(ok)
          \/ SubmitBuyTransaction(ok)
          \/ SubmitSellTransaction(ok)
          \/ EndPolls(ok)
          \/ BuyTokens(ok)
          \/ SellTokens(ok)
    \/ ExecuteTrade
    \/ TradeExpires

FactorySpec == FactoryInit /\ [][FactoryNext \/ SettingsNext]_factoryVars

-----------------------------------------------------------------------------
\* A token the factory had graduated when its record was read trades on its pair, or not
\* at all when the pair cannot be read: never on the curve the factory refuses.
GraduatedTradesOnAmm ==
    context.onChain = "Graduated" => context.mode \in {"amm", "disabled"}

\* A trade whose simulation answered, of a market that did not move after the minimum was
\* computed, is refused only when the factory takes no such trade whatever the minimum, or
\* charges more than one per cent for it: the tolerance of one per cent covers all charges
\* up to there, which the client leaves out of its expected output and the contract rounds
\* up one by one.  Only the method that does not look for a trustline is refused for the
\* want of one, and no such buy reaches the wallet.
FreshTradesSimulate ==
    /\ prepared.kind = "Simulation failed" =>
           \/ prepared.faulty \/ prepared.stale \/ prepared.refused \/ prepared.costly
           \/ prepared.method = "buy" /\ ~hasTrustline
    /\ prepared.kind = "trade" /\ prepared.operation.function = "buy" => hasTrustline

\* Of a curve c and an amount x, while the charges are those the client knows, a net quote
\* out is at least what the factory pays and, of an amount the factory accepts, within the
\* tolerance of it; so is the quote of a sell.
ChargesAreKnown == settings.fees.protocol = 5 /\ settings.fees.lp = 25
QuoteWithinTolerance(c, x, out, paid) ==
    /\ ChargesAreKnown /\ TaxBps(c, x, wallet.holdings) = 0 =>
           /\ FactoryBuyPays(c, x, wallet.holdings) <= out
           /\ x >= MinTrade => FactoryBuyPays(c, x, wallet.holdings) >= ApplyOutputTolerance(out)
    /\ ChargesAreKnown /\ SellOutputOf(c, x) >= MinTrade =>
           FactorySellPays(c, x) \in ApplyOutputTolerance(paid) .. paid
    /\ ApplyTradingFee(x) \in NetOf(x) - 1 .. NetOf(x)

\* It is a valid trade, selling the tokens bought returns no more than was paid for them,
\* and the XLM asked for an output that some amount buys does buy it, although both are
\* rounded down.
\* The product of a valid trade is off by less than the XLM reserve, from rounding: within
\* the 0.01 % as long as ten thousand tokens are left, and more for a large amount.
AfterNetBuy(c, x, out) == [c EXCEPT !.xlm = @ + NetOf(x), !.token = @ - out]
QuoteIsSound(c, x, out) ==
    /\ CurveInvariantHolds(c)
    /\ (c.xlm + x) * 10000 <= c.k => ValidTrade(c, NetOf(x), -out)
    /\ SellOutputOf(AfterNetBuy(c, x, out), out) <= NetOf(x)
    /\ out < c.token => BuyOutputOf(c, RequiredXlm(c, out)) = out

\* The client's own arithmetic agrees with what is paid, on every curve reached and for
\* every amount typed, as long as the factory charges what the client takes it to charge.
CurveQuotesAgree ==
    \A x \in FactoryAmounts :
        LET info == AdaptTokenInfo(factoryToken)
            out == CalculateBuyOutputNet(info, x)
        IN  /\ QuoteWithinTolerance(info.curve, x, out, CalculateSellOutputNet(info, x))
            /\ QuoteIsSound(info.curve, x, out)

\* calculateAmmSwapOutput computes of a pair's reserves what the pair pays for a swap,
\* although the two write the fee and the division in their own way.
SwapQuoteIsPaid ==
    \A s \in Sides : \A x \in 1 .. PairDeposit :
        AmmSwapOutput(x, pair.reserve[s], pair.reserve[Other(s)]) = SwapPays(s, x)

\* The quotes of bonding-curve.utils.ts and of calculateAmmSwapOutput are those of the
\* contracts they copy, on every curve and every pair reached.
QuotesAgree == CurveQuotesAgree /\ SwapQuoteIsPaid

=============================================================================
