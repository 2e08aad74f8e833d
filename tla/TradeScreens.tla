---------------------------- MODULE TradeScreens -----------------------------
(***************************************************************************)
(* The screens of the trading components (TradingWidgetPremium,            *)
(* TradingWidget, TradingInterface and the parts of widgets/trading): what *)
(* they read of the token and of the wallet, which of their controls can   *)
(* be pressed when, what a control puts into the form, and how the screen  *)
(* comes back after a trade.  The trade itself, with its transaction, is   *)
(* that of TradeClient: here it goes through its stages, fails in any of   *)
(* them, or moves the chain of FactoryClient.                              *)
(* Amounts are stroops; a tolerance is per mille.                          *)
(***************************************************************************)
EXTENDS FactoryClient

CONSTANTS
    ScreenSlots,     \* reads of a screen that can be on their way at once: a bound
    QuickAmounts,    \* amounts of XLM the quick buttons offer, and a user types
    OutsideAmounts,  \* amounts others trade beside the screen
    XlmSide,         \* the side of the pair that is XLM
    TwoPlaces,       \* stroops in the last digit of toFixed(2)
    FourPlaces,      \* stroops in the last digit of toFixed(4)
    ScreenMoves,     \* bound of the model on the trades of others beside a screen
    ScreenEdits,     \* bound of the model on what the user presses
    ScreenFaults     \* bound of the model on reads that fail

ASSUME TradeScreensAssumption ==
    /\ XlmSide \in Sides /\ TwoPlaces \in Nat \ {0} /\ FourPlaces \in Nat \ {0}
    /\ QuickAmounts \subseteq Nat /\ OutsideAmounts \subseteq Nat
    /\ {ScreenMoves, ScreenEdits, ScreenFaults} \subseteq Nat

VARIABLES
    mounted,   \* the component on the page, or "none"
    account,   \* external: [connected, late], late a trade given up that may still be
               \* executed
    inputs,    \* the form: [type, amount, output, tolerance, token, open]
    loaded,    \* what it knows: [of, context, previous, xlm, token, fetching]
    reading,   \* reading[s]: [at, of, tolerance, known, unlocks, answer]
    quoteDue,  \* the timer of 300 ms before the output is computed
    work,      \* the trade: [status, locked, type, amount, min, token, mode, tolerance, known]
    presses,   \* what the user pressed so far
    faults     \* reads that failed so far

screenVars == <<mounted, account, inputs, loaded, reading, quoteDue, work, presses, faults>>

Busy == work.status \in {"preparing", "signing", "submitting", "confirming"}
Fixed(x, grain) == ((2 * x + grain) \div (2 * grain)) * grain
OneXlm == 10 ^ DecimalPlaces
NotLoaded == -1
ValueOf(x) == IF x = NotLoaded THEN 0 ELSE x

-----------------------------------------------------------------------------
\* The tokens of TradingWidget: two of the testnet's own, one of them with an issuer,
\* and two of the platform, of which the chain moves the first.
TESTNET_TOKENS == {"usdc", "tta"}
AllTokens == TESTNET_TOKENS \cup {"listed", "unlisted"}
HasIssuer(token) == token = "usdc"
\* Tokens for one XLM, 12.5 in the code.
SIMULATED_PRICE == 12
UnlistedCurve == [xlm |-> FirstCurve.xlm, token |-> FirstCurve.token, k |-> FirstCurve.xlm * FirstCurve.token]
InfoOf(token, ok) ==
    CASE token = "listed" -> GetTokenInfo(ok)
      [] token = "unlisted" /\ ok -> [NoInfo EXCEPT !.found = TRUE, !.curve = UnlistedCurve]
      [] OTHER -> NoInfo

\* A pair whose figures cannot be read leaves the mode of the pool with the quotes and the
\* trades of the curve.
NoTradingContext == [info |-> NoInfo, pair |-> NoPairInfo, mode |-> "disabled"]

Info == loaded.context.info
OnPool(c) == c.mode = "amm" /\ c.pair.found
XlmReserve(c) == c.pair.reserve[XlmSide]
TokenReserve(c) == c.pair.reserve[Other(XlmSide)]

\* calculatePriceFromReserves, in hundredths here.
CurvePrice(info) == IF ~info.found \/ info.curve.token = 0 THEN 0 ELSE (info.curve.xlm * 100) \div info.curve.token
CurrentPrice(c) ==
    CASE OnPool(c) /\ TokenReserve(c) > 0 -> (XlmReserve(c) * 100) \div TokenReserve(c)
      [] OnPool(c) -> 0
      [] OTHER -> CurvePrice(c.info)
\* The change since the load before, also on the pool that of the curve.
PriceChange == IF ~Info.found \/ loaded.previous = 0 THEN 0
               ELSE ((CurvePrice(Info) - loaded.previous) * 100) \div loaded.previous

\* calculateOutput of the premium widget: on the pool its fee is part of the formula.
PremiumOutput ==
    LET x == inputs.amount
        c == loaded.context
        swap(in, out) == AmmSwapOutput(x, in, out)
    IN  CASE x = 0 \/ ~Info.found -> 0
          [] x > 0 /\ Info.found /\ OnPool(c) ->
                 Fixed(IF inputs.type = "buy" THEN swap(XlmReserve(c), TokenReserve(c))
                       ELSE swap(TokenReserve(c), XlmReserve(c)), FourPlaces)
          [] OTHER -> Fixed(ApplyTradingFee(IF inputs.type = "buy" THEN BuyOutputOf(Info.curve, x)
                                            ELSE SellOutputOf(Info.curve, x)), FourPlaces)

\* calculateOutput of TradingWidget follows every change at once.
BasicOutput ==
    LET x == inputs.amount
    IN  CASE x > 0 /\ Info.found -> Fixed(IF inputs.type = "buy" THEN BuyOutputNet(Info.curve, x)
                                          ELSE SellOutputNet(Info.curve, x), FourPlaces)
          [] x > 0 /\ ~Info.found /\ HasIssuer(inputs.token) ->
                 IF inputs.type = "buy" THEN x * SIMULATED_PRICE ELSE x \div SIMULATED_PRICE
          [] OTHER -> 0

\* calculateEstimatedOutput of TradingInterface, from the gateway's row of the token: a
\* curve between the reserve and the tokens sold, or a thousand tokens for each XLM.
EstimatedOutput(supply, reserve) ==
    LET x == inputs.amount
    IN  CASE supply = 0 \/ reserve = 0 -> x * 1000
          [] supply > 0 /\ reserve > 0 /\ inputs.type = "buy" -> supply - (reserve * supply) \div (reserve + x)
          [] OTHER -> reserve - (reserve * supply) \div (supply + x)

ShownOutput ==
    CASE mounted = "premium" -> inputs.output
      [] mounted = "basic" -> BasicOutput
      [] OTHER -> EstimatedOutput(INITIAL_SUPPLY - factoryToken.token, factoryToken.xlm)

-----------------------------------------------------------------------------
\* graduationInfo: the XLM missing, whether less than a tenth of it is, and whether the
\* buy typed would be enough.
Remaining == IF Info.found /\ Info.raised < Raised THEN Raised - Info.raised ELSE 0
IsNearGraduation == Info.found /\ Remaining * 10 < Raised
WouldGraduate == inputs.type = "buy" /\ inputs.amount > 0 /\ inputs.amount >= Remaining
GraduationWarning ==
    CASE loaded.context.mode # "bonding" \/ inputs.type # "buy" \/ Remaining = 0 -> "none"
      [] loaded.context.mode = "bonding" /\ WouldGraduate -> "triggers"
      [] OTHER -> IF IsNearGraduation THEN "almost" ELSE "none"

\* The balance MAX leaves: five per cent of the XLM, nothing of the tokens.
MaxAmount == IF inputs.type = "buy" THEN Fixed((ValueOf(loaded.xlm) * 95) \div 100, TwoPlaces)
             ELSE Fixed(ValueOf(loaded.token), TwoPlaces)
SetToMax == Fixed(IF Remaining - OneXlm > OneXlm \div 10 THEN Remaining - OneXlm ELSE OneXlm \div 10, TwoPlaces)
QUICK_SELL_PERCENTAGES == {25, 50, 75, 100}
QuickSells == {(ValueOf(loaded.token) * p) \div 100 : p \in QUICK_SELL_PERCENTAGES}

\* The controls of the premium widget that can be pressed.  The trade button connects
\* the wallet when there is none; the offer to stay below graduation is never disabled.
PremiumControls ==
    LET free == IF Busy THEN {} ELSE {"tabs", "switch", "trade"}
        typing == IF Busy \/ ~account.connected THEN {} ELSE {"amount", "max"} \cup
                  (CASE inputs.type = "buy" -> {"quick buy"}
                     [] inputs.type = "sell" /\ ValueOf(loaded.token) > 0 -> {"quick sell"}
                     [] OTHER -> {})
        pool == IF loaded.context.mode # "amm" THEN {}
                ELSE {"refresh"} \cup (IF Busy THEN {} ELSE {"tolerance"})
    IN  free \cup typing \cup pool \cup (IF GraduationWarning = "triggers" THEN {"set to max"} ELSE {})

\* The button of TradingWidget: never for a token of the testnet that is not on a curve.
TradeButtonEnabled ==
    /\ account.connected /\ ~Busy /\ inputs.token # "none" /\ inputs.amount > 0
    /\ inputs.token \in TESTNET_TOKENS => Info.found
\* Its fields and the list of tokens; the tabs are never disabled.
BasicControls ==
    {"tabs"} \cup (IF account.connected /\ ~Busy THEN {"amount", "quick buy", "switch", "selector"} ELSE {})
        \cup (IF inputs.open THEN {"tokens"} ELSE {}) \cup (IF TradeButtonEnabled THEN {"trade"} ELSE {})
        \cup (IF account.connected THEN {} ELSE {"connect"})

InterfaceControls ==
    {"tabs"} \cup (IF account.connected /\ ~Busy THEN {"amount", "quick buy", "tolerance"} ELSE {})
        \cup (IF account.connected /\ ~Busy /\ inputs.amount > 0 THEN {"trade"} ELSE {})
        \cup (IF account.connected THEN {} ELSE {"connect"})

Controls == CASE mounted = "premium" -> PremiumControls
              [] mounted = "basic" -> BasicControls
              [] mounted = "interface" -> InterfaceControls
              [] OTHER -> {}

-----------------------------------------------------------------------------
NoReading == [at |-> "idle", of |-> "none", tolerance |-> 0, known |-> 0, unlocks |-> FALSE,
              answer |-> NoTradingContext]
NoWork == [status |-> "idle", locked |-> FALSE, type |-> "buy", amount |-> 0, min |-> 0,
           token |-> "none", mode |-> "none", tolerance |-> 0, known |-> 0]
Asked(token, tolerance, known, unlocks) ==
    [NoReading EXCEPT !.at = "asked", !.of = token, !.tolerance = tolerance,
                      !.known = known, !.unlocks = unlocks]
\* A load takes along the tolerance and the price of the rendering it belongs to.
Known(info) == IF info.found THEN CurvePrice(info) ELSE NotLoaded
LoadsContext(tolerance, info) == Asked("listed", tolerance, Known(info), FALSE)

\* The premium widget loads its context when it appears.
ScreensInit ==
    /\ mounted \in {"premium", "basic", "interface", "none"}
    /\ account = [connected |-> FALSE, late |-> NoWork]
    /\ inputs = [type |-> "buy", amount |-> 0, output |-> 0,
                 tolerance |-> IF mounted = "interface" THEN 10 ELSE 5,
                 token |-> IF mounted = "basic" THEN "none" ELSE "listed", open |-> FALSE]
    /\ loaded = [of |-> "none", context |-> [NoTradingContext EXCEPT !.mode = "bonding"], previous |-> 0,
                 xlm |-> NotLoaded, token |-> NotLoaded, fetching |-> FALSE]
    /\ LET first == CHOOSE s \in ScreenSlots : TRUE
       IN  reading = [s \in ScreenSlots |-> IF mounted = "premium" /\ s = first
                                            THEN LoadsContext(5, NoInfo) ELSE NoReading]
    /\ quoteDue = (mounted = "premium")
    /\ work = NoWork
    /\ presses = 0 /\ faults = 0

\* The chain is left alone, and which component is on the page never changes.
Here == UNCHANGED <<factoryVars, mounted>>
Pressed(c) == c \in Controls /\ presses < ScreenEdits /\ presses' = presses + 1
Idle(s) == reading[s].at = "idle"

\* An effect of the premium widget: its output is computed 300 ms after the last change.
QuoteIsDue == quoteDue' = (mounted = "premium")

ChooseType(type) ==
    /\ Pressed("tabs") /\ type # inputs.type /\ QuoteIsDue
    /\ inputs' = [inputs EXCEPT !.type = type]
    /\ Here /\ UNCHANGED <<account, loaded, reading, work, faults>>

\* handleSwitchType puts the output into the field, handleSwitch empties it.
SwitchTypes ==
    /\ Pressed("switch") /\ QuoteIsDue
    /\ inputs' = [inputs EXCEPT !.type = IF @ = "buy" THEN "sell" ELSE "buy",
                                !.amount = IF mounted = "premium" THEN inputs.output ELSE 0,
                                !.output = IF mounted = "premium" THEN inputs.amount ELSE 0]
    /\ Here /\ UNCHANGED <<account, loaded, reading, work, faults>>

Puts(c) == CASE c = "max" -> {MaxAmount}
             [] c = "set to max" -> {SetToMax}
             [] c = "quick sell" -> QuickSells
             [] OTHER -> QuickAmounts
EnterAmount(c) ==
    /\ c \in {"amount", "quick buy", "quick sell", "max", "set to max"} /\ Pressed(c) /\ QuoteIsDue
    /\ \E x \in Puts(c) : inputs' = [inputs EXCEPT !.amount = x]
    /\ Here /\ UNCHANGED <<account, loaded, reading, work, faults>>

\* The tolerance is one of the dependencies of loadTradingContext: choosing another one
\* loads at once, beside what is on its way.
Tolerances == IF mounted = "premium" THEN {5, 10, 20, 30} ELSE {5, 10, 20, 50}
ChooseTolerance(s, tolerance) ==
    /\ Pressed("tolerance") /\ tolerance \in Tolerances \ {inputs.tolerance}
    /\ inputs' = [inputs EXCEPT !.tolerance = tolerance]
    /\ IF mounted = "premium"
       THEN Idle(s) /\ reading' = [reading EXCEPT ![s] = LoadsContext(tolerance, Info)]
       ELSE UNCHANGED reading
    /\ Here /\ UNCHANGED <<account, loaded, quoteDue, work, faults>>

\* The list of tokens of TradingWidget.  A token that is chosen empties the form and is
\* read, if it is another one; what was read of the one before stays until the answer.
ToggleSelector ==
    /\ Pressed("selector")
    /\ inputs' = [inputs EXCEPT !.open = ~@]
    /\ Here /\ UNCHANGED <<account, loaded, reading, quoteDue, work, faults>>
SelectToken(s, token) ==
    /\ "tokens" \in Controls /\ Idle(s)
    /\ inputs' = [inputs EXCEPT !.token = token, !.amount = 0, !.open = FALSE]
    /\ reading' = IF token = inputs.token THEN reading
                  ELSE [reading EXCEPT ![s] = Asked(token, 0, NotLoaded, FALSE)]
    /\ Here /\ UNCHANGED <<account, loaded, quoteDue, work, presses, faults>>

Connect ==
    /\ ~account.connected /\ {"connect", "trade"} \cap Controls # {}
    /\ account' = [account EXCEPT !.connected = TRUE]
    /\ Here /\ UNCHANGED <<inputs, loaded, reading, quoteDue, work, presses, faults>>

-----------------------------------------------------------------------------
Failing(oks) == LET failed == Cardinality({i \in DOMAIN oks : ~oks[i]})
                IN  faults + failed <= ScreenFaults /\ faults' = faults + failed

\* The network answers a load, or a read of TradingWidget, on the chain of now.
ReadScreen(s, ok, okAddress, okPair) ==
    /\ reading[s].at = "asked" /\ Failing(<<ok, okAddress, okPair>>)
    /\ reading' = [reading EXCEPT ![s].at = "answered", ![s].answer =
           IF mounted = "premium" THEN TradingContext(InfoOf("listed", ok), okAddress, okPair)
           ELSE [NoTradingContext EXCEPT !.info = InfoOf(reading[s].of, ok)]]
    /\ Here /\ UNCHANGED <<account, inputs, loaded, quoteDue, work, presses>>

\* Mutant: the effect of the output depends on the inputs alone.
ContextArrives_InputsOnly(s) ==
    LET r == reading[s]
        tolerance == IF OnPool(r.answer) /\ r.tolerance = 5 THEN 10 ELSE inputs.tolerance
        changed == r.answer.info.found \/ Info.found \/ tolerance # inputs.tolerance
    IN  /\ mounted = "premium" /\ r.at = "answered"
        /\ loaded' = [loaded EXCEPT !.of = r.of, !.context = r.answer,
               !.previous = IF r.answer.info.found /\ r.known # NotLoaded THEN r.known ELSE @]
        /\ inputs' = [inputs EXCEPT !.tolerance = tolerance]
        /\ UNCHANGED quoteDue
        /\ work' = [work EXCEPT !.locked = @ /\ ~r.unlocks]
        /\ reading' = [reading EXCEPT ![s] = IF changed THEN LoadsContext(tolerance, r.answer.info)
                                             ELSE NoReading]
        /\ Here /\ UNCHANGED <<account, presses, faults>>

\* The answer reaches the premium widget.  The half per cent of the curve, if the load
\* still had it, becomes one per cent on the pool.  Every answer is a new object, which
\* loadTradingContext and calculateOutput depend on, so a new load starts at once and the
\* output is due again, unless nothing was found before and after.
ContextArrives(s) ==
    LET r == reading[s]
        tolerance == IF OnPool(r.answer) /\ r.tolerance = 5 THEN 10 ELSE inputs.tolerance
        changed == r.answer.info.found \/ Info.found \/ tolerance # inputs.tolerance
    IN  /\ mounted = "premium" /\ r.at = "answered"
        /\ loaded' = [loaded EXCEPT !.of = r.of, !.context = r.answer,
               !.previous = IF r.answer.info.found /\ r.known # NotLoaded THEN r.known ELSE @]
        /\ inputs' = [inputs EXCEPT !.tolerance = tolerance]
        /\ quoteDue' = (quoteDue \/ r.answer.info.found \/ Info.found)
        /\ work' = [work EXCEPT !.locked = @ /\ ~r.unlocks]
        /\ reading' = [reading EXCEPT ![s] = IF changed THEN LoadsContext(tolerance, r.answer.info)
                                             ELSE NoReading]
        /\ Here /\ UNCHANGED <<account, presses, faults>>

\* An answer to TradingWidget is shown whichever token is selected by then.
TokenInfoArrives(s) ==
    /\ mounted = "basic" /\ reading[s].at = "answered"
    /\ loaded' = [loaded EXCEPT !.of = reading[s].of, !.context = reading[s].answer]
    /\ reading' = [reading EXCEPT ![s] = NoReading]
    /\ Here /\ UNCHANGED <<account, inputs, quoteDue, work, presses, faults>>

\* The interval of 30 seconds, which every effect sets again: a load on its way is taken to
\* end within it.
LoadAgain(s) ==
    /\ mounted = "premium" /\ \A r \in ScreenSlots : Idle(r)
    /\ reading' = [reading EXCEPT ![s] = LoadsContext(inputs.tolerance, Info)]
    /\ Here /\ UNCHANGED <<account, inputs, loaded, quoteDue, work, presses, faults>>

QuoteIsComputed ==
    /\ quoteDue /\ quoteDue' = FALSE
    /\ inputs' = [inputs EXCEPT !.output = PremiumOutput]
    /\ Here /\ UNCHANGED <<account, loaded, reading, work, presses, faults>>

\* fetchSorobanTokenBalance.
SorobanTokenBalance(ok) == IF ok THEN wallet.token ELSE 0
\* fetchBalances of UserBalanceDisplay: when it appears, every 15 seconds, after a trade
\* and on its button.  It reads the XLM and then the tokens; a read that fails shows
\* nothing held.
FetchXlm(ok) ==
    /\ mounted = "premium" /\ account.connected /\ ~loaded.fetching /\ Failing(<<ok>>)
    /\ loaded' = [loaded EXCEPT !.xlm = IF ok THEN wallet.xlm ELSE 0, !.fetching = TRUE]
    /\ Here /\ UNCHANGED <<account, inputs, reading, quoteDue, work, presses>>
FetchToken(ok) ==
    /\ loaded.fetching /\ Failing(<<ok>>)
    /\ loaded' = [loaded EXCEPT !.token = SorobanTokenBalance(ok), !.fetching = FALSE]
    /\ Here /\ UNCHANGED <<account, inputs, reading, quoteDue, work, presses>>

-----------------------------------------------------------------------------
\* The trade button, up to what the trade takes along.
BeginTrade(min, mode) ==
    /\ Pressed("trade")
    /\ work' = [status |-> "preparing", locked |-> TRUE, type |-> inputs.type,
                amount |-> inputs.amount, min |-> min, token |-> inputs.token, mode |-> mode,
                tolerance |-> inputs.tolerance, known |-> Known(Info)]
    /\ Here /\ UNCHANGED <<account, inputs, loaded, reading, quoteDue, faults>>
Least(output, tolerance) == (output * (1000 - tolerance)) \div 1000

\* handleTrade of the premium widget refuses a click while the lock is held, also when
\* the status is idle again, an amount above the balance it knows, of which it keeps one
\* XLM, and a form without output.
EnoughHeld == IF inputs.type = "buy" THEN inputs.amount <= ValueOf(loaded.xlm) - OneXlm
              ELSE inputs.amount <= ValueOf(loaded.token)
PressTrade ==
    \/ /\ mounted = "premium" /\ account.connected /\ work.status = "idle" /\ ~work.locked
       /\ Info.found /\ inputs.amount > 0 /\ EnoughHeld /\ inputs.output > 0
       /\ BeginTrade(Least(inputs.output, inputs.tolerance), IF OnPool(loaded.context) THEN "amm" ELSE "bonding")
    \/ mounted = "basic" /\ Info.found /\ BeginTrade(Least(BasicOutput, 5), "bonding")
    \/ mounted = "interface" /\ BeginTrade(0, "bonding")

\* The service computes the minimum of TradingInterface while it prepares the trade.
PreparedMinimum ==
    LET info == GetTokenInfo(TRUE)
    IN  IF mounted = "interface" /\ work.status = "preparing"
        THEN Least(IF work.type = "buy" THEN CalculateBuyOutput(info, work.amount)
                   ELSE CalculateSellOutput(info, work.amount), work.tolerance)
        ELSE work.min

Stages == <<"preparing", "signing", "submitting", "confirming">>
TradeGoesOn ==
    /\ \E i \in 1 .. 3 : /\ work.status = Stages[i]
                         /\ work' = [work EXCEPT !.status = Stages[i + 1], !.min = PreparedMinimum]
    /\ Here /\ UNCHANGED <<account, inputs, loaded, reading, quoteDue, presses, faults>>

\* An error of any stage, which the premium widget shows for two seconds.  A trade whose
\* polls are used up is one, although the network may execute it all the same.
TradeFails ==
    /\ Busy
    /\ work' = IF mounted = "premium" THEN [work EXCEPT !.status = "error"] ELSE NoWork
    /\ account' \in {account} \cup (IF work.status # "confirming" THEN {}
                                    ELSE {[account EXCEPT !.late = [work EXCEPT !.status = "idle"]]})
    /\ Here /\ UNCHANGED <<inputs, loaded, reading, quoteDue, presses, faults>>

\* The factory, or the pair, executes the trade w, of which late is left over; xlm and
\* token are what the account has more after a swap.
Gains(xlm, token) == wallet' = [wallet EXCEPT !.xlm = @ + xlm, !.token = @ + token]
StillLate(late) == account' = [account EXCEPT !.late = late]
ExecuteOnCurve(w) ==
    LET sell == w.type = "sell"
    IN  Takes(sell, w.amount) /\ Pays(sell, w.amount) >= w.min /\ UserTrades(sell, w.amount)
\* buildAmmSwapOperation: the pair is paid in XLM for a buy, in the token for a sell.
AmmSwapOperation(w) ==
    [tokenIn |-> IF w.type = "buy" THEN XlmSide ELSE Other(XlmSide),
     amountIn |-> w.amount, minAmountOut |-> w.min]
ExecuteOnPool(w) ==
    LET operation == AmmSwapOperation(w)
        s == operation.tokenIn
        x == operation.amountIn
        out == SwapPays(s, x)
    IN  /\ SwapAccepted(s, x, operation.minAmountOut, ledgerTime) /\ KeepsProduct(s, x)
        /\ x <= IF w.type = "buy" THEN wallet.xlm ELSE wallet.token
        /\ pair' = Swapped(s, x)
        /\ IF w.type = "buy" THEN Gains(-x, out) ELSE Gains(out, -x)
        /\ UNCHANGED <<factoryToken, lpBalance, purse, ledgerTime, pairOps>>
\* External: a buy of a token whose curve is not of interest.
ExecuteElsewhere(w) ==
    /\ w.type = "buy" /\ w.amount <= wallet.xlm /\ Gains(-w.amount, 0)
    /\ UNCHANGED <<factoryToken, pairVars>>
Executes(w, late) ==
    /\ StillLate(late)
    /\ CASE w.token = "unlisted" -> ExecuteElsewhere(w)
         [] w.mode = "amm" -> ExecuteOnPool(w)
         [] OTHER -> ExecuteOnCurve(w)

\* The trade given up is executed after all, or its thirty seconds are over.
LateTrade ==
    /\ account.late # NoWork
    /\ \/ Executes(account.late, NoWork)
       \/ StillLate(NoWork) /\ UNCHANGED <<factoryToken, wallet, pairVars>>
    /\ UNCHANGED <<clientVars, marketMoves, mounted, inputs, loaded, reading, quoteDue, work, presses, faults>>

\* A read that starts whatever is on its way: beside it, or with it at the bound.
AlsoReads(s, token, unlocks) ==
    /\ Idle(s) \/ \A r \in ScreenSlots : ~Idle(r)
    /\ reading' = [reading EXCEPT ![s] = IF Idle(s) THEN Asked(token, work.tolerance, work.known, unlocks)
                                         ELSE [@ EXCEPT !.unlocks = unlocks]]

\* The network confirms.  TradingWidget and TradingInterface empty their form at once, and
\* the first reads the token it traded again.
TradeConfirmed(s) ==
    /\ work.status = "confirming" /\ UNCHANGED <<clientVars, marketMoves, mounted>>
    /\ Executes(work, account.late)
    /\ IF mounted = "premium" THEN work' = [work EXCEPT !.status = "success"] /\ UNCHANGED <<inputs, reading>>
       ELSE /\ work' = NoWork /\ inputs' = [inputs EXCEPT !.amount = 0]
            /\ IF mounted = "basic" THEN AlsoReads(s, work.token, FALSE) ELSE UNCHANGED reading
    /\ UNCHANGED <<loaded, quoteDue, presses, faults>>

\* Two seconds after the end of a trade of the premium widget.  After a success the form
\* is emptied, whatever was typed since, and the lock is held until the context that is
\* loaded then has arrived.
ScreenComesBack(s) ==
    /\ mounted = "premium" /\ work.status \in {"success", "error"}
    /\ IF work.status = "error" THEN work' = NoWork /\ UNCHANGED <<inputs, quoteDue, reading>>
       ELSE /\ work' = [work EXCEPT !.status = "idle"]
            /\ inputs' = [inputs EXCEPT !.amount = 0, !.output = 0]
            /\ quoteDue' = TRUE
            /\ AlsoReads(s, "listed", TRUE)
    /\ Here /\ UNCHANGED <<account, loaded, presses, faults>>

\* Others trade beside the screen.
OutsideMoves ==
    /\ mounted # "none" /\ UNCHANGED screenVars
    /\ \/ marketMoves < ScreenMoves /\ \E x \in OutsideAmounts : OthersTrade(x)
       \/ marketMoves < ScreenMoves /\ \E s \in Sides : OthersSwap(s)

ScreenReads(s) ==
    \/ \E ok, okAddress, okPair \in BOOLEAN : ReadScreen(s, ok, okAddress, okPair)
    \/ ContextArrives(s) \/ TokenInfoArrives(s) \/ LoadAgain(s)

TradeSteps(s) == TradeGoesOn \/ TradeFails \/ TradeConfirmed(s) \/ ScreenComesBack(s)

ScreensNext ==
    \/ \E type \in {"buy", "sell"} : ChooseType(type)
    \/ SwitchTypes \/ ToggleSelector \/ Connect \/ PressTrade \/ QuoteIsComputed
    \/ \E c \in Controls : EnterAmount(c)
    \/ \E s \in ScreenSlots :
          \/ \E t \in Tolerances : ChooseTolerance(s, t)
          \/ \E token \in AllTokens : SelectToken(s, token)
          \/ ScreenReads(s) \/ TradeSteps(s)
    \/ \E ok \in BOOLEAN : FetchXlm(ok) \/ FetchToken(ok)
    \/ LateTrade \/ OutsideMoves

\* Reads are answered, the intervals fire, and a trade ends: the wallet answers and the
\* polls are counted.  Nothing is assumed of the timer of the output: every answer sets it
\* again and starts the next load, and answers that take less than 300 ms starve it.
ScreensFairness ==
    LET wide == <<factoryVars, screenVars>>
    IN  /\ \A s \in ScreenSlots : WF_wide(ScreenReads(s))
        /\ WF_wide(\E s \in ScreenSlots : TradeSteps(s))
        /\ WF_wide(FetchXlm(TRUE)) /\ WF_wide(FetchToken(TRUE))

ScreensSpec == ScreensInit /\ FactoryInit /\ [][ScreensNext]_<<factoryVars, screenVars>> /\ ScreensFairness

-----------------------------------------------------------------------------
\* What the parts of a screen show.  The progress of a trade in eighths of the bar.
Progress(status) ==
    CASE status = "idle" -> 0
      [] status = "success" -> 8
      [] status = "error" -> 0
      [] OTHER -> LET step == CHOOSE i \in 1 .. 4 : Stages[i] = status IN 2 * step - 1
\* The header with the pool's liquidity, and the panel below, which shows the curve's
\* figures also on the pool.
HeaderFigures(c) ==
    [price |-> CurrentPrice(c), pool |-> IF OnPool(c) THEN <<XlmReserve(c), TokenReserve(c)>> ELSE <<>>]
PanelFigures(info) ==
    [price |-> CurvePrice(info), tokenReserve |-> info.curve.token, raised |-> info.raised]
Figures(c) == <<HeaderFigures(c), PanelFigures(c.info)>>
\* UserBalanceDisplay in the premium widget.
BalanceScreen ==
    CASE ~account.connected -> "hidden"
      [] account.connected /\ loaded.xlm = NotLoaded -> "loading"
      [] OTHER -> "balances"

\* A screen has come to rest: no trade is at work and the button can be pressed again; the
\* screens that compute their output at once show none for an empty form; the premium
\* widget shows the figures of the chain, as unchanged, and the balances of the wallet, with
\* at least one per cent of tolerance on the pool.
AtRest ==
    /\ Progress(work.status) = 0 /\ ~Busy /\ ~work.locked
    /\ mounted # "premium" /\ inputs.amount = 0 => ShownOutput = 0
    /\ mounted = "premium" =>
        LET now == TradingContext(InfoOf("listed", TRUE), TRUE, TRUE)
        IN  /\ loaded.context.mode = now.mode /\ Figures(loaded.context) = Figures(now)
            /\ PriceChange = 0
            /\ OnPool(now) => inputs.tolerance >= 10
            /\ BalanceScreen # "loading"
            /\ account.connected => loaded.xlm = wallet.xlm /\ loaded.token = wallet.token

\* The output of the premium widget is the one of its inputs and its figures.
QuoteShown == mounted = "premium" => ShownOutput = PremiumOutput

\* When nobody presses or trades any more and reads do not fail for ever, each of the
\* three trading screens comes to rest and stays so, whatever was on its way; and so does
\* the output of the premium widget, if its timer runs out again and again.
ScreensSettle == <>[]AtRest /\ ([]<>~quoteDue => <>[]QuoteShown)
=============================================================================
