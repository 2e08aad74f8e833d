---------------------------- MODULE TradeClient -----------------------------
(***************************************************************************)
(* Trading from the web application: the form of a trading widget with its *)
(* quote, the life of a trade from the click to the answer of the network, *)
(* and the network itself with other traders.  Four components trade:      *)
(* TradingWidgetPremium (the token page), the hook useTrade, TradingWidget *)
(* and TradingInterface, the last one through sac-factory.service.ts and   *)
(* base-contract.service.ts.  All of them share the account of one wallet, *)
(* whose sequence number orders its transactions.                          *)
(* Fees are basis points, tolerances per mille; the clock counts seconds.  *)
(***************************************************************************)
EXTENDS Integers, Sequences

CONSTANTS
    Widgets,        \* of "premium", "hook", "basic" and "interface"
    TradeAmounts,   \* amounts typed
    OtherAmounts,   \* amounts other traders trade
    FirstMarket,    \* the reserves the model starts with
    FirstPool,      \* the reserves of the AMM pair a graduation creates
    DisplayGrain,   \* unit of the last digit shown: outputs have four decimals of seven
    TxTimeout,      \* setTimeout of a widget's transaction
    LongTimeout,    \* setTimeout of base-contract.service
    PollAttempts,   \* getTransaction calls before a trade is given up
    MinTrade,       \* the smallest trade the factory takes, 0.1 XLM
    MeaningfulMin,  \* minimum output from which every rounding stays below the tolerance
    SigningTakes,   \* assumed: seconds from the build to the wallet's answer, at least
    MaxActions, WindowSeconds,  \* RATE_LIMIT_CONFIGS.trade
    MaxClock,       \* bound of the model on the time
    EditBound,      \* bound of the model on changes of the inputs
    ClickBound,     \* bound of the model on trades begun
    OtherBound      \* bound of the model on what other traders do

ASSUME TradeAssumption ==
    /\ PollAttempts \in Nat \ {0} /\ TxTimeout \in Nat /\ TxTimeout <= PollAttempts
    /\ SigningTakes \in Nat /\ SigningTakes >= 2
    /\ TradeAmounts \subseteq Nat \ {0} /\ OtherAmounts \subseteq Nat \ {0}
    /\ FirstMarket \in [mode : {"bonding", "amm"}, xlm : Nat, token : Nat]
    /\ FirstPool \in [mode : {"amm"}, xlm : Nat, token : Nat]

\* In stroops the smallest trade is a million and the last digit shown a thousand.
ASSUME RoundingAssumption ==
    /\ DisplayGrain \in Nat \ {0}
    /\ MinTrade \in Nat /\ MinTrade >= 1000
    /\ MeaningfulMin \in Nat /\ MeaningfulMin >= 700 + 250 * DisplayGrain

VARIABLES
    market,     \* the contract: [mode, xlm, token], mode "bonding" or "amm"
    trustline,  \* the account has a trustline for the token
    sequence,   \* the account's sequence number
    clock,
    others,     \* steps of other traders so far
    view,       \* tokenInfo and ammContext as loaded, or NoView
    form,       \* inputs of the widget: [type, amount, quote, quotedFor, edits]
    trade,      \* trade[w]: the trade at work in widget w
    sent,       \* sent[w]: its transaction on the network
    tradeTimes, \* the rate limiter's record of clicks
    clicks

tradeVars == <<market, trustline, sequence, clock, others, view, form, trade, sent, tradeTimes, clicks>>

NoView == [mode |-> "disabled", xlm |-> 0, token |-> 0]
NoTrade == [at |-> "idle", type |-> "buy", amount |-> 0, min |-> 0, view |-> NoView,
            fresh |-> FALSE, built |-> 0, seq |-> 0, polls |-> 0, polledAt |-> -1, blind |-> FALSE]

-----------------------------------------------------------------------------
\* What the browser computes (bonding-curve.utils.ts, sac-factory.service.ts).
CalculateBuyOutput(c, x) == IF x <= 0 THEN 0 ELSE c.token - (c.xlm * c.token) \div (c.xlm + x)
CalculateSellOutput(c, x) == IF x <= 0 THEN 0 ELSE c.xlm - (c.xlm * c.token) \div (c.token + x)
NetOfFees(x) == x - (x * 5) \div 10000 - (x * 25) \div 10000
ApplyTradingFee(x) == x - (x * 30) \div 10000
CalculateAmmSwapOutput(x, in, out) == (x * 997 * out) \div (in * 1000 + x * 997)

\* toFixed(4) rounds to the nearest value shown.
ToFixed(x) == ((2 * x + DisplayGrain) \div (2 * DisplayGrain)) * DisplayGrain
\* Mutant: the tolerance is added to the output shown.
MinOutput_Above(mode, quote) == (quote * (IF mode = "amm" THEN 1010 ELSE 1005)) \div 1000

\* The least output a trade accepts, below the output shown: half a per cent, one per
\* cent once the context was loaded for the AMM.
MinOutput(mode, quote) == (quote * (IF mode = "amm" THEN 990 ELSE 995)) \div 1000

\* calculateOutput of TradingWidgetPremium: the fee is taken from the output.
PremiumQuote(v, type, x) ==
    CASE v.mode = "amm" /\ type = "buy" -> CalculateAmmSwapOutput(x, v.xlm, v.token)
      [] v.mode = "amm" /\ type = "sell" -> CalculateAmmSwapOutput(x, v.token, v.xlm)
      [] v.mode # "amm" /\ type = "buy" -> ApplyTradingFee(CalculateBuyOutput(v, x))
      [] OTHER -> ApplyTradingFee(CalculateSellOutput(v, x))

\* calculateOutput of TradingWidget: calculateBuyOutputWithFees takes the fees from
\* the XLM paid, calculateSellOutputWithFees from the XLM received.
BasicQuote(v, type, x) == IF type = "buy" THEN CalculateBuyOutput(v, NetOfFees(x))
                          ELSE NetOfFees(CalculateSellOutput(v, x))

\* What the contracts pay: fees are rounded up, the LP fee stays in the curve.
Fee(x, bps) == (x * bps + 9999) \div 10000
Received(m, type, x) ==
    CASE m.mode = "amm" -> PremiumQuote(m, type, x)
      [] m.mode = "bonding" /\ type = "buy" ->
             CalculateBuyOutput(m, x - Fee(x, 5) - Fee(x, 25))
      [] OTHER -> LET gross == CalculateSellOutput(m, x)
                  IN  gross - Fee(gross, 5) - Fee(gross, 25)
After(m, type, x) ==
    CASE m.mode = "amm" /\ type = "buy" ->
             [m EXCEPT !.xlm = @ + x, !.token = @ - Received(m, type, x)]
      [] m.mode = "amm" /\ type = "sell" ->
             [m EXCEPT !.xlm = @ - Received(m, type, x), !.token = @ + x]
      [] m.mode = "bonding" /\ type = "buy" ->
             [m EXCEPT !.xlm = @ + x - Fee(x, 5), !.token = @ - Received(m, type, x)]
      [] OTHER -> LET gross == CalculateSellOutput(m, x)
                  IN  [m EXCEPT !.xlm = @ - gross + Fee(gross, 25), !.token = @ + x]
\* The factory takes no trade below a minimum, of the XLM paid or paid out before fees.
LargeEnough(m, type, x) ==
    m.mode = "amm" \/ (IF type = "buy" THEN x ELSE CalculateSellOutput(m, x)) >= MinTrade
\* Only the premium widget knows the AMM, the others always call the factory.
Accepts(m, w, t) ==
    /\ m.mode = IF w = "premium" THEN t.view.mode ELSE "bonding"
    /\ LargeEnough(m, t.type, t.amount)
    /\ Received(m, t.type, t.amount) >= t.min
    /\ t.type = "buy" => trustline

-----------------------------------------------------------------------------
TradeInit ==
    /\ market = FirstMarket
    /\ trustline = FALSE
    /\ sequence = 0 /\ clock = 0 /\ others = 0 /\ clicks = 0
    /\ view = NoView
    /\ form = [type |-> "buy", amount |-> 0, quote |-> 0, quotedFor |-> <<>>, edits |-> 0]
    /\ trade = [w \in Widgets |-> NoTrade]
    /\ sent = [w \in Widgets |-> "none"]
    /\ tradeTimes = <<>>

\* The inputs are disabled while a trade is at work.  (Reloads go on, but no trade at
\* work looks at them, so the model reloads between trades only.)
Editable == \A w \in Widgets : trade[w].at \in {"idle", "success", "error"}

\* The user types an amount or takes a quick amount; the output shown stays until
\* it is computed again.
ChangeInput(type, x) ==
    /\ Editable /\ <<type, x>> # <<form.type, form.amount>>
    /\ form.edits < EditBound
    /\ form' = [form EXCEPT !.type = type, !.amount = x, !.edits = @ + 1]
    /\ UNCHANGED <<market, trustline, sequence, clock, others, view, trade, sent, tradeTimes, clicks>>

\* loadTradingContext, on mount, every 30 seconds and after a trade; it may fail.
LoadTradingContext ==
    /\ Editable /\ view' \in {market, NoView} \ {view}
    /\ UNCHANGED <<market, trustline, sequence, clock, others, form, trade, sent, tradeTimes, clicks>>

\* calculateOutput, 300 ms after the last change of the inputs or of the view.
CalculateOutput ==
    LET shown == IF form.amount = 0 \/ view = NoView THEN 0
                 ELSE ToFixed(PremiumQuote(view, form.type, form.amount))
    IN  /\ form' = [form EXCEPT !.quote = shown,
                                !.quotedFor = <<form.type, form.amount, view>>]
        /\ Editable /\ form' # form
        /\ UNCHANGED <<market, trustline, sequence, clock, others, view, trade, sent, tradeTimes, clicks>>

\* handleSwitchType: the output shown becomes the amount and the amount the output.
SwitchType ==
    /\ form' = [form EXCEPT !.type = IF @ = "buy" THEN "sell" ELSE "buy",
                            !.amount = form.quote, !.quote = form.amount,
                            !.quotedFor = <<>>, !.edits = @ + 1]
    /\ form.edits < EditBound /\ Editable /\ form.quote > 0
    /\ UNCHANGED <<market, trustline, sequence, clock, others, view, trade, sent, tradeTimes, clicks>>

\* The output shown was computed for the inputs and the view of now.
QuoteIsFresh == form.quotedFor = <<form.type, form.amount, view>>

\* What every component takes along from the form when a trade begins.
Begin(w, minimum, fresh) ==
    /\ w \in Widgets /\ trade[w].at = "idle" /\ form.amount > 0
    /\ clicks < ClickBound /\ clicks' = clicks + 1
    /\ trade' = [trade EXCEPT ![w] = [NoTrade EXCEPT
           !.at = "preparing", !.type = form.type, !.amount = form.amount,
           !.min = minimum, !.view = view, !.fresh = fresh]]
    /\ sent' = [sent EXCEPT ![w] = "none"]
    /\ UNCHANGED <<market, trustline, sequence, clock, others, view, form>>

\* handleTrade of the premium widget up to its first await: the lock, the status,
\* and inputs that make sense.
HandleTrade ==
    /\ view # NoView /\ form.quote > 0
    /\ Begin("premium", MinOutput(view.mode, form.quote), QuoteIsFresh)
    /\ UNCHANGED tradeTimes

\* executeTrade of the hook, behind the sliding window of useRateLimit.
ExecuteTrade ==
    LET recent == SelectSeq(tradeTimes, LAMBDA at : at > clock - WindowSeconds)
    IN  /\ Len(recent) < MaxActions
        /\ tradeTimes' = Append(recent, clock)
        /\ view # NoView /\ form.quote > 0
        /\ Begin("hook", MinOutput("bonding", form.quote), QuoteIsFresh)

\* handleTrade of TradingWidget, whose output follows the inputs at once.
HandleBasicTrade ==
    /\ view # NoView
    /\ Begin("basic", MinOutput("bonding", ToFixed(BasicQuote(view, form.type, form.amount))), TRUE)
    /\ UNCHANGED tradeTimes

\* handleTrade of TradingInterface: the service chooses the minimum later.
HandleInterfaceTrade == Begin("interface", 0, FALSE) /\ UNCHANGED tradeTimes

Trades == HandleTrade \/ ExecuteTrade \/ HandleBasicTrade \/ HandleInterfaceTrade

-----------------------------------------------------------------------------
Goes(w, changed) == trade' = [trade EXCEPT ![w] = changed]
At(w, phase) == [trade[w] EXCEPT !.at = phase]

\* ensureTrustlineExists before a buy: a transaction of its own, built, signed and
\* confirmed.  The hook does not look at the result.
EnsureTrustline(w) ==
    /\ trade[w].at = "preparing"
    /\ \/ /\ trade[w].type = "sell" \/ trustline
          /\ Goes(w, At(w, "building"))
          /\ UNCHANGED <<trustline, sequence>>
       \/ /\ trade[w].type = "buy" /\ ~trustline
          /\ trustline' = TRUE /\ sequence' = sequence + 1
          /\ Goes(w, At(w, "building"))
       \/ /\ trade[w].type = "buy" /\ ~trustline
          /\ Goes(w, At(w, IF w = "hook" THEN "building" ELSE "error"))
          /\ UNCHANGED <<trustline, sequence>>
    /\ UNCHANGED <<market, clock, others, view, form, sent, tradeTimes, clicks>>

\* prepareBuyTransaction and prepareSellTransaction compute the minimum from the
\* reserves of now, without fees and one per cent below.
ServiceMinimum(t) ==
    ((IF t.type = "buy" THEN CalculateBuyOutput(market, t.amount)
      ELSE CalculateSellOutput(market, t.amount)) * 990) \div 1000

\* The operation is built, getAccount gives the sequence number and the simulation
\* runs the contract on the ledger of now.
Simulate(w) ==
    /\ trade[w].at = "building"
    /\ LET t == [trade[w] EXCEPT !.built = clock, !.seq = sequence + 1, !.at = "signing",
                     !.min = IF w = "interface" THEN ServiceMinimum(trade[w]) ELSE @]
       IN  \/ Accepts(market, w, t) /\ Goes(w, t)
           \/ Goes(w, At(w, "error"))
    /\ UNCHANGED <<market, trustline, sequence, clock, others, view, form, sent, tradeTimes, clicks>>

\* The wallet answers.
Sign(w) ==
    /\ trade[w].at = "signing" /\ clock >= trade[w].built + SigningTakes
    /\ \E phase \in {"submitting", "error"} : Goes(w, At(w, phase))
    /\ UNCHANGED <<market, trustline, sequence, clock, others, view, form, sent, tradeTimes, clicks>>

\* Mutant: every component builds with the long timeout.
Deadline_Long(w) == trade[w].built + LongTimeout

\* setTimeout: the last second at which a ledger may include the transaction.
Deadline(w) == trade[w].built + (IF w = "interface" THEN LongTimeout ELSE TxTimeout)
CanExecute(w) == sent[w] = "pending" /\ clock <= Deadline(w) /\ trade[w].seq = sequence + 1

\* sendTransaction: accepted, refused with status ERROR, or accepted with the answer lost.
Submit(w) ==
    /\ trade[w].at = "submitting"
    /\ \/ /\ clock <= Deadline(w) /\ trade[w].seq = sequence + 1
          /\ sent' = [sent EXCEPT ![w] = "pending"]
          /\ \/ Goes(w, At(w, "confirming"))
             \/ Goes(w, [At(w, "error") EXCEPT !.blind = TRUE])
       \/ Goes(w, At(w, "error")) /\ UNCHANGED sent
    /\ UNCHANGED <<market, trustline, sequence, clock, others, view, form, tradeTimes, clicks>>

\* getTransaction, once a second.  A widget swallows every error of a poll, also the
\* one it throws itself for a failed transaction; the service does not.
Poll(w) ==
    /\ trade[w].at = "confirming" /\ trade[w].polls < PollAttempts
    /\ trade[w].polledAt < clock
    /\ LET again(blind) == Goes(w, [trade[w] EXCEPT !.polls = @ + 1, !.polledAt = clock, !.blind = blind])
       IN  \/ sent[w] = "executed" /\ Goes(w, At(w, "success"))
           \/ sent[w] # "executed" /\ (w = "interface" => sent[w] # "refused") /\ again(FALSE)
           \/ sent[w] = "refused" /\ w = "interface" /\ Goes(w, At(w, "error"))
           \/ w # "interface" /\ again(TRUE)
           \/ w = "interface" /\ Goes(w, [At(w, "error") EXCEPT !.blind = TRUE])
    /\ UNCHANGED <<market, trustline, sequence, clock, others, view, form, sent, tradeTimes, clicks>>

GiveUp(w) ==
    /\ trade[w].at = "confirming" /\ trade[w].polls = PollAttempts
    /\ trade[w].polledAt < clock
    /\ Goes(w, At(w, "error"))
    /\ UNCHANGED <<market, trustline, sequence, clock, others, view, form, sent, tradeTimes, clicks>>

\* The status returns to idle; after a success the form is cleared and the context
\* loaded again.
Settle(w) ==
    /\ trade[w].at \in {"success", "error"}
    /\ Goes(w, NoTrade)
    /\ IF trade[w].at = "success" /\ w # "hook"
       THEN /\ form' = [form EXCEPT !.amount = 0, !.quote = 0]
            /\ view' \in {market, NoView}
       ELSE UNCHANGED <<form, view>>
    /\ UNCHANGED <<market, trustline, sequence, clock, others, sent, tradeTimes, clicks>>

-----------------------------------------------------------------------------
\* The network includes the transaction before its deadline, or never.
Include(w) ==
    /\ CanExecute(w)
    /\ sequence' = sequence + 1
    /\ IF Accepts(market, w, trade[w])
       THEN /\ market' = After(market, trade[w].type, trade[w].amount)
            /\ sent' = [sent EXCEPT ![w] = "executed"]
       ELSE sent' = [sent EXCEPT ![w] = "refused"] /\ UNCHANGED market
    /\ UNCHANGED <<trustline, clock, others, view, form, trade, tradeTimes, clicks>>

OtherTrade(type, x) ==
    /\ others < OtherBound /\ others' = others + 1
    /\ LargeEnough(market, type, x)
    /\ market' = After(market, type, x)
    /\ UNCHANGED <<trustline, sequence, clock, view, form, trade, sent, tradeTimes, clicks>>

TokenGraduates ==
    /\ others < OtherBound /\ others' = others + 1
    /\ market.mode = "bonding" /\ market' = FirstPool
    /\ UNCHANGED <<trustline, sequence, clock, view, form, trade, sent, tradeTimes, clicks>>

Tick ==
    /\ clock < MaxClock /\ clock' = clock + 1
    /\ \E w \in Widgets : trade[w].at \in {"signing", "submitting", "confirming"}
    /\ UNCHANGED <<market, trustline, sequence, others, view, form, trade, sent, tradeTimes, clicks>>

TradeNext ==
    \/ \E type \in {"buy", "sell"}, x \in TradeAmounts : ChangeInput(type, x)
    \/ LoadTradingContext \/ CalculateOutput \/ SwitchType \/ Trades
    \/ \E w \in Widgets : \/ EnsureTrustline(w) \/ Simulate(w) \/ Sign(w) \/ Submit(w)
                          \/ Poll(w) \/ GiveUp(w) \/ Settle(w) \/ Include(w)
    \/ \E type \in {"buy", "sell"}, x \in OtherAmounts : OtherTrade(type, x)
    \/ TokenGraduates \/ Tick

TradeSpec == TradeInit /\ [][TradeNext]_tradeVars

-----------------------------------------------------------------------------
TradePhases == {"idle", "preparing", "building", "signing", "submitting", "confirming", "success", "error"}

\* Types of the variables.
TradeTypeOK ==
    /\ market.mode \in {"bonding", "amm"} /\ market.xlm \in Nat /\ market.token \in Nat
    /\ trustline \in BOOLEAN /\ sequence \in Nat /\ clock \in 0 .. MaxClock
    /\ form.type \in {"buy", "sell"} /\ form.amount \in Nat /\ form.quote \in Nat
    /\ \A w \in Widgets : trade[w].at \in TradePhases /\ trade[w].polls \in 0 .. PollAttempts
    /\ sent \in [Widgets -> {"none", "pending", "executed", "refused"}]

\* A widget that reports an error tells the truth: its transaction was not executed
\* and cannot be any more, unless the network left the widget without an answer.  The
\* page polls as long as the transaction's own deadline lasts.
ErrorsAreFinal ==
    \A w \in Widgets \ {"interface"} :
        trade[w].at = "error" /\ ~trade[w].blind => sent[w] # "executed" /\ ~CanExecute(w)

\* What a widget shows is what the contract pays: a trade whose output was computed
\* for its inputs and for the reserves of now meets its own minimum, although the page
\* takes the fee from another side of the curve and rounds the output shown, as long as
\* it is not so small that the factory refuses it or the roundings count.
QuotedTradesAreAccepted ==
    \A w \in Widgets \ {"interface"} :
        LET t == trade[w]
        IN  t.at \in {"preparing", "building"} /\ t.fresh /\ t.view = market
                /\ (t.view.mode = "bonding" \/ w = "premium")
                /\ LargeEnough(market, t.type, t.amount) /\ t.min >= MeaningfulMin
            => Received(market, t.type, t.amount) >= t.min

\* A trade's minimum is never more than two per cent below what its own amount was worth
\* on the reserves the widget shows.
SlippageProtected ==
    \A w \in Widgets \ {"interface"} :
        LET t == trade[w]
            worth == Received(t.view, t.type, t.amount)
        IN  t.at = "preparing" /\ (t.view.mode = "bonding" \/ w = "premium")
            => t.min * 100 >= worth * 98

=============================================================================
