---------------------------- MODULE MarketCharts -----------------------------
(***************************************************************************)
(* The charts of a token (components/charts): SimpleChart, drawn on the    *)
(* token's page, and TradingViewChart and BondingCurveChart, which no page *)
(* uses at present.  Each polls the factory's price and record, remembers  *)
(* a window of points and derives from it the series it draws.  Polls      *)
(* overlap, and each of the two reads of a poll fails on its own.  What    *)
(* the user chooses (view, interval, kind of chart) changes no data: it is *)
(* a parameter of what is shown.                                           *)
(***************************************************************************)
EXTENDS Integers, FiniteSets, SequencesExt

CONSTANTS
    ChartSlots,     \* polls at work at once
    MaxPoints,      \* 500 in SimpleChart and TradingViewChart, 50 in BondingCurveChart
    Intervals,      \* seconds of a candle: getIntervalSeconds
    Lead,           \* 300 in the code: seconds of the made-up point before a single one
    VirtualXlm,     \* XLM on a fresh curve
    DealSizes,      \* XLM others trade
    DealBound,      \* bound of the model on their trades
    MaxSecond       \* bound of the model on the clock

ASSUME MarketChartsAssumption ==
    /\ {MaxPoints, Lead, VirtualXlm} \subseteq Nat \ {0} /\ Intervals \subseteq Nat \ {0}
    /\ DealSizes \subseteq Nat \ {0} /\ {DealBound, MaxSecond} \subseteq Nat

VARIABLES
    second,      \* external: the clock
    raised,      \* external: XLM on the token's curve
    deals,       \* external: its trades, as the gateway has them: Seq of [time, side, xlm]
    poll,        \* poll[s]: a poll at work: [chart, left, price, raised, empty]
    simple,      \* SimpleChart: [points, loading, graduated, canvas]
    trading,     \* TradingViewChart: [points, initialized, last, loading, txLoading]
    progress     \* BondingCurveChart: [points, last, trend, loading]

chartVars == <<second, raised, deals, poll, simple, trading, progress>>
marketVars == <<second, raised, deals>>

Unread == -1   \* a read that failed, or a value not known yet
NoPoll == [chart |-> "none", left |-> {}, price |-> 0, raised |-> Unread, empty |-> FALSE]

-----------------------------------------------------------------------------
\* A point is kept when its second is later than the last one's.
\* Mutant: a second point in the same second is kept too.
AddPoint_SameSecond(points, p) ==
    IF points # <<>> /\ p.time < Last(points).time THEN points
    ELSE IF Len(points) = MaxPoints THEN Append(Tail(points), p) ELSE Append(points, p)

AddPoint(points, p) ==
    IF points # <<>> /\ p.time <= Last(points).time THEN points
    ELSE IF Len(points) = MaxPoints THEN Append(Tail(points), p) ELSE Append(points, p)

\* The line drawn: a single point gets one before it, of a made-up value.
LineOf(points, made) ==
    IF Len(points) = 1 THEN <<[time |-> points[1].time - Lead, value |-> made], points[1]>> ELSE points

\* SimpleChart draws the XLM raised or the price; the made-up value is 99 hundredths of
\* the first.
SimpleLine(view) ==
    LET line == [i \in DOMAIN simple.points |->
                    [time |-> simple.points[i].time,
                     value |-> IF view = "cap" THEN simple.points[i].raised ELSE simple.points[i].price]]
    IN  LineOf(line, (99 * line[1].value) \div 100)

\* TradingViewChart gathers its line into candles, in one pass.
Bucket(p, interval) == (p.time \div interval) * interval
NewCandle(p, interval) ==
    [time |-> Bucket(p, interval), open |-> p.value, high |-> p.value, low |-> p.value,
     close |-> p.value]

Extended(c, p) ==
    [c EXCEPT !.high = IF p.value > @ THEN p.value ELSE @,
              !.low = IF p.value < @ THEN p.value ELSE @,
              !.close = p.value]

WithPoint(candles, p, interval) ==
    IF candles # <<>> /\ Last(candles).time = Bucket(p, interval)
    THEN [candles EXCEPT ![Len(candles)] = Extended(@, p)]
    ELSE Append(candles, NewCandle(p, interval))

Candles(line, interval) ==
    LET after[n \in 0 .. Len(line)] ==
            IF n = 0 THEN <<>> ELSE WithPoint(after[n - 1], line[n], interval)
    IN  after[Len(line)]

TradingLine ==
    LET line == [i \in DOMAIN trading.points |->
                    [time |-> trading.points[i].time, value |-> trading.points[i].price]]
    IN  LineOf(line, line[1].value)
IsPositive == Len(TradingLine) >= 2 => Last(TradingLine).value >= Head(TradingLine).value

\* The history of TradingViewChart, from the trades as the query lists them: the newest
\* first.  The XLM of each adds up in that order, and of the trades of one second the
\* first listed counts.
HistoryPoints(listed) ==
    LET upTo[i \in 0 .. Len(listed)] ==
            IF i = 0 THEN 0
            ELSE IF listed[i].side = "buy" THEN upTo[i - 1] + listed[i].xlm
            ELSE IF upTo[i - 1] > listed[i].xlm THEN upTo[i - 1] - listed[i].xlm ELSE 0
        times == {listed[i].time : i \in DOMAIN listed}
        nth(n) == CHOOSE t \in times : Cardinality({u \in times : u < t}) = n - 1
        first(t) == CHOOSE i \in DOMAIN listed :
            listed[i].time = t /\ \A j \in 1 .. i - 1 : listed[j].time # t
    IN  [n \in 1 .. Cardinality(times) |->
            [time |-> nth(n), price |-> VirtualXlm + upTo[first(nth(n))]]]

-----------------------------------------------------------------------------
\* What is on the screen.
SimpleScreen ==
    IF simple.graduated THEN {"on the DEX"}
    ELSE {"toggle", "canvas", "progress"}
         \cup (IF simple.loading /\ simple.points = <<>> THEN {"overlay"} ELSE {})
\* The line is seen where the chart was created in the container that is on the page.
SimpleDrawn == simple.canvas = "attached" /\ simple.points # <<>>

\* TradingViewChart creates its chart in the effect that runs on mount, when the loading
\* screen has no container: its series are never drawn.
TradingScreen ==
    IF trading.points # <<>> THEN {"price", "controls", "blank container", "live"}
    ELSE IF trading.loading \/ trading.txLoading THEN {"loading"}
    ELSE {"price", "controls", "no history"}

ProgressScreen ==
    IF progress.loading THEN {"skeleton"}
    ELSE IF simple.graduated THEN {"on the DEX"}
    ELSE {"price", "bar"} \cup (IF progress.trend # "neutral" THEN {"arrow"} ELSE {})
         \cup (IF Len(progress.points) >= 2 THEN {"path", "graduation line"} ELSE {"placeholder"})

-----------------------------------------------------------------------------
ChartsInit ==
    /\ second = 1 /\ raised = VirtualXlm /\ deals = <<>>
    /\ poll = [s \in ChartSlots |-> NoPoll]
    /\ \E graduated \in BOOLEAN :
          simple = [points |-> <<>>, loading |-> TRUE, graduated |-> graduated,
                    canvas |-> IF graduated THEN "none" ELSE "attached"]
    /\ trading = [points |-> <<>>, initialized |-> FALSE, last |-> 0, loading |-> TRUE,
                  txLoading |-> TRUE]
    /\ progress = [points |-> <<>>, last |-> Unread, trend |-> "neutral", loading |-> TRUE]

SecondPasses ==
    /\ second < MaxSecond /\ second' = second + 1
    /\ UNCHANGED <<raised, deals, poll, simple, trading, progress>>
OthersDeal(side, xlm) ==
    /\ Len(deals) < DealBound
    /\ side = "sell" => raised - xlm >= VirtualXlm
    /\ raised' = IF side = "buy" THEN raised + xlm ELSE raised - xlm
    /\ deals' = Append(deals, [time |-> second, side |-> side, xlm |-> xlm])
    /\ UNCHANGED <<second, poll, simple, trading, progress>>

\* What a chart keeps of the two reads; the other one is only displayed.
Kept(chart) == CASE chart = "simple" -> {"price", "info"}
                 [] chart = "trading" -> {"price"}
                 [] OTHER -> {"info"}

\* The interval of a chart, the page's refreshTrigger or a button.  The interval of
\* TradingViewChart stops while the tab is hidden but its refreshTrigger does not, so a
\* poll may start at any time.  The callback of BondingCurveChart remembers whether it
\* had points when it was made.
StartPoll(s, chart) ==
    /\ poll[s].chart = "none"
    /\ poll' = [poll EXCEPT ![s] = [NoPoll EXCEPT !.chart = chart, !.left = Kept(chart),
                                                  !.empty = progress.points = <<>>]]
    /\ UNCHANGED <<marketVars, simple, trading, progress>>
\* getPrice answers 0, and getTokenInfo null, for a read that fails.
ReadPollPrice(s, ok) ==
    /\ "price" \in poll[s].left
    /\ poll' = [poll EXCEPT ![s].left = @ \ {"price"}, ![s].price = IF ok THEN raised ELSE 0]
    /\ UNCHANGED <<marketVars, simple, trading, progress>>
ReadPollInfo(s, ok) ==
    /\ "info" \in poll[s].left
    /\ poll' = [poll EXCEPT ![s].left = @ \ {"info"}, ![s].raised = IF ok THEN raised ELSE Unread]
    /\ UNCHANGED <<marketVars, simple, trading, progress>>

Arrived(s, chart) ==
    /\ poll[s].chart = chart /\ poll[s].left = {}
    /\ poll' = [poll EXCEPT ![s] = NoPoll]
    /\ UNCHANGED <<marketVars>>

\* A point whose price or whose XLM could be read; the other one is drawn as zero.
SimpleArrives(s) ==
    LET p == [time |-> second, price |-> poll[s].price,
              raised |-> IF poll[s].raised = Unread THEN 0 ELSE poll[s].raised]
    IN  /\ Arrived(s, "simple")
        /\ simple' = [simple EXCEPT !.loading = FALSE,
                         !.points = IF p.price > 0 \/ p.raised > 0 THEN AddPoint(@, p) ELSE @]
        /\ UNCHANGED <<trading, progress>>

TradingArrives(s) ==
    /\ Arrived(s, "trading")
    /\ trading' =
          IF poll[s].price > 0
          THEN [trading EXCEPT !.loading = FALSE, !.last = poll[s].price,
                               !.points = AddPoint(@, [time |-> second, price |-> poll[s].price])]
          ELSE [trading EXCEPT !.loading = FALSE]
    /\ UNCHANGED <<simple, progress>>

\* The first answer of the query becomes the history, in place of the points polled
\* before it; later ones are not looked at.
HistoryArrives ==
    LET points == HistoryPoints(Reverse(deals))
    IN  /\ trading' =
              IF trading.initialized THEN [trading EXCEPT !.txLoading = FALSE]
              ELSE IF points = <<>> THEN [trading EXCEPT !.txLoading = FALSE, !.initialized = TRUE]
              ELSE [trading EXCEPT !.txLoading = FALSE, !.initialized = TRUE, !.points = points,
                                   !.last = Last(points).price]
        /\ UNCHANGED <<marketVars, poll, simple, progress>>

\* BondingCurveChart needs the record; a point is added only when the XLM changed.
ProgressArrives(s) ==
    LET xlm == poll[s].raised
        way == IF xlm > progress.last THEN "up" ELSE "down"
        point(type) == [value |-> xlm, type |-> type]
    IN  /\ Arrived(s, "progress")
        /\ progress' =
              IF xlm = Unread THEN [progress EXCEPT !.loading = FALSE]
              ELSE IF progress.last # Unread /\ xlm # progress.last
              THEN [points |-> IF Len(progress.points) = MaxPoints
                               THEN Append(Tail(progress.points), point(way))
                               ELSE Append(progress.points, point(way)),
                    last |-> xlm, trend |-> way, loading |-> FALSE]
              ELSE [progress EXCEPT !.loading = FALSE, !.last = xlm,
                        !.points = IF poll[s].empty THEN <<point("neutral")>> ELSE @]
        /\ UNCHANGED <<simple, trading>>

\* The page passes graduated, from reads that may arrive out of order.  The chart goes
\* with its container and is created on the first mount only.
GraduatedChanges ==
    /\ simple' = [simple EXCEPT !.graduated = ~@,
                                !.canvas = IF @ = "attached" THEN "detached" ELSE @]
    /\ UNCHANGED <<marketVars, poll, trading, progress>>

MarketMoves ==
    \/ SecondPasses
    \/ \E side \in {"buy", "sell"}, xlm \in DealSizes : OthersDeal(side, xlm)
Polls(chart) ==
    \E s \in ChartSlots :
        \/ StartPoll(s, chart)
        \/ \E ok \in BOOLEAN : ReadPollPrice(s, ok)
        \/ \E ok \in BOOLEAN : ReadPollInfo(s, ok)

SimpleChartNext ==
    MarketMoves \/ Polls("simple") \/ (\E s \in ChartSlots : SimpleArrives(s)) \/ GraduatedChanges
TradingViewChartNext ==
    \/ MarketMoves \/ Polls("trading") \/ HistoryArrives
    \/ \E s \in ChartSlots : TradingArrives(s)
BondingCurveChartNext ==
    MarketMoves \/ Polls("progress") \/ (\E s \in ChartSlots : ProgressArrives(s))

ChartsSpec ==
    ChartsInit /\ [][SimpleChartNext \/ TradingViewChartNext \/ BondingCurveChartNext]_chartVars

-----------------------------------------------------------------------------
Ascends(line) == \A i, j \in DOMAIN line : i < j => line[i].time < line[j].time

\* The chart library takes its series in ascending time only.
SeriesAscend ==
    /\ \A view \in {"cap", "price"} : Ascends(SimpleLine(view))
    /\ Ascends(TradingLine) /\ \A interval \in Intervals : Ascends(Candles(TradingLine, interval))

\* The candle of an interval opens and closes with the interval's first and last point
\* and spans exactly their prices; no point is left without a candle.
CandlesSumUpPoints ==
    \A interval \in Intervals :
        LET line == TradingLine
            candles == Candles(line, interval)
            at(c) == {i \in DOMAIN line : Bucket(line[i], interval) = c.time}
        IN  /\ \A i \in DOMAIN line : \E k \in DOMAIN candles : i \in at(candles[k])
            /\ \A k \in DOMAIN candles :
                  LET c == candles[k]
                      values == {line[i].value : i \in at(c)}
                  IN  /\ {c.low, c.high} \subseteq values
                      /\ \A v \in values : v \in c.low .. c.high
                      /\ \E i \in at(c) : line[i].value = c.open /\ \A j \in at(c) : i <= j
                      /\ \E i \in at(c) : line[i].value = c.close /\ \A j \in at(c) : j <= i

\* Every line and every row of candles ascends and sums up the points it is made of,
\* whatever polls overlapped, and also after the history of trades replaced the points
\* polled (SimpleChart, TradingViewChart).
ChartsDrawPoints == SeriesAscend /\ CandlesSumUpPoints
=============================================================================
