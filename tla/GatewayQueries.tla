---------------------------- MODULE GatewayQueries ----------------------------
(***************************************************************************)
(* What the gateway computes from the rows the indexer wrote: the          *)
(* leaderboards (src/backend/api-gateway-v2/src/graphql/resolvers/         *)
(* index.ts) with their cache (graphql/cache-helpers.ts), the rows of      *)
(* nested fields, loaded in batches (graphql/loaders.ts), and the figures  *)
(* drawn from the fee statistics (lib/fee-stats-service.ts,                *)
(* graphql/resolvers/fee-resolvers.ts).  The three read different tables;  *)
(* subject is the one looked at.                                           *)
(***************************************************************************)
EXTENDS Integers, FiniteSets, SequencesExt

CONSTANTS
    Addresses,      \* traders and creators
    QueryTokens,
    RowAmounts,
    FeeTotals,      \* fees of a token, as stored
    ListedAtMost,   \* limit of a list
    RowBound        \* bound of the model on the rows written

ASSUME GatewayQueriesAssumption ==
    /\ IsFiniteSet(Addresses) /\ IsFiniteSet(QueryTokens)
    /\ Addresses \cap QueryTokens = {} /\ "none" \notin Addresses
    /\ RowAmounts \subseteq Nat /\ {ListedAtMost, RowBound} \subseteq Nat

VARIABLES
    subject,
    trades,      \* Transaction: [from, type, amount, recent]
    boards,      \* the cache of leaderboards: boards[type], for the one limit asked for
    feeRows,     \* FeeStats: feeRows[t] = [total, day, week, count]
    figures,     \* the last answer drawn from feeRows
    tokenRows,   \* Token: tokenRows[t] = [creator, recent], or NoRow
    wanted,      \* wanted[l]: keys a request has asked loader l for since its last batch
    loaded       \* loaded[k]: what the loaders of the request hold for key k

boardVars == <<trades, boards>>
figureVars == <<feeRows, figures>>
loaderVars == <<tokenRows, wanted, loaded>>
queryVars == <<subject, boardVars, figureVars, loaderVars>>

BoardTypes == {"TRADERS", "CREATORS", "LIQUIDITY_PROVIDERS"}
NoBoard == [of |-> "none", rows |-> <<>>]
NoFees == [total |-> 0, day |-> 0, week |-> 0, count |-> 0]
NoFigures == [top |-> <<>>, average |-> 0, growth |-> 0]
NoRow == [creator |-> "none", recent |-> FALSE]
NotLoaded == [found |-> FALSE, rows |-> {}]
\* tokenLoader and its like, which answer with one row, and tokensByCreatorLoader and
\* its like, which answer with several.
Loaders == {"tokens", "creators"}
KeysOf(l) == IF l = "tokens" THEN QueryTokens ELSE Addresses
LoaderKeys == Addresses \cup QueryTokens

QueriesInit ==
    /\ subject \in {"boards", "fees", "loaders"}
    /\ trades = <<>>
    /\ boards = [type \in BoardTypes |-> NoBoard]
    /\ feeRows = [t \in QueryTokens |-> NoFees] /\ figures = NoFigures
    /\ tokenRows = [t \in QueryTokens |-> NoRow]
    /\ wanted = [l \in Loaders |-> <<>>] /\ loaded = [k \in LoaderKeys |-> NotLoaded]

SumOf(rows, counts(_), amount(_)) ==
    SumFunctionOnSet([i \in DOMAIN rows |-> amount(rows[i])], {i \in DOMAIN rows : counts(rows[i])})
InTime(timeframe, x) == timeframe = "ALL_TIME" \/ x.recent
\* The best of a set first, as many as a list holds; ties fall in any order.
Ranked(set, value(_)) ==
    {SubSeq(s, 1, Min({ListedAtMost, Len(s)})) :
        s \in {p \in [1 .. Cardinality(set) -> set] :
                  \A i, j \in DOMAIN p : i < j => p[i] # p[j] /\ value(p[i]) >= value(p[j])}}

-----------------------------------------------------------------------------
\* Leaderboards.  A trader is listed for what was traded, with the profit or loss.
TradedVolume(a, timeframe) ==
    SumOf(trades, LAMBDA x : x.from = a /\ InTime(timeframe, x), LAMBDA x : x.amount)
ProfitLoss(a, timeframe) ==
    SumOf(trades, LAMBDA x : x.from = a /\ InTime(timeframe, x),
          LAMBDA x : IF x.type = "TOKEN_BOUGHT" THEN -x.amount ELSE x.amount)
TraderBoard(timeframe) ==
    {[i \in DOMAIN s |-> [address |-> s[i], amount |-> TradedVolume(s[i], timeframe),
                          earned |-> ProfitLoss(s[i], timeframe)]] :
        s \in Ranked({a \in Addresses : TradedVolume(a, timeframe) > 0},
                     LAMBDA a : TradedVolume(a, timeframe))}

\* A creator is listed by the tokens created in the time asked for; deleted ones count
\* too.
TokensCreated(a, timeframe) ==
    Cardinality({t \in QueryTokens : tokenRows[t].creator = a /\ InTime(timeframe, tokenRows[t])})
CreatorBoard(timeframe) ==
    {[i \in DOMAIN s |-> [address |-> s[i], amount |-> TokensCreated(s[i], timeframe), earned |-> 0]] :
        s \in Ranked({a \in Addresses : TokensCreated(a, timeframe) > 0},
                     LAMBDA a : TokensCreated(a, timeframe))}

\* leaderboard: the cache is asked first, under type and limit.  A query that fails is
\* an empty board, and cached like one.  So is the board of the liquidity providers:
\* its table stays empty, as the foreign key of its pool refuses every row.
Leaderboard(type, timeframe) ==
    /\ boards[type] = NoBoard
    /\ subject = IF type = "CREATORS" THEN "loaders" ELSE "boards"
    /\ \E board \in {<<>>} \cup CASE type = "TRADERS" -> TraderBoard(timeframe)
                                  [] type = "CREATORS" -> CreatorBoard(timeframe)
                                  [] OTHER -> {} :
           boards' = [boards EXCEPT ![type] = [of |-> timeframe, rows |-> board]]
    /\ UNCHANGED <<subject, trades, figureVars, loaderVars>>
BoardExpires(type) ==
    /\ boards[type] # NoBoard /\ boards' = [boards EXCEPT ![type] = NoBoard]
    /\ UNCHANGED <<subject, trades, figureVars, loaderVars>>

\* What the indexer writes; and a day goes by.
WriteTrade(a, type, n) ==
    /\ subject = "boards" /\ Len(trades) < RowBound
    /\ trades' = Append(trades, [from |-> a, type |-> type, amount |-> n, recent |-> TRUE])
    /\ UNCHANGED <<subject, boards, figureVars, loaderVars>>
DayPasses ==
    LET older(x) == [x EXCEPT !.recent = FALSE]
    IN  /\ trades' = [i \in DOMAIN trades |-> older(trades[i])]
        /\ tokenRows' = [t \in QueryTokens |-> older(tokenRows[t])]
        /\ UNCHANGED <<subject, boards, figureVars, wanted, loaded>>

-----------------------------------------------------------------------------
\* Fee statistics.  The totals are columns of text, so the database orders them as
\* text: digit by digit.
Digits(n) == IF n < 10 THEN 1 ELSE IF n < 100 THEN 2 ELSE 3
TextBefore(m, n) ==
    LET shifted(k, other) == IF Digits(k) < Digits(other) THEN k * 10 ^ (Digits(other) - Digits(k)) ELSE k
    IN  \/ shifted(m, n) < shifted(n, m)
        \/ shifted(m, n) = shifted(n, m) /\ Digits(m) < Digits(n)

\* The tokens of getTopTokensByFees, for one of its columns.
TopTokensByFees(column) ==
    {SubSeq(s, 1, Min({ListedAtMost, Len(s)})) :
        s \in {p \in [1 .. Cardinality(QueryTokens) -> QueryTokens] :
                  \A i, j \in DOMAIN p : i < j => /\ p[i] # p[j]
                                                  /\ ~TextBefore(feeRows[p[i]][column], feeRows[p[j]][column])}}

\* Division of the code, towards zero.
Quotient(a, b) == IF a < 0 THEN -((-a) \div b) ELSE a \div b
AverageFee(row) == IF row.count = 0 THEN 0 ELSE row.total \div row.count
Growth(row) ==
    LET weekAverage == row.week \div 7
    IN  IF weekAverage > 0 THEN Quotient((row.day - weekAverage) * 100, weekAverage) ELSE 0

\* The dashboard and the lists of fees; a query that fails is an error of the request.
FeeDashboard(t) ==
    /\ subject = "fees"
    /\ \E column \in {"total", "day", "week"} : \E top \in TopTokensByFees(column) :
           figures' = [top |-> [i \in DOMAIN top |-> feeRows[top[i]][column]],
                       average |-> AverageFee(feeRows[t]), growth |-> Growth(feeRows[t])]
    /\ UNCHANGED <<subject, boardVars, feeRows, loaderVars>>
UpsertFees(t, total, day) ==
    /\ subject = "fees" /\ feeRows[t].count < 2 /\ day <= total
    /\ feeRows' = [feeRows EXCEPT ![t] = [total |-> total, day |-> day, week |-> total, count |-> @.count + 1]]
    /\ UNCHANGED <<subject, boardVars, figures, loaderVars>>

-----------------------------------------------------------------------------
\* Loaders.  A request asks for keys one by one; what it has is not asked for again,
\* and the rest goes to the database as one batch of each loader.
Load(l, k) ==
    /\ subject = "loaders" /\ ~loaded[k].found /\ ~Contains(wanted[l], k)
    /\ wanted' = [wanted EXCEPT ![l] = Append(@, k)]
    /\ UNCHANGED <<subject, boardVars, figureVars, tokenRows, loaded>>

\* The row of a token; the rows that name a creator.
RowsOf(k) == IF k \in QueryTokens THEN {t \in {k} : tokenRows[t] # NoRow}
             ELSE {t \in QueryTokens : tokenRows[t].creator = k}

\* Mutant: the rows in the order of the database, without those that were not found.
BatchAnswers_FoundOnly(keys) ==
    LET found == SelectSeq(keys, LAMBDA k : RowsOf(k) # {})
    IN  [i \in DOMAIN keys |-> IF i \in DOMAIN found THEN RowsOf(found[i]) ELSE {}]

\* A batch is answered in the order of its keys, with nothing for a key without rows.
BatchAnswers(keys) == [i \in DOMAIN keys |-> RowsOf(keys[i])]

LoadBatch(l) ==
    LET keys == wanted[l]
    IN  /\ keys # <<>> /\ wanted' = [wanted EXCEPT ![l] = <<>>]
        /\ loaded' = [k \in LoaderKeys |->
                         IF \E i \in DOMAIN keys : keys[i] = k
                         THEN [found |-> TRUE,
                               rows |-> BatchAnswers(keys)[CHOOSE i \in DOMAIN keys : keys[i] = k]]
                         ELSE loaded[k]]
        /\ UNCHANGED <<subject, boardVars, figureVars, tokenRows>>
\* The loaders live as long as the request.
RequestEnds ==
    /\ \A l \in Loaders : wanted[l] = <<>>
    /\ loaded' = [k \in LoaderKeys |-> NotLoaded]
    /\ \E k \in LoaderKeys : loaded[k].found
    /\ UNCHANGED <<subject, boardVars, figureVars, tokenRows, wanted>>
WriteToken(t, a) ==
    /\ subject = "loaders" /\ tokenRows[t] = NoRow
    /\ tokenRows' = [tokenRows EXCEPT ![t] = [creator |-> a, recent |-> TRUE]]
    /\ UNCHANGED <<subject, boardVars, figureVars, wanted, loaded>>

QueriesNext ==
    \/ \E type \in BoardTypes : \/ \E timeframe \in {"DAY", "ALL_TIME"} : Leaderboard(type, timeframe)
                                \/ BoardExpires(type)
    \/ \E a \in Addresses, n \in RowAmounts, type \in {"TOKEN_BOUGHT", "TOKEN_SOLD"} : WriteTrade(a, type, n)
    \/ DayPasses \/ RequestEnds
    \/ \E l \in Loaders : LoadBatch(l) \/ \E k \in KeysOf(l) : Load(l, k)
    \/ \E t \in QueryTokens : \/ FeeDashboard(t)
                              \/ \E a \in Addresses : WriteToken(t, a)
                              \/ \E total, day \in FeeTotals : UpsertFees(t, total, day)
QueriesSpec == QueriesInit /\ [][QueriesNext]_queryVars

-----------------------------------------------------------------------------
\* Types of the variables.
QueriesTypeOK ==
    /\ boards \in [BoardTypes -> [of : {"none", "DAY", "ALL_TIME"}, rows : Seq([address : Addresses, amount : Int, earned : Int])]]
    /\ tokenRows \in [QueryTokens -> [creator : Addresses \cup {"none"}, recent : BOOLEAN]]
    /\ \A k \in LoaderKeys : loaded[k].rows \subseteq QueryTokens

\* What a request was given for a key is about that key, in whatever batches its keys
\* went to the database, whichever of them had rows, and whatever was written in
\* between (graphql/loaders.ts, "in the same order as requested").
LoadsAnswerTheirKeys ==
    \A k \in LoaderKeys : \A t \in loaded[k].rows :
        IF k \in QueryTokens THEN t = k ELSE tokenRows[t].creator = k

\* "Get top tokens by fee generation" (fee-stats-service.ts:214): the list starts with
\* the tokens of the highest fees.  Not true of the code, which orders text.
TopTokensAreTop ==
    \A i, j \in DOMAIN figures.top : i < j => figures.top[i] >= figures.top[j]
=============================================================================
