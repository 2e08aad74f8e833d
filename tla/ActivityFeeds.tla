--------------------------- MODULE ActivityFeeds ----------------------------
(***************************************************************************)
(* The lists of transactions the web application shows: the live feed of a *)
(* token (LiveActivityFeed), with its highlights and its pause (its sounds *)
(* are left out), and the plain lists: the history of a token, the recent  *)
(* activity, the trades and the transactions of a user.  Each asks the     *)
(* gateway for the newest transactions, again and again; answers fail, and *)
(* transactions are recorded and deleted meanwhile.  On the page of a      *)
(* token the feed and the history stand side by side and share one entry   *)
(* of Apollo's cache (graphql/client.ts), whose key leaves out the limit.  *)
(***************************************************************************)
EXTENDS Integers, SequencesExt

CONSTANTS
    RecordedKinds,   \* kinds of transaction that happen, of TransactionType
    FeedLimit,       \* 8 on the page of a token: rows the feed asks for
    ListLimit,       \* 20 on the page of a token: rows a list asks for
    TransactionBound      \* bound of the model on the transactions

ASSUME ActivityFeedsAssumption ==
    /\ RecordedKinds \subseteq {"TOKEN_CREATED", "TOKEN_BOUGHT", "TOKEN_SOLD", "LIQUIDITY_ADDED",
                                "LIQUIDITY_REMOVED", "SWAP"}
    /\ FeedLimit \in Nat \ {0} /\ ListLimit \in Nat \ {0} /\ TransactionBound \in Nat

\* ActivityWidget, RecentTrades and TransactionHistory, each alone on its page, as is the
\* feed where the tokens are explored; the page of a token has the feed and the history
\* (TokenTransactionHistory).
Lists == {"activity", "trades", "user"}
Queries == {"feed", "list"}

VARIABLES
    recorded,   \* external: transactions of the database, as they happened: Seq of [id, kind]
    lastId,     \* external: transactions so far
    reader,     \* a list or "explore", alone on its page, or "page" with its feed and its
                \* history; "none" on a page without transactions
    asked,      \* asked[q]: the query of the feed or of the list: [state, data]
    entry,      \* the entry of the cache: the rows of the last answer
    full,       \* ids the cache knows with the fields that the feed needs
    feed,       \* [data, loading, known, highlighted, batch, paused]
    list,       \* [loading, error] of the list, which shows the entry
    tabHidden   \* usePageVisibility

cacheVars == <<entry, full>>
feedVars == <<recorded, lastId, reader, asked, cacheVars, feed, list, tabHidden>>
HasFeed == reader \in {"explore", "page"}
HasList == reader \in Lists \cup {"page"}

Unanswered == [state |-> "no", data |-> <<>>]

-----------------------------------------------------------------------------
\* The transactions resolver: the newest first, cut at the limit.
Newest(limit) == LET all == Reverse(recorded) IN SubSeq(all, 1, IF Len(all) < limit THEN Len(all) ELSE limit)
LimitOf(q) == IF q = "feed" THEN FeedLimit ELSE ListLimit
Ids(txs) == {txs[i].id : i \in DOMAIN txs}

\* How a transaction is presented.  The feed takes what it does not know for a purchase;
\* the history leaves it out and has no word for a swap; the other lists compare with
\* types the gateway does not use, but for SWAP.
FeedType(kind) ==
    CASE kind = "TOKEN_SOLD" -> "sell"
      [] kind = "TOKEN_CREATED" -> "create"
      [] OTHER -> "buy"
FeedMessage(kind) ==
    CASE FeedType(kind) = "sell" -> "sold"
      [] FeedType(kind) = "create" -> "created"
      [] OTHER -> "bought"
HistoryType(kind) ==
    CASE kind = "TOKEN_BOUGHT" -> "buy"
      [] kind = "TOKEN_SOLD" -> "sell"
      [] kind = "TOKEN_CREATED" -> "create"
      [] kind = "SWAP" -> "swap"
      [] OTHER -> "none"
HistoryLabel(kind) ==
    CASE HistoryType(kind) = "buy" -> "bought"
      [] HistoryType(kind) = "sell" -> "sold"
      [] HistoryType(kind) = "create" -> "created"
      [] OTHER -> ""
TypeColor(kind) == IF kind = "SWAP" THEN "swap" ELSE "other"
TradeLabel(kind) == IF kind = "BUY" THEN "Buy" ELSE "Sell"

HistoryRows(txs) == SelectSeq(txs, LAMBDA tx : HistoryType(tx.kind) # "none")
EntryRows == IF reader = "page" THEN HistoryRows(entry) ELSE entry
Label(kind) ==
    CASE reader = "page" -> HistoryLabel(kind)
      [] reader = "trades" -> TradeLabel(kind)
      [] OTHER -> TypeColor(kind)

\* What a list shows: a skeleton for its first answer, an error, or its rows with their
\* labels.  The recent activity does not look at errors.
ListScreen ==
    CASE list.loading -> "skeleton"
      [] ~list.loading /\ list.error /\ reader # "activity" -> "failed"
      [] OTHER -> IF EntryRows = <<>> THEN "empty" ELSE "rows"
ListRows == [i \in DOMAIN EntryRows |-> [id |-> EntryRows[i].id, label |-> Label(EntryRows[i].kind)]]

\* The feed: its header, its list and its footer.
FeedRow(tx) ==
    [id |-> tx.id, message |-> FeedMessage(tx.kind),
     ring |-> tx.id \in feed.highlighted]
FeedRows == [i \in DOMAIN feed.data |-> FeedRow(feed.data[i])]
FeedControls ==
    {IF feed.paused THEN "resume" ELSE "pause"}
    \cup (IF feed.paused THEN {"feed paused"} ELSE {})
    \cup (IF feed.data = <<>>
          THEN {IF feed.loading THEN "loading activity" ELSE "no activity yet"}
          ELSE {})

-----------------------------------------------------------------------------
Readers == Lists \cup {"explore", "page"}

FeedsInit ==
    /\ recorded = <<>> /\ lastId = 0
    /\ reader \in Readers \cup {"none"}
    /\ asked = [q \in Queries |->
                   [Unanswered EXCEPT !.state = IF IF q = "feed" THEN HasFeed ELSE HasList THEN "sent" ELSE @]]
    /\ entry = <<>> /\ full = {}
    /\ feed = [data |-> <<>>, loading |-> TRUE, known |-> {}, highlighted |-> {}, batch |-> {},
               paused |-> FALSE]
    /\ list = [loading |-> TRUE, error |-> FALSE]
    /\ tabHidden = FALSE

\* The indexer records a transaction; an administrator deletes a token with its own.
RecordTransaction(kind) ==
    /\ lastId < TransactionBound /\ lastId' = lastId + 1
    /\ recorded' = Append(recorded, [id |-> lastId', kind |-> kind])
    /\ UNCHANGED <<reader, asked, cacheVars, feed, list, tabHidden>>
DeleteTransaction(id) ==
    /\ id \in Ids(recorded)
    /\ recorded' = SelectSeq(recorded, LAMBDA tx : tx.id # id)
    /\ UNCHANGED <<lastId, reader, asked, cacheVars, feed, list, tabHidden>>

\* One request of a query at a time: Apollo gives the same answer to one under way.
AskFor(q) ==
    /\ asked[q].state = "no" /\ asked' = [asked EXCEPT ![q].state = "sent"]
    /\ UNCHANGED <<recorded, lastId, reader, cacheVars, feed, list, tabHidden>>

\* Mutant: the feed asks until it knows transactions, and no more.
FeedPolls_Once == HasFeed /\ ~feed.paused /\ ~tabHidden /\ feed.known = {} /\ AskFor("feed")

\* The interval of the feed, which is not set while it is paused or its tab is hidden.
FeedPolls == HasFeed /\ ~feed.paused /\ ~tabHidden /\ AskFor("feed")

\* The intervals of the lists; the transactions of a user are asked for once.
ListPolls == HasList /\ reader # "user" /\ AskFor("list")
\* refreshTrigger, after a trade: the feed, paused or not, and the history; and the button
\* of the history, beside its title and below its error.
TradeRefreshes(q) == reader = "page" /\ AskFor(q)
TryAgain == reader = "page" /\ ListScreen # "skeleton" /\ AskFor("list")

GatewayAnswers(q) ==
    /\ asked[q].state = "sent"
    /\ asked' = [asked EXCEPT ![q] = [state |-> "answered", data |-> Newest(LimitOf(q))]]
    /\ UNCHANGED <<recorded, lastId, reader, cacheVars, feed, list, tabHidden>>
QueryFails(q) ==
    /\ asked[q].state = "sent" /\ asked' = [asked EXCEPT ![q] = Unanswered]
    /\ feed' = [feed EXCEPT !.loading = @ /\ q # "feed"]
    /\ list' = IF q = "list" THEN [loading |-> FALSE, error |-> TRUE] ELSE list
    /\ UNCHANGED <<recorded, lastId, reader, cacheVars, tabHidden>>

\* The effect of the feed on rows it is given: what the rows before did not hold is
\* highlighted, and the one timer of the highlights starts again for this batch alone.
Given(rows) ==
    LET news == SelectSeq(rows, LAMBDA tx : tx.id \notin feed.known)
        next == [feed EXCEPT !.data = rows, !.loading = FALSE, !.known = Ids(rows)]
    IN  IF feed.known = {} \/ news = <<>> THEN next
        ELSE [next EXCEPT !.highlighted = @ \cup Ids(news), !.batch = Ids(news)]

\* An answer becomes the entry of the cache, and both queries of a page follow the entry: no
\* merge without an offset, and no limit in its key.
FeedArrives ==
    /\ asked["feed"].state = "answered" /\ asked' = [asked EXCEPT !["feed"] = Unanswered]
    /\ entry' = asked["feed"].data /\ full' = full \cup Ids(entry')
    /\ feed' = Given(entry')
    /\ list' = [list EXCEPT !.error = @ /\ asked["list"].state # "no"]
    /\ UNCHANGED <<recorded, lastId, reader, tabHidden>>

\* The history asks for fewer fields: rows of it that the feed has not read itself yet make
\* the feed ask again, paused or hidden as it may be, and keep its own rows until then.
ListArrives ==
    /\ asked["list"].state = "answered"
    /\ LET answered == [asked EXCEPT !["list"] = Unanswered]
           known == ~HasFeed \/ Ids(entry') \subseteq full
       IN  /\ entry' = asked["list"].data
           /\ asked' = IF known \/ asked["feed"].state # "no" THEN answered
                       ELSE [answered EXCEPT !["feed"].state = "sent"]
           /\ feed' = IF HasFeed /\ known THEN [Given(entry') EXCEPT !.loading = feed.loading] ELSE feed
    /\ list' = [loading |-> FALSE, error |-> FALSE]
    /\ UNCHANGED <<recorded, lastId, reader, full, tabHidden>>

HighlightEnds ==
    /\ feed.batch # {}
    /\ feed' = [feed EXCEPT !.highlighted = @ \ feed.batch, !.batch = {}]
    /\ UNCHANGED <<recorded, lastId, reader, asked, cacheVars, list, tabHidden>>

\* The button of the header, and the mouse that enters and leaves the list.
FeedInput(pressed) ==
    /\ HasFeed /\ feed' = pressed
    /\ UNCHANGED <<recorded, lastId, reader, asked, cacheVars, list, tabHidden>>
PressPause == FeedInput([feed EXCEPT !.paused = "pause" \in FeedControls])
MouseMoves(inside) == FeedInput([feed EXCEPT !.paused = inside])
TabHides ==
    /\ HasFeed /\ tabHidden' = ~tabHidden
    /\ UNCHANGED <<recorded, lastId, reader, asked, cacheVars, feed, list>>

FeedsNext ==
    \/ \E kind \in RecordedKinds : RecordTransaction(kind)
    \/ \E id \in 1 .. TransactionBound : DeleteTransaction(id)
    \/ FeedPolls \/ ListPolls \/ TryAgain
    \/ \E q \in Queries : TradeRefreshes(q) \/ GatewayAnswers(q) \/ QueryFails(q)
    \/ FeedArrives \/ ListArrives
    \/ HighlightEnds \/ PressPause \/ TabHides
    \/ \E inside \in BOOLEAN : MouseMoves(inside)

\* The timers of the browser go on and what the gateway answered arrives; a request that
\* is made again and again does not fail each time.
FeedsFairness ==
    /\ WF_feedVars(FeedPolls) /\ WF_feedVars(ListPolls)
    /\ WF_feedVars(FeedArrives) /\ WF_feedVars(ListArrives)
    /\ \A q \in Queries : SF_feedVars(GatewayAnswers(q))

FeedsSpec == FeedsInit /\ [][FeedsNext]_feedVars /\ FeedsFairness

-----------------------------------------------------------------------------
\* Once nobody pauses the feed or hides its tab any more, every list that polls comes back
\* to the newest transactions of the database, with neither a skeleton nor an error on the
\* screen, however often it was paused, refreshed or left without an answer; on the
\* page of a token cut at the limit of whichever of its two queries was answered last
\* (LiveActivityFeed, :183-201; graphql/client.ts, :127-129).
CutAtALimit == {Newest(FeedLimit), Newest(ListLimit)}
FeedCatchesUp ==
    <>[](HasFeed => ~feed.paused /\ ~tabHidden)
       => []<>(/\ reader = "explore" => Ids(FeedRows) = Ids(Newest(FeedLimit))
               /\ reader = "page" => /\ Ids(FeedRows) \in {Ids(rows) : rows \in CutAtALimit}
                                     /\ Ids(ListRows) \in {Ids(HistoryRows(rows)) : rows \in CutAtALimit}
               /\ reader \in {"activity", "trades"} => Ids(ListRows) = Ids(Newest(ListLimit))
               /\ HasList /\ reader # "user" => ListScreen \in {"rows", "empty"})
=============================================================================
