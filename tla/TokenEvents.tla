---------------------------- MODULE TokenEvents -----------------------------
(***************************************************************************)
(* The database rows of tokens and their handlers                          *)
(* (src/backend/indexer/src/services/handlers/token-events.ts).  A handler *)
(* checks whether it has done its work, then runs a database transaction   *)
(* that reads the token row, writes it back and creates the Transaction    *)
(* row; other writers of the token row may come in between.  A handler     *)
(* catches every error.                                                    *)
(*                                                                         *)
(* The chain is the sequence of events the factory emitted; the contract's *)
(* own state of a token follows from it.                                   *)
(***************************************************************************)
EXTENDS Integers, FiniteSets, SequencesExt

CONSTANTS
    Tokens,
    Amounts,       \* XLM amounts of trades
    Topic,         \* Topic[k]: first topic of the events of kind k, in lower case
    StatusIsText,  \* TRUE: a token's status arrives as text, FALSE: as a list of one name
    ChainLength    \* bound of the model on the events emitted

ASSUME TokenAssumption == Amounts \subseteq Nat /\ StatusIsText \in BOOLEAN

VARIABLES
    chain,      \* the events emitted: [ledger, kind, token, amount]; an event's id is its index
    head,       \* the latest ledger of the network
    tokenRow,   \* table Token: NoRow, or [raised, volume, graduated]
    txRow,      \* table Transaction: the ids of the events that have a row
    handler,    \* the handler at work: [at, id, row]
    lost        \* auxiliary: events that a fault kept from being recorded

tokenVars == <<chain, head, tokenRow, txRow, handler, lost>>

NoRow == [raised |-> 0, volume |-> -1, graduated |-> FALSE]
NoHandler == [at |-> "none", id |-> 0, row |-> NoRow]
HasRow(t) == tokenRow[t] # NoRow
EventsUpTo(n, t) == {i \in 1 .. n : chain[i].token = t}

\* The contract's view: what get_token_info answers after the first n events.
Signed(i) == CASE chain[i].kind = "bought" -> chain[i].amount
               [] chain[i].kind = "sold" -> -chain[i].amount
               [] OTHER -> 0
OnChain(t) ==
    [raised    |-> SumFunctionOnSet([i \in DOMAIN chain |-> Signed(i)], EventsUpTo(Len(chain), t)),
     graduated |-> \E i \in EventsUpTo(Len(chain), t) : chain[i].kind = "graduated"]
Launched(t) == EventsUpTo(Len(chain), t) # {}

\* What the indexer makes of that answer: parseTokenInfo compares the status with
\* the text 'Graduated', which the list that a variant of the contract's type
\* becomes is never equal to.  No reader takes a volume from the contract.
ReadTokenInfo(t) == [raised    |-> OnChain(t).raised,
                     volume    |-> 0,
                     graduated |-> StatusIsText /\ OnChain(t).graduated]

TokenInit ==
    /\ chain = <<>>
    /\ head = 1
    /\ tokenRow = [t \in Tokens |-> NoRow]
    /\ txRow = {}
    /\ handler = NoHandler
    /\ lost = {}

\* The environment closes a ledger with one transaction of one or two events of a token: a
\* launch, a launch with its first buy, trades, two buys by another contract, a buy that
\* graduates the token.
Event(k, t, a) == [ledger |-> head + 1, kind |-> k, token |-> t, amount |-> a]
LedgerCloses(t, a) ==
    /\ Len(chain) < ChainLength
    /\ head' = head + 1
    /\ \/ /\ ~Launched(t)
          /\ \/ chain' = Append(chain, Event("launched", t, 0))
             \/ chain' = chain \o <<Event("launched", t, 0), Event("bought", t, a)>>
       \/ /\ Launched(t) /\ ~OnChain(t).graduated
          /\ \/ chain' = Append(chain, Event("bought", t, a))
             \/ chain' = chain \o <<Event("bought", t, a), Event("bought", t, a)>>
             \/ chain' = chain \o <<Event("bought", t, a),
                                    Event("graduated", t, OnChain(t).raised + a)>>
             \/ OnChain(t).raised >= a /\ chain' = Append(chain, Event("sold", t, a))
    /\ UNCHANGED <<tokenRow, txRow, handler, lost>>

\* A handler starts on event id, if the event has one.
StartHandler(id, has) ==
    handler' = [at |-> IF has THEN "check" ELSE "done", id |-> id, row |-> NoRow]

\* handleTokenCreated finds the token, handleTokenBuy and handleTokenSell find
\* the Transaction row: nothing to do.
AlreadyDone ==
    LET e == chain[handler.id]
    IN  /\ handler.at = "check"
        /\ IF e.kind = "launched" THEN HasRow(e.token)
           ELSE e.kind # "graduated" /\ handler.id \in txRow
        /\ handler' = [handler EXCEPT !.at = "done"]
        /\ UNCHANGED <<chain, head, tokenRow, txRow, lost>>

\* handleTokenCreated, first part: no row yet; the row starts with what
\* get_token_info answers, or at zero when it does not.
StartsWith(info) ==
    LET e == chain[handler.id]
    IN  /\ e.kind = "launched" /\ ~HasRow(e.token)
        /\ handler' = [handler EXCEPT !.at = "commit", !.row = info]
        /\ UNCHANGED <<chain, head, tokenRow, txRow, lost>>
HandleTokenCreated == handler.at = "check" /\ StartsWith(ReadTokenInfo(chain[handler.id].token))
NoTokenInfo ==
    handler.at = "check" /\ StartsWith([raised |-> 0, volume |-> 0, graduated |-> FALSE])

\* handleTokenBuy, first part: the transaction reads the row and adds to the
\* volume and to the XLM raised.
HandleTokenBuy ==
    LET e == chain[handler.id]
    IN  /\ handler.at = "check" /\ e.kind = "bought" /\ handler.id \notin txRow
        /\ handler' = [handler EXCEPT !.at = "commit",
               !.row = IF HasRow(e.token)
                       THEN [tokenRow[e.token] EXCEPT !.raised = @ + e.amount,
                                                      !.volume = @ + e.amount]
                       ELSE NoRow]
        /\ UNCHANGED <<chain, head, tokenRow, txRow, lost>>

\* handleTokenSell, first part: only the volume grows.
HandleTokenSell ==
    LET e == chain[handler.id]
    IN  /\ handler.at = "check" /\ e.kind = "sold" /\ handler.id \notin txRow
        /\ handler' = [handler EXCEPT !.at = "commit",
               !.row = IF HasRow(e.token)
                       THEN [tokenRow[e.token] EXCEPT !.volume = @ + e.amount]
                       ELSE NoRow]
        /\ UNCHANGED <<chain, head, tokenRow, txRow, lost>>

\* Mutant: a sale writes the token but no Transaction row.
Commit_SaleUnrecorded ==
    LET e == chain[handler.id]
        t == e.token
        clash == handler.id \in txRow \/ (e.kind = "launched" /\ HasRow(t))
        written == CASE e.kind = "launched" -> handler.row
                     [] e.kind = "bought" -> [tokenRow[t] EXCEPT !.raised = handler.row.raised,
                                                                 !.volume = handler.row.volume]
                     [] OTHER -> [tokenRow[t] EXCEPT !.volume = handler.row.volume]
    IN  /\ handler.at = "commit"
        /\ tokenRow' = IF clash \/ handler.row = NoRow THEN tokenRow
                       ELSE [tokenRow EXCEPT ![t] = written]
        /\ txRow' = IF clash \/ e.kind = "sold" THEN txRow ELSE txRow \cup {handler.id}
        /\ handler' = [handler EXCEPT !.at = "done"]
        /\ UNCHANGED <<chain, head, lost>>

\* The transaction of a handler commits: a launch creates its row unless another
\* writer has (the unique constraint rolls everything back), a trade writes the
\* columns it computed and its Transaction row, which is unique too.
Commit ==
    LET e == chain[handler.id]
        t == e.token
        clash == handler.id \in txRow \/ (e.kind = "launched" /\ HasRow(t))
        written == CASE e.kind = "launched" -> handler.row
                     [] e.kind = "bought" -> [tokenRow[t] EXCEPT !.raised = handler.row.raised,
                                                                 !.volume = handler.row.volume]
                     [] OTHER -> [tokenRow[t] EXCEPT !.volume = handler.row.volume]
    IN  /\ handler.at = "commit"
        /\ tokenRow' = IF clash \/ handler.row = NoRow THEN tokenRow
                       ELSE [tokenRow EXCEPT ![t] = written]
        /\ txRow' = IF clash THEN txRow ELSE txRow \cup {handler.id}
        /\ handler' = [handler EXCEPT !.at = "done"]
        /\ UNCHANGED <<chain, head, lost>>

\* handleTokenGraduated: one update; without a row it throws, and that is caught.
HandleTokenGraduated ==
    LET e == chain[handler.id]
    IN  /\ handler.at = "check" /\ e.kind = "graduated"
        /\ tokenRow' = IF HasRow(e.token)
                       THEN [tokenRow EXCEPT ![e.token].graduated = TRUE,
                                             ![e.token].raised = e.amount]
                       ELSE tokenRow
        /\ handler' = [handler EXCEPT !.at = "done"]
        /\ UNCHANGED <<chain, head, txRow, lost>>

\* The database refuses the transaction: the error is logged, and the caller
\* goes on as after a success.
HandlerError ==
    /\ handler.at \in {"check", "commit"}
    /\ lost' = lost \cup {handler.id}
    /\ handler' = [handler EXCEPT !.at = "done"]
    /\ UNCHANGED <<chain, head, tokenRow, txRow>>

HandlerStep ==
    \/ AlreadyDone
    \/ HandleTokenCreated \/ HandleTokenBuy \/ HandleTokenSell \/ HandleTokenGraduated
    \/ Commit

TokenTypeOK ==
    /\ head \in Nat
    /\ \A i \in DOMAIN chain : chain[i].token \in Tokens /\ chain[i].ledger <= head
    /\ \A t \in Tokens : /\ HasRow(t) => tokenRow[t].volume \in Nat
                         /\ tokenRow[t].graduated \in BOOLEAN
    /\ txRow \subseteq DOMAIN chain
    /\ lost \subseteq DOMAIN chain
    /\ handler.at \in {"none", "check", "commit", "done"}

\* What each event adds to the volume of a token.
TradeAmount(t) ==
    [i \in DOMAIN chain |->
        IF chain[i].token = t /\ chain[i].kind \in {"bought", "sold"} THEN chain[i].amount ELSE 0]

\* A token row never counts more volume than the trades that have a Transaction
\* row: however often an event is read again, after a crash, a failed cursor
\* write or an eviction, it is credited once (handleTokenBuy, handleTokenSell).
VolumeHasTransactions ==
    \A t \in Tokens : tokenRow[t].volume <= SumFunctionOnSet(TradeAmount(t), txRow)

=============================================================================
