---------------------------- MODULE EventIndexer ----------------------------
(***************************************************************************)
(* The poller of factory events                                            *)
(* (src/backend/indexer/src/services/optimized-event-indexer.ts) with the  *)
(* cursor of lib/state-manager.ts and the duplicate check of               *)
(* lib/event-deduplication.ts.  One poll is at work at a time (the mutex); *)
(* it reads the cursor, fetches a page, hands each event to its handler    *)
(* and saves the network's latest ledger.  The process may die anywhere.   *)
(***************************************************************************)
EXTENDS TokenEvents

CONSTANTS
    PageLimit,     \* events one answer of getEvents holds
    CacheSize,     \* events the duplicate cache remembers
    TxHashGiven,   \* the RPC's events carry a txHash
    FaultBound     \* bound of the model on crashes, refusals, failing calls and requests

ASSUME IndexerAssumption == PageLimit \in Nat \ {0} /\ CacheSize \in Nat \ {0}

VARIABLES
    cursorRow,    \* table IndexerState: the last ledger, 0 when there is none
    cursorCache,  \* the state manager's copy, 0 when empty
    seen,         \* the duplicate cache, oldest first
    poll,         \* the poll at work: [at, rest, latest], holding the mutex
    up,           \* "boot" (bootstrap runs), "run", or "off"
    faultCount,
    unhandled     \* auxiliary: events whose topic the switch had no case for

indexerVars == <<cursorRow, cursorCache, seen, poll, up, faultCount, unhandled>>

NoPoll == [at |-> "none", rest |-> <<>>, latest |-> 0]
Faults(n) == faultCount + n <= FaultBound /\ faultCount' = faultCount + n

IndexerInit ==
    /\ cursorRow = 0 /\ cursorCache = 0
    /\ seen = <<>>
    /\ poll = NoPoll
    /\ up = "boot"
    /\ faultCount = 0
    /\ unhandled = {}

\* getLastLedger: the cache, then the table; a read of the table that fails is answered
\* as if there were no cursor.
LastLedger == IF cursorCache # 0 THEN cursorCache ELSE cursorRow
GetLastLedger(last) ==
    \/ last = LastLedger /\ UNCHANGED faultCount
    \/ last = 0 /\ cursorCache = 0 /\ Faults(1)
\* Without a cursor the poll starts at the network's latest ledger.
StartLedger(last) == IF last # 0 THEN last + 1 ELSE head
\* The events of ledger l and later: all but the first ones.
FromLedger(l) ==
    LET before == CHOOSE n \in 0 .. Len(chain) :
                      \A i \in DOMAIN chain : chain[i].ledger >= l <=> i > n
    IN  [k \in 1 .. Len(chain) - before |-> before + k]
CutPage(s) == SubSeq(s, 1, IF Len(s) > PageLimit THEN PageLimit ELSE Len(s))

\* updateLastLedger(l): the table, then the cache; a failed write leaves both.
SaveCursor(l) == cursorRow' = l /\ cursorCache' = l
SaveCursorFails == Faults(1) /\ UNCHANGED <<cursorRow, cursorCache>>

\* The events past the cursor that an answer leaves out because it starts later.
Jumped(found) == {i \in DOMAIN chain \ (Range(found) \cup txRow) : chain[i].ledger > cursorRow}

\* Mutant: the poll waits for one ledger more.
PollStarts_Behind ==
    /\ up = "run" /\ poll = NoPoll
    /\ \E last \in {LastLedger, 0} :
          LET found == FromLedger(StartLedger(last))
          IN  /\ GetLastLedger(last)
              /\ StartLedger(last) < head
              /\ poll' = [at |-> "next", rest |-> CutPage(found), latest |-> head]
              /\ lost' = lost \cup (Range(found) \ Range(CutPage(found))) \cup Jumped(found)
              /\ cursorCache' = last
    /\ UNCHANGED <<chain, head, tokenRow, txRow, handler, cursorRow, seen, up, unhandled>>

\* pollTokenFactoryEvents up to the answer of getEvents.  The rest of a page that was cut
\* is not asked for, nor are older ledgers when it starts without a cursor: the first
\* time, and whenever the cursor could not be read.
PollStarts ==
    /\ up = "run" /\ poll = NoPoll
    /\ \E last \in {LastLedger, 0} :
          LET found == FromLedger(StartLedger(last))
          IN  /\ GetLastLedger(last)
              /\ StartLedger(last) <= head
              /\ poll' = [at |-> "next", rest |-> CutPage(found), latest |-> head]
              /\ lost' = lost \cup (Range(found) \ Range(CutPage(found))) \cup Jumped(found)
              /\ cursorCache' = last
    /\ UNCHANGED <<chain, head, tokenRow, txRow, handler, cursorRow, seen, up, unhandled>>

\* The key of an event: its ledger, transaction and type, and an index that the events of
\* the RPC do not have; so the events of one type in a transaction, one to a ledger here,
\* share it.  Without a txHash the event's id stands for the transaction.
Key(id) == IF TxHashGiven THEN <<chain[id].ledger, Topic[chain[id].kind]>> ELSE <<id>>
\* isDuplicate: the cache, where a hit counts as a use, then a Transaction row whose hash is
\* the event's txHash or, without one, its id (handlers store the id).
Cached(id) == \E i \in DOMAIN seen : Key(seen[i]) = Key(id)
IsDuplicate(id) == Cached(id) \/ (~TxHashGiven /\ id \in txRow)
Used(id) ==
    LET i == CHOOSE i \in DOMAIN seen : Key(seen[i]) = Key(id)
    IN  Append(RemoveAt(seen, i), seen[i])

\* LRUCache.set evicts the oldest entry at capacity, also when the key is in.
Remember(id) ==
    LET room == IF Len(seen) >= CacheSize THEN Tail(seen) ELSE seen
    IN  IF \E i \in DOMAIN room : Key(room[i]) = Key(id) THEN room ELSE Append(room, id)

\* An event is skipped that another of its key has been processed for.
SkipDuplicate ==
    LET id == Head(poll.rest)
    IN  /\ poll.at = "next" /\ poll.rest # <<>> /\ IsDuplicate(id)
        /\ poll' = [poll EXCEPT !.rest = Tail(@)]
        /\ seen' = IF Cached(id) THEN Used(id) ELSE Remember(id)
        /\ lost' = lost \cup ({id} \ (Range(seen) \cup txRow))
        /\ UNCHANGED <<chain, head, tokenRow, txRow, handler, cursorRow, cursorCache, up, faultCount,
                       unhandled>>

\* The topics the switch of handleTokenFactoryEvent sends to a token handler.
Routed == [launched  |-> {"tokenlaunched", "tokenlauncheddetailed", "created"},
           bought    |-> {"tokensbought", "tokensboughtdetailed", "buy"},
           sold      |-> {"tokenssold", "sell"},
           graduated |-> {"tokengraduated"}]
IsRouted(id) == Topic[chain[id].kind] \in Routed[chain[id].kind]

\* handleTokenFactoryEvent: the batch queue takes the event, the cursor moves to
\* its ledger, and its handler starts; an event of another topic has none.
TakeEvent ==
    /\ poll.at = "next" /\ poll.rest # <<>> /\ ~IsDuplicate(Head(poll.rest))
    /\ \/ SaveCursor(chain[Head(poll.rest)].ledger) /\ UNCHANGED faultCount
       \/ SaveCursorFails
    /\ StartHandler(Head(poll.rest), IsRouted(Head(poll.rest)))
    /\ unhandled' = unhandled \cup {i \in {Head(poll.rest)} : ~IsRouted(i)}
    /\ poll' = [poll EXCEPT !.at = "handling"]
    /\ UNCHANGED <<chain, head, tokenRow, txRow, lost, seen, up>>

\* The batch queue refuses the event: it is counted as failed and dropped.
RefuseQueued ==
    /\ poll.at = "next" /\ poll.rest # <<>> /\ ~IsDuplicate(Head(poll.rest))
    /\ Faults(1)
    /\ lost' = lost \cup {Head(poll.rest)}
    /\ poll' = [poll EXCEPT !.rest = Tail(@)]
    /\ UNCHANGED <<chain, head, tokenRow, txRow, handler, cursorRow, cursorCache, seen, up, unhandled>>

\* A step of the handler at work; the RPC or the database may fail it.
Handle ==
    /\ poll.at = "handling"
    /\ \/ HandlerStep /\ UNCHANGED faultCount
       \/ (NoTokenInfo \/ HandlerError) /\ Faults(1)
    /\ UNCHANGED <<cursorRow, cursorCache, seen, poll, up, unhandled>>

\* The handler returned: markProcessed, and on to the next event.
MarkProcessed ==
    /\ poll.at = "handling" /\ handler.at = "done"
    /\ seen' = Remember(handler.id)
    /\ handler' = NoHandler
    /\ poll' = [poll EXCEPT !.at = "next", !.rest = Tail(@)]
    /\ UNCHANGED <<chain, head, tokenRow, txRow, lost, cursorRow, cursorCache, up, faultCount, unhandled>>

\* Mutant: the cursor takes the ledger of now, not that of the answer.
PollEnds_SavesHead ==
    /\ poll.at = "next" /\ poll.rest = <<>>
    /\ \/ SaveCursor(head) /\ UNCHANGED faultCount
       \/ SaveCursorFails
    /\ poll' = NoPoll
    /\ UNCHANGED <<tokenVars, seen, up, unhandled>>

\* The end of the poll: the latest ledger is saved whatever the page held, and
\* the mutex is released.
PollEnds ==
    /\ poll.at = "next" /\ poll.rest = <<>>
    /\ \/ SaveCursor(poll.latest) /\ UNCHANGED faultCount
       \/ SaveCursorFails
    /\ poll' = NoPoll
    /\ UNCHANGED <<tokenVars, seen, up, unhandled>>

\* The process dies.  Events the cursor has passed and no handler finished with
\* will not be read again.
Crash ==
    /\ up # "off" /\ Faults(1)
    /\ up' = "off"
    /\ poll' = NoPoll
    /\ handler' = NoHandler
    /\ seen' = <<>>
    /\ cursorCache' = 0
    /\ lost' = lost \cup {i \in Range(poll.rest) : chain[i].ledger <= cursorRow}
    /\ UNCHANGED <<chain, head, tokenRow, txRow, cursorRow, unhandled>>

Restart ==
    /\ up = "off" /\ up' = "boot"
    /\ UNCHANGED <<tokenVars, cursorRow, cursorCache, seen, poll, faultCount, unhandled>>

PollStep == PollStarts \/ SkipDuplicate \/ TakeEvent \/ MarkProcessed \/ PollEnds

-----------------------------------------------------------------------------
IndexerTypeOK ==
    /\ TokenTypeOK
    /\ cursorRow \in 0 .. head /\ cursorCache \in 0 .. head
    /\ Len(seen) <= CacheSize
    /\ poll.at \in {"none", "next", "handling"}
    /\ up \in {"boot", "run", "off"}

\* Every trade the cursor has passed has been recorded or is in the poll at work, unless the
\* code lost it in one of the ways it only logs, or not even that: a page cut at its limit,
\* a start without the cursor, an event the queue refuses, a key shared with another event,
\* a handler that failed, a crash after the cursor moved, a topic that has no case.  No order
\* of cursor writes, duplicate checks and restarts loses one otherwise.
CursorPassesNothingUnseen ==
    \A i \in DOMAIN chain :
        (chain[i].ledger <= cursorRow /\ chain[i].kind \in {"bought", "sold"})
        => i \in txRow \cup lost \cup unhandled \cup Range(poll.rest)

\* "Map contract event names to handlers" (optimized-event-indexer.ts:695): a
\* trade that is marked as processed has its Transaction row.
ProcessedTradesAreRecorded ==
    \A i \in Range(seen) :
        chain[i].kind \in {"bought", "sold"} => i \in txRow \cup lost

=============================================================================
