-------------------------- MODULE DeadLetterQueue ---------------------------
(***************************************************************************)
(* The dead letter queue of the indexer: the table FailedEvent             *)
(* (src/backend/indexer/src/services/dead-letter-queue.ts), the retry      *)
(* worker of the event indexer that runs every two minutes, the            *)
(* maintenance job of dlq-maintenance.ts that runs every five, and the     *)
(* operator's retry endpoint.  Every pass works on a list it read at its   *)
(* start, and every await inside a pass is a step of its own, so passes    *)
(* interleave on one row.  A write may fail; a crash ends all passes.      *)
(***************************************************************************)
EXTENDS Naturals, FiniteSets, SequencesExt, TLC

CONSTANTS
    EventIds,
    Workers,       \* passes of processDLQRetries that may overlap
    MaxRetries,
    FaultsBound,   \* bound of the model on failing writes and crashes
    OperatorBound  \* bound of the model on operator requests

ASSUME DlqAssumption == MaxRetries \in Nat \ {0}

VARIABLES
    failedEvent,  \* the table: failedEvent[e] for every stored e
    worker,       \* worker[w]: the rest of its list, and the row it holds
    maint,        \* the same for the maintenance pass
    handled,      \* events that a token handler has replayed
    stranded,     \* auxiliary: rows whose pass crashed or failed to write
    faults, requests

dlqVars == <<failedEvent, worker, maint, handled, stranded, faults, requests>>

Statuses == {"PENDING", "RETRYING", "RESOLVED", "ABANDONED"}
Idle == [list |-> <<>>, held |-> <<>>]   \* held is <<>> or the one row held
HoldsRow(pass, e) == Len(pass.held) = 1 /\ pass.held[1].id = e
Stored(e) == e \in DOMAIN failedEvent

DlqInit ==
    /\ failedEvent = <<>>
    /\ worker = [w \in Workers |-> Idle]
    /\ maint = Idle
    /\ handled = {}
    /\ stranded = {}
    /\ faults = 0
    /\ requests = 0

\* The handlers processDLQRetries knows, by the eventType of the row.
ReplayHandler == [token_created   |-> "handleTokenCreated",
                  token_buy       |-> "handleTokenBuy",
                  token_sell      |-> "handleTokenSell",
                  token_graduated |-> "handleTokenGraduated"]

Replayed(e) ==
    IF /\ failedEvent[e].contract = "token_factory"
       /\ failedEvent[e].eventType \in DOMAIN ReplayHandler
    THEN handled \cup {e} ELSE handled

SetStatus(e, s, isDue) == [failedEvent EXCEPT ![e].status = s, ![e].due = isDue]

\* addFailedEvent: upsert with the retry count the pass computed from its own
\* copy of the row; the last retry abandons the event.
AddFailedEvent(row) ==
    LET count == row.retryCount + 1
        new == [status     |-> IF count >= MaxRetries THEN "ABANDONED" ELSE "PENDING",
                due        |-> FALSE,
                retryCount |-> IF count > MaxRetries THEN MaxRetries ELSE count,
                eventType  |-> row.eventType,
                contract   |-> row.contract]
    IN  (row.id :> new) @@ failedEvent

\* getRetryableEvents: the rows that are PENDING and due, as the pass keeps them.
Retryable == {e \in DOMAIN failedEvent : failedEvent[e].status = "PENDING" /\ failedEvent[e].due}
Copies(ids) == [i \in DOMAIN ids |->
                  [id |-> ids[i], retryCount |-> failedEvent[ids[i]].retryCount,
                   eventType |-> failedEvent[ids[i]].eventType,
                   contract |-> failedEvent[ids[i]].contract]]

\* The retry delay of a row passes (calculateNextRetryDelay).
RetryDelayPasses(e) ==
    /\ Stored(e) /\ failedEvent[e].status = "PENDING" /\ ~failedEvent[e].due
    /\ failedEvent' = SetStatus(e, "PENDING", TRUE)
    /\ UNCHANGED <<worker, maint, handled, stranded, faults, requests>>

WorkerLists(w) ==
    /\ worker[w] = Idle /\ Retryable # {}
    /\ worker' = [worker EXCEPT ![w].list = Copies(SetToSeq(Retryable))]
    /\ UNCHANGED <<failedEvent, maint, handled, stranded, faults, requests>>

\* markRetrying of the next row in the list.  The update of a row that was
\* cleaned up since throws, and the catch puts the event back.
WorkerTakes(w) ==
    /\ worker[w].held = <<>> /\ worker[w].list # <<>>
    /\ LET row == Head(worker[w].list)
       IN IF Stored(row.id)
          THEN /\ failedEvent' = SetStatus(row.id, "RETRYING", failedEvent[row.id].due)
               /\ worker' = [worker EXCEPT ![w] = [list |-> Tail(@.list), held |-> <<row>>]]
               /\ stranded' = stranded \ {row.id}
          ELSE /\ failedEvent' = AddFailedEvent(row)
               /\ worker' = [worker EXCEPT ![w].list = Tail(@)]
               /\ UNCHANGED stranded
    /\ UNCHANGED <<maint, handled, faults, requests>>

\* The handler of the row, if it has one, then markResolved.
WorkerResolves(w) ==
    /\ worker[w].held # <<>>
    /\ LET row == worker[w].held[1]
       IN IF Stored(row.id)
          THEN /\ handled' = Replayed(row.id)
               /\ failedEvent' = SetStatus(row.id, "RESOLVED", FALSE)
          ELSE /\ failedEvent' = AddFailedEvent(row)
               /\ UNCHANGED handled
    /\ worker' = [worker EXCEPT ![w].held = <<>>]
    /\ UNCHANGED <<maint, stranded, faults, requests>>

\* markResolved fails: the event goes back with one retry more, or, when that
\* write fails too (addFailedEvent swallows it), stays RETRYING.
WorkerFails(w) ==
    /\ worker[w].held # <<>> /\ faults < FaultsBound
    /\ faults' = faults + 1
    /\ LET row == worker[w].held[1]
       IN \/ /\ failedEvent' = AddFailedEvent(row)
             /\ UNCHANGED stranded
          \/ /\ stranded' = stranded \cup {row.id}
             /\ UNCHANGED failedEvent
    /\ worker' = [worker EXCEPT ![w].held = <<>>]
    /\ UNCHANGED <<maint, handled, requests>>

\* runRetries of dlq-maintenance: marks each row RETRYING and makes it PENDING
\* and due at once; it handles nothing itself.
MaintLists ==
    /\ maint = Idle /\ Retryable # {}
    /\ maint' = [maint EXCEPT !.list = Copies(SetToSeq(Retryable))]
    /\ UNCHANGED <<failedEvent, worker, handled, stranded, faults, requests>>

MaintTakes ==
    /\ maint.held = <<>> /\ maint.list # <<>>
    /\ LET row == Head(maint.list)
       IN IF Stored(row.id)
          THEN /\ failedEvent' = SetStatus(row.id, "RETRYING", failedEvent[row.id].due)
               /\ maint' = [list |-> Tail(maint.list), held |-> <<row>>]
               /\ stranded' = stranded \ {row.id}
          ELSE /\ maint' = [maint EXCEPT !.list = Tail(@)]
               /\ UNCHANGED <<failedEvent, stranded>>
    /\ UNCHANGED <<worker, handled, faults, requests>>

\* Mutant: the row becomes due but stays RETRYING.
MaintRequeues_KeepsStatus ==
    /\ maint.held # <<>>
    /\ LET e == maint.held[1].id
       IN failedEvent' = IF Stored(e) THEN SetStatus(e, failedEvent[e].status, TRUE) ELSE failedEvent
    /\ maint' = [maint EXCEPT !.held = <<>>]
    /\ UNCHANGED <<worker, handled, stranded, faults, requests>>

MaintRequeues ==
    /\ maint.held # <<>>
    /\ LET e == maint.held[1].id
       IN failedEvent' = IF Stored(e) THEN SetStatus(e, "PENDING", TRUE) ELSE failedEvent
    /\ maint' = [maint EXCEPT !.held = <<>>]
    /\ UNCHANGED <<worker, handled, stranded, faults, requests>>

\* The second update fails and is only logged.
MaintFails ==
    /\ maint.held # <<>> /\ faults < FaultsBound
    /\ faults' = faults + 1
    /\ stranded' = stranded \cup {maint.held[1].id}
    /\ maint' = [maint EXCEPT !.held = <<>>]
    /\ UNCHANGED <<failedEvent, worker, handled, requests>>

\* cleanupOldEvents: resolved rows past their retention.
CleanUp ==
    /\ \E e \in DOMAIN failedEvent : failedEvent[e].status = "RESOLVED"
    /\ failedEvent' = [e \in {d \in DOMAIN failedEvent : failedEvent[d].status # "RESOLVED"}
                        |-> failedEvent[e]]
    /\ UNCHANGED <<worker, maint, handled, stranded, faults, requests>>

\* POST /dlq/retry/{eventId}: PENDING and due, from any status.
OperatorRetries(e) ==
    /\ Stored(e) /\ requests < OperatorBound
    /\ requests' = requests + 1
    /\ failedEvent' = SetStatus(e, "PENDING", TRUE)
    /\ UNCHANGED <<worker, maint, handled, stranded, faults>>

\* The process dies: the lists and the rows held are lost, the table stays.
LosePasses ==
    /\ worker' = [w \in Workers |-> Idle]
    /\ maint' = Idle
    /\ stranded' = stranded \cup
         {e \in DOMAIN failedEvent :
            \/ HoldsRow(maint, e)
            \/ \E w \in Workers : HoldsRow(worker[w], e)}

DlqNext ==
    \/ \E e \in EventIds : RetryDelayPasses(e) \/ OperatorRetries(e)
    \/ \E w \in Workers : WorkerLists(w) \/ WorkerTakes(w) \/ WorkerResolves(w) \/ WorkerFails(w)
    \/ MaintLists \/ MaintTakes \/ MaintRequeues \/ MaintFails
    \/ CleanUp

-----------------------------------------------------------------------------
DlqTypeOK ==
    /\ DOMAIN failedEvent \subseteq EventIds
    /\ \A e \in DOMAIN failedEvent :
        /\ failedEvent[e].status \in Statuses
        /\ failedEvent[e].due \in BOOLEAN
        /\ failedEvent[e].retryCount \in 0 .. MaxRetries

=============================================================================
