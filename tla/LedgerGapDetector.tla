------------------------- MODULE LedgerGapDetector --------------------------
(***************************************************************************)
(* The ledger gap detector                                                 *)
(* (src/backend/indexer/src/lib/ledger-gap-detector.ts): detection from    *)
(* the ledger numbers the poller reports, the table LedgerGap, recovery    *)
(* in chunks with attempts, and the rows recovered events get in the dead  *)
(* letter queue.  One contract; the pass that recovers and the operator's  *)
(* triggerRecovery may work at the same time.                              *)
(***************************************************************************)
EXTENDS DeadLetterQueue

CONSTANTS
    LedgerOf,             \* LedgerOf[e]: the ledger of event e on the chain
    MaxLedger,            \* bound of the model on ledger numbers
    MinGapSize,
    MaxRecoverableGapSize,
    MaxRecoveryAttempts,
    ChunkSize,
    GetEventsLimit,            \* events one getEvents answer holds at most
    Recoverers            \* the periodic pass and the operator's request

ASSUME GapAssumption ==
    /\ LedgerOf \in [EventIds -> Nat]
    /\ MaxLedger \in Nat
    /\ ChunkSize \in Nat \ {0}

VARIABLES
    lastKnown,   \* lastKnownLedgers, lost with the process; 0 when unset
    cursor,      \* the ledger the poller last saved in IndexerState; 0 when none
    ledgerGap,   \* the table: a row for each range <<from, to>> stored
    recovery,    \* recovery[r]: the gaps listed, the one in work, the next ledger
    fetched,     \* auxiliary: events some recovery stored
    missed       \* auxiliary: events a recovery failed to fetch or to store, or that were cut
                 \* off at the limit

gapVars == <<lastKnown, cursor, ledgerGap, recovery, fetched, missed>>

NotRecovering == [list |-> <<>>, gap |-> <<>>, at |-> 0]
InGap(e, g) == g[1] <= LedgerOf[e] /\ LedgerOf[e] <= g[2]
Works(r, g) == recovery[r].gap = g

GapInit ==
    /\ lastKnown = 0
    /\ cursor = 0
    /\ ledgerGap = <<>>
    /\ recovery = [r \in Recoverers |-> NotRecovering]
    /\ fetched = {}
    /\ missed = {}

\* persistGap: a range too large is abandoned from the start; a range stored
\* before is left as it is.
PersistGap(g) ==
    [h \in DOMAIN ledgerGap \cup {g} |->
        IF h \in DOMAIN ledgerGap THEN ledgerGap[h]
        ELSE [status   |-> IF g[2] - g[1] + 1 > MaxRecoverableGapSize
                           THEN "ABANDONED" ELSE "DETECTED",
              attempts |-> 0]]

\* recordLedgerProcessed, called by a poll that saw the chain at ledger l; the
\* poll then saves l.  The row may fail to be stored, which is only logged.
RecordLedgerProcessed(l) ==
    /\ l >= cursor /\ l > 0
    /\ lastKnown' = l
    /\ cursor' = l
    /\ IF lastKnown # 0 /\ l - lastKnown - 1 >= MinGapSize
       THEN \/ ledgerGap' = PersistGap(<<lastKnown + 1, l - 1>>) /\ UNCHANGED faults
            \/ faults < FaultsBound /\ faults' = faults + 1 /\ UNCHANGED ledgerGap
       ELSE UNCHANGED <<ledgerGap, faults>>
    /\ UNCHANGED <<recovery, fetched, missed, failedEvent, worker, maint, handled, stranded, requests>>

\* processRecoverableGaps: lists the gaps once and works through the list.
ListGaps(r) ==
    LET ready == {g \in DOMAIN ledgerGap :
                    /\ ledgerGap[g].status = "DETECTED"
                    /\ ledgerGap[g].attempts < MaxRecoveryAttempts
                    /\ g[2] - g[1] + 1 <= MaxRecoverableGapSize}
    IN  /\ recovery[r] = NotRecovering /\ ready # {}
        /\ recovery' = [recovery EXCEPT ![r].list = SetToSeq(ready)]
        /\ UNCHANGED <<lastKnown, cursor, ledgerGap, fetched, missed, dlqVars>>

\* recoverGap starts: RECOVERING, one attempt more, whatever the row says now.
StartRecovery(r) ==
    /\ recovery[r].gap = <<>> /\ recovery[r].list # <<>>
    /\ LET g == Head(recovery[r].list)
       IN /\ ledgerGap' = [ledgerGap EXCEPT
                ![g] = [status |-> "RECOVERING",
                        attempts |-> IF @.attempts < MaxRecoveryAttempts
                                     THEN @.attempts + 1 ELSE @.attempts]]
          /\ recovery' = [recovery EXCEPT
                ![r] = [list |-> Tail(@.list), gap |-> g, at |-> g[1]]]
    /\ UNCHANGED <<lastKnown, cursor, fetched, missed, dlqVars>>

\* storeRecoveredEvent: a PENDING row of type "recovered", due at once; a row
\* that exists is left alone.
StoreRecovered(events) ==
    failedEvent @@ [e \in events |-> [status |-> "PENDING", due |-> TRUE, retryCount |-> 0,
                                      eventType |-> "recovered", contract |-> "token_factory"]]

\* The answer of getEvents from ledger l on, cut at its limit.
Page(l) == {e \in EventIds : /\ LedgerOf[e] >= l
                             /\ Cardinality({d \in EventIds : l <= LedgerOf[d] /\ LedgerOf[d] < LedgerOf[e]})
                                  < GetEventsLimit}
Chunk(r) == {e \in EventIds : InGap(e, recovery[r].gap)
                              /\ LedgerOf[e] \in recovery[r].at .. recovery[r].at + ChunkSize - 1}

\* The stores of some events of a page may fail, which is only logged.
StoreFound(r) ==
    LET found == {e \in Page(recovery[r].at) : InGap(e, recovery[r].gap)}
    IN  \E lost \in SUBSET found :
            /\ lost # {} => faults < FaultsBound
            /\ faults' = IF lost = {} THEN faults ELSE faults + 1
            /\ failedEvent' = StoreRecovered(found \ lost)
            /\ fetched' = fetched \cup (found \ lost)
            /\ missed' = missed \cup lost \cup (Chunk(r) \ found)

\* Mutant: the next chunk starts one ledger late.
RecoverChunk_OneTooFar(r) ==
    /\ recovery[r].gap # <<>> /\ recovery[r].at <= recovery[r].gap[2]
    /\ StoreFound(r)
    /\ recovery' = [recovery EXCEPT ![r].at = @ + ChunkSize + 1]
    /\ UNCHANGED <<lastKnown, cursor, ledgerGap, worker, maint, handled, stranded, requests>>

\* One chunk of recoverGap: of the page that starts at the chunk's first
\* ledger, the events of the gap are stored.
RecoverChunk(r) ==
    /\ recovery[r].gap # <<>> /\ recovery[r].at <= recovery[r].gap[2]
    /\ StoreFound(r)
    /\ recovery' = [recovery EXCEPT ![r].at = @ + ChunkSize]
    /\ UNCHANGED <<lastKnown, cursor, ledgerGap, worker, maint, handled, stranded, requests>>

\* The fetch of a chunk fails: a warning is logged and the loop goes on.
ChunkFails(r) ==
    /\ recovery[r].gap # <<>> /\ recovery[r].at <= recovery[r].gap[2]
    /\ faults < FaultsBound
    /\ faults' = faults + 1
    /\ missed' = missed \cup Chunk(r)
    /\ recovery' = [recovery EXCEPT ![r].at = @ + ChunkSize]
    /\ UNCHANGED <<lastKnown, cursor, ledgerGap, fetched, failedEvent, worker, maint, handled, stranded, requests>>

\* After the last chunk the gap is RECOVERED.
FinishRecovery(r) ==
    /\ recovery[r].gap # <<>> /\ recovery[r].at > recovery[r].gap[2]
    /\ ledgerGap' = [ledgerGap EXCEPT ![recovery[r].gap].status = "RECOVERED"]
    /\ recovery' = [recovery EXCEPT ![r].gap = <<>>]
    /\ UNCHANGED <<lastKnown, cursor, fetched, missed, dlqVars>>

\* The final write fails: abandoned after the last attempt, otherwise DETECTED
\* again for the next pass.
RecoveryFails(r) ==
    /\ recovery[r].gap # <<>> /\ faults < FaultsBound
    /\ faults' = faults + 1
    /\ LET g == recovery[r].gap
       IN ledgerGap' = [ledgerGap EXCEPT ![g].status =
              IF ledgerGap[g].attempts >= MaxRecoveryAttempts THEN "ABANDONED" ELSE "DETECTED"]
    /\ recovery' = [recovery EXCEPT ![r].gap = <<>>]
    /\ UNCHANGED <<lastKnown, cursor, fetched, missed, failedEvent, worker, maint, handled, stranded, requests>>

\* POST /gaps/recover/{gapId}: triggerRecovery resets the attempts of any gap
\* that is not RECOVERED and goes on with recoverGap.
TriggerRecovery(r, g) ==
    /\ recovery[r] = NotRecovering /\ requests < OperatorBound
    /\ ledgerGap[g].status # "RECOVERED"
    /\ requests' = requests + 1
    /\ ledgerGap' = [ledgerGap EXCEPT ![g] = [status |-> "DETECTED", attempts |-> 0]]
    /\ recovery' = [recovery EXCEPT ![r].list = <<g>>]
    /\ UNCHANGED <<lastKnown, cursor, fetched, missed, failedEvent, worker, maint, handled, stranded, faults>>

\* Crash and restart: loadLastKnownLedgers reads the saved cursor; a recovery
\* in work is forgotten and its gap stays RECOVERING.
CrashAndRestart ==
    /\ faults < FaultsBound
    /\ faults' = faults + 1
    /\ LosePasses
    /\ lastKnown' = cursor
    /\ recovery' = [r \in Recoverers |-> NotRecovering]
    /\ UNCHANGED <<cursor, ledgerGap, fetched, missed, failedEvent, handled, requests>>

GapNext ==
    \/ \E l \in 1 .. MaxLedger : RecordLedgerProcessed(l)
    \/ \E r \in Recoverers :
        \/ ListGaps(r) \/ StartRecovery(r) \/ RecoverChunk(r) \/ ChunkFails(r)
        \/ FinishRecovery(r) \/ RecoveryFails(r)
        \/ \E g \in DOMAIN ledgerGap : TriggerRecovery(r, g)
    \/ CrashAndRestart

RecoverySteps(r) == ListGaps(r) \/ StartRecovery(r) \/ RecoverChunk(r) \/ FinishRecovery(r)

RecoveryInit == DlqInit /\ GapInit
RecoveryNext == (DlqNext /\ UNCHANGED gapVars) \/ GapNext
recoveryVars == <<dlqVars, gapVars>>

\* The timers of the retry worker and of the gap detector fire and their passes
\* go on.  The worker lists every two minutes and the maintenance job every
\* five, and a pass holds a row only for the time of two writes: a row that keeps
\* becoming due is seen by the worker in between, hence strong fairness for each
\* row.  The operator and the maintenance job need not act, but a
\* maintenance pass that began goes on.
RecoveryFairness ==
    /\ \A w \in Workers :
        /\ \A e \in EventIds :
            SF_recoveryVars(e \in Retryable /\ WorkerLists(w) /\ UNCHANGED gapVars)
        /\ WF_recoveryVars((WorkerTakes(w) \/ WorkerResolves(w)) /\ UNCHANGED gapVars)
    /\ \A r \in Recoverers : WF_recoveryVars(RecoverySteps(r))
    /\ \A e \in EventIds : WF_recoveryVars(RetryDelayPasses(e) /\ UNCHANGED gapVars)
    /\ WF_recoveryVars((MaintTakes \/ MaintRequeues) /\ UNCHANGED gapVars)

RecoverySpec == RecoveryInit /\ [][RecoveryNext]_recoveryVars /\ RecoveryFairness

-----------------------------------------------------------------------------
GapTypeOK ==
    /\ lastKnown \in 0 .. MaxLedger /\ cursor \in 0 .. MaxLedger
    /\ \A g \in DOMAIN ledgerGap :
        /\ g \in (1 .. MaxLedger) \X (1 .. MaxLedger)
        /\ ledgerGap[g].status \in {"DETECTED", "RECOVERING", "RECOVERED", "ABANDONED"}
        /\ ledgerGap[g].attempts \in 0 .. MaxRecoveryAttempts

\* A gap is RECOVERED only when every event in it was stored, except those that a
\* failed fetch, a failed store or the limit of a page is known to have missed: the chunks cover the gap, also when two
\* recoveries of the same gap overlap (recoverGap, triggerRecovery).
RecoveredGapsAreFetched ==
    \A g \in DOMAIN ledgerGap : ledgerGap[g].status = "RECOVERED" =>
        \A e \in EventIds : InGap(e, g) => e \in fetched \cup missed

\* Every letter that waits for a retry is resolved or abandoned in the end,
\* unless a crash or a failed write strands it: the maintenance job, which
\* makes rows PENDING again, never starves the worker.
LettersSettle ==
    \A e \in EventIds :
        (Stored(e) /\ failedEvent[e].status = "PENDING")
        ~> (~Stored(e) \/ e \in stranded \/ failedEvent[e].status \in {"RESOLVED", "ABANDONED"})

\* "Store recovered events for processing.  The indexer will pick these up via
\* DLQ or direct processing" (ledger-gap-detector.ts:400): a row is resolved
\* only when a handler has replayed its event.
RecoveredEventsAreProcessed ==
    \A e \in DOMAIN failedEvent : failedEvent[e].status = "RESOLVED" => e \in handled

=============================================================================
