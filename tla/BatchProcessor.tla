--------------------------- MODULE BatchProcessor ---------------------------
(***************************************************************************)
(* The batch processor of the indexer                                      *)
(* (src/backend/indexer/src/lib/batch-processor.ts): a buffer and a flush  *)
(* timer per contract, a queue of batches with bounded concurrency, the    *)
(* retry of a failed batch, back-pressure and shutdown.  Events are        *)
(* counted, not told apart: no batch of a real event type writes anything. *)
(***************************************************************************)
EXTENDS Naturals, FiniteSets, SequencesExt

CONSTANTS
    Contracts,       \* token_factory and amm_factory
    MaxBatchSize,
    MaxConcurrency,
    MaxQueueSize,
    MaxBatches,      \* bound of the model on the batches in the queue
    AddsBound,       \* bound of the model on the events offered
    FailsBound       \* bound of the model on the batches that fail

ASSUME BatchAssumption ==
    /\ IsFiniteSet(Contracts)
    /\ MaxBatchSize \in Nat \ {0}
    /\ MaxConcurrency \in Nat \ {0}
    /\ MaxQueueSize \in Nat \ {0}

VARIABLES
    buffered,     \* buffered[c]: length of eventBuffer[c]
    totalQueued,
    flushTimer,   \* the contracts whose flush timer is set
    batches,      \* the PQueue: batches waiting, running or in retry back-off
    phase,        \* "up", "draining" (shutdown awaits onIdle) or "down"
    offered,      \* events offered so far
    failed        \* batches failed so far

batchVars == <<buffered, totalQueued, flushTimer, batches, phase, offered, failed>>

Batch == [contract : Contracts, size : 1 .. MaxBatchSize,
          state : {"waiting", "running", "backoff", "cancelled"}]

BatchInit ==
    /\ buffered = [c \in Contracts |-> 0]
    /\ totalQueued = 0
    /\ flushTimer = {}
    /\ batches = <<>>
    /\ phase = "up"
    /\ offered = 0
    /\ failed = 0

\* A job keeps its slot of the PQueue while it waits for a retry.
Occupied == Cardinality({i \in DOMAIN batches : batches[i].state # "waiting"})

\* Mutant: the counter drops by a full batch whatever was flushed.
FlushBatch_FullSize(c, have, total, timers) ==
    LET size == IF have > MaxBatchSize THEN MaxBatchSize ELSE have
    IN  /\ buffered' = [buffered EXCEPT ![c] = have - size]
        /\ totalQueued' = total - MaxBatchSize
        /\ flushTimer' = IF have > size THEN timers \cup {c} ELSE timers \ {c}
        /\ batches' = IF have = 0 THEN batches
                      ELSE Append(batches, [contract |-> c, size |-> size, state |-> "waiting"])

\* flushBatch: the timer of c is cleared, up to maxBatchSize events leave the
\* buffer as one job, and what remains gets a timer.
FlushBatch(c, have, total, timers) ==
    LET size == IF have > MaxBatchSize THEN MaxBatchSize ELSE have
    IN  /\ buffered' = [buffered EXCEPT ![c] = have - size]
        /\ totalQueued' = total - size
        /\ flushTimer' = IF have > size THEN timers \cup {c} ELSE timers \ {c}
        /\ batches' = IF have = 0 THEN batches
                      ELSE Append(batches, [contract |-> c, size |-> size, state |-> "waiting"])

\* addEvent, accepted: a full buffer is flushed at once, otherwise a flush is
\* scheduled.
AddEvent(c) ==
    /\ phase = "up" /\ totalQueued < MaxQueueSize
    /\ Len(batches) < MaxBatches /\ offered < AddsBound
    /\ offered' = offered + 1
    /\ IF buffered[c] + 1 >= MaxBatchSize
       THEN FlushBatch(c, buffered[c] + 1, totalQueued + 1, flushTimer)
       ELSE /\ buffered' = [buffered EXCEPT ![c] = @ + 1]
            /\ totalQueued' = totalQueued + 1
            /\ flushTimer' = flushTimer \cup {c}
            /\ UNCHANGED batches
    /\ UNCHANGED <<phase, failed>>

\* addEvent, refused: the queue is full or the processor is shutting down.
RefuseEvent(c) ==
    /\ phase # "up" \/ totalQueued >= MaxQueueSize
    /\ offered < AddsBound
    /\ offered' = offered + 1
    /\ UNCHANGED <<buffered, totalQueued, flushTimer, batches, phase, failed>>

\* scheduleBatchFlush's timer.
FlushTimerFires(c) ==
    /\ c \in flushTimer /\ Len(batches) < MaxBatches
    /\ FlushBatch(c, buffered[c], totalQueued, flushTimer \ {c})
    /\ UNCHANGED <<phase, offered, failed>>

\* The PQueue starts its oldest waiting job while a slot is free.
StartBatch(i) ==
    /\ Occupied < MaxConcurrency
    /\ batches[i].state = "waiting"
    /\ \A j \in 1 .. i - 1 : batches[j].state # "waiting"
    /\ batches' = [batches EXCEPT ![i].state = "running"]
    /\ UNCHANGED <<buffered, totalQueued, flushTimer, phase, offered, failed>>

BatchSucceeds(i) ==
    /\ batches[i].state = "running"
    /\ batches' = RemoveAt(batches, i)
    /\ UNCHANGED <<buffered, totalQueued, flushTimer, phase, offered, failed>>

\* processBatch catches the failed transaction and calls retryBatch with
\* attempt 1 every time, so the attempts never run out.  During a shutdown the
\* batch is given up.
BatchFails(i) ==
    /\ batches[i].state = "running" /\ failed < FailsBound
    /\ failed' = failed + 1
    /\ batches' = IF phase = "up" THEN [batches EXCEPT ![i].state = "backoff"]
                  ELSE RemoveAt(batches, i)
    /\ UNCHANGED <<buffered, totalQueued, flushTimer, phase, offered>>

\* retryBatch's timer fires; a retry timer that shutdown cleared never does.
RetryTimerFires(i) ==
    /\ batches[i].state = "backoff"
    /\ batches' = [batches EXCEPT ![i].state = "running"]
    /\ UNCHANGED <<buffered, totalQueued, flushTimer, phase, offered, failed>>

\* shutdown: no more events, all timers cleared (those of the retries too),
\* every buffer flushed, then wait for the queue to become idle.
Shutdown ==
    LET cancelled == [i \in DOMAIN batches |->
            IF batches[i].state = "backoff" THEN [batches[i] EXCEPT !.state = "cancelled"]
            ELSE batches[i]]
        rest == SelectSeq(SetToSeq({[contract |-> c, size |-> buffered[c], state |-> "waiting"] :
                                    c \in Contracts}), LAMBDA b : b.size > 0)
    IN  /\ phase = "up"
        /\ phase' = "draining"
        /\ flushTimer' = {}
        /\ batches' = cancelled \o rest
        /\ buffered' = [c \in Contracts |-> 0]
        /\ totalQueued' = 0
        /\ UNCHANGED <<offered, failed>>

\* onIdle resolves when no job waits or runs.
ShutdownDone ==
    /\ phase = "draining" /\ batches = <<>>
    /\ phase' = "down"
    /\ UNCHANGED <<buffered, totalQueued, flushTimer, batches, offered, failed>>

RunBatch(i) == StartBatch(i) \/ BatchSucceeds(i) \/ BatchFails(i) \/ RetryTimerFires(i)

BatchNext ==
    \/ \E c \in Contracts : AddEvent(c) \/ RefuseEvent(c) \/ FlushTimerFires(c)
    \/ \E i \in DOMAIN batches : StartBatch(i) \/ BatchSucceeds(i) \/ BatchFails(i) \/ RetryTimerFires(i)
    \/ Shutdown
    \/ ShutdownDone

\* Timers fire and jobs that may run are run.
BatchFairness ==
    /\ \A c \in Contracts : WF_batchVars(FlushTimerFires(c))
    /\ WF_batchVars(\E i \in DOMAIN batches : RunBatch(i))
    /\ WF_batchVars(ShutdownDone)

BatchSpec == BatchInit /\ [][BatchNext]_batchVars /\ BatchFairness

-----------------------------------------------------------------------------
BatchTypeOK ==
    /\ buffered \in [Contracts -> 0 .. MaxBatchSize]
    /\ totalQueued \in 0 .. MaxQueueSize
    /\ flushTimer \subseteq Contracts
    /\ \A i \in DOMAIN batches : batches[i] \in Batch
    /\ phase \in {"up", "draining", "down"}

\* The counter that applies back-pressure is the number of buffered events,
\* and no buffered event waits without a timer that will flush it (addEvent,
\* flushBatch, scheduleBatchFlush and shutdown keep three pieces of state in
\* step).
BufferedEventsAreScheduled ==
    /\ totalQueued = SumFunctionOnSet(buffered, Contracts)
    /\ \A c \in Contracts : buffered[c] > 0 => c \in flushTimer

\* "Graceful shutdown": a shutdown that began ends.
ShutdownCompletes == phase = "draining" ~> phase = "down"

=============================================================================
