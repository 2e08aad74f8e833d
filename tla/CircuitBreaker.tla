--------------------------- MODULE CircuitBreaker ---------------------------
(***************************************************************************)
(* The circuit breaker in front of the Soroban RPC                         *)
(* (src/backend/indexer/src/lib/circuit-breaker.ts).  One breaker is       *)
(* shared by every poller, so several calls can be under way when it       *)
(* changes state: a call is let through by the state at its start and      *)
(* counted by the state at its end.  Delays are counted in units of the    *)
(* configured timeout.                                                     *)
(***************************************************************************)
EXTENDS Naturals

CONSTANTS
    Callers,           \* the pollers that share the breaker
    FailureThreshold,  \* failures in a row that open it
    SuccessThreshold,  \* successes that close it again
    MaxDelay           \* cap of the back-off

ASSUME BreakerAssumption ==
    /\ FailureThreshold \in Nat \ {0}
    /\ SuccessThreshold \in Nat \ {0}
    /\ MaxDelay \in Nat \ {0}

VARIABLES
    cbState,     \* CLOSED, OPEN or HALF_OPEN
    failures,    \* failureCount
    successes,   \* successCount
    delay,       \* currentDelay
    delayOver,   \* at least currentDelay has passed since lastFailureTime
    calls,       \* calls[c]: the call of poller c is under way
    served,      \* auxiliary: calls that succeeded since the breaker last opened
    rpcUp        \* the RPC answers, and in time

breakerVars == <<cbState, failures, successes, delay, delayOver, calls, served, rpcUp>>

Capped(d) == IF d > MaxDelay THEN MaxDelay ELSE d

BreakerInit ==
    /\ cbState = "CLOSED"
    /\ failures = 0
    /\ successes = 0
    /\ delay = 1
    /\ delayOver = FALSE
    /\ calls = [c \in Callers |-> FALSE]
    /\ served = 0
    /\ rpcUp = TRUE

\* execute: an OPEN breaker whose delay has passed lets the call through as a
\* probe, and any call that comes while it is HALF_OPEN passes too.
Execute(c) ==
    /\ ~calls[c]
    /\ cbState = "OPEN" => delayOver
    /\ cbState' = IF cbState = "OPEN" THEN "HALF_OPEN" ELSE cbState
    /\ calls' = [calls EXCEPT ![c] = TRUE]
    /\ UNCHANGED <<failures, successes, delay, delayOver, served, rpcUp>>

\* onSuccess: only a HALF_OPEN breaker counts successes.
OnSuccess ==
    LET closes == cbState = "HALF_OPEN" /\ successes + 1 >= SuccessThreshold
    IN  /\ failures' = 0
        /\ cbState' = IF closes THEN "CLOSED" ELSE cbState
        /\ successes' = CASE closes -> 0
                          [] cbState = "HALF_OPEN" /\ ~closes -> successes + 1
                          [] OTHER -> successes
        /\ delay' = IF closes THEN 1 ELSE delay
        /\ UNCHANGED delayOver

\* Mutant: the successes counted survive a failed probe.
OnFailure_KeepsSuccesses ==
    LET over == failures + 1 >= FailureThreshold
    IN  /\ failures' = IF over THEN FailureThreshold ELSE failures + 1
        /\ delayOver' = FALSE
        /\ cbState' = IF over \/ cbState = "HALF_OPEN" THEN "OPEN" ELSE cbState
        /\ successes' = successes
        /\ delay' = IF over THEN Capped(2 * delay) ELSE delay

\* onFailure: the back-off doubles on every failure at or above the threshold,
\* whatever the state.
OnFailure ==
    LET over == failures + 1 >= FailureThreshold
    IN  /\ failures' = IF over THEN FailureThreshold ELSE failures + 1
        /\ delayOver' = FALSE
        /\ cbState' = IF over \/ cbState = "HALF_OPEN" THEN "OPEN" ELSE cbState
        /\ successes' = IF cbState = "HALF_OPEN" THEN 0 ELSE successes
        /\ delay' = IF over THEN Capped(2 * delay) ELSE delay

CallSucceeds(c) ==
    /\ calls[c] /\ rpcUp
    /\ calls' = [calls EXCEPT ![c] = FALSE]
    /\ OnSuccess
    /\ served' = IF served < SuccessThreshold THEN served + 1 ELSE served
    /\ UNCHANGED rpcUp

\* The operation rejects, or executeWithTimeout gives up on it.
CallFails(c) ==
    /\ calls[c] /\ ~rpcUp
    /\ calls' = [calls EXCEPT ![c] = FALSE]
    /\ OnFailure
    /\ served' = IF cbState' = "OPEN" THEN 0 ELSE served
    /\ UNCHANGED rpcUp

\* shouldAttemptReset turns true as time passes.
DelayPasses ==
    /\ cbState = "OPEN" /\ ~delayOver
    /\ delayOver' = TRUE
    /\ UNCHANGED <<cbState, failures, successes, delay, calls, served, rpcUp>>

\* The environment: the RPC goes down and comes back.
RpcChanges ==
    /\ rpcUp' = ~rpcUp
    /\ UNCHANGED <<cbState, failures, successes, delay, delayOver, calls, served>>

BreakerNext ==
    \/ \E c \in Callers : Execute(c) \/ CallSucceeds(c) \/ CallFails(c)
    \/ DelayPasses
    \/ RpcChanges

\* While the indexer runs a poller calls again every 30 seconds, a call ends, and
\* the clock advances.
BreakerFairness ==
    /\ WF_breakerVars(DelayPasses)
    /\ \A c \in Callers :
        /\ WF_breakerVars(Execute(c))
        /\ WF_breakerVars(CallSucceeds(c) \/ CallFails(c))

BreakerSpec == BreakerInit /\ [][BreakerNext]_breakerVars /\ BreakerFairness

-----------------------------------------------------------------------------
BreakerTypeOK ==
    /\ cbState \in {"CLOSED", "OPEN", "HALF_OPEN"}
    /\ failures \in 0 .. FailureThreshold
    /\ successes \in 0 .. SuccessThreshold - 1
    /\ delay \in 1 .. MaxDelay
    /\ delayOver \in BOOLEAN
    /\ calls \in [Callers -> BOOLEAN]
    /\ served \in 0 .. SuccessThreshold
    /\ rpcUp \in BOOLEAN

\* A breaker that opened closes again only after SuccessThreshold calls have
\* succeeded since (execute, onSuccess and onFailure), although calls let
\* through in one state end in another.
ClosesOnlyAfterProbes ==
    [][cbState = "HALF_OPEN" /\ cbState' = "CLOSED" => served' >= SuccessThreshold]_breakerVars

=============================================================================
