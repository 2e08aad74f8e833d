----------------------------- MODULE MCServices -----------------------------
(***************************************************************************)
(* The services that share no state with one another, checked in one run:  *)
(* the circuit breaker, the batch processor, the live updates, the query   *)
(* cache and the recovery of missed ledgers with its dead letters.  focus, *)
(* chosen at the start, names the part that moves; the others stay as they *)
(* began.                                                                  *)
(***************************************************************************)
EXTENDS CircuitBreaker, BatchProcessor, LiveUpdates, QueryCache, LedgerGapDetector

VARIABLE focus
servicesVars ==
    <<focus, breakerVars, batchVars, liveVars, cacheVars, recoveryVars>>

\* Two events, in the ledgers 2 and 3: a gap of two ledgers holds both, and a page of
\* one event is cut.
CONSTANTS e1, e2
MCLedger == e1 :> 2 @@ e2 :> 3

MCInit ==
    /\ focus \in {"breaker", "batches", "live", "cache", "recovery"}
    /\ BreakerInit /\ BatchInit /\ LiveInit /\ CacheInit /\ RecoveryInit

MCNext ==
    /\ UNCHANGED focus
    /\ \/ /\ focus = "breaker" /\ BreakerNext
          /\ UNCHANGED <<batchVars, liveVars, cacheVars, recoveryVars>>
       \/ /\ focus = "batches" /\ BatchNext
          /\ UNCHANGED <<breakerVars, liveVars, cacheVars, recoveryVars>>
       \/ /\ focus = "live" /\ LiveNext
          /\ UNCHANGED <<breakerVars, batchVars, cacheVars, recoveryVars>>
       \/ /\ focus = "cache" /\ CacheNext
          /\ UNCHANGED <<breakerVars, batchVars, liveVars, recoveryVars>>
       \/ /\ focus = "recovery" /\ RecoveryNext
          /\ UNCHANGED <<breakerVars, batchVars, liveVars, cacheVars>>

\* The fairness of the modules whose liveness is checked, asked of the part that moves.
MCSpec ==
    /\ MCInit /\ [][MCNext]_servicesVars
    /\ focus = "cache" => CacheFairness
    /\ focus = "recovery" => RecoveryFairness
=============================================================================
