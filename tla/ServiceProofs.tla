---------------------------- MODULE ServiceProofs ---------------------------
(***************************************************************************)
(* Proofs about the services of the indexer and the gateway that share no  *)
(* state with one another, for any number of pollers, contracts, gaps,     *)
(* events and connections: the circuit breaker, the recovery of missed     *)
(* ledgers, the batch processor, the tables of the live updates, the       *)
(* limiters of requests, the list of tokens with its pages, and the        *)
(* batched loaders; and about the two contracts that share out the fees.   *)
(***************************************************************************)
EXTENDS CircuitBreaker, LedgerGapDetector, BatchProcessor, LiveUpdates, RateLimits,
        TokenBrowsing, GatewayQueries, FeeSharing, ArithmeticTheorems, FunctionTheorems,
        SequenceTheorems

-----------------------------------------------------------------------------
(***************************************************************************)
(* The circuit breaker.  A breaker that opened closes only after           *)
(* SuccessThreshold successes, for any number of pollers whose calls       *)
(* overlap its changes of state.  The inductive invariant relates the      *)
(* breaker's own counter to what really happened: it never counts more     *)
(* successes than there were since it opened, and it counts none in a      *)
(* state other than HALF_OPEN.                                             *)
(***************************************************************************)
(* The successes the breaker counts are successes since it last opened.    *)
CountsOnlyServed ==
  /\ successes <= served
  /\ cbState # "HALF_OPEN" => successes = 0

BreakerInv == BreakerTypeOK /\ CountsOnlyServed

(* The breaker starts closed with nothing counted.                         *)
LEMMA BreakerInitInv ==
  ASSUME BreakerInit
  PROVE  BreakerInv
<1>1. calls \in [Callers -> BOOLEAN] /\ delayOver \in BOOLEAN /\ rpcUp \in BOOLEAN
  BY DEF BreakerInit
<1>2. /\ cbState \in {"CLOSED", "OPEN", "HALF_OPEN"}
      /\ failures \in 0 .. FailureThreshold
      /\ successes \in 0 .. SuccessThreshold - 1
      /\ delay \in 1 .. MaxDelay
      /\ served \in 0 .. SuccessThreshold
      /\ CountsOnlyServed
  BY BreakerAssumption DEF BreakerInit, CountsOnlyServed
<1>3. QED
  BY <1>1, <1>2 DEF BreakerInv, BreakerTypeOK

(* A call begins or ends for one poller.                                   *)
LEMMA CallsType ==
  ASSUME calls \in [Callers -> BOOLEAN], NEW c \in Callers, NEW b \in BOOLEAN,
         calls' = [calls EXCEPT ![c] = b]
  PROVE  calls' \in [Callers -> BOOLEAN]
OBVIOUS

(* The back-off stays within its cap.                                      *)
LEMMA CappedDelay ==
  ASSUME NEW d \in 1 .. MaxDelay
  PROVE  Capped(2 * d) \in 1 .. MaxDelay
BY BreakerAssumption DEF Capped

(* A call that succeeds is counted by a HALF_OPEN breaker and by nobody    *)
(* else.                                                                   *)
LEMMA SuccessKeepsInv ==
  ASSUME BreakerInv, NEW c \in Callers, CallSucceeds(c)
  PROVE  BreakerInv'
<1> USE BreakerAssumption DEF BreakerInv, BreakerTypeOK, CountsOnlyServed
<1>0. calls' \in [Callers -> BOOLEAN]
  BY CallsType DEF CallSucceeds
<1>1. CASE cbState = "HALF_OPEN" /\ successes + 1 >= SuccessThreshold
  BY <1>0, <1>1 DEF CallSucceeds, OnSuccess
<1>2. CASE cbState = "HALF_OPEN" /\ ~(successes + 1 >= SuccessThreshold)
  BY <1>0, <1>2 DEF CallSucceeds, OnSuccess
<1>3. CASE cbState # "HALF_OPEN"
  BY <1>0, <1>3 DEF CallSucceeds, OnSuccess
<1>4. QED
  BY <1>1, <1>2, <1>3

(* A failed probe forgets the successes together with the ones that were   *)
(* served.                                                                 *)
LEMMA FailureKeepsInv ==
  ASSUME BreakerInv, NEW c \in Callers, CallFails(c)
  PROVE  BreakerInv'
<1> USE BreakerAssumption DEF BreakerInv, BreakerTypeOK, CountsOnlyServed
<1>1. Capped(2 * delay) \in 1 .. MaxDelay
  BY CappedDelay
<1>2. /\ calls' \in [Callers -> BOOLEAN]
      /\ delayOver' \in BOOLEAN
      /\ rpcUp' \in BOOLEAN
  BY CallsType DEF CallFails, OnFailure
<1>3. /\ failures' \in 0 .. FailureThreshold
      /\ delay' \in 1 .. MaxDelay
  BY <1>1 DEF CallFails, OnFailure
<1>4. /\ cbState' \in {"CLOSED", "OPEN", "HALF_OPEN"}
  BY DEF CallFails, OnFailure
<1>5. /\ successes' = 0
      /\ served' \in {0, served}
  BY DEF CallFails, OnFailure
<1>6. QED
  BY <1>2, <1>3, <1>4, <1>5

(* Every step of the pollers, the clock and the RPC keeps the invariant.   *)
LEMMA BreakerStepInv ==
  ASSUME BreakerInv, [BreakerNext]_breakerVars
  PROVE  BreakerInv'
<1> USE BreakerAssumption DEF BreakerInv, BreakerTypeOK, CountsOnlyServed
<1>1. ASSUME NEW c \in Callers, Execute(c)
      PROVE  BreakerInv'
  <2>1. calls' \in [Callers -> BOOLEAN]
    BY <1>1, CallsType DEF Execute
  <2>2. QED
    BY <1>1, <2>1 DEF Execute
<1>2. ASSUME NEW c \in Callers, CallSucceeds(c)
      PROVE  BreakerInv'
  BY <1>2, SuccessKeepsInv
<1>3. ASSUME NEW c \in Callers, CallFails(c)
      PROVE  BreakerInv'
  BY <1>3, FailureKeepsInv
<1>4. CASE DelayPasses
  BY <1>4 DEF DelayPasses
<1>5. CASE RpcChanges
  BY <1>5 DEF RpcChanges
<1>6. CASE UNCHANGED breakerVars
  BY <1>6 DEF breakerVars
<1>7. QED
  BY <1>1, <1>2, <1>3, <1>4, <1>5, <1>6 DEF BreakerNext

(* A step that closes the breaker is the success of a call, and completes  *)
(* the count.                                                              *)
LEMMA ClosingStep ==
  ASSUME BreakerInv, [BreakerNext]_breakerVars,
         cbState = "HALF_OPEN", cbState' = "CLOSED"
  PROVE  served' >= SuccessThreshold
<1> USE BreakerAssumption DEF BreakerInv, BreakerTypeOK, CountsOnlyServed
<1>1. PICK c \in Callers : CallSucceeds(c)
  BY DEF BreakerNext, breakerVars, Execute, CallFails, OnFailure, DelayPasses, RpcChanges
<1>2. successes + 1 >= SuccessThreshold
  BY <1>1 DEF CallSucceeds, OnSuccess
<1>3. QED
  BY <1>1, <1>2 DEF CallSucceeds

(* Type correctness of the breaker, with its counters within the           *)
(* thresholds and its delay within the cap.                                *)
THEOREM BreakerTypeCorrect == BreakerSpec => []BreakerTypeOK
<1>1. BreakerInit => BreakerInv
  BY BreakerInitInv
<1>2. BreakerInv /\ [BreakerNext]_breakerVars => BreakerInv'
  BY BreakerStepInv
<1>3. BreakerInv => BreakerTypeOK
  BY DEF BreakerInv
<1>4. QED
  BY <1>1, <1>2, <1>3, PTL DEF BreakerSpec

(* A breaker that opened closes only after SuccessThreshold calls have     *)
(* succeeded since, whatever the interleaving of the pollers' calls.       *)
THEOREM BreakerClosesAfterProbes == BreakerSpec => ClosesOnlyAfterProbes
<1>1. BreakerInit => BreakerInv
  BY BreakerInitInv
<1>2. BreakerInv /\ [BreakerNext]_breakerVars => BreakerInv'
  BY BreakerStepInv
<1>3. BreakerInv /\ [BreakerNext]_breakerVars
        => [cbState = "HALF_OPEN" /\ cbState' = "CLOSED"
              => served' >= SuccessThreshold]_breakerVars
  BY ClosingStep
<1>4. QED
  BY <1>1, <1>2, <1>3, PTL DEF BreakerSpec, ClosesOnlyAfterProbes

-----------------------------------------------------------------------------
(***************************************************************************)
(* The recovery of missed ledgers.  A gap is RECOVERED only when every     *)
(* event in it was stored or is known to have been missed, for any chain,  *)
(* any chunk size, any number of recoveries that overlap on one gap, and   *)
(* crashes anywhere.  The invariant is the loop invariant of recoverGap,   *)
(* for each recovery that is under way: the events of its gap below the    *)
(* next ledger are done.  Another recovery of the same gap may write the   *)
(* row meanwhile, but the one that writes RECOVERED has been through the   *)
(* whole gap itself.                                                       *)
(***************************************************************************)
Ranges == Nat \X Nat
GapRow == [status : {"DETECTED", "RECOVERING", "RECOVERED", "ABANDONED"}, attempts : Nat]

(* The table holds finitely many rows, for pairs of ledger numbers.        *)
TableType ==
  /\ lastKnown \in Nat /\ cursor \in Nat
  /\ IsFiniteSet(DOMAIN ledgerGap)
  /\ DOMAIN ledgerGap \subseteq Ranges
  /\ \A g \in DOMAIN ledgerGap : ledgerGap[g] \in GapRow

RecoveryType ==
  recovery \in [Recoverers -> [list : Seq(Ranges), gap : Ranges \cup {<<>>}, at : Nat]]

DoneBelow ==
  \A r \in Recoverers, e \in EventIds :
    /\ recovery[r].gap # <<>>
    /\ InGap(e, recovery[r].gap)
    /\ LedgerOf[e] < recovery[r].at
    => e \in fetched \cup missed

GapInv == TableType /\ RecoveryType /\ DoneBelow /\ RecoveredGapsAreFetched

(* The list of a pass is a sequence of the gaps it selected.               *)
LEMMA ListOfGaps ==
  ASSUME NEW S \in SUBSET Ranges, IsFiniteSet(S)
  PROVE  SetToSeq(S) \in Seq(Ranges)
<1>1. PICK f : f \in Bijection(1 .. Cardinality(S), S)
  BY FS_CardinalityType DEF ExistsBijection
<1>2. f \in [1 .. Cardinality(S) -> S] /\ IsInjective(f)
  BY <1>1 DEF Bijection, Injection, Surjection, IsInjective
<1>3. SetToSeq(S) \in [1 .. Cardinality(S) -> S]
  BY <1>2 DEF SetToSeq
<1>4. Cardinality(S) \in Nat
  BY FS_CardinalityType
<1>5. QED
  BY <1>3, <1>4

(* The first row of a list and the rest of it.                             *)
LEMMA ListHeadTail ==
  ASSUME NEW s \in Seq(Ranges), s # <<>>
  PROVE  Head(s) \in Ranges /\ Tail(s) \in Seq(Ranges)
OBVIOUS

(* The process starts with an empty table and no recovery.                 *)
LEMMA GapInitInv ==
  ASSUME GapInit
  PROVE  GapInv
<1>1. DOMAIN ledgerGap = {}
  BY DEF GapInit
<1>2. TableType
  BY <1>1, FS_EmptySet DEF GapInit, TableType
<1>3. RecoveryType
  BY DEF GapInit, RecoveryType, NotRecovering
<1>4. DoneBelow
  BY DEF GapInit, DoneBelow, NotRecovering
<1>5. RecoveredGapsAreFetched
  BY <1>1 DEF RecoveredGapsAreFetched
<1>6. QED
  BY <1>2, <1>3, <1>4, <1>5 DEF GapInv

(* A poll stores a gap as DETECTED or ABANDONED, and no gap twice.         *)
LEMMA RecordKeepsInv ==
  ASSUME GapInv, NEW l \in 1 .. MaxLedger, RecordLedgerProcessed(l)
  PROVE  GapInv'
<1> USE GapAssumption DEF GapInv, TableType
<1>1. UNCHANGED <<recovery, fetched, missed>> /\ l \in Nat /\ lastKnown' = l /\ cursor' = l
  BY DEF RecordLedgerProcessed
<1>2. RecoveryType' /\ DoneBelow'
  BY <1>1 DEF RecoveryType, DoneBelow, InGap
<1>3. CASE ledgerGap' = ledgerGap
  BY <1>1, <1>2, <1>3 DEF RecoveredGapsAreFetched, InGap
<1>4. CASE /\ lastKnown # 0 /\ l - lastKnown - 1 >= MinGapSize
           /\ ledgerGap' = PersistGap(<<lastKnown + 1, l - 1>>)
  <2> DEFINE g == <<lastKnown + 1, l - 1>>
  <2>1. g \in Ranges
    BY <1>1 DEF Ranges
  <2>2. DOMAIN ledgerGap' = DOMAIN ledgerGap \cup {g}
    BY <1>4 DEF PersistGap
  <2>3. \A h \in DOMAIN ledgerGap : ledgerGap'[h] = ledgerGap[h]
    BY <1>4 DEF PersistGap
  <2>4. g \notin DOMAIN ledgerGap =>
          ledgerGap'[g] \in GapRow /\ ledgerGap'[g].status # "RECOVERED"
    BY <1>4 DEF PersistGap, GapRow
  <2> HIDE DEF g
  <2>5. IsFiniteSet(DOMAIN ledgerGap')
    BY <2>2, FS_AddElement
  <2>6. TableType'
    BY <1>1, <2>1, <2>2, <2>3, <2>4, <2>5
  <2>7. RecoveredGapsAreFetched'
    BY <1>1, <2>2, <2>3, <2>4 DEF RecoveredGapsAreFetched, InGap
  <2>8. QED
    BY <1>2, <2>6, <2>7
<1>5. QED
  BY <1>3, <1>4 DEF RecordLedgerProcessed

(* A pass takes up gaps of the table.                                      *)
LEMMA ListKeepsInv ==
  ASSUME GapInv, NEW r \in Recoverers, ListGaps(r)
  PROVE  GapInv'
<1> DEFINE ready == {g \in DOMAIN ledgerGap :
                       /\ ledgerGap[g].status = "DETECTED"
                       /\ ledgerGap[g].attempts < MaxRecoveryAttempts
                       /\ g[2] - g[1] + 1 <= MaxRecoverableGapSize}
<1>1. ready \in SUBSET DOMAIN ledgerGap
  OBVIOUS
<1>2. ready \in SUBSET Ranges /\ IsFiniteSet(ready)
  BY <1>1, FS_Subset DEF GapInv, TableType
<1>3. SetToSeq(ready) \in Seq(Ranges)
  BY <1>2, ListOfGaps
<1>4. recovery' = [recovery EXCEPT ![r].list = SetToSeq(ready)]
  BY DEF ListGaps
<1> HIDE DEF ready
<1>5. RecoveryType'
  BY <1>3, <1>4 DEF GapInv, RecoveryType
<1>6. \A q \in Recoverers : recovery'[q].gap = recovery[q].gap /\ recovery'[q].at = recovery[q].at
  BY <1>4 DEF GapInv, RecoveryType
<1>7. UNCHANGED <<lastKnown, cursor, ledgerGap, fetched, missed>>
  BY DEF ListGaps
<1>8. QED
  BY <1>5, <1>6, <1>7 DEF GapInv, TableType, DoneBelow, RecoveredGapsAreFetched, InGap

(* A recovery starts at the first ledger of its gap: nothing of the gap is *)
(* below.                                                                  *)
LEMMA StartKeepsInv ==
  ASSUME GapInv, NEW r \in Recoverers, StartRecovery(r)
  PROVE  GapInv'
<1> DEFINE g == Head(recovery[r].list)
<1>1. recovery[r].list \in Seq(Ranges) /\ recovery[r].list # <<>>
  BY DEF StartRecovery, GapInv, RecoveryType
<1>2. g \in Ranges /\ Tail(recovery[r].list) \in Seq(Ranges)
  BY <1>1, ListHeadTail
<1>3. recovery' = [recovery EXCEPT ![r] = [list |-> Tail(recovery[r].list), gap |-> g, at |-> g[1]]]
  BY DEF StartRecovery
<1>4. /\ DOMAIN ledgerGap' = DOMAIN ledgerGap
      /\ \A h \in DOMAIN ledgerGap \ {g} : ledgerGap'[h] = ledgerGap[h]
      /\ g \in DOMAIN ledgerGap =>
           ledgerGap'[g] \in GapRow /\ ledgerGap'[g].status = "RECOVERING"
  BY DEF StartRecovery, GapInv, TableType, GapRow
<1>5. UNCHANGED <<lastKnown, cursor, fetched, missed>>
  BY DEF StartRecovery
<1> HIDE DEF g
<1>6. RecoveryType'
  <2>1. g[1] \in Nat
    BY <1>2 DEF Ranges
  <2>2. QED
    BY <1>2, <1>3, <2>1 DEF GapInv, RecoveryType
<1>7. /\ recovery'[r].gap = g /\ recovery'[r].at = g[1]
      /\ \A q \in Recoverers \ {r} : recovery'[q] = recovery[q]
  BY <1>3 DEF GapInv, RecoveryType
<1>8. DoneBelow'
  BY <1>2, <1>5, <1>7, GapAssumption DEF GapInv, DoneBelow, InGap, Ranges
<1>9. TableType'
  BY <1>4, <1>5 DEF GapInv, TableType
<1>10. RecoveredGapsAreFetched'
  BY <1>4, <1>5 DEF GapInv, RecoveredGapsAreFetched, InGap
<1>11. QED
  BY <1>6, <1>8, <1>9, <1>10 DEF GapInv

(* A chunk that was fetched, or failed, accounts for its events.           *)
LEMMA ChunkKeepsInv ==
  ASSUME GapInv, NEW r \in Recoverers, RecoverChunk(r) \/ ChunkFails(r)
  PROVE  GapInv'
<1> USE GapAssumption
<1>1. /\ recovery' = [recovery EXCEPT ![r].at = @ + ChunkSize]
      /\ UNCHANGED <<lastKnown, cursor, ledgerGap>>
  BY DEF RecoverChunk, StoreFound, ChunkFails
<1>2. fetched \cup missed \subseteq fetched' \cup missed'
  BY DEF RecoverChunk, StoreFound, ChunkFails
<1>3. Chunk(r) \subseteq fetched' \cup missed'
  BY DEF RecoverChunk, StoreFound, ChunkFails
<1>4. RecoveryType'
  <2>1. recovery[r].at + ChunkSize \in Nat
    BY DEF GapInv, RecoveryType
  <2>2. recovery' = [recovery EXCEPT ![r].at = recovery[r].at + ChunkSize]
    BY <1>1
  <2>3. QED
    BY <2>1, <2>2 DEF GapInv, RecoveryType
<1>5. /\ recovery'[r].gap = recovery[r].gap
      /\ recovery'[r].at = recovery[r].at + ChunkSize
      /\ recovery[r].at \in Nat
      /\ \A q \in Recoverers \ {r} : recovery'[q] = recovery[q]
  BY <1>1 DEF GapInv, RecoveryType
<1>6. ASSUME NEW e \in EventIds, recovery'[r].gap # <<>>, InGap(e, recovery'[r].gap),
             LedgerOf[e] < recovery'[r].at
      PROVE  e \in fetched' \cup missed'
  <2>1. CASE LedgerOf[e] < recovery[r].at
    BY <1>2, <1>5, <1>6, <2>1 DEF GapInv, DoneBelow, InGap
  <2>2. CASE ~(LedgerOf[e] < recovery[r].at)
    <3>1. LedgerOf[e] \in recovery[r].at .. recovery[r].at + ChunkSize - 1
      BY <1>5, <1>6, <2>2
    <3>2. e \in Chunk(r)
      BY <1>5, <1>6, <3>1 DEF Chunk, InGap
    <3>3. QED
      BY <1>3, <3>2
  <2>3. QED
    BY <2>1, <2>2
<1>7. DoneBelow'
  BY <1>2, <1>5, <1>6 DEF GapInv, DoneBelow, InGap
<1>8. QED
  BY <1>1, <1>2, <1>4, <1>7 DEF GapInv, TableType, RecoveredGapsAreFetched, InGap

(* The recovery that writes RECOVERED has been through its gap; one that   *)
(* fails writes another status.                                            *)
LEMMA EndKeepsInv ==
  ASSUME GapInv, NEW r \in Recoverers, FinishRecovery(r) \/ RecoveryFails(r)
  PROVE  GapInv'
<1> USE GapAssumption
<1> DEFINE g == recovery[r].gap
<1>1. g \in Ranges /\ g # <<>> /\ recovery[r].at \in Nat
  BY DEF FinishRecovery, RecoveryFails, GapInv, RecoveryType
<1>2. /\ recovery' = [recovery EXCEPT ![r].gap = <<>>]
      /\ UNCHANGED <<lastKnown, cursor, fetched, missed>>
  BY DEF FinishRecovery, RecoveryFails
<1>3. /\ DOMAIN ledgerGap' = DOMAIN ledgerGap
      /\ \A h \in DOMAIN ledgerGap \ {g} : ledgerGap'[h] = ledgerGap[h]
      /\ g \in DOMAIN ledgerGap => ledgerGap'[g] \in GapRow
  BY DEF FinishRecovery, RecoveryFails, GapInv, TableType, GapRow
<1>4. RecoveryType' /\ recovery'[r].gap = <<>>
      /\ \A q \in Recoverers \ {r} : recovery'[q] = recovery[q]
  BY <1>2 DEF GapInv, RecoveryType
<1>5. TableType' /\ DoneBelow'
  BY <1>2, <1>3, <1>4 DEF GapInv, TableType, DoneBelow, InGap
<1>6. g \in DOMAIN ledgerGap /\ ledgerGap'[g].status = "RECOVERED" =>
        \A e \in EventIds : InGap(e, g) => e \in fetched \cup missed
  <2>1. CASE FinishRecovery(r)
    <3>1. g[2] < recovery[r].at /\ g[2] \in Nat
      BY <1>1, <2>1 DEF FinishRecovery, Ranges
    <3>2. \A e \in EventIds : InGap(e, g) => LedgerOf[e] < recovery[r].at
      BY <1>1, <3>1 DEF InGap
    <3>3. QED
      BY <1>1, <3>2 DEF GapInv, DoneBelow
  <2>2. CASE RecoveryFails(r)
    BY <2>2 DEF RecoveryFails, GapInv, TableType, GapRow
  <2>3. QED
    BY <2>1, <2>2
<1>7. RecoveredGapsAreFetched'
  BY <1>2, <1>3, <1>6 DEF GapInv, RecoveredGapsAreFetched, InGap
<1>8. QED
  BY <1>4, <1>5, <1>7 DEF GapInv

(* The operator's request puts a gap back to DETECTED.                     *)
LEMMA TriggerKeepsInv ==
  ASSUME GapInv, NEW r \in Recoverers, NEW g \in DOMAIN ledgerGap, TriggerRecovery(r, g)
  PROVE  GapInv'
<1>1. /\ recovery' = [recovery EXCEPT ![r].list = <<g>>]
      /\ UNCHANGED <<lastKnown, cursor, fetched, missed>>
      /\ ledgerGap' = [ledgerGap EXCEPT ![g] = [status |-> "DETECTED", attempts |-> 0]]
  BY DEF TriggerRecovery
<1>2. <<g>> \in Seq(Ranges)
  BY DEF GapInv, TableType
<1>3. RecoveryType'
  BY <1>1, <1>2 DEF GapInv, RecoveryType
<1>4. \A q \in Recoverers : recovery'[q].gap = recovery[q].gap /\ recovery'[q].at = recovery[q].at
  BY <1>1 DEF GapInv, RecoveryType
<1>5. DoneBelow'
  BY <1>1, <1>4 DEF GapInv, DoneBelow, InGap
<1>6. TableType'
  BY <1>1 DEF GapInv, TableType, GapRow
<1>7. RecoveredGapsAreFetched'
  BY <1>1 DEF GapInv, RecoveredGapsAreFetched, InGap
<1>8. QED
  BY <1>3, <1>5, <1>6, <1>7 DEF GapInv

(* A crash forgets the recoveries and keeps the table.                     *)
LEMMA CrashKeepsInv ==
  ASSUME GapInv, CrashAndRestart
  PROVE  GapInv'
<1>1. /\ recovery' = [r \in Recoverers |-> NotRecovering] /\ lastKnown' = cursor
      /\ UNCHANGED <<cursor, ledgerGap, fetched, missed>>
  BY DEF CrashAndRestart
<1>2. RecoveryType'
  BY <1>1 DEF RecoveryType, NotRecovering
<1>3. DoneBelow'
  BY <1>1 DEF DoneBelow, NotRecovering
<1>4. QED
  BY <1>1, <1>2, <1>3 DEF GapInv, TableType, RecoveredGapsAreFetched, InGap

(* Every step of the detector, the queue and the operator keeps the        *)
(* invariant.                                                              *)
LEMMA GapStepInv ==
  ASSUME GapInv, [RecoveryNext]_recoveryVars
  PROVE  GapInv'
<1>1. CASE UNCHANGED gapVars
  BY <1>1 DEF gapVars, GapInv, TableType, RecoveryType, DoneBelow, RecoveredGapsAreFetched, InGap
<1>2. CASE GapNext
  BY <1>2, RecordKeepsInv, ListKeepsInv, StartKeepsInv, ChunkKeepsInv, EndKeepsInv,
     TriggerKeepsInv, CrashKeepsInv DEF GapNext
<1>3. QED
  BY <1>1, <1>2 DEF RecoveryNext, recoveryVars

(* A gap is RECOVERED only when each of its events was stored or is known  *)
(* to have been missed by a failed fetch, a failed store or a full page.   *)
THEOREM RecoveredMeansFetched == RecoverySpec => []RecoveredGapsAreFetched
<1>1. RecoveryInit => GapInv
  BY GapInitInv DEF RecoveryInit
<1>2. GapInv /\ [RecoveryNext]_recoveryVars => GapInv'
  BY GapStepInv
<1>3. GapInv => RecoveredGapsAreFetched
  BY DEF GapInv
<1>4. QED
  BY <1>1, <1>2, <1>3, PTL DEF RecoverySpec

-----------------------------------------------------------------------------
(***************************************************************************)
(* The batch processor.                                                    *)
(***************************************************************************)

(* A contract never buffers a full batch, and the counter never passes the *)
(* limit at which events are refused.                                      *)
QueueBounded ==
  /\ buffered \in [Contracts -> 0 .. MaxBatchSize - 1]
  /\ totalQueued \in 0 .. MaxQueueSize
  /\ phase \in {"up", "draining", "down"}

BatchInv == QueueBounded /\ BufferedEventsAreScheduled

LEMMA BatchTypes ==
  ASSUME BatchInv
  PROVE  /\ IsFiniteSet(Contracts)
         /\ MaxBatchSize \in Nat \ {0} /\ MaxQueueSize \in Nat \ {0}
         /\ buffered \in [Contracts -> Nat]
         /\ \A c \in Contracts : buffered[c] < MaxBatchSize
         /\ totalQueued \in Nat /\ totalQueued <= MaxQueueSize
         /\ totalQueued = SumFunctionOnSet(buffered, Contracts)
         /\ \A c \in Contracts : buffered[c] > 0 => c \in flushTimer
  BY BatchAssumption DEF BatchInv, QueueBounded, BufferedEventsAreScheduled

(* The counter follows the one buffer that changes.                        *)
LEMMA CounterFollows ==
  ASSUME BatchInv, NEW c \in Contracts, NEW n \in Nat,
         buffered'[c] = n, \A x \in Contracts : x # c => buffered'[x] = buffered[x]
  PROVE  /\ SumFunctionOnSet(buffered', Contracts) = totalQueued - buffered[c] + n
         /\ buffered[c] <= totalQueued
<1>1. /\ \A x \in Contracts : buffered[x] \in Int
      /\ \A x \in Contracts : buffered[x] >= 0
      /\ \A x \in Contracts : buffered'[x] \in Int
  BY BatchTypes
<1>2. /\ SumFunctionOnSet(buffered', Contracts)
           = SumFunctionOnSet(buffered, Contracts) - buffered[c] + buffered'[c]
      /\ buffered[c] <= SumFunctionOnSet(buffered, Contracts)
  <2>1. IsFiniteSet(Contracts)
    BY BatchTypes
  <2>2. SumFunctionOnSet(buffered', Contracts)
          = SumFunctionOnSet(buffered, Contracts) - buffered[c] + buffered'[c]
    BY <1>1, <2>1, SumDiffersAtOnePoint
  <2>3. buffered[c] <= SumFunctionOnSet(buffered, Contracts)
    BY <1>1, <2>1, SumNonNegative
  <2>4. QED
    BY <2>2, <2>3
<1>3. QED
  BY <1>1, <1>2, BatchTypes

(* A flush takes what it sends off the buffer and off the counter, and a   *)
(* timer stays with what it leaves.                                        *)
LEMMA FlushKeepsInv ==
  ASSUME BatchInv, NEW c \in Contracts, NEW have \in Nat, NEW total \in Nat, NEW timers,
         total <= MaxQueueSize, have <= MaxBatchSize,
         total - have = totalQueued - buffered[c], timers \cup {c} = flushTimer \cup {c},
         FlushBatch(c, have, total, timers), phase' = phase
  PROVE  BatchInv'
<1>1. /\ buffered' = [buffered EXCEPT ![c] = 0]
      /\ totalQueued' = total - have
      /\ flushTimer' = timers \ {c}
  <2>1. ~ (have > MaxBatchSize) /\ ~ (have > have) /\ have - have = 0
    BY BatchTypes
  <2>2. QED
    BY <2>1 DEF FlushBatch
<1>2. /\ SumFunctionOnSet(buffered', Contracts) = totalQueued - buffered[c]
      /\ buffered[c] <= totalQueued
  <2>1. /\ SumFunctionOnSet(buffered', Contracts) = totalQueued - buffered[c] + 0
        /\ buffered[c] <= totalQueued
    BY <1>1, CounterFollows, BatchTypes
  <2>2. QED
    BY <2>1, BatchTypes
<1>3. buffered' \in [Contracts -> 0 .. MaxBatchSize - 1]
  BY <1>1, BatchTypes DEF BatchInv, QueueBounded
<1>4. totalQueued' = SumFunctionOnSet(buffered', Contracts) /\ totalQueued' \in 0 .. MaxQueueSize
  BY <1>1, <1>2, BatchTypes
<1>5. \A x \in Contracts : buffered'[x] > 0 => x \in flushTimer'
  BY <1>1, BatchTypes
<1>6. QED
  BY <1>3, <1>4, <1>5 DEF BatchInv, QueueBounded, BufferedEventsAreScheduled

LEMMA AddKeepsInv ==
  ASSUME BatchInv, NEW c \in Contracts, AddEvent(c)
  PROVE  BatchInv'
<1>1. phase' = phase /\ totalQueued < MaxQueueSize
  BY DEF AddEvent
<1>2. CASE buffered[c] + 1 >= MaxBatchSize
  <2>1. FlushBatch(c, buffered[c] + 1, totalQueued + 1, flushTimer)
    BY <1>2 DEF AddEvent
  <2> DEFINE have == buffered[c] + 1
             total == totalQueued + 1
  <2>2. /\ have \in Nat /\ total \in Nat /\ total <= MaxQueueSize /\ have <= MaxBatchSize
        /\ total - have = totalQueued - buffered[c]
    BY <1>1, BatchTypes
  <2>3. FlushBatch(c, have, total, flushTimer)
    BY <2>1
  <2> HIDE DEF have, total
  <2>4. QED
    BY <1>1, <2>2, <2>3, FlushKeepsInv
<1>3. CASE ~ (buffered[c] + 1 >= MaxBatchSize)
  <2>1. /\ buffered' = [buffered EXCEPT ![c] = buffered[c] + 1]
        /\ totalQueued' = totalQueued + 1
        /\ flushTimer' = flushTimer \cup {c}
    BY <1>3 DEF AddEvent
  <2>2. buffered[c] + 1 \in 0 .. MaxBatchSize - 1
    BY <1>3, BatchTypes
  <2>3. SumFunctionOnSet(buffered', Contracts) = totalQueued'
    <3> DEFINE n == buffered[c] + 1
    <3>1. n \in Nat /\ buffered' = [buffered EXCEPT ![c] = n]
      BY <2>1, <2>2
    <3> HIDE DEF n
    <3>2. SumFunctionOnSet(buffered', Contracts) = totalQueued - buffered[c] + n
      BY <3>1, CounterFollows, BatchTypes
    <3>3. QED
      BY <2>1, <3>2, BatchTypes DEF n
  <2>4. QueueBounded'
    BY <1>1, <2>1, <2>2, BatchTypes DEF BatchInv, QueueBounded
  <2>5. \A x \in Contracts : buffered'[x] > 0 => x \in flushTimer'
    BY <2>1, BatchTypes
  <2>6. QED
    BY <2>3, <2>4, <2>5 DEF BatchInv, BufferedEventsAreScheduled
<1>4. QED
  BY <1>2, <1>3

LEMMA TimerKeepsInv ==
  ASSUME BatchInv, NEW c \in Contracts, FlushTimerFires(c)
  PROVE  BatchInv'
<1>1. /\ c \in flushTimer /\ phase' = phase
      /\ FlushBatch(c, buffered[c], totalQueued, flushTimer \ {c})
  BY DEF FlushTimerFires
<1> DEFINE have == buffered[c]
           timers == flushTimer \ {c}
<1>2. have \in Nat /\ have <= MaxBatchSize /\ timers \cup {c} = flushTimer \cup {c}
  BY BatchTypes
<1>3. totalQueued \in Nat /\ totalQueued <= MaxQueueSize
  BY BatchTypes
<1>4. totalQueued - have = totalQueued - buffered[c] /\ FlushBatch(c, have, totalQueued, timers)
  BY <1>1
<1> HIDE DEF have, timers
<1>5. QED
  BY <1>1, <1>2, <1>3, <1>4, FlushKeepsInv

LEMMA ShutdownKeepsInv ==
  ASSUME BatchInv, Shutdown
  PROVE  BatchInv'
<1>1. /\ buffered' = [c \in Contracts |-> 0] /\ totalQueued' = 0 /\ phase' = "draining"
  BY DEF Shutdown
<1>2. \A c \in Contracts : buffered'[c] = 0
  BY <1>1
<1>3. SumFunctionOnSet(buffered', Contracts) = 0
  BY <1>2, BatchTypes, SumNonNegative
<1>4. buffered' \in [Contracts -> 0 .. MaxBatchSize - 1] /\ totalQueued' \in 0 .. MaxQueueSize
  BY <1>1, BatchTypes
<1>5. QED
  BY <1>1, <1>2, <1>3, <1>4 DEF BatchInv, QueueBounded, BufferedEventsAreScheduled

(* The counter that applies back-pressure never drifts from the buffers,   *)
(* and no buffered event is left without the timer that will flush it      *)
(* (addEvent, flushBatch, scheduleBatchFlush, shutdown), for every batch   *)
(* size, queue limit and number of contracts.                              *)
THEOREM NoBufferedEventIsForgotten ==
  BatchInit /\ [][BatchNext]_batchVars => []BufferedEventsAreScheduled
<1>1. BatchInit => BatchInv
  <2>1. ASSUME BatchInit
        PROVE  /\ buffered \in [Contracts -> 0 .. MaxBatchSize - 1]
               /\ totalQueued = 0 /\ totalQueued \in 0 .. MaxQueueSize /\ phase = "up"
               /\ \A c \in Contracts : buffered[c] = 0
    BY <2>1, BatchAssumption DEF BatchInit
  <2>2. ASSUME BatchInit PROVE SumFunctionOnSet(buffered, Contracts) = 0
    BY <2>1, <2>2, BatchAssumption, SumNonNegative
  <2>3. QED
    BY <2>1, <2>2 DEF BatchInv, QueueBounded, BufferedEventsAreScheduled
<1>2. BatchInv /\ [BatchNext]_batchVars => BatchInv'
  <2> SUFFICES ASSUME BatchInv, [BatchNext]_batchVars
               PROVE  BatchInv'
    OBVIOUS
  <2>1. ASSUME NEW c \in Contracts, AddEvent(c) \/ RefuseEvent(c) \/ FlushTimerFires(c)
        PROVE  BatchInv'
    <3>1. CASE AddEvent(c)
      BY <3>1, AddKeepsInv
    <3>2. CASE RefuseEvent(c)
      BY <3>2 DEF RefuseEvent, BatchInv, QueueBounded, BufferedEventsAreScheduled
    <3>3. CASE FlushTimerFires(c)
      BY <3>3, TimerKeepsInv
    <3>4. QED
      BY <2>1, <3>1, <3>2, <3>3
  <2>2. ASSUME NEW i \in DOMAIN batches,
               StartBatch(i) \/ BatchSucceeds(i) \/ BatchFails(i) \/ RetryTimerFires(i)
        PROVE  BatchInv'
    <3>1. /\ buffered' = buffered /\ totalQueued' = totalQueued
          /\ flushTimer' = flushTimer /\ phase' = phase
      BY <2>2 DEF StartBatch, BatchSucceeds, BatchFails, RetryTimerFires
    <3>2. QED
      BY <3>1 DEF BatchInv, QueueBounded, BufferedEventsAreScheduled
  <2>3. CASE Shutdown
    BY <2>3, ShutdownKeepsInv
  <2>4. CASE ShutdownDone
    BY <2>4 DEF ShutdownDone, BatchInv, QueueBounded, BufferedEventsAreScheduled
  <2>5. CASE UNCHANGED batchVars
    BY <2>5 DEF batchVars, BatchInv, QueueBounded, BufferedEventsAreScheduled
  <2>6. QED
    BY <2>1, <2>2, <2>3, <2>4, <2>5 DEF BatchNext
<1>3. BatchInv => BufferedEventsAreScheduled
  BY DEF BatchInv
<1>4. QED
  BY <1>1, <1>2, <1>3, PTL

-----------------------------------------------------------------------------
(***************************************************************************)
(* Live updates.  Every socket ever made has a number and an address that  *)
(* never change; a connection the server knows is one of them whose server *)
(* end exists.  With that the tables agree after every step.               *)
(***************************************************************************)
SocketShape(s) == DOMAIN s = {"ip", "page", "server", "wire", "follows"}
ClientShape(s) == DOMAIN s = {"subscriptions", "heard", "known"}

(* A step of the sockets that makes none.                                  *)
SocketArray(f) == f = [i \in Connections |-> f[i]] /\ \A i \in Connections : SocketShape(f[i])
KeptFrom(f, g) ==
  /\ SocketArray(g)
  /\ \A i \in Connections : g[i].ip = f[i].ip
  /\ \A i \in Connections : f[i].page = "none" => g[i] = f[i]
  /\ \A i \in Connections : f[i].page # "none" => g[i].page # "none"
  /\ \A i \in Connections : f[i].server # "none" => g[i].server # "none"
SocketsKept == KeptFrom(sockets, sockets')

(* The sockets made so far are the first ones, and each has an address.    *)
SocketsInv ==
  /\ SocketArray(sockets)
  /\ \A i \in Connections : sockets[i].page = "none" => sockets[i] = NoSocket
  /\ \A i \in Connections : sockets[i].page # "none" => sockets[i].ip \in Hosts
  /\ \E n \in 0 .. SocketBound : \A i \in Connections : sockets[i].page # "none" <=> i <= n

KnownIsConnected ==
  \A i \in Connections : Known(i) => sockets[i].page # "none" /\ sockets[i].server # "none"

TableShapes ==
  /\ clients = [i \in Connections |-> clients[i]]
  /\ \A i \in Connections : ClientShape(clients[i])
  /\ tokenSubscribers = [c \in Channels |-> tokenSubscribers[c]]
  /\ connectionsByIp \in [Hosts -> Nat]

LiveInv == SocketsInv /\ TableShapes /\ KnownIsConnected /\ TablesAgree

KnownAt(h) == {i \in Connections : Known(i) /\ sockets[i].ip = h}

LEMMA KeptSockets ==
  ASSUME SocketsInv, SocketsKept
  PROVE  SocketsInv'
<1>1. \A i \in Connections : sockets'[i].page # "none" <=> sockets[i].page # "none"
  BY DEF SocketsInv, SocketsKept, KeptFrom, NoSocket
<1>2. PICK n \in 0 .. SocketBound : \A i \in Connections : sockets[i].page # "none" <=> i <= n
  BY DEF SocketsInv
<1>3. \A i \in Connections : sockets'[i].page # "none" <=> i <= n
  BY <1>1, <1>2
<1>4. \A i \in Connections : /\ sockets'[i].page = "none" => sockets'[i] = NoSocket
                             /\ sockets'[i].page # "none" => sockets'[i].ip \in Hosts
  BY <1>1 DEF SocketsInv, SocketsKept, KeptFrom
<1>5. Connections' = Connections
  BY DEF Connections
<1>6. QED
  BY <1>3, <1>4, <1>5 DEF SocketsInv, SocketsKept, KeptFrom, SocketArray

(* The number of a new socket is that of one not made before.              *)
LEMMA NextIsUnused ==
  ASSUME SocketsInv
  PROVE  \E n \in 0 .. SocketBound :
           /\ NextSocket = n + 1
           /\ \A i \in Connections : sockets[i].page # "none" <=> i <= n
<1> USE LiveAssumption
<1>1. PICK n \in 0 .. SocketBound : \A i \in Connections : sockets[i].page # "none" <=> i <= n
  BY DEF SocketsInv
<1>2. \A i \in Connections : sockets[i] # NoSocket <=> sockets[i].page # "none"
  BY DEF SocketsInv, NoSocket
<1>3. {i \in Connections : sockets[i] # NoSocket} = 1 .. n
  <2>1. \A i : i \in Connections /\ i <= n <=> i \in 1 .. n
    BY DEF Connections
  <2>2. QED
    BY <1>1, <1>2, <2>1
<1>4. Cardinality(1 .. n) = n
  <2>1. Cardinality(1 .. n) = IF 1 > n THEN 0 ELSE n - 1 + 1
    BY FS_Interval
  <2>2. QED
    BY <2>1
<1>5. NextSocket = n + 1
  BY <1>3, <1>4 DEF NextSocket
<1>6. QED
  BY <1>1, <1>5

LEMMA MadeSocket ==
  ASSUME NEW ip, NEW follows
  PROVE  LET s == [NoSocket EXCEPT !.ip = ip, !.page = "connecting", !.follows = follows]
         IN  s.ip = ip /\ s.page = "connecting" /\ SocketShape(s)
BY DEF NoSocket, SocketShape

LEMMA NewSocket ==
  ASSUME SocketsInv, NEW k, NEW h \in Hosts, k = NextSocket, k <= SocketBound,
         NEW follows,
         sockets' = [sockets EXCEPT ![k] =
                       [NoSocket EXCEPT !.ip = h, !.page = "connecting", !.follows = follows]]
  PROVE  /\ SocketsInv'
         /\ k \in Connections /\ sockets[k].page = "none"
         /\ \A i \in Connections : i # k => sockets'[i] = sockets[i]
<1> USE LiveAssumption
<1> DEFINE new == [NoSocket EXCEPT !.ip = h, !.page = "connecting", !.follows = follows]
<1>1. PICK n \in 0 .. SocketBound :
         k = n + 1 /\ \A i \in Connections : sockets[i].page # "none" <=> i <= n
  BY NextIsUnused
<1>2. k \in Connections /\ sockets[k].page = "none"
  BY <1>1 DEF Connections
<1>3. new.page = "connecting" /\ new.ip = h /\ SocketShape(new)
  BY MadeSocket
<1>10. sockets' = [sockets EXCEPT ![k] = new]
  OBVIOUS
<1> HIDE DEF new
<1>4. sockets' = [i \in Connections |-> IF i = k THEN new ELSE sockets[i]]
  BY <1>10 DEF SocketsInv, SocketArray
<1>5. \A i \in Connections : sockets'[i] = IF i = k THEN new ELSE sockets[i]
  BY <1>4
<1>6. \A i \in Connections : sockets'[i].page # "none" <=> i <= n + 1
  BY <1>1, <1>2, <1>3, <1>5 DEF Connections
<1>7. n + 1 \in 0 .. SocketBound
  BY <1>1, <1>2 DEF Connections
<1>8. SocketsInv'
  <2>1. /\ \A i \in Connections : SocketShape(sockets'[i])
        /\ \A i \in Connections : sockets'[i].page = "none" => sockets'[i] = NoSocket
        /\ \A i \in Connections : sockets'[i].page # "none" => sockets'[i].ip \in Hosts
    BY <1>3, <1>5 DEF SocketsInv, SocketArray
  <2>2. sockets' = [i \in Connections |-> sockets'[i]]
    BY <1>4, <1>5
  <2>3. Connections' = Connections
    BY DEF Connections
  <2>4. QED
    BY <1>6, <1>7, <2>1, <2>2, <2>3 DEF SocketsInv, SocketArray
<1>9. QED
  BY <1>2, <1>5, <1>8

(* A step of one socket that has been made.                                *)
LEMMA SocketMoves ==
  ASSUME NEW f, SocketArray(f), NEW i \in Connections, NEW s, SocketShape(s),
         s.ip = f[i].ip, f[i].page # "none", s.page # "none",
         f[i].server # "none" => s.server # "none",
         NEW g, g = [f EXCEPT ![i] = s]
  PROVE  KeptFrom(f, g)
<1>1. g = [j \in Connections |-> IF j = i THEN s ELSE f[j]]
  BY DEF SocketArray
<1>2. \A j \in Connections : g[j] = IF j = i THEN s ELSE f[j]
  BY <1>1
<1>3. \A j \in Connections : SocketShape(f[j])
  BY DEF SocketArray
<1>4. g = [j \in Connections |-> g[j]]
  BY <1>1, <1>2
<1>5. QED
  BY <1>2, <1>3, <1>4 DEF KeptFrom, SocketArray

LEMMA KeptTwice ==
  ASSUME NEW f, NEW g, NEW h, KeptFrom(f, g), KeptFrom(g, h)
  PROVE  KeptFrom(f, h)
BY DEF KeptFrom

LEMMA SocketStands ==
  ASSUME SocketsInv, sockets' = sockets
  PROVE  SocketsKept
BY DEF SocketsInv, SocketsKept, KeptFrom

(* When only the sockets move, and no address of a known one, the tables   *)
(* agree as before.                                                        *)
LEMMA SocketsMove ==
  ASSUME LiveInv, SocketsInv', UNCHANGED <<clients, tokenSubscribers, connectionsByIp>>,
         \A i \in Connections : Known(i) => /\ sockets'[i].ip = sockets[i].ip
                                            /\ sockets'[i].page # "none"
                                            /\ sockets'[i].server # "none"
  PROVE  LiveInv'
<1>1. TableShapes' /\ KnownIsConnected'
  BY DEF LiveInv, TableShapes, KnownIsConnected, Known, Connections
<1>2. \A h \in Hosts : {i \in Connections : Known(i) /\ sockets[i].ip = h}
                         = {i \in Connections : Known(i)' /\ sockets'[i].ip = h}
  BY DEF Known
<1>3. TablesAgree'
  BY <1>2 DEF LiveInv, TablesAgree, Known, Connections
<1>4. QED
  BY <1>1, <1>3 DEF LiveInv

LEMMA KeptSocketsMove ==
  ASSUME LiveInv, SocketsKept, UNCHANGED <<clients, tokenSubscribers, connectionsByIp>>
  PROVE  LiveInv'
<1>1. SocketsInv'
  BY KeptSockets DEF LiveInv
<1>2. \A i \in Connections : Known(i) => /\ sockets'[i].ip = sockets[i].ip
                                         /\ sockets'[i].page # "none"
                                         /\ sockets'[i].server # "none"
  BY DEF LiveInv, KnownIsConnected, SocketsKept, KeptFrom
<1>3. QED
  BY <1>1, <1>2, SocketsMove

(* The steps of the hook.                                                  *)
LEMMA ConnectKeepsInv ==
  ASSUME LiveInv, UNCHANGED <<clients, tokenSubscribers, connectionsByIp>>,
         NEW follows, Connect(follows)
  PROVE  LiveInv'
<1>1. CASE IsOpen(hook.ref)
  <2>1. sockets' = sockets
    BY <1>1 DEF Connect
  <2>2. QED
    BY <2>1, SocketStands, KeptSocketsMove DEF LiveInv
<1>2. CASE ~IsOpen(hook.ref)
  <2>1. PICK h \in Hosts : sockets' = [sockets EXCEPT ![NextSocket] =
                [NoSocket EXCEPT !.ip = h, !.page = "connecting", !.follows = follows]]
    BY <1>2 DEF Connect
  <2>2. NextSocket <= SocketBound
    BY <1>2 DEF Connect
  <2>3. /\ SocketsInv' /\ NextSocket \in Connections /\ sockets[NextSocket].page = "none"
        /\ \A i \in Connections : i # NextSocket => sockets'[i] = sockets[i]
    BY <2>1, <2>2, NewSocket DEF LiveInv
  <2>4. \A i \in Connections : Known(i) => /\ sockets'[i].ip = sockets[i].ip
                                           /\ sockets'[i].page # "none"
                                           /\ sockets'[i].server # "none"
    BY <2>3 DEF LiveInv, KnownIsConnected
  <2>5. QED
    BY <2>3, <2>4, SocketsMove
<1>3. QED
  BY <1>1, <1>2

LEMMA ClosedSocket ==
  ASSUME NEW s, SocketShape(s), s.page # "none"
  PROVE  /\ SocketShape(Close(s)) /\ Close(s).ip = s.ip /\ Close(s).page # "none"
         /\ s.server # "none" => Close(s).server # "none"
BY DEF Close, SocketShape

LEMMA CloseKeepsInv ==
  ASSUME LiveInv, UNCHANGED <<clients, tokenSubscribers, connectionsByIp>>,
         NEW r, sockets' = [sockets EXCEPT ![r] = Close(@)]
  PROVE  LiveInv'
<1>1. SocketArray(sockets)
  BY DEF LiveInv, SocketsInv
<1>2. CASE r \notin Connections
  <2>1. sockets' = sockets
    BY <1>1, <1>2 DEF SocketArray
  <2>2. QED
    BY <2>1, SocketStands, KeptSocketsMove DEF LiveInv
<1>3. CASE r \in Connections /\ sockets[r].page # "none"
  <2>1. SocketShape(sockets[r])
    BY <1>1, <1>3 DEF SocketArray
  <2>2. SocketsKept
    BY <1>1, <1>3, <2>1, ClosedSocket, SocketMoves DEF SocketsKept
  <2>3. QED
    BY <2>2, KeptSocketsMove
<1>4. CASE r \in Connections /\ sockets[r].page = "none"
  <2>1. sockets[r] = NoSocket
    BY <1>4 DEF LiveInv, SocketsInv
  <2>2. Close(NoSocket) = NoSocket
    BY DEF Close, NoSocket
  <2>3. sockets' = sockets
    BY <1>1, <1>4, <2>1, <2>2 DEF SocketArray
  <2>4. QED
    BY <2>3, SocketStands, KeptSocketsMove DEF LiveInv
<1>5. QED
  BY <1>2, <1>3, <1>4

(* A message put on the wire of an open socket.                            *)
LEMMA WireMoves ==
  ASSUME NEW f, SocketArray(f), NEW r, f[r].page = "open", NEW w,
         NEW g, g = [f EXCEPT ![r].wire = w]
  PROVE  KeptFrom(f, g)
<1>1. CASE r \notin Connections
  <2>1. g = f
    BY <1>1 DEF SocketArray
  <2>2. QED
    BY <2>1 DEF KeptFrom, SocketArray
<1>2. CASE r \in Connections
  <2> DEFINE s == [f[r] EXCEPT !.wire = w]
  <2>1. SocketShape(f[r])
    BY <1>2 DEF SocketArray
  <2>2. SocketShape(s) /\ s.ip = f[r].ip /\ s.page = "open" /\ s.server = f[r].server
    BY <2>1 DEF SocketShape
  <2>3. g = [f EXCEPT ![r] = s]
    OBVIOUS
  <2> HIDE DEF s
  <2>4. QED
    BY <1>2, <2>2, <2>3, SocketMoves
<1>3. QED
  BY <1>1, <1>2

LEMMA SendKeepsInv ==
  ASSUME LiveInv, UNCHANGED <<clients, tokenSubscribers, connectionsByIp>>,
         NEW m, SendIfOpen(m)
  PROVE  LiveInv'
<1>1. SocketArray(sockets)
  BY DEF LiveInv, SocketsInv
<1>2. SocketsKept
  <2>1. CASE ~IsOpen(hook.ref)
    BY <2>1, SocketStands DEF SendIfOpen, LiveInv
  <2>2. CASE IsOpen(hook.ref)
    <3>1. sockets' = [sockets EXCEPT ![hook.ref].wire = Append(sockets[hook.ref].wire, m)]
      BY <2>2 DEF SendIfOpen
    <3>2. QED
      BY <1>1, <2>2, <3>1, WireMoves DEF IsOpen, SocketsKept
  <2>3. QED
    BY <2>1, <2>2
<1>3. QED
  BY <1>2, KeptSocketsMove

LEMMA OnOpenKeepsInv ==
  ASSUME LiveInv, NEW i \in Connections, OnOpen(i)
  PROVE  LiveInv'
<1> DEFINE s == [sockets[i] EXCEPT !.page = "open"]
           opened == [sockets EXCEPT ![i].page = "open"]
           says == [k \in 1 .. Cardinality(sockets[i].follows) |->
                       Message("subscribe", SetToSeq(sockets[i].follows)[k])]
<1>1. SocketArray(sockets) /\ sockets[i].page = "connecting" /\ SocketShape(sockets[i])
  BY DEF LiveInv, SocketsInv, OnOpen, SocketArray
<1>2. SocketShape(s) /\ s.ip = sockets[i].ip /\ s.page = "open" /\ s.server = sockets[i].server
  BY <1>1 DEF SocketShape
<1>3. opened = [sockets EXCEPT ![i] = s]
  OBVIOUS
<1>4. /\ UNCHANGED <<clients, tokenSubscribers, connectionsByIp>>
      /\ sockets' = IF hook.ref # 0 /\ opened[hook.ref].page = "open"
                    THEN [opened EXCEPT ![hook.ref].wire = opened[hook.ref].wire \o says] ELSE opened
  BY DEF OnOpen
<1> HIDE DEF s, opened, says
<1>5. KeptFrom(sockets, opened)
  BY <1>1, <1>2, <1>3, SocketMoves
<1>6. SocketsKept
  <2>1. CASE ~(hook.ref # 0 /\ opened[hook.ref].page = "open")
    BY <1>4, <1>5, <2>1 DEF SocketsKept
  <2>2. CASE hook.ref # 0 /\ opened[hook.ref].page = "open"
    <3>1. SocketArray(opened)
      BY <1>5 DEF KeptFrom
    <3>2. KeptFrom(opened, sockets')
      BY <1>4, <2>2, <3>1, WireMoves
    <3>3. QED
      BY <1>5, <3>2, KeptTwice DEF SocketsKept
  <2>3. QED
    BY <2>1, <2>2
<1>7. QED
  BY <1>4, <1>6, KeptSocketsMove

LEMMA OnCloseKeepsInv ==
  ASSUME LiveInv, NEW i \in Connections, OnClose(i)
  PROVE  LiveInv'
<1> DEFINE s == [sockets[i] EXCEPT !.page = "closed"]
<1>1. SocketArray(sockets) /\ sockets[i].page # "none" /\ SocketShape(sockets[i])
  BY DEF LiveInv, SocketsInv, OnClose, SocketArray
<1>2. SocketShape(s) /\ s.ip = sockets[i].ip /\ s.page = "closed" /\ s.server = sockets[i].server
  BY <1>1 DEF SocketShape
<1>3. sockets' = [sockets EXCEPT ![i] = s] /\ UNCHANGED <<clients, tokenSubscribers, connectionsByIp>>
  BY DEF OnClose
<1> HIDE DEF s
<1>4. SocketsKept
  BY <1>1, <1>2, <1>3, SocketMoves DEF SocketsKept
<1>5. QED
  BY <1>3, <1>4, KeptSocketsMove

LEMMA NetworkKeepsInv ==
  ASSUME LiveInv, NEW i \in Connections, ConnectionFails(i) \/ LinkDies(i)
  PROVE  LiveInv'
<1>1. SocketArray(sockets) /\ sockets[i].page # "none" /\ SocketShape(sockets[i])
  BY DEF LiveInv, SocketsInv, ConnectionFails, LinkDies, SocketArray
<1>2. UNCHANGED <<clients, tokenSubscribers, connectionsByIp>>
  BY DEF ConnectionFails, LinkDies
<1>3. CASE ConnectionFails(i)
  <2> DEFINE s == [sockets[i] EXCEPT !.page = "closing", !.server = "closed"]
  <2>1. SocketShape(s) /\ s.ip = sockets[i].ip /\ s.page = "closing" /\ s.server = "closed"
    BY <1>1 DEF SocketShape
  <2>2. sockets' = [sockets EXCEPT ![i] = s]
    BY <1>1, <1>3 DEF ConnectionFails, SocketArray
  <2> HIDE DEF s
  <2>3. SocketsKept
    BY <1>1, <2>1, <2>2, SocketMoves DEF SocketsKept
  <2>4. QED
    BY <1>2, <2>3, KeptSocketsMove
<1>4. CASE LinkDies(i)
  <2> DEFINE s == [sockets[i] EXCEPT !.page = "closing", !.wire = <<>>]
  <2>1. SocketShape(s) /\ s.ip = sockets[i].ip /\ s.page = "closing" /\ s.server = sockets[i].server
    BY <1>1 DEF SocketShape
  <2>2. sockets' = [sockets EXCEPT ![i] = s]
    BY <1>1, <1>4 DEF LinkDies, SocketArray
  <2> HIDE DEF s
  <2>3. SocketsKept
    BY <1>1, <2>1, <2>2, SocketMoves DEF SocketsKept
  <2>4. QED
    BY <1>2, <2>3, KeptSocketsMove
<1>5. QED
  BY <1>3, <1>4

(* The steps of the server.                                                *)
SubscribersAgree ==
  \A c \in Channels, i \in Connections :
    i \in tokenSubscribers[c] <=> Known(i) /\ c \in clients[i].subscriptions
AddressesCounted == \A h \in Hosts : connectionsByIp[h] = Cardinality(KnownAt(h))

LEMMA TwoTables == TablesAgree <=> SubscribersAgree /\ AddressesCounted
BY DEF TablesAgree, SubscribersAgree, AddressesCounted, KnownAt

LEMMA KnownAtFinite == \A h : IsFiniteSet(KnownAt(h)) /\ Cardinality(KnownAt(h)) \in Nat
<1> USE LiveAssumption
<1>1. IsFiniteSet(Connections)
  BY FS_Interval DEF Connections
<1>2. \A h : KnownAt(h) \subseteq Connections
  BY DEF KnownAt
<1>3. QED
  BY <1>1, <1>2, FS_Subset, FS_CardinalityType

(* Nobody comes or goes.                                                   *)
LEMMA CountsStand ==
  ASSUME LiveInv, SocketsKept, UNCHANGED connectionsByIp,
         \A i \in Connections : Known(i)' <=> Known(i)
  PROVE  AddressesCounted'
<1>1. \A h : KnownAt(h)' = KnownAt(h)
  BY DEF KnownAt, SocketsKept, KeptFrom, Connections
<1>2. QED
  BY <1>1, TwoTables DEF LiveInv, AddressesCounted

(* A client gets another record.                                           *)
LEMMA ClientMoves ==
  ASSUME TableShapes, NEW i \in Connections, NEW s, ClientShape(s), clients' = [clients EXCEPT ![i] = s]
  PROVE  /\ clients' = [j \in Connections |-> clients'[j]]
         /\ \A j \in Connections : ClientShape(clients'[j])
         /\ \A j \in Connections : clients'[j] = IF j = i THEN s ELSE clients[j]
<1>1. clients' = [j \in Connections |-> IF j = i THEN s ELSE clients[j]]
  BY DEF TableShapes
<1>2. QED
  BY <1>1 DEF TableShapes

LEMMA ConnectedKeepsInv ==
  ASSUME LiveInv, NEW i \in Connections, Connected(i)
  PROVE  LiveInv'
<1> DEFINE ip == sockets[i].ip
           new == [subscriptions |-> {}, heard |-> TRUE, known |-> TRUE]
<1>1. /\ SocketArray(sockets) /\ SocketShape(sockets[i])
      /\ sockets[i].page = "connecting" /\ sockets[i].server = "none" /\ ip \in Hosts
  BY DEF LiveInv, SocketsInv, Connected, SocketArray
<1>2. ~Known(i)
  BY <1>1 DEF LiveInv, KnownIsConnected
<1>3. ASSUME NEW v, v # "none", sockets' = [sockets EXCEPT ![i].server = v]
      PROVE  SocketsKept /\ sockets'[i].page = "connecting" /\ sockets'[i].server = v
  <2> DEFINE s == [sockets[i] EXCEPT !.server = v]
  <2>1. SocketShape(s) /\ s.ip = sockets[i].ip /\ s.page = "connecting" /\ s.server = v
    BY <1>1 DEF SocketShape
  <2>2. sockets' = [sockets EXCEPT ![i] = s]
    BY <1>3
  <2> HIDE DEF s
  <2>3. SocketsKept
    BY <1>1, <1>3, <2>1, <2>2, SocketMoves DEF SocketsKept
  <2>4. QED
    BY <1>1, <2>1, <2>2, <2>3 DEF SocketArray
<1>4. CASE connectionsByIp[ip] >= MaxPerIp
  <2>1. sockets' = [sockets EXCEPT ![i].server = "closed"]
        /\ UNCHANGED <<clients, tokenSubscribers, connectionsByIp>>
    BY <1>4 DEF Connected
  <2>2. QED
    BY <1>3, <2>1, KeptSocketsMove
<1>5. CASE ~(connectionsByIp[ip] >= MaxPerIp)
  <2>1. /\ sockets' = [sockets EXCEPT ![i].server = "open"]
        /\ clients' = [clients EXCEPT ![i] = new]
        /\ connectionsByIp' = [connectionsByIp EXCEPT ![ip] = @ + 1]
        /\ tokenSubscribers' = tokenSubscribers
    BY <1>5 DEF Connected
  <2>2. SocketsKept /\ sockets'[i].page = "connecting" /\ sockets'[i].server = "open"
    BY <1>3, <2>1
  <2>3. SocketsInv'
    BY <2>2, KeptSockets DEF LiveInv
  <2>4. ClientShape(new)
    BY DEF ClientShape
  <2>5. /\ clients' = [j \in Connections |-> clients'[j]]
        /\ \A j \in Connections : ClientShape(clients'[j])
        /\ \A j \in Connections : clients'[j] = IF j = i THEN new ELSE clients[j]
    BY <2>1, <2>4, ClientMoves DEF LiveInv
  <2>6. TableShapes'
    <3>1. connectionsByIp' \in [Hosts -> Nat]
      BY <1>1, <2>1 DEF LiveInv, TableShapes
    <3>2. QED
      BY <2>1, <2>5, <3>1 DEF LiveInv, TableShapes, Connections
  <2>7. \A j \in Connections : Known(j)' <=> Known(j) \/ j = i
    BY <2>5 DEF Known
  <2>8. KnownIsConnected'
    BY <2>2, <2>7 DEF LiveInv, KnownIsConnected, SocketsKept, KeptFrom, Connections
  <2>9. SubscribersAgree'
    <3>1. SubscribersAgree
      BY TwoTables DEF LiveInv
    <3>2. \A c \in Channels : i \notin tokenSubscribers[c]
      BY <1>2, <3>1 DEF SubscribersAgree
    <3>3. clients'[i].subscriptions = {} /\ \A j \in Connections : j # i => clients'[j] = clients[j]
      BY <2>5
    <3>4. QED
      BY <2>1, <2>7, <3>1, <3>2, <3>3 DEF SubscribersAgree, Connections
  <2>10. AddressesCounted'
    <3>10. PICK a : a = ip
      OBVIOUS
    <3>1. KnownAt(a)' = KnownAt(a) \cup {i} /\ i \notin KnownAt(a)
      BY <3>10, <1>2, <2>2, <2>7 DEF KnownAt, SocketsKept, KeptFrom, Connections
    <3>2. \A h : h # a => KnownAt(h)' = KnownAt(h)
      BY <3>10, <2>2, <2>7 DEF KnownAt, SocketsKept, KeptFrom, Connections
    <3>3. Cardinality(KnownAt(a)') = Cardinality(KnownAt(a)) + 1
      BY <3>10, <3>1, KnownAtFinite, FS_AddElement
    <3>4. AddressesCounted
      BY TwoTables DEF LiveInv
    <3>5. \A h \in Hosts : connectionsByIp'[h]
                             = IF h = a THEN connectionsByIp[h] + 1 ELSE connectionsByIp[h]
      BY <3>10, <1>1, <2>1 DEF LiveInv, TableShapes
    <3>6. \A h \in Hosts : connectionsByIp'[h] = Cardinality(KnownAt(h)')
      <4>1. TAKE h \in Hosts
      <4>2. CASE h = a
        BY <3>10, <3>3, <3>4, <3>5, <4>2 DEF AddressesCounted
      <4>3. CASE h # a
        BY <3>10, <3>2, <3>4, <3>5, <4>3 DEF AddressesCounted
      <4>4. QED
        BY <3>10, <4>2, <4>3
    <3>7. QED
      BY <3>10, <3>6 DEF AddressesCounted, KnownAt
  <2>11. QED
    BY <2>3, <2>6, <2>8, <2>9, <2>10, TwoTables DEF LiveInv, TablesAgree, SubscribersAgree,
       AddressesCounted, KnownAt
<1>6. QED
  BY <1>4, <1>5

LEMMA DisconnectKeepsInv ==
  ASSUME LiveInv, NEW i \in Connections, SocketsKept, HandleDisconnect(i)
  PROVE  LiveInv'
<1> DEFINE ip == sockets[i].ip
<1>1. CASE ~Known(i)
  BY <1>1, KeptSocketsMove DEF HandleDisconnect
<1>2. CASE Known(i)
  <2>1. /\ tokenSubscribers' = [c \in Channels |->
              IF c \in clients[i].subscriptions THEN tokenSubscribers[c] \ {i} ELSE tokenSubscribers[c]]
        /\ connectionsByIp' = [connectionsByIp EXCEPT ![ip] = IF @ <= 1 THEN 0 ELSE @ - 1]
        /\ clients' = [clients EXCEPT ![i] = NoClient]
    BY <1>2 DEF HandleDisconnect
  <2>2. SocketsInv'
    BY KeptSockets DEF LiveInv
  <2>3. ClientShape(NoClient) /\ NoClient.subscriptions = {} /\ ~NoClient.known
    BY DEF ClientShape, NoClient
  <2>4. /\ clients' = [j \in Connections |-> clients'[j]]
        /\ \A j \in Connections : ClientShape(clients'[j])
        /\ \A j \in Connections : clients'[j] = IF j = i THEN NoClient ELSE clients[j]
    BY <2>1, <2>3, ClientMoves DEF LiveInv
  <2>5. ip \in Hosts
    BY <1>2 DEF LiveInv, KnownIsConnected, SocketsInv
  <2>6. TableShapes'
    <3>1. connectionsByIp' \in [Hosts -> Nat]
      BY <2>1, <2>5 DEF LiveInv, TableShapes
    <3>2. tokenSubscribers' = [c \in Channels |-> tokenSubscribers'[c]]
      BY <2>1
    <3>3. QED
      BY <2>4, <3>1, <3>2 DEF TableShapes, Connections
  <2>7. \A j \in Connections : Known(j)' <=> Known(j) /\ j # i
    BY <2>3, <2>4 DEF Known
  <2>8. KnownIsConnected'
    BY <2>7 DEF LiveInv, KnownIsConnected, SocketsKept, KeptFrom, Connections
  <2>9. SubscribersAgree'
    <3>1. SubscribersAgree
      BY TwoTables DEF LiveInv
    <3>2. \A c \in Channels, j \in Connections :
            j \in tokenSubscribers'[c] <=> j \in tokenSubscribers[c] /\ j # i
      BY <1>2, <2>1, <3>1 DEF SubscribersAgree
    <3>3. \A j \in Connections : j # i => clients'[j] = clients[j]
      BY <2>4
    <3>4. QED
      BY <2>7, <3>1, <3>2, <3>3 DEF SubscribersAgree, Connections
  <2>10. AddressesCounted'
    <3>10. PICK a : a = ip
      OBVIOUS
    <3>1. KnownAt(a)' = KnownAt(a) \ {i} /\ i \in KnownAt(a)
      BY <3>10, <1>2, <2>7 DEF KnownAt, SocketsKept, KeptFrom, Connections
    <3>2. \A h : h # a => KnownAt(h)' = KnownAt(h)
      BY <3>10, <2>7 DEF KnownAt, SocketsKept, KeptFrom, Connections
    <3>3. Cardinality(KnownAt(a)') = Cardinality(KnownAt(a)) - 1
      BY <3>10, <3>1, KnownAtFinite, FS_RemoveElement
    <3>4. AddressesCounted
      BY TwoTables DEF LiveInv
    <3>5. \A h \in Hosts : connectionsByIp'[h]
            = IF h = a THEN (IF connectionsByIp[h] <= 1 THEN 0 ELSE connectionsByIp[h] - 1)
              ELSE connectionsByIp[h]
      BY <3>10, <2>1, <2>5 DEF LiveInv, TableShapes
    <3>6. Cardinality(KnownAt(a)) \in Nat /\ Cardinality(KnownAt(a)') \in Nat
      <4>1. Cardinality(KnownAt(a)) >= 1
        <5>1. Cardinality(KnownAt(a)) # 0
          BY <3>10, <3>1, KnownAtFinite, FS_EmptySet
        <5>2. QED
          BY <3>10, <5>1, KnownAtFinite
      <4>2. QED
        BY <3>10, <3>3, <4>1, KnownAtFinite
    <3>7. connectionsByIp'[a] = Cardinality(KnownAt(a)')
      BY <3>10, <2>5, <3>3, <3>4, <3>5, <3>6 DEF AddressesCounted
    <3>8. \A h \in Hosts : connectionsByIp'[h] = Cardinality(KnownAt(h)')
      <4>1. TAKE h \in Hosts
      <4>2. CASE h = a
        BY <3>10, <3>7, <4>2
      <4>3. CASE h # a
        BY <3>10, <3>2, <3>4, <3>5, <4>3 DEF AddressesCounted
      <4>4. QED
        BY <3>10, <4>2, <4>3
    <3>9. QED
      BY <3>10, <3>8 DEF AddressesCounted, KnownAt
  <2>11. QED
    BY <2>2, <2>6, <2>8, <2>9, <2>10 DEF LiveInv, TablesAgree, SubscribersAgree,
       AddressesCounted, KnownAt
<1>3. QED
  BY <1>1, <1>2

(* A client's record moves, and with its subscriptions the table of the    *)
(* channels.                                                               *)
LEMMA SubscriptionsMove ==
  ASSUME LiveInv, NEW i \in Connections, SocketsKept, Known(i), connectionsByIp' = connectionsByIp,
         NEW s, ClientShape(s), s.known = clients[i].known, clients' = [clients EXCEPT ![i] = s],
         tokenSubscribers' = [c \in Channels |-> tokenSubscribers'[c]],
         \A c \in Channels, j \in Connections : j # i =>
            (j \in tokenSubscribers'[c] <=> j \in tokenSubscribers[c]),
         \A c \in Channels : i \in tokenSubscribers'[c] <=> c \in s.subscriptions
  PROVE  LiveInv'
<1>1. SocketsInv'
  BY KeptSockets DEF LiveInv
<1>2. /\ clients' = [j \in Connections |-> clients'[j]]
      /\ \A j \in Connections : ClientShape(clients'[j])
      /\ \A j \in Connections : clients'[j] = IF j = i THEN s ELSE clients[j]
  BY ClientMoves DEF LiveInv
<1>3. TableShapes'
  BY <1>2 DEF LiveInv, TableShapes, Connections
<1>4. \A j \in Connections : Known(j)' <=> Known(j)
  BY <1>2 DEF Known
<1>5. KnownIsConnected'
  BY <1>4 DEF LiveInv, KnownIsConnected, SocketsKept, KeptFrom, Connections
<1>6. SubscribersAgree'
  <2>1. SubscribersAgree
    BY TwoTables DEF LiveInv
  <2>2. clients'[i].subscriptions = s.subscriptions
        /\ \A j \in Connections : j # i => clients'[j] = clients[j]
    BY <1>2
  <2>3. QED
    BY <1>4, <2>1, <2>2 DEF SubscribersAgree, Connections
<1>7. AddressesCounted'
  BY <1>4, CountsStand
<1>8. QED
  BY <1>1, <1>3, <1>5, <1>6, <1>7 DEF LiveInv, TablesAgree, SubscribersAgree,
     AddressesCounted, KnownAt

LEMMA HandleMessageKeepsInv ==
  ASSUME LiveInv, NEW i \in Connections, HandleMessage(i)
  PROVE  LiveInv'
<1> DEFINE m == Head(sockets[i].wire)
           s == [sockets[i] EXCEPT !.wire = Tail(sockets[i].wire)]
<1>1. SocketArray(sockets) /\ SocketShape(sockets[i]) /\ sockets[i].page # "none"
  <2>1. sockets[i].server # "none"
    BY DEF HandleMessage
  <2>2. sockets[i].page # "none"
    BY <2>1 DEF LiveInv, SocketsInv, NoSocket
  <2>3. QED
    BY <2>2 DEF LiveInv, SocketsInv, SocketArray
<1>2. SocketsKept
  <2>1. SocketShape(s) /\ s.ip = sockets[i].ip /\ s.page = sockets[i].page /\ s.server = sockets[i].server
    BY <1>1 DEF SocketShape
  <2>2. sockets' = [sockets EXCEPT ![i] = s]
    BY DEF HandleMessage
  <2> HIDE DEF s
  <2>3. QED
    BY <1>1, <2>1, <2>2, SocketMoves DEF SocketsKept
<1>3. /\ connectionsByIp' = connectionsByIp
      /\ \/ UNCHANGED <<clients, tokenSubscribers>>
         \/ Known(i) /\ (Subscribe(i, m.channel) \/ Unsubscribe(i, m.channel))
  BY DEF HandleMessage
<1> HIDE DEF m, s
<1>4. CASE UNCHANGED <<clients, tokenSubscribers>>
  BY <1>2, <1>3, <1>4, KeptSocketsMove
<1>5. ClientShape(clients[i]) /\ SubscribersAgree
      /\ tokenSubscribers = [c \in Channels |-> tokenSubscribers[c]]
  BY TwoTables DEF LiveInv, TableShapes
<1>6. ASSUME NEW c, Known(i), Subscribe(i, c) PROVE LiveInv'
  <2> DEFINE t == [clients[i] EXCEPT !.subscriptions = clients[i].subscriptions \cup {c}]
  <2>1. CASE Cardinality(clients[i].subscriptions) >= MaxSubscriptions
    BY <1>2, <1>3, <1>6, <2>1, KeptSocketsMove DEF Subscribe
  <2>2. CASE ~(Cardinality(clients[i].subscriptions) >= MaxSubscriptions)
    <3>1. /\ clients' = [clients EXCEPT ![i] = t]
          /\ tokenSubscribers' = [tokenSubscribers EXCEPT ![c] = tokenSubscribers[c] \cup {i}]
      BY <1>6, <2>2 DEF Subscribe
    <3>2. /\ ClientShape(t) /\ t.known = clients[i].known
          /\ t.subscriptions = clients[i].subscriptions \cup {c}
      BY <1>5 DEF ClientShape
    <3> HIDE DEF t
    <3>3. tokenSubscribers' = [d \in Channels |->
             IF d = c THEN tokenSubscribers[d] \cup {i} ELSE tokenSubscribers[d]]
      BY <1>5, <3>1
    <3>4. \A d \in Channels, j \in Connections : j # i =>
            (j \in tokenSubscribers'[d] <=> j \in tokenSubscribers[d])
      BY <3>3
    <3>5. \A d \in Channels : i \in tokenSubscribers'[d] <=> d \in t.subscriptions
      BY <1>5, <1>6, <3>2, <3>3 DEF SubscribersAgree
    <3>6. tokenSubscribers' = [d \in Channels |-> tokenSubscribers'[d]]
      BY <3>3
    <3>7. QED
      BY <1>2, <1>3, <1>6, <3>1, <3>2, <3>4, <3>5, <3>6, SubscriptionsMove
  <2>3. QED
    BY <2>1, <2>2
<1>7. ASSUME NEW c, Known(i), Unsubscribe(i, c) PROVE LiveInv'
  <2> DEFINE t == [clients[i] EXCEPT !.subscriptions = clients[i].subscriptions \ {c}]
  <2>1. /\ clients' = [clients EXCEPT ![i] = t]
        /\ tokenSubscribers' = [tokenSubscribers EXCEPT ![c] = tokenSubscribers[c] \ {i}]
    BY <1>7 DEF Unsubscribe
  <2>2. /\ ClientShape(t) /\ t.known = clients[i].known
        /\ t.subscriptions = clients[i].subscriptions \ {c}
    BY <1>5 DEF ClientShape
  <2> HIDE DEF t
  <2>3. tokenSubscribers' = [d \in Channels |->
           IF d = c THEN tokenSubscribers[d] \ {i} ELSE tokenSubscribers[d]]
    BY <1>5, <2>1
  <2>4. \A d \in Channels, j \in Connections : j # i =>
          (j \in tokenSubscribers'[d] <=> j \in tokenSubscribers[d])
    BY <2>3
  <2>5. \A d \in Channels : i \in tokenSubscribers'[d] <=> d \in t.subscriptions
    BY <1>5, <1>7, <2>2, <2>3 DEF SubscribersAgree
  <2>6. tokenSubscribers' = [d \in Channels |-> tokenSubscribers'[d]]
    BY <2>3
  <2>7. QED
    BY <1>2, <1>3, <1>7, <2>1, <2>2, <2>4, <2>5, <2>6, SubscriptionsMove
<1>8. QED
  BY <1>3, <1>4, <1>6, <1>7

(* A client is heard, or asked.                                            *)
LEMMA HeardKeepsInv ==
  ASSUME LiveInv, NEW i \in Connections, Known(i), NEW b, clients' = [clients EXCEPT ![i].heard = b],
         UNCHANGED <<sockets, tokenSubscribers, connectionsByIp>>
  PROVE  LiveInv'
<1> DEFINE t == [clients[i] EXCEPT !.heard = b]
<1>1. ClientShape(clients[i]) /\ SubscribersAgree
      /\ tokenSubscribers = [c \in Channels |-> tokenSubscribers[c]]
  BY TwoTables DEF LiveInv, TableShapes
<1>2. /\ ClientShape(t) /\ t.known = clients[i].known /\ t.subscriptions = clients[i].subscriptions
      /\ clients' = [clients EXCEPT ![i] = t]
  BY <1>1 DEF ClientShape
<1> HIDE DEF t
<1>3. SocketsKept
  BY SocketStands DEF LiveInv
<1>4. \A c \in Channels : i \in tokenSubscribers'[c] <=> c \in t.subscriptions
  BY <1>1, <1>2 DEF SubscribersAgree
<1>5. QED
  BY <1>1, <1>2, <1>3, <1>4, SubscriptionsMove

LEMMA ServerKeepsInv ==
  ASSUME LiveInv, NEW i \in Connections, ServerCloses(i) \/ Pong(i) \/ Heartbeat(i)
  PROVE  LiveInv'
<1>1. SocketArray(sockets) /\ SocketShape(sockets[i])
  BY DEF LiveInv, SocketsInv, SocketArray
<1>2. CASE ServerCloses(i)
  <2> DEFINE s == [sockets[i] EXCEPT !.server = "closed", !.wire = <<>>]
  <2>1. sockets[i].page # "none"
    BY <1>2 DEF LiveInv, SocketsInv, NoSocket, ServerCloses
  <2>2. SocketShape(s) /\ s.ip = sockets[i].ip /\ s.page = sockets[i].page /\ s.server = "closed"
    BY <1>1 DEF SocketShape
  <2>3. sockets' = [sockets EXCEPT ![i] = s]
    BY <1>1, <1>2 DEF ServerCloses, SocketArray
  <2> HIDE DEF s
  <2>4. SocketsKept
    BY <1>1, <2>1, <2>2, <2>3, SocketMoves DEF SocketsKept
  <2>5. QED
    BY <1>2, <2>4, DisconnectKeepsInv DEF ServerCloses
<1>3. CASE Pong(i)
  BY <1>3, HeardKeepsInv DEF Pong
<1>4. CASE Heartbeat(i)
  <2>1. CASE clients[i].heard
    BY <1>4, <2>1, HeardKeepsInv DEF Heartbeat
  <2>2. CASE ~clients[i].heard
    <3> DEFINE s == [sockets[i] EXCEPT !.server = "closing"]
    <3>1. sockets[i].page # "none"
      BY <1>4 DEF LiveInv, KnownIsConnected, Heartbeat
    <3>2. SocketShape(s) /\ s.ip = sockets[i].ip /\ s.page = sockets[i].page /\ s.server = "closing"
      BY <1>1 DEF SocketShape
    <3>3. sockets' = [sockets EXCEPT ![i] = s] /\ HandleDisconnect(i)
      BY <1>4, <2>2 DEF Heartbeat
    <3> HIDE DEF s
    <3>4. SocketsKept
      BY <1>1, <3>1, <3>2, <3>3, SocketMoves DEF SocketsKept
    <3>5. QED
      BY <3>3, <3>4, DisconnectKeepsInv
  <2>3. QED
    BY <2>1, <2>2
<1>5. QED
  BY <1>2, <1>3, <1>4

LEMMA LiveStarts == ASSUME LiveInit PROVE LiveInv
<1> USE LiveAssumption
<1>1. /\ sockets = [i \in Connections |-> NoSocket] /\ clients = [i \in Connections |-> NoClient]
      /\ tokenSubscribers = [c \in Channels |-> {}] /\ connectionsByIp = [h \in Hosts |-> 0]
  BY DEF LiveInit
<1>2. SocketShape(NoSocket) /\ NoSocket.page = "none"
  BY DEF SocketShape, NoSocket
<1>3. ClientShape(NoClient) /\ ~NoClient.known
  BY DEF ClientShape, NoClient
<1>4. SocketsInv
  <2>1. \A i \in Connections : sockets[i].page # "none" <=> i <= 0
    BY <1>1, <1>2 DEF Connections
  <2>2. QED
    BY <1>1, <1>2, <2>1 DEF SocketsInv, SocketArray
<1>5. \A i \in Connections : ~Known(i)
  BY <1>1, <1>3 DEF Known
<1>6. TableShapes /\ KnownIsConnected
  BY <1>1, <1>3, <1>5 DEF TableShapes, KnownIsConnected
<1>7. SubscribersAgree
  BY <1>1, <1>5 DEF SubscribersAgree
<1>8. AddressesCounted
  <2>1. \A h : KnownAt(h) = {}
    BY <1>5 DEF KnownAt
  <2>2. QED
    BY <1>1, <2>1, FS_EmptySet DEF AddressesCounted
<1>9. QED
  BY <1>4, <1>6, <1>7, <1>8, TwoTables DEF LiveInv

LEMMA LiveKeepsInv ==
  ASSUME LiveInv, [LiveNext]_liveVars
  PROVE  LiveInv'
<1>1. CASE UNCHANGED liveVars
  BY <1>1, SocketStands, KeptSocketsMove DEF liveVars, LiveInv
<1>2. CASE AutoConnect \/ Reconnect \/ ConnectCall
  BY <1>2, ConnectKeepsInv DEF AutoConnect, Reconnect, ConnectCall
<1>3. CASE Disconnect \/ Unmount
  <2>1. UNCHANGED <<clients, tokenSubscribers, connectionsByIp>>
    BY <1>3 DEF Disconnect, Unmount
  <2>2. sockets' = sockets \/ sockets' = [sockets EXCEPT ![hook.ref] = Close(@)]
    BY <1>3 DEF Disconnect, Unmount
  <2>3. CASE sockets' = sockets
    BY <2>1, <2>3, SocketStands, KeptSocketsMove DEF LiveInv
  <2>4. QED
    BY <2>1, <2>2, <2>3, CloseKeepsInv
<1>4. CASE \E c \in Channels : SubscribeToToken(c) \/ UnsubscribeFromToken(c)
  BY <1>4, SendKeepsInv DEF SubscribeToToken, UnsubscribeFromToken
<1>5. CASE \E i \in Connections : \/ Connected(i) \/ HandleMessage(i) \/ ServerCloses(i)
                                  \/ Pong(i) \/ Heartbeat(i) \/ OnOpen(i) \/ OnClose(i)
                                  \/ ConnectionFails(i) \/ LinkDies(i)
  BY <1>5, ConnectedKeepsInv, HandleMessageKeepsInv, ServerKeepsInv, OnOpenKeepsInv,
     OnCloseKeepsInv, NetworkKeepsInv
<1>6. QED
  BY <1>1, <1>2, <1>3, <1>4, <1>5 DEF LiveNext

(* The three tables of the manager describe the same connections, for any  *)
(* number of sockets, channels and addresses.                              *)
THEOREM TablesAlwaysAgree == LiveSpec => []TablesAgree
<1>1. LiveInv => TablesAgree
  BY DEF LiveInv
<1>2. QED
  BY <1>1, LiveStarts, LiveKeepsInv, PTL DEF LiveSpec

-----------------------------------------------------------------------------
(***************************************************************************)
(* The rate limiters.  Whatever a limiter counts is tied to the requests   *)
(* it let pass: each of the four has its own invariant, and all speak of   *)
(* the positions in accepted, which are in the order of time.              *)
(***************************************************************************)
Passes == 1 .. Len(accepted)

RateTypes ==
  /\ moment \in Nat /\ limiter \in Limiters
  /\ accepted \in Seq(Nat)
  /\ \A i \in Passes : accepted[i] <= moment
  /\ \A i, j \in Passes : i <= j => accepted[i] <= accepted[j]
  /\ windowCount \in [start : Nat, count : Nat]
  /\ kvCount \in [count : Nat, expires : Nat]
  /\ memoryLimit \in [count : Nat, resetAt : Int]
  /\ uploadOf \in [Uploads -> [step : {"idle", "asks", "counts"}, now : Nat]]
  /\ \A u \in Uploads : uploadOf[u].step # "idle" => limiter = "kv"

(* A page remembers the last requests, and all those of the last window.   *)
PageCounts ==
  /\ timestamps \in Seq(Nat)
  /\ \E k \in 0 .. Len(accepted) :
       /\ Len(timestamps) = Len(accepted) - k
       /\ \A i \in 1 .. Len(accepted) - k : timestamps[i] = accepted[k + i]
       /\ \A j \in 1 .. k : accepted[j] <= moment - Window

(* The window in memory began with request k + 1; of those before it at    *)
(* most MaxRequests - 1 are as young as a window at that time.             *)
MemoryCounts ==
  \/ accepted = <<>> /\ memoryLimit.resetAt = -1 /\ memoryLimit.count = 0
  \/ \E k \in 0 .. Len(accepted) - 1, old \in 0 .. Len(accepted) :
       /\ old <= k /\ k - old <= MaxRequests - 1
       /\ memoryLimit.count = Len(accepted) - k /\ memoryLimit.count <= MaxRequests
       /\ memoryLimit.resetAt = accepted[k + 1] + Window
       /\ \A j \in 1 .. old : accepted[j] <= accepted[k + 1] - Window

(* The counter of the uploads counts all those that passed since it began, *)
(* and what passed before is older than a window.  A lost answer makes it  *)
(* count one that did not pass this way.                                   *)
Busy == {u \in Uploads : uploadOf[u].step = "counts"}
UploadCounts ==
  /\ \E k \in 0 .. Len(accepted) : /\ Len(accepted) - k <= kvCount.count
                                  /\ \A j \in 1 .. k : accepted[j] <= moment - Window
  /\ \A j \in Passes : accepted[j] <= kvCount.expires - Window
  /\ Live + Cardinality(Busy) <= MaxRequests + Cardinality(Uploads) - 1

(* The gateway counts the requests of one fixed window and had at most     *)
(* MaxRequests in the one before.                                          *)
InWindow(s) == {j \in Passes : accepted[j] >= s /\ accepted[j] < s + Window}
WindowCounts ==
  /\ windowCount.start <= moment
  /\ \E q \in Nat : windowCount.start = q * Window
  /\ \A j \in Passes : accepted[j] < windowCount.start + Window
  /\ Cardinality(InWindow(windowCount.start)) <= windowCount.count
  /\ Cardinality(InWindow(windowCount.start)) <= MaxRequests
  /\ Cardinality(InWindow(windowCount.start - Window)) <= MaxRequests

RateInv ==
  /\ RateTypes /\ WindowsHold
  /\ limiter = "page" => PageCounts
  /\ limiter = "memory" => MemoryCounts
  /\ limiter = "kv" => UploadCounts
  /\ limiter = "gateway" => WindowCounts

LEMMA RateConstants ==
  /\ Window \in Nat /\ Window > 0 /\ MaxRequests \in Nat /\ MaxRequests > 0
  /\ IsFiniteSet(Uploads) /\ Cardinality(Uploads) \in Nat
BY RateAssumption, FS_CardinalityType

(* What a request that passes does to the list.                            *)
LEMMA PassFacts ==
  ASSUME RateTypes, Accept, moment' = moment
  PROVE  /\ Len(accepted) \in Nat /\ Len(accepted') = Len(accepted) + 1
         /\ accepted' \in Seq(Nat)
         /\ \A j \in Passes : accepted'[j] = accepted[j] /\ accepted[j] \in Nat
         /\ accepted'[Len(accepted) + 1] = moment
         /\ Passes' = Passes \cup {Len(accepted) + 1} /\ Len(accepted) + 1 \notin Passes
         /\ \A i \in Passes' : accepted'[i] <= moment
         /\ \A i, j \in Passes' : i <= j => accepted'[i] <= accepted'[j]
<1>1. /\ accepted \in Seq(Nat) /\ moment \in Nat /\ accepted' = Append(accepted, moment)
      /\ \A i \in Passes : accepted[i] <= moment
      /\ \A i, j \in Passes : i <= j => accepted[i] <= accepted[j]
  BY DEF RateTypes, Accept
<1>2. /\ Len(accepted) \in Nat /\ Len(accepted') = Len(accepted) + 1 /\ accepted' \in Seq(Nat)
      /\ \A j \in 1 .. Len(accepted) : accepted'[j] = accepted[j] /\ accepted[j] \in Nat
      /\ accepted'[Len(accepted) + 1] = moment
  BY <1>1
<1>3. Passes' = Passes \cup {Len(accepted) + 1} /\ Len(accepted) + 1 \notin Passes
  BY <1>2 DEF Passes
<1>4. \A i \in Passes' : accepted'[i] <= moment
  BY <1>1, <1>2, <1>3 DEF Passes
<1>5. \A i, j \in Passes' : i <= j => accepted'[i] <= accepted'[j]
  BY <1>1, <1>2, <1>3 DEF Passes
<1>6. QED
  BY <1>2, <1>3, <1>4, <1>5 DEF Passes

(* Those a new request meets in its window are few enough.                 *)
LEMMA PassKeepsWindows ==
  ASSUME RateTypes, WindowsHold, Accept, moment' = moment, limiter' = limiter,
         NEW S, IsFiniteSet(S), Cardinality(S) + 1 <= AtMost[limiter],
         \A j \in Passes : accepted[j] > moment - Window => j \in S
  PROVE  WindowsHold'
<1> DEFINE n == Len(accepted)
<1>1. /\ n \in Nat /\ Len(accepted') = n + 1 /\ accepted' \in Seq(Nat) /\ accepted \in Seq(Nat)
      /\ \A j \in 1 .. n : accepted'[j] = accepted[j] /\ accepted[j] \in Nat
      /\ accepted'[n + 1] = moment /\ moment \in Nat
  BY PassFacts DEF Passes, RateTypes
<1>2. /\ DOMAIN accepted' = 1 .. n + 1 /\ DOMAIN accepted = 1 .. n
      /\ \A j \in 1 .. n : accepted[j] > moment - Window => j \in S
  BY <1>1 DEF Passes
<1> HIDE DEF n
<1>3. AtMost' = AtMost /\ AtMost[limiter] \in Int
  BY RateConstants DEF AtMost, RateTypes, Limiters
<1>4. SUFFICES ASSUME NEW i \in 1 .. n + 1
               PROVE  PassedTogether(i)' <= AtMost[limiter]
  BY <1>2, <1>3 DEF WindowsHold
<1>5. CASE i <= n
  <2>1. i \in 1 .. n /\ PassedTogether(i) <= AtMost[limiter]
    BY <1>1, <1>2, <1>5 DEF WindowsHold
  <2>2. {j \in 1 .. i : accepted'[j] > accepted'[i] - Window}
           = {j \in 1 .. i : accepted[j] > accepted[i] - Window}
    <3>1. accepted'[i] = accepted[i]
      BY <1>1, <2>1
    <3>2. \A j \in 1 .. i : accepted'[j] = accepted[j]
      <4>1. \A j \in 1 .. i : j \in 1 .. n
        BY <1>1, <2>1
      <4>2. QED
        BY <1>1, <4>1
    <3>3. QED
      BY <3>1, <3>2, Zenon
  <2>3. PassedTogether(i)' = PassedTogether(i)
    BY <2>2 DEF PassedTogether
  <2>4. PassedTogether(i) \in Nat
    <3>1. {j \in 1 .. i : accepted[j] > accepted[i] - Window} \in SUBSET (1 .. i)
      OBVIOUS
    <3>2. IsFiniteSet(1 .. i)
      BY FS_Interval
    <3>3. QED
      BY <3>1, <3>2, FS_Subset, FS_CardinalityType DEF PassedTogether
  <2>5. QED
    BY <1>1, <1>3, <2>1, <2>3, <2>4
<1>6. CASE i = n + 1
  <2> DEFINE T == {j \in 1 .. n + 1 : accepted'[j] > moment - Window}
  <2>1. PassedTogether(i)' = Cardinality(T)
    BY <1>1, <1>6 DEF PassedTogether
  <2>2. T \in SUBSET (S \cup {n + 1})
    BY <1>1, <1>2
  <2>3. /\ IsFiniteSet(S \cup {n + 1})
        /\ Cardinality(S \cup {n + 1}) = IF n + 1 \in S THEN Cardinality(S) ELSE Cardinality(S) + 1
    BY FS_AddElement
  <2>4. IsFiniteSet(T) /\ Cardinality(T) <= Cardinality(S \cup {n + 1})
    BY <2>2, <2>3, FS_Subset
  <2>5. Cardinality(T) \in Nat /\ Cardinality(S) \in Nat
    BY <2>4, FS_CardinalityType
  <2> HIDE DEF T
  <2>6. QED
    BY <1>3, <2>1, <2>3, <2>4, <2>5
<1>7. QED
  BY <1>1, <1>5, <1>6

(* The positions are finitely many.                                        *)
LEMMA PositionSets ==
  ASSUME RateTypes
  PROVE  /\ Len(accepted) \in Nat /\ IsFiniteSet(Passes)
         /\ \A F \in SUBSET Passes : IsFiniteSet(F) /\ Cardinality(F) \in Nat
<1>1. Len(accepted) \in Nat /\ IsFiniteSet(Passes)
  BY FS_Interval DEF RateTypes, Passes
<1>2. ASSUME NEW F \in SUBSET Passes PROVE IsFiniteSet(F) /\ Cardinality(F) \in Nat
  BY <1>1, FS_Subset, FS_CardinalityType
<1>3. QED
  BY <1>1, <1>2

LEMMA UnionSize ==
  ASSUME NEW S, NEW T, IsFiniteSet(S), IsFiniteSet(T)
  PROVE  /\ IsFiniteSet(S \cup T)
         /\ Cardinality(S \cup T) <= Cardinality(S) + Cardinality(T)
         /\ Cardinality(S \cup T) \in Nat /\ Cardinality(S) \in Nat /\ Cardinality(T) \in Nat
<1>1. S \cap T \in SUBSET S
  OBVIOUS
<1>2. /\ Cardinality(S \cap T) \in Nat /\ Cardinality(S) \in Nat
      /\ Cardinality(T) \in Nat
  BY <1>1, FS_Subset, FS_CardinalityType
<1>3. /\ IsFiniteSet(S \cup T)
      /\ Cardinality(S \cup T) = Cardinality(S) + Cardinality(T) - Cardinality(S \cap T)
  BY FS_Union
<1>4. Cardinality(S \cup T) \in Nat
  BY <1>3, FS_CardinalityType
<1>5. QED
  BY <1>2, <1>3, <1>4

-----------------------------------------------------------------------------
(* The actions of a page: those before the window are the first ones.      *)
LEMMA ExpiredComeFirst ==
  ASSUME RateTypes, PageCounts
  PROVE  /\ Cardinality(Expired) \in 0 .. Len(timestamps)
         /\ Expired = 1 .. Cardinality(Expired)
<1> DEFINE D == Expired
           c == Cardinality(D)
           n == Len(timestamps)
<1>1. /\ n \in Nat /\ DOMAIN timestamps = 1 .. n /\ moment \in Nat /\ Window \in Nat
      /\ \A i \in 1 .. n : timestamps[i] \in Nat
  BY RateConstants DEF RateTypes, PageCounts
<1>2. \A i, j \in 1 .. n : i <= j => timestamps[i] <= timestamps[j]
  <2>1. PICK k \in 0 .. Len(accepted) :
          /\ n = Len(accepted) - k
          /\ \A i \in 1 .. Len(accepted) - k : timestamps[i] = accepted[k + i]
    BY DEF PageCounts
  <2>2. Len(accepted) \in Nat /\ \A i, j \in 1 .. Len(accepted) : i <= j => accepted[i] <= accepted[j]
    BY DEF RateTypes, Passes
  <2> HIDE DEF n
  <2>3. SUFFICES ASSUME NEW i \in 1 .. n, NEW j \in 1 .. n, i <= j
                 PROVE  timestamps[i] <= timestamps[j]
    OBVIOUS
  <2>4. /\ k + i \in 1 .. Len(accepted) /\ k + j \in 1 .. Len(accepted) /\ k + i <= k + j
        /\ timestamps[i] = accepted[k + i] /\ timestamps[j] = accepted[k + j]
    BY <2>1, <2>2, <2>3
  <2>5. QED
    BY <2>2, <2>4
<1>3. D = {i \in 1 .. n : timestamps[i] <= moment - Window}
  BY <1>1 DEF Expired
<1> HIDE DEF D, n
<1>4. D \in SUBSET (1 .. n)
  BY <1>3
<1>5. IsFiniteSet(D) /\ c <= n /\ c \in Nat
  <2>1. IsFiniteSet(1 .. n) /\ Cardinality(1 .. n) = n
    BY <1>1, FS_Interval
  <2>2. IsFiniteSet(D) /\ Cardinality(D) <= Cardinality(1 .. n)
    BY <1>4, <2>1, FS_Subset
  <2>3. Cardinality(D) \in Nat
    BY <2>2, FS_CardinalityType
  <2>4. QED
    BY <2>1, <2>2, <2>3
<1>6. ASSUME NEW i \in D PROVE i <= c
  <2>1. i \in 1 .. n /\ 1 .. i \in SUBSET D
    <3>1. i \in 1 .. n
      BY <1>4
    <3>2. ASSUME NEW j \in 1 .. i PROVE j \in D
      <4>1. j \in 1 .. n /\ timestamps[j] <= timestamps[i] /\ timestamps[i] <= moment - Window
        BY <1>1, <1>2, <1>3, <3>1
      <4>2. QED
        BY <1>1, <1>3, <3>1, <4>1
    <3>3. QED
      BY <3>1, <3>2
  <2>2. Cardinality(1 .. i) <= c
    BY <1>5, <2>1, FS_Subset
  <2>3. Cardinality(1 .. i) = i
    BY <1>1, <2>1, FS_Interval
  <2>4. QED
    BY <2>2, <2>3
<1> HIDE DEF c
<1>7. D \in SUBSET (1 .. c)
  BY <1>1, <1>4, <1>5, <1>6
<1>8. IsFiniteSet(1 .. c) /\ Cardinality(1 .. c) = c
  BY <1>5, FS_Interval
<1>9. D = 1 .. c
  BY <1>7, <1>8, FS_Subset DEF c
<1>10. QED
  BY <1>1, <1>5, <1>9 DEF D, c, n

LEMMA PageStep ==
  ASSUME RateTypes, WindowsHold, PageCounts, CheckAndRecord
  PROVE  WindowsHold' /\ PageCounts'
<1> DEFINE n == Len(accepted)
           c == Cardinality(Expired)
           m == Len(timestamps)
<1>1. PICK k \in 0 .. n :
        /\ m = n - k
        /\ \A i \in 1 .. n - k : timestamps[i] = accepted[k + i]
        /\ \A j \in 1 .. k : accepted[j] <= moment - Window
  BY DEF PageCounts
<1>2. /\ n \in Nat /\ m \in Nat /\ moment \in Nat /\ Window \in Nat /\ MaxRequests \in Nat
      /\ timestamps \in Seq(Nat) /\ DOMAIN timestamps = 1 .. m
      /\ \A i \in 1 .. m : timestamps[i] \in Nat
      /\ \A j \in 1 .. n : accepted[j] \in Nat
      /\ DOMAIN accepted = 1 .. n
  <2>1. accepted \in Seq(Nat) /\ moment \in Nat /\ timestamps \in Seq(Nat)
    BY DEF RateTypes, PageCounts
  <2>2. QED
    BY <2>1, RateConstants
<1>3. c \in 0 .. m /\ \A i \in 1 .. m : i <= c <=> timestamps[i] <= moment - Window
  <2>1. c \in 0 .. m /\ Expired = 1 .. c
    BY ExpiredComeFirst
  <2>2. Expired = {i \in 1 .. m : timestamps[i] <= moment - Window}
    BY <1>2 DEF Expired
  <2> HIDE DEF c, m
  <2>3. QED
    BY <1>2, <2>1, <2>2
<1> DEFINE l == k + c
<1>4. /\ Recent \in Seq(Nat) /\ Len(Recent) = n - l
      /\ \A i \in 1 .. n - l : Recent[i] = accepted[l + i]
  <2> HIDE DEF c, m, n
  <2>1. \A i \in c + 1 .. m : timestamps[i] \in Nat
    BY <1>2, <1>3
  <2>2. /\ SubSeq(timestamps, c + 1, m) \in Seq(Nat)
        /\ Len(SubSeq(timestamps, c + 1, m)) = (IF c + 1 <= m THEN m - (c + 1) + 1 ELSE 0)
        /\ \A i \in 1 .. m - (c + 1) + 1 :
              SubSeq(timestamps, c + 1, m)[i] = timestamps[(c + 1) + i - 1]
    BY <1>2, <1>3, <2>1, SubSeqProperties
  <2>3. Recent = SubSeq(timestamps, c + 1, m)
    BY DEF Recent, c, m
  <2>4. Recent \in Seq(Nat) /\ Len(Recent) = n - l
    BY <1>1, <1>2, <1>3, <2>2, <2>3
  <2>5. ASSUME NEW i \in 1 .. n - l PROVE Recent[i] = accepted[l + i]
    <3>1. i \in 1 .. m - (c + 1) + 1 /\ (c + 1) + i - 1 = c + i /\ c + i \in 1 .. n - k
          /\ k + (c + i) = l + i
      BY <1>1, <1>2, <1>3
    <3>2. QED
      BY <1>1, <2>2, <2>3, <3>1
  <2>6. QED
    BY <2>4, <2>5
<1>5. \A j \in 1 .. n : j <= l => accepted[j] <= moment - Window
  <2> HIDE DEF c, m, n
  <2> SUFFICES ASSUME NEW j \in 1 .. n, j <= l
               PROVE  accepted[j] <= moment - Window
    OBVIOUS
  <2>1. CASE j <= k
    BY <1>1, <1>2, <2>1
  <2>2. CASE j > k
    <3>1. j - k \in 1 .. m /\ j - k <= c /\ timestamps[j - k] = accepted[k + (j - k)]
          /\ k + (j - k) = j
      BY <1>1, <1>2, <1>3, <2>2
    <3>2. QED
      BY <1>3, <3>1
  <2>3. QED
    BY <1>1, <1>2, <2>1, <2>2
<1>6. l \in 0 .. n
  <2> HIDE DEF c, m, n
  <2>1. QED
    BY <1>1, <1>2, <1>3
<1>7. moment' = moment /\ limiter' = limiter /\ limiter = "page"
  BY DEF CheckAndRecord
<1>8. CASE Len(Recent) < MaxRequests
  <2>1. timestamps' = Append(Recent, moment) /\ Accept
    BY <1>8 DEF CheckAndRecord
  <2>2. /\ Len(accepted') = n + 1
        /\ \A j \in 1 .. n : accepted'[j] = accepted[j]
        /\ accepted'[n + 1] = moment
    BY <1>7, <2>1, PassFacts DEF Passes
  <2>3. WindowsHold'
    <3>1. /\ IsFiniteSet(l + 1 .. n) /\ Cardinality(l + 1 .. n) = n - l
      <4> HIDE DEF l, n
      <4>1. l + 1 \in Int /\ n \in Int /\ l \in 0 .. n
        BY <1>2, <1>6
      <4>2. /\ IsFiniteSet(l + 1 .. n)
            /\ Cardinality(l + 1 .. n) = IF l + 1 > n THEN 0 ELSE n - (l + 1) + 1
        BY <4>1, FS_Interval
      <4>3. QED
        BY <1>2, <4>1, <4>2
    <3>2. AtMost[limiter] = MaxRequests
      BY <1>7 DEF AtMost
    <3>3. \A j \in Passes : accepted[j] > moment - Window => j \in l + 1 .. n
      <4> HIDE DEF l, n
      <4>1. Passes = 1 .. n
        BY DEF Passes, n
      <4>2. QED
        BY <1>2, <1>5, <1>6, <4>1
    <3>4. Cardinality(l + 1 .. n) + 1 <= AtMost[limiter]
      <4> HIDE DEF l, n
      <4>1. QED
        BY <1>2, <1>4, <1>6, <1>7, <1>8, <3>1, <3>2
    <3> HIDE DEF l, n
    <3>5. QED
      BY <1>7, <2>1, <3>1, <3>3, <3>4, PassKeepsWindows
  <2>4. /\ timestamps' \in Seq(Nat) /\ Len(timestamps') = n + 1 - l
        /\ \A i \in 1 .. n + 1 - l : timestamps'[i] = accepted'[l + i]
    <3> HIDE DEF l, n
    <3>1. /\ timestamps' \in Seq(Nat) /\ Len(timestamps') = n - l + 1
          /\ \A i \in 1 .. n - l : timestamps'[i] = Recent[i]
          /\ timestamps'[n - l + 1] = moment
      BY <1>2, <1>4, <2>1, AppendProperties
    <3>2. ASSUME NEW i \in 1 .. n + 1 - l PROVE timestamps'[i] = accepted'[l + i]
      <4>1. CASE i = n + 1 - l
        BY <1>2, <1>6, <2>2, <3>1, <4>1
      <4>2. CASE i # n + 1 - l
        <5>1. i \in 1 .. n - l /\ l + i \in 1 .. n
          BY <1>2, <1>6, <4>2
        <5>2. QED
          BY <1>4, <2>2, <3>1, <5>1
      <4>3. QED
        BY <4>1, <4>2
    <3>3. QED
      BY <1>2, <1>6, <3>1, <3>2
  <2>5. PageCounts'
    <3>1. l \in 0 .. Len(accepted') /\ \A j \in 1 .. l : accepted'[j] <= moment' - Window
      <4> HIDE DEF l, n
      <4>1. QED
        BY <1>2, <1>5, <1>6, <1>7, <2>2
    <3> HIDE DEF l, n
    <3>2. /\ Len(timestamps') = Len(accepted') - l
          /\ \A i \in 1 .. Len(accepted') - l : timestamps'[i] = accepted'[l + i]
      BY <1>2, <1>6, <2>2, <2>4
    <3>3. QED
      BY <1>7, <2>4, <3>1, <3>2 DEF PageCounts
  <2>6. QED
    BY <2>3, <2>5
<1>9. CASE ~ (Len(Recent) < MaxRequests)
  <2>1. timestamps' = Recent /\ accepted' = accepted
    BY <1>9 DEF CheckAndRecord
  <2>2. PageCounts'
    <3>1. \A j \in 1 .. l : accepted[j] <= moment - Window
      <4> HIDE DEF l, n
      <4>1. QED
        BY <1>2, <1>5, <1>6
    <3>2. /\ Len(accepted') = n /\ timestamps' \in Seq(Nat) /\ Len(timestamps') = n - l
          /\ \A i \in 1 .. n - l : timestamps'[i] = accepted'[l + i]
          /\ \A j \in 1 .. l : accepted'[j] <= moment' - Window
      BY <1>4, <1>7, <2>1, <3>1
    <3> HIDE DEF l, n
    <3>3. QED
      BY <1>6, <3>2 DEF PageCounts
  <2>3. WindowsHold'
    BY <1>7, <2>1 DEF WindowsHold, PassedTogether, AtMost
  <2>4. QED
    BY <2>2, <2>3
<1>10. QED
  BY <1>8, <1>9

-----------------------------------------------------------------------------
(* The window in memory: at its reset the requests of the one before are   *)
(* those after k + 1.                                                      *)
LEMMA MemoryStep ==
  ASSUME RateTypes, WindowsHold, MemoryCounts, CheckUploadInMemory
  PROVE  WindowsHold' /\ MemoryCounts'
<1> DEFINE n == Len(accepted)
<1>1. /\ n \in Nat /\ moment \in Nat /\ limiter = "memory"
      /\ Window \in Nat /\ Window > 0 /\ MaxRequests \in Nat /\ MaxRequests > 0
      /\ moment' = moment /\ limiter' = limiter /\ Accept
      /\ memoryLimit \in [count : Nat, resetAt : Int]
  BY RateConstants DEF RateTypes, CheckUploadInMemory
<1>2. /\ \A i \in 1 .. n : accepted[i] \in Nat /\ accepted[i] <= moment
      /\ \A i, j \in 1 .. n : i <= j => accepted[i] <= accepted[j]
      /\ Passes = 1 .. n
  BY DEF RateTypes, Passes
<1>3. /\ Len(accepted') = n + 1
      /\ \A j \in 1 .. n : accepted'[j] = accepted[j]
      /\ accepted'[n + 1] = moment
  BY <1>1, PassFacts DEF Passes
<1>4. AtMost[limiter] = 2 * MaxRequests - 1
  BY <1>1 DEF AtMost
<1>5. n = 0 <=> accepted = <<>>
  BY DEF RateTypes
<1> HIDE DEF n
<1>6. ASSUME NEW a \in 0 .. n, n - a + 1 <= 2 * MaxRequests - 1,
             \A j \in 1 .. a : accepted[j] <= moment - Window
      PROVE  WindowsHold'
  <2>1. /\ IsFiniteSet(a + 1 .. n)
        /\ Cardinality(a + 1 .. n) = IF a + 1 > n THEN 0 ELSE n - (a + 1) + 1
    BY <1>1, FS_Interval
  <2>2. Cardinality(a + 1 .. n) + 1 <= AtMost[limiter]
    BY <1>1, <1>4, <1>6, <2>1
  <2>3. \A j \in Passes : accepted[j] > moment - Window => j \in a + 1 .. n
    BY <1>1, <1>2, <1>6
  <2>4. QED
    BY <1>1, <2>1, <2>2, <2>3, PassKeepsWindows
<1>7. CASE accepted = <<>> /\ memoryLimit.resetAt = -1 /\ memoryLimit.count = 0
  <2>1. n = 0 /\ memoryLimit' = [count |-> 1, resetAt |-> moment + Window]
    BY <1>1, <1>5, <1>7 DEF CheckUploadInMemory, PassesInMemory
  <2>2. WindowsHold'
    BY <1>1, <1>6, <2>1
  <2>3. MemoryCounts'
    <3>1. Len(accepted') = 1 /\ accepted'[1] = moment
      BY <1>1, <1>3, <2>1
    <3>2. memoryLimit'.count = 1 /\ memoryLimit'.resetAt = moment + Window
      BY <2>1
    <3>3. /\ 0 \in 0 .. Len(accepted') - 1 /\ 0 \in 0 .. Len(accepted')
          /\ memoryLimit'.count = Len(accepted') - 0 /\ memoryLimit'.count <= MaxRequests
          /\ memoryLimit'.resetAt = accepted'[0 + 1] + Window
          /\ 0 - 0 <= MaxRequests - 1
      BY <1>1, <3>1, <3>2
    <3>4. \A j \in 1 .. 0 : accepted'[j] <= accepted'[0 + 1] - Window
      OBVIOUS
    <3>5. \E k \in 0 .. Len(accepted') - 1, old \in 0 .. Len(accepted') :
             /\ old <= k /\ k - old <= MaxRequests - 1
             /\ memoryLimit'.count = Len(accepted') - k /\ memoryLimit'.count <= MaxRequests
             /\ memoryLimit'.resetAt = accepted'[k + 1] + Window
             /\ \A j \in 1 .. old : accepted'[j] <= accepted'[k + 1] - Window
      <4>1. 0 <= 0
        OBVIOUS
      <4>2. QED
        BY <3>3, <3>4, <4>1, Zenon
    <3>6. QED
      BY <3>5, Zenon DEF MemoryCounts
  <2>4. QED
    BY <2>2, <2>3
<1>8. ASSUME NEW k \in 0 .. n - 1, NEW old \in 0 .. n,
             old <= k, k - old <= MaxRequests - 1,
             memoryLimit.count = n - k, memoryLimit.count <= MaxRequests,
             memoryLimit.resetAt = accepted[k + 1] + Window,
             \A j \in 1 .. old : accepted[j] <= accepted[k + 1] - Window
      PROVE  WindowsHold' /\ MemoryCounts'
  <2>1. k + 1 \in 1 .. n /\ accepted[k + 1] \in Nat
    BY <1>1, <1>2
  <2>2. CASE /\ memoryLimit.resetAt < moment
             /\ memoryLimit' = [count |-> 1, resetAt |-> moment + Window]
    <3>1. accepted[k + 1] <= moment - Window
      BY <1>1, <1>8, <2>1, <2>2
    <3>2. \A j \in 1 .. k + 1 : accepted[j] <= moment - Window
      <4>1. \A j \in 1 .. k + 1 : j \in 1 .. n /\ accepted[j] <= accepted[k + 1] /\ accepted[j] \in Nat
        BY <1>1, <1>2, <2>1
      <4>2. QED
        BY <1>1, <2>1, <3>1, <4>1
    <3>3. k + 1 \in 0 .. n /\ n - (k + 1) + 1 <= 2 * MaxRequests - 1
      BY <1>1, <1>8
    <3>4. WindowsHold'
      BY <1>6, <3>2, <3>3
    <3>5. MemoryCounts'
      <4>1. /\ n \in 0 .. Len(accepted') - 1 /\ k + 1 \in 0 .. Len(accepted')
            /\ k + 1 <= n /\ n - (k + 1) <= MaxRequests - 1
            /\ memoryLimit'.count = Len(accepted') - n /\ memoryLimit'.count <= MaxRequests
            /\ memoryLimit'.resetAt = accepted'[n + 1] + Window
        BY <1>1, <1>3, <1>8, <2>2
      <4>2. \A j \in 1 .. k + 1 : accepted'[j] <= accepted'[n + 1] - Window
        <5>1. \A j \in 1 .. k + 1 : j \in 1 .. n
          BY <1>1
        <5>2. QED
          BY <1>3, <3>2, <5>1
      <4>3. QED
        BY <4>1, <4>2 DEF MemoryCounts
    <3>6. QED
      BY <3>4, <3>5
  <2>3. CASE /\ memoryLimit.resetAt >= moment /\ memoryLimit.count < MaxRequests
             /\ memoryLimit' = [memoryLimit EXCEPT !.count = @ + 1]
    <3>1. \A j \in 1 .. old : j \in 1 .. n /\ accepted[j] <= moment - Window
      <4>1. \A j \in 1 .. old : j \in 1 .. n /\ accepted[j] \in Nat
        BY <1>1, <1>2
      <4>2. accepted[k + 1] <= moment
        BY <1>2, <2>1
      <4>3. QED
        BY <1>1, <1>8, <2>1, <4>1, <4>2
    <3>2. n - old + 1 <= 2 * MaxRequests - 1
      BY <1>1, <1>8, <2>3
    <3>3. WindowsHold'
      BY <1>6, <3>1, <3>2
    <3>4. MemoryCounts'
      <4>1. /\ memoryLimit'.count = memoryLimit.count + 1
            /\ memoryLimit'.resetAt = memoryLimit.resetAt
        BY <1>1, <2>3
      <4>2. /\ k \in 0 .. Len(accepted') - 1 /\ old \in 0 .. Len(accepted')
            /\ old <= k /\ k - old <= MaxRequests - 1
            /\ memoryLimit'.count = Len(accepted') - k /\ memoryLimit'.count <= MaxRequests
        BY <1>1, <1>3, <1>8, <2>3, <4>1
      <4>3. memoryLimit'.resetAt = accepted'[k + 1] + Window
        BY <1>3, <1>8, <2>1, <4>1
      <4>4. \A j \in 1 .. old : accepted'[j] <= accepted'[k + 1] - Window
        BY <1>3, <1>8, <2>1, <3>1
      <4>5. QED
        BY <4>2, <4>3, <4>4 DEF MemoryCounts
    <3>5. QED
      BY <3>3, <3>4
  <2>4. QED
    BY <2>2, <2>3 DEF CheckUploadInMemory, PassesInMemory
<1>9. QED
  BY <1>7, <1>8 DEF MemoryCounts, n

-----------------------------------------------------------------------------
(* The uploads with a store.                                               *)
LEMMA BusySize ==
  /\ IsFiniteSet(Busy) /\ Cardinality(Busy) \in Nat
  /\ Cardinality(Busy) <= Cardinality(Uploads)
<1>1. Busy \in SUBSET Uploads
  BY DEF Busy
<1>2. QED
  BY <1>1, RateConstants, FS_Subset, FS_CardinalityType

LEMMA LiveNat ==
  ASSUME RateTypes PROVE Live \in Nat /\ moment \in Nat /\ kvCount.expires \in Nat /\ kvCount.count \in Nat
BY DEF RateTypes, Live

(* The requests the counter knows nothing of are over.                     *)
LEMMA UploadsPassed ==
  ASSUME RateTypes, UploadCounts
  PROVE  \E k \in 0 .. Len(accepted) : /\ Len(accepted) - k <= Live
                                       /\ \A j \in 1 .. k : accepted[j] <= moment - Window
<1>1. CASE kvCount.expires > moment
  BY <1>1 DEF UploadCounts, Live
<1>2. CASE ~ (kvCount.expires > moment)
  <2>1. /\ Len(accepted) \in Nat /\ Window \in Nat /\ moment \in Nat /\ kvCount.expires \in Nat
        /\ \A j \in 1 .. Len(accepted) : accepted[j] \in Nat
    BY RateConstants, LiveNat DEF RateTypes
  <2>2. \A j \in 1 .. Len(accepted) : accepted[j] <= moment - Window
    BY <1>2, <2>1 DEF UploadCounts, Passes
  <2>3. Live = 0 /\ Len(accepted) \in 0 .. Len(accepted) /\ Len(accepted) - Len(accepted) <= 0
    BY <1>2, <2>1 DEF Live
  <2>4. QED
    BY <2>2, <2>3
<1>3. QED
  BY <1>1, <1>2

LEMMA BusyIs ==
  ASSUME RateTypes, NEW u \in Uploads, NEW x \in [step : {"idle", "asks", "counts"}, now : Nat],
         uploadOf' = [uploadOf EXCEPT ![u] = x]
  PROVE  /\ Busy' = IF x.step = "counts" THEN Busy \cup {u} ELSE Busy \ {u}
         /\ uploadOf' \in [Uploads -> [step : {"idle", "asks", "counts"}, now : Nat]]
         /\ \A v \in Uploads : uploadOf'[v].step # "idle" => uploadOf[v].step # "idle" \/ v = u
BY DEF RateTypes, Busy

(* An upload that neither counts nor passes leaves the counters as they    *)
(* are.                                                                    *)
LEMMA UploadEndsStep ==
  ASSUME RateTypes, UploadCounts, NEW u \in Uploads, Ends(u), UNCHANGED <<moment, accepted, kvCount>>
  PROVE  UploadCounts'
<1>1. uploadOf' = [uploadOf EXCEPT ![u] = NoUpload]
  BY DEF Ends
<1>2. NoUpload \in [step : {"idle", "asks", "counts"}, now : Nat] /\ NoUpload.step = "idle"
  BY DEF NoUpload
<1>3. Busy' = Busy \ {u}
  BY <1>1, <1>2, BusyIs
<1>4. Cardinality(Busy') <= Cardinality(Busy) /\ Cardinality(Busy') \in Nat
  <2>1. IsFiniteSet(Busy') /\ Cardinality(Busy') <= Cardinality(Busy)
    BY <1>3, BusySize, FS_Subset
  <2>2. QED
    BY <2>1, FS_CardinalityType
<1>5. Live' = Live /\ Passes' = Passes
  BY DEF Live, Passes
<1>6. Live' + Cardinality(Busy') <= MaxRequests + Cardinality(Uploads) - 1
  BY <1>4, <1>5, BusySize, LiveNat, RateConstants DEF UploadCounts
<1>7. QED
  BY <1>5, <1>6 DEF UploadCounts

LEMMA StartStep ==
  ASSUME RateTypes, UploadCounts, NEW u \in Uploads, StartUpload(u)
  PROVE  UploadCounts'
<1>1. PICK x : x = [step |-> "asks", now |-> moment]
  OBVIOUS
<1>2. x \in [step : {"idle", "asks", "counts"}, now : Nat] /\ x.step = "asks"
  BY <1>1, LiveNat
<1>3. uploadOf' = [uploadOf EXCEPT ![u] = x] /\ uploadOf[u].step = "idle"
  BY <1>1 DEF StartUpload
<1>4. Busy' = Busy \ {u} /\ u \notin Busy
  BY <1>2, <1>3, BusyIs DEF Busy
<1>5. /\ Busy' = Busy /\ Live' = Live /\ Passes' = Passes
      /\ UNCHANGED <<moment, accepted, kvCount>>
  BY <1>4 DEF StartUpload, Live, Passes
<1>6. QED
  BY <1>5 DEF UploadCounts

LEMMA ReadStep ==
  ASSUME RateTypes, UploadCounts, NEW u \in Uploads, ReadUploads(u)
  PROVE  UploadCounts'
<1>1. /\ Live' = Live /\ Passes' = Passes /\ accepted' = accepted /\ kvCount' = kvCount
      /\ moment' = moment /\ uploadOf[u].step = "asks"
  BY DEF ReadUploads, Live, Passes
<1>2. CASE Ends(u)
  BY <1>1, <1>2, UploadEndsStep
<1>3. CASE Live < MaxRequests /\ uploadOf' = [uploadOf EXCEPT ![u].step = "counts"]
  <2>1. PICK x : x = [uploadOf[u] EXCEPT !.step = "counts"]
    OBVIOUS
  <2>2. x \in [step : {"idle", "asks", "counts"}, now : Nat] /\ x.step = "counts"
    BY <2>1 DEF RateTypes
  <2>3. uploadOf' = [uploadOf EXCEPT ![u] = x]
    BY <1>3, <2>1
  <2>4. Busy' = Busy \cup {u} /\ u \notin Busy
    BY <1>1, <2>2, <2>3, BusyIs DEF Busy
  <2>5. Cardinality(Busy') <= Cardinality(Uploads) /\ Cardinality(Busy') \in Nat
    <3>1. Busy' \in SUBSET Uploads
      BY DEF Busy
    <3>2. QED
      BY <3>1, RateConstants, FS_Subset, FS_CardinalityType
  <2>6. Live' + Cardinality(Busy') <= MaxRequests + Cardinality(Uploads) - 1
    BY <1>1, <1>3, <2>5, LiveNat, RateConstants
  <2>7. QED
    BY <1>1, <2>6 DEF UploadCounts
<1>4. QED
  BY <1>2, <1>3 DEF ReadUploads

(* The increment takes the upload off those under way, whether it passes   *)
(* or not.                                                                 *)
LEMMA IncrementKeepsRoom ==
  ASSUME RateTypes, UploadCounts, NEW u \in Uploads, Ends(u), uploadOf[u].step = "counts",
         kvCount' = Incremented, moment' = moment
  PROVE  /\ Live' + Cardinality(Busy') <= MaxRequests + Cardinality(Uploads) - 1
         /\ Live + 1 <= MaxRequests + Cardinality(Uploads) - 1
         /\ kvCount'.count = Live + 1 /\ kvCount'.expires = moment + Window
<1>1. NoUpload \in [step : {"idle", "asks", "counts"}, now : Nat] /\ NoUpload.step = "idle"
  BY DEF NoUpload
<1>2. Busy' = Busy \ {u} /\ u \in Busy
  BY <1>1, BusyIs DEF Ends, Busy
<1>3. Cardinality(Busy') = Cardinality(Busy) - 1 /\ Cardinality(Busy') \in Nat
  <2>1. IsFiniteSet(Busy') /\ Cardinality(Busy') = Cardinality(Busy) - 1
    BY <1>2, BusySize, FS_RemoveElement
  <2>2. QED
    BY <2>1, FS_CardinalityType
<1>4. kvCount'.count = Live + 1 /\ kvCount'.expires = moment + Window
  BY DEF Incremented
<1>5. Live' = Live + 1 \/ Live' = 0
  BY <1>4 DEF Live
<1>6. Live + Cardinality(Busy) <= MaxRequests + Cardinality(Uploads) - 1
  BY DEF UploadCounts
<1>7. QED
  BY <1>3, <1>4, <1>5, <1>6, BusySize, LiveNat, RateConstants

LEMMA CountStep ==
  ASSUME RateTypes, WindowsHold, UploadCounts, limiter = "kv", NEW u \in Uploads,
         Ends(u), uploadOf[u].step = "counts", kvCount' = Incremented, Accept,
         moment' = moment, limiter' = limiter
  PROVE  WindowsHold' /\ UploadCounts'
<1> DEFINE n == Len(accepted)
<1>1. PICK k \in 0 .. n : n - k <= Live /\ \A j \in 1 .. k : accepted[j] <= moment - Window
  BY UploadsPassed
<1>2. /\ n \in Nat /\ moment \in Nat /\ Live \in Nat
      /\ Window \in Nat /\ MaxRequests \in Nat /\ Cardinality(Uploads) \in Nat
      /\ \A j \in 1 .. n : accepted[j] \in Nat /\ accepted[j] <= moment
  <2>1. \A j \in 1 .. n : accepted[j] \in Nat /\ accepted[j] <= moment
    BY DEF RateTypes, Passes
  <2>2. n \in Nat
    BY DEF RateTypes
  <2>3. QED
    BY <2>1, <2>2, RateConstants, LiveNat
<1>3. /\ Len(accepted') = n + 1
      /\ \A j \in 1 .. n : accepted'[j] = accepted[j]
      /\ accepted'[n + 1] = moment
      /\ Passes' = 1 .. n + 1 /\ Passes = 1 .. n
  BY <1>2, PassFacts DEF Passes
<1>4. AtMost[limiter] = MaxRequests + Cardinality(Uploads) - 1
  BY DEF AtMost
<1>5. /\ Live' + Cardinality(Busy') <= MaxRequests + Cardinality(Uploads) - 1
      /\ Live + 1 <= MaxRequests + Cardinality(Uploads) - 1
      /\ kvCount'.count = Live + 1 /\ kvCount'.expires = moment + Window
  BY IncrementKeepsRoom
<1> HIDE DEF n
<1>6. WindowsHold'
  <2>1. IsFiniteSet(k + 1 .. n) /\ Cardinality(k + 1 .. n) = n - k
    <3>1. /\ IsFiniteSet(k + 1 .. n)
          /\ Cardinality(k + 1 .. n) = IF k + 1 > n THEN 0 ELSE n - (k + 1) + 1
      BY <1>2, FS_Interval
    <3>2. QED
      BY <1>2, <3>1
  <2>2. Cardinality(k + 1 .. n) + 1 <= AtMost[limiter]
    BY <1>1, <1>2, <1>4, <1>5, <2>1
  <2>3. \A j \in Passes : accepted[j] > moment - Window => j \in k + 1 .. n
    BY <1>1, <1>2, <1>3
  <2>4. QED
    BY <2>1, <2>2, <2>3, PassKeepsWindows
<1>7. /\ k \in 0 .. Len(accepted') /\ Len(accepted') - k <= kvCount'.count
      /\ \A j \in 1 .. k : accepted'[j] <= moment' - Window
  <2>1. \A j \in 1 .. k : j \in 1 .. n
    BY <1>2
  <2>2. \A j \in 1 .. k : accepted'[j] <= moment' - Window
    BY <1>1, <1>3, <2>1
  <2>3. QED
    BY <1>1, <1>2, <1>3, <1>5, <2>2
<1>8. \A j \in Passes' : accepted'[j] <= kvCount'.expires - Window
  <2>1. \A j \in 1 .. n + 1 : accepted'[j] <= moment
    BY <1>2, <1>3
  <2>2. kvCount'.expires - Window = moment
    BY <1>2, <1>5
  <2>3. QED
    BY <1>3, <2>1, <2>2
<1>9. UploadCounts'
  BY <1>5, <1>7, <1>8 DEF UploadCounts
<1>10. QED
  BY <1>6, <1>9

(* A request to the store throws: nothing passes that is counted.          *)
LEMMA ThrowStep ==
  ASSUME RateTypes, UploadCounts, NEW u \in Uploads, StoreThrows(u)
  PROVE  UploadCounts'
<1>1. /\ Ends(u) /\ moment' = moment /\ accepted' = accepted
      /\ kvCount' = kvCount \/ (uploadOf[u].step = "counts" /\ kvCount' = Incremented)
  BY DEF StoreThrows
<1>2. CASE kvCount' = kvCount
  BY <1>1, <1>2, UploadEndsStep
<1>3. CASE uploadOf[u].step = "counts" /\ kvCount' = Incremented
  <2>1. /\ Live' + Cardinality(Busy') <= MaxRequests + Cardinality(Uploads) - 1
        /\ kvCount'.count = Live + 1 /\ kvCount'.expires = moment + Window
    BY <1>1, <1>3, IncrementKeepsRoom
  <2>2. PICK k \in 0 .. Len(accepted) : /\ Len(accepted) - k <= Live
                                        /\ \A j \in 1 .. k : accepted[j] <= moment - Window
    BY UploadsPassed
  <2>3. Len(accepted) \in Nat /\ Live \in Nat /\ moment \in Nat /\ Window \in Nat
    BY LiveNat, RateConstants DEF RateTypes
  <2>4. \E i \in 0 .. Len(accepted') : /\ Len(accepted') - i <= kvCount'.count
                                       /\ \A j \in 1 .. i : accepted'[j] <= moment' - Window
    BY <1>1, <2>1, <2>2, <2>3
  <2>5. \A j \in Passes : accepted[j] \in Nat /\ accepted[j] <= moment
    BY DEF RateTypes, Passes
  <2>6. Passes' = Passes /\ \A j \in Passes : accepted'[j] <= kvCount'.expires - Window
    BY <1>1, <2>1, <2>3, <2>5 DEF Passes
  <2>7. QED
    BY <2>1, <2>4, <2>6 DEF UploadCounts
<1>4. QED
  BY <1>1, <1>2, <1>3

-----------------------------------------------------------------------------
(* The windows of the gateway begin at multiples of their length.          *)
LEMMA Multiples ==
  ASSUME NEW a \in Nat, NEW b \in Nat, NEW w \in Nat, a * w < b * w
  PROVE  a * w + w <= b * w
<1>1. a < b
  <2>1. SUFFICES ASSUME b <= a PROVE FALSE
    OBVIOUS
  <2>2. PICK d \in Nat : a = b + d
    BY <2>1
  <2>3. a * w = b * w + d * w
    BY <2>2
  <2>4. d * w \in Nat /\ b * w \in Nat /\ a * w \in Nat
    BY ProductNat
  <2>5. QED
    BY <2>3, <2>4
<1>2. PICK d \in Nat : b = a + 1 + d
  BY <1>1
<1>3. b * w = a * w + w + d * w
  BY <1>2
<1>4. d * w \in Nat /\ b * w \in Nat /\ a * w \in Nat
  BY ProductNat
<1>5. QED
  BY <1>3, <1>4

LEMMA MinOfTwo ==
  ASSUME NEW a \in Int, NEW b \in Int
  PROVE  Min({a, b}) = IF a <= b THEN a ELSE b
BY DEF Min

(* The window of now is the one counted, or a later one.                   *)
LEMMA StartFacts ==
  ASSUME RateTypes, WindowCounts
  PROVE  /\ WindowStart \in Nat /\ windowCount.start \in Nat
         /\ WindowStart <= moment /\ moment < WindowStart + Window
         /\ \E q \in Nat : WindowStart = q * Window
         /\ \/ windowCount.start = WindowStart
            \/ windowCount.start + Window = WindowStart
            \/ windowCount.start + Window + Window <= WindowStart
<1> DEFINE q == moment \div Window
           s == windowCount.start
<1>1. moment \in Nat /\ Window \in Nat \ {0} /\ s \in Nat /\ s <= moment
  BY RateAssumption DEF RateTypes, WindowCounts
<1>2. q \in Nat /\ q * Window <= moment /\ moment < q * Window + Window
  BY <1>1, DivFloor
<1>3. WindowStart = q * Window /\ WindowStart \in Nat
  BY <1>1, <1>2, ProductNat DEF WindowStart
<1>4. PICK p \in Nat : s = p * Window
  BY DEF WindowCounts
<1> HIDE DEF q, s
<1>5. s = WindowStart \/ s + Window = WindowStart \/ s + Window + Window <= WindowStart
  <2>1. CASE s < WindowStart
    <3>1. p * Window < q * Window
      BY <1>3, <1>4, <2>1
    <3>2. p * Window + Window <= q * Window
      BY <1>1, <1>2, <3>1, Multiples
    <3>3. s + Window = (p + 1) * Window
      BY <1>1, <1>4
    <3>4. CASE s + Window < WindowStart
      <4>1. (p + 1) * Window < q * Window
        BY <1>3, <3>3, <3>4
      <4>2. (p + 1) * Window + Window <= q * Window
        BY <1>1, <1>2, <4>1, Multiples
      <4>3. QED
        BY <1>3, <3>3, <4>2
    <3>5. QED
      BY <1>1, <1>3, <1>4, <3>2, <3>4
  <2>2. CASE WindowStart < s
    <3>1. q * Window < p * Window
      BY <1>3, <1>4, <2>2
    <3>2. q * Window + Window <= p * Window
      BY <1>1, <1>2, <3>1, Multiples
    <3>3. QED
      BY <1>1, <1>2, <1>3, <1>4, <3>2
  <2>3. QED
    BY <1>1, <1>3, <2>1, <2>2
<1>6. QED
  BY <1>1, <1>2, <1>3, <1>5 DEF s

LEMMA InWindowSize ==
  ASSUME RateTypes, NEW s
  PROVE  IsFiniteSet(InWindow(s)) /\ Cardinality(InWindow(s)) \in Nat
<1>1. InWindow(s) \in SUBSET Passes
  BY DEF InWindow
<1>2. QED
  BY <1>1, PositionSets

(* The last window meets two of the gateway's at most.                     *)
LEMMA GatewayMeets ==
  ASSUME RateTypes, WindowCounts
  PROVE  /\ \A j \in Passes : accepted[j] > moment - Window
                                => j \in InWindow(WindowStart) \cup InWindow(WindowStart - Window)
         /\ Cardinality(InWindow(WindowStart - Window)) <= MaxRequests
         /\ windowCount.start # WindowStart => InWindow(WindowStart) = {}
<1> DEFINE s == windowCount.start
           t == WindowStart
<1>1. /\ s \in Nat /\ t \in Nat /\ t <= moment /\ moment < t + Window /\ moment \in Nat
      /\ s = t \/ s + Window = t \/ s + Window + Window <= t
      /\ Window \in Nat /\ Window > 0 /\ MaxRequests \in Nat
      /\ \A j \in Passes : accepted[j] \in Nat /\ accepted[j] <= moment
  <2>1. \A j \in Passes : accepted[j] \in Nat /\ accepted[j] <= moment
    BY DEF RateTypes, Passes
  <2>2. moment \in Nat
    BY DEF RateTypes
  <2>3. QED
    BY <2>1, <2>2, StartFacts, RateConstants
<1>2. /\ \A j \in Passes : accepted[j] < s + Window
      /\ Cardinality(InWindow(s)) <= MaxRequests /\ Cardinality(InWindow(s - Window)) <= MaxRequests
  BY DEF WindowCounts
<1> HIDE DEF s, t
<1>3. \A j \in Passes : accepted[j] > moment - Window => j \in InWindow(t) \cup InWindow(t - Window)
  BY <1>1 DEF InWindow
<1>4. s # t => InWindow(t) = {}
  BY <1>1, <1>2 DEF InWindow
<1>5. Cardinality(InWindow(t - Window)) <= MaxRequests
  <2>1. CASE s = t
    BY <1>2, <2>1
  <2>2. CASE s + Window = t
    <3>1. t - Window = s
      BY <1>1, <2>2
    <3>2. QED
      BY <1>2, <3>1
  <2>3. CASE s + Window + Window <= t
    <3>1. InWindow(t - Window) = {}
      BY <1>1, <1>2, <2>3 DEF InWindow
    <3>2. QED
      BY <1>1, <3>1, FS_EmptySet
  <2>4. QED
    BY <1>1, <2>1, <2>2, <2>3
<1>6. QED
  BY <1>3, <1>4, <1>5 DEF s, t

(* What a request that passes adds to a window of the gateway.             *)
LEMMA PassInWindow ==
  ASSUME RateTypes, Accept, moment' = moment, NEW t \in Int
  PROVE  InWindow(t)' = InWindow(t) \cup
               (IF t <= moment /\ moment < t + Window THEN {Len(accepted) + 1} ELSE {})
<1>1. /\ Len(accepted) \in Nat /\ moment \in Nat /\ Window \in Nat
      /\ \A j \in Passes : accepted'[j] = accepted[j] /\ accepted[j] \in Nat
      /\ accepted'[Len(accepted) + 1] = moment
      /\ Passes' = Passes \cup {Len(accepted) + 1} /\ Len(accepted) + 1 \notin Passes
  BY PassFacts, RateConstants DEF RateTypes
<1>2. InWindow(t)' = {j \in Passes' : accepted'[j] >= t /\ accepted'[j] < t + Window}
  BY DEF InWindow
<1>3. QED
  BY <1>1, <1>2 DEF InWindow

(* The increment, and what it leaves of the windows.                       *)
LEMMA CacheIncrFacts ==
  ASSUME RateTypes
  PROVE  /\ CacheIncr \in Nat
         /\ windowCount.start # WindowStart => CacheIncr = 1
         /\ windowCount.start = WindowStart /\ CacheIncr <= MaxRequests
              => CacheIncr = windowCount.count + 1
         /\ WindowStart \in Nat
<1>1. windowCount.count \in Nat /\ MaxRequests \in Nat /\ moment \in Nat /\ Window \in Nat \ {0}
  BY RateAssumption DEF RateTypes
<1>2. Min({windowCount.count + 1, MaxRequests + 2})
        = IF windowCount.count + 1 <= MaxRequests + 2 THEN windowCount.count + 1 ELSE MaxRequests + 2
  BY <1>1, MinOfTwo
<1>3. WindowStart \in Nat
  BY <1>1, DivFloor, ProductNat DEF WindowStart
<1>4. QED
  BY <1>1, <1>2, <1>3 DEF CacheIncr

(* A request that is counted and does not pass, or passes unchecked.       *)
LEMMA CountedInVain ==
  ASSUME RateTypes, WindowCounts, UNCHANGED <<moment, accepted>>,
         windowCount' = [start |-> WindowStart, count |-> CacheIncr]
  PROVE  WindowCounts'
<1> PICK t : t = WindowStart
  OBVIOUS
<1>1. /\ t \in Nat /\ t <= moment /\ moment < t + Window /\ \E q \in Nat : t = q * Window
      /\ moment \in Nat /\ Window \in Nat /\ MaxRequests \in Nat /\ windowCount.count \in Nat
      /\ windowCount'.start = t /\ windowCount'.count = CacheIncr
      /\ Passes' = Passes /\ \A j \in Passes : accepted[j] \in Nat /\ accepted[j] <= moment
  <2>1. \A j \in Passes : accepted[j] \in Nat /\ accepted[j] <= moment
    BY DEF RateTypes, Passes
  <2>2. moment \in Nat /\ windowCount.count \in Nat
    BY DEF RateTypes
  <2>3. windowCount'.start = t /\ windowCount'.count = CacheIncr /\ Passes' = Passes
    BY DEF Passes
  <2>4. QED
    BY <2>1, <2>2, <2>3, StartFacts, RateConstants
<1>2. InWindow(t)' = InWindow(t) /\ InWindow(t - Window)' = InWindow(t - Window)
  BY <1>1 DEF InWindow
<1>3. Cardinality(InWindow(t - Window)) <= MaxRequests
  BY GatewayMeets
<1>4. Cardinality(InWindow(t)) <= CacheIncr /\ Cardinality(InWindow(t)) <= MaxRequests
  <2>1. CASE windowCount.start = t
    <3>1. /\ Cardinality(InWindow(t)) <= windowCount.count /\ Cardinality(InWindow(t)) <= MaxRequests
          /\ Cardinality(InWindow(t)) \in Nat
      BY <2>1, InWindowSize DEF WindowCounts
    <3>2. CacheIncr >= windowCount.count + 1 \/ CacheIncr >= MaxRequests
      BY <1>1, <2>1, CacheIncrFacts
    <3>3. QED
      BY <1>1, <3>1, <3>2, CacheIncrFacts
  <2>2. CASE windowCount.start # t
    <3>1. Cardinality(InWindow(t)) = 0
      BY <2>2, GatewayMeets, FS_EmptySet
    <3>2. QED
      BY <1>1, <3>1, CacheIncrFacts
  <2>3. QED
    BY <2>1, <2>2
<1>5. \A j \in Passes' : accepted'[j] < windowCount'.start + Window
  BY <1>1
<1>6. /\ Cardinality(InWindow(windowCount.start))' <= windowCount'.count
      /\ Cardinality(InWindow(windowCount.start))' <= MaxRequests
      /\ Cardinality(InWindow(windowCount.start - Window))' <= MaxRequests
  <2>1. /\ InWindow(windowCount.start)' = InWindow(t)
        /\ InWindow(windowCount.start - Window)' = InWindow(t - Window)
    BY <1>1 DEF InWindow
  <2>2. QED
    BY <1>1, <1>3, <1>4, <2>1
<1>7. QED
  BY <1>1, <1>5, <1>6 DEF WindowCounts

LEMMA LimitStep ==
  ASSUME RateTypes, WindowsHold, WindowCounts, CheckRateLimit
  PROVE  WindowsHold' /\ WindowCounts'
<1> DEFINE n == Len(accepted)
           s == windowCount.start
<1> PICK t : t = WindowStart
  OBVIOUS
<1>1. /\ n \in Nat /\ moment \in Nat /\ limiter = "gateway"
      /\ Window \in Nat /\ Window > 0 /\ MaxRequests \in Nat /\ MaxRequests > 0
      /\ moment' = moment /\ limiter' = limiter
      /\ windowCount' = [start |-> t, count |-> CacheIncr] /\ windowCount.count \in Nat
  BY RateConstants DEF RateTypes, CheckRateLimit
<1>2. /\ t \in Nat /\ s \in Nat /\ t <= moment /\ moment < t + Window
      /\ \E q \in Nat : t = q * Window
  BY StartFacts
<1>3. /\ CacheIncr \in Nat
      /\ s # t => CacheIncr = 1
      /\ s = t /\ CacheIncr <= MaxRequests => CacheIncr = windowCount.count + 1
  BY CacheIncrFacts
<1> DEFINE A == InWindow(t)
           B == InWindow(t - Window)
<1>4. /\ IsFiniteSet(A) /\ Cardinality(A) \in Nat /\ IsFiniteSet(B) /\ Cardinality(B) \in Nat
      /\ Cardinality(B) <= MaxRequests
      /\ s = t => Cardinality(A) <= windowCount.count
      /\ s # t => Cardinality(A) = 0
      /\ \A j \in Passes : accepted[j] > moment - Window => j \in A \cup B
  BY InWindowSize, GatewayMeets, FS_EmptySet DEF WindowCounts
<1>5. CASE CacheIncr > MaxRequests
  <2>1. accepted' = accepted
    BY <1>5 DEF CheckRateLimit
  <2>2. WindowsHold'
    BY <1>1, <2>1 DEF WindowsHold, PassedTogether, AtMost
  <2>3. QED
    BY <1>1, <2>1, <2>2, CountedInVain
<1>6. CASE ~ (CacheIncr > MaxRequests)
  <2>1. Accept
    BY <1>6 DEF CheckRateLimit
  <2>2. /\ \A j \in Passes : accepted'[j] = accepted[j] /\ accepted[j] <= moment /\ accepted[j] \in Nat
        /\ accepted'[n + 1] = moment
        /\ Passes' = Passes \cup {n + 1} /\ n + 1 \notin Passes
    BY <1>1, <2>1, PassFacts DEF RateTypes
  <2>3. Cardinality(A) + 1 <= CacheIncr /\ CacheIncr <= MaxRequests
    BY <1>1, <1>3, <1>4, <1>6
  <2>4. WindowsHold'
    <3>1. AtMost[limiter] = 2 * MaxRequests
      BY <1>1 DEF AtMost
    <3> HIDE DEF A, B, s, n
    <3>2. /\ IsFiniteSet(A \cup B) /\ Cardinality(A \cup B) <= Cardinality(A) + Cardinality(B)
          /\ Cardinality(A \cup B) \in Nat
      BY <1>4, UnionSize
    <3>3. Cardinality(A \cup B) + 1 <= AtMost[limiter]
      BY <1>1, <1>3, <1>4, <2>3, <3>1, <3>2
    <3>4. QED
      BY <1>1, <1>4, <2>1, <3>2, <3>3, PassKeepsWindows
  <2>5. windowCount'.start = t /\ windowCount'.count = CacheIncr
    BY <1>1
  <2>6. InWindow(t)' = A \cup {n + 1} /\ InWindow(t - Window)' = B
    <3>1. t \in Int /\ t - Window \in Int /\ ~ (moment < (t - Window) + Window)
      BY <1>1, <1>2
    <3>2. /\ InWindow(t)' = A \cup
               (IF t <= moment /\ moment < t + Window THEN {n + 1} ELSE {})
          /\ InWindow(t - Window)' = B \cup
               (IF t - Window <= moment /\ moment < (t - Window) + Window THEN {n + 1} ELSE {})
      BY <1>1, <2>1, <3>1, PassInWindow
    <3> HIDE DEF A, B
    <3>3. QED
      BY <1>2, <3>1, <3>2
  <2>7. \A j \in Passes' : accepted'[j] < windowCount'.start + Window
    BY <1>1, <1>2, <2>2, <2>5
  <2>8. Cardinality(A \cup {n + 1}) = Cardinality(A) + 1
    <3>1. n + 1 \notin A
      BY <2>2 DEF InWindow
    <3>2. QED
      BY <1>4, <3>1, FS_AddElement
  <2>9. /\ Cardinality(InWindow(windowCount.start))' <= windowCount'.count
        /\ Cardinality(InWindow(windowCount.start))' <= MaxRequests
        /\ Cardinality(InWindow(windowCount.start - Window))' <= MaxRequests
    <3>1. /\ InWindow(windowCount.start)' = InWindow(t)'
          /\ InWindow(windowCount.start - Window)' = InWindow(t - Window)'
      BY <2>5 DEF InWindow
    <3>2. /\ Cardinality(InWindow(windowCount.start))' = Cardinality(A \cup {n + 1})
          /\ Cardinality(InWindow(windowCount.start - Window))' = Cardinality(B)
      BY <2>6, <3>1
    <3> HIDE DEF A, B
    <3>3. QED
      BY <1>1, <1>3, <1>4, <2>3, <2>5, <2>8, <3>2
  <2>10. windowCount'.start <= moment' /\ \E q \in Nat : windowCount'.start = q * Window
    BY <1>1, <1>2, <2>5
  <2> HIDE DEF A, B
  <2>11. WindowCounts'
    BY <2>7, <2>9, <2>10 DEF WindowCounts
  <2>12. QED
    BY <2>4, <2>11
<1>7. QED
  BY <1>5, <1>6

LEMMA StorelessStep ==
  ASSUME RateTypes, WindowCounts, CheckWithoutStore
  PROVE  WindowCounts'
<1>1. UNCHANGED <<moment, accepted>>
  BY DEF CheckWithoutStore
<1>2. CASE windowCount' = windowCount
  BY <1>1, <1>2 DEF WindowCounts, InWindow, Passes
<1>3. CASE windowCount' = [start |-> WindowStart, count |-> CacheIncr]
  BY <1>1, <1>3, CountedInVain
<1>4. QED
  BY <1>2, <1>3 DEF CheckWithoutStore

-----------------------------------------------------------------------------
(* Time only makes what is remembered older.                               *)
LEMMA TimeStep ==
  ASSUME RateInv, TimeGoesOn
  PROVE  RateInv'
<1>1. /\ moment' = moment + 1 /\ limiter' = limiter /\ accepted' = accepted
      /\ windowCount' = windowCount /\ kvCount' = kvCount /\ uploadOf' = uploadOf
      /\ memoryLimit' = memoryLimit /\ timestamps' = timestamps
  BY DEF TimeGoesOn, gatewayVars
<1>2. moment \in Nat /\ Window \in Nat /\ \A j \in Passes : accepted[j] \in Nat
  BY RateConstants DEF RateInv, RateTypes, Passes
<1>3. RateTypes'
  <2>1. Passes' = Passes
    BY <1>1 DEF Passes
  <2>2. \A i \in Passes : accepted[i] <= moment + 1
    BY <1>2 DEF RateInv, RateTypes
  <2>3. QED
    BY <1>1, <1>2, <2>1, <2>2 DEF RateInv, RateTypes
<1>4. WindowsHold'
  BY <1>1 DEF RateInv, WindowsHold, PassedTogether, AtMost
<1>5. \A k \in 0 .. Len(accepted) : (\A j \in 1 .. k : accepted[j] <= moment - Window)
                                      => \A j \in 1 .. k : accepted[j] <= moment' - Window
  <2>1. Len(accepted) \in Nat
    BY DEF RateInv, RateTypes
  <2>2. \A k \in 0 .. Len(accepted) : \A j \in 1 .. k : accepted[j] \in Nat
    BY <1>2, <2>1 DEF Passes
  <2>3. QED
    BY <1>1, <1>2, <2>2
<1>6. limiter = "page" => PageCounts'
  <2>1. SUFFICES ASSUME limiter = "page" PROVE PageCounts'
    OBVIOUS
  <2>2. PICK k \in 0 .. Len(accepted) :
          /\ Len(timestamps) = Len(accepted) - k
          /\ \A i \in 1 .. Len(accepted) - k : timestamps[i] = accepted[k + i]
          /\ \A j \in 1 .. k : accepted[j] <= moment - Window
    BY <2>1 DEF RateInv, PageCounts
  <2>3. \A j \in 1 .. k : accepted[j] <= moment' - Window
    BY <1>5, <2>2
  <2>4. QED
    BY <1>1, <2>1, <2>2, <2>3 DEF RateInv, PageCounts
<1>7. limiter = "memory" => MemoryCounts'
  BY <1>1 DEF RateInv, MemoryCounts
<1>8. limiter = "gateway" => WindowCounts'
  <2>1. Passes' = Passes /\ (limiter = "gateway" => windowCount.start <= moment + 1)
    BY <1>1, <1>2 DEF WindowCounts, RateInv, RateTypes, Passes
  <2>2. /\ InWindow(windowCount.start)' = InWindow(windowCount.start)
        /\ InWindow(windowCount.start - Window)' = InWindow(windowCount.start - Window)
    BY <1>1, <2>1 DEF InWindow
  <2>3. QED
    BY <1>1, <2>1, <2>2 DEF RateInv, WindowCounts
<1>9. limiter = "kv" => UploadCounts'
  <2>1. SUFFICES ASSUME limiter = "kv" PROVE UploadCounts'
    OBVIOUS
  <2>2. RateTypes /\ UploadCounts
    BY <2>1 DEF RateInv
  <2>3. PICK k \in 0 .. Len(accepted) : /\ Len(accepted) - k <= kvCount.count
                                        /\ \A j \in 1 .. k : accepted[j] <= moment - Window
    BY <2>2 DEF UploadCounts
  <2>4. \A j \in 1 .. k : accepted[j] <= moment' - Window
    BY <1>5, <2>3
  <2>5. Busy' = Busy /\ Passes' = Passes
    BY <1>1 DEF Busy, Passes
  <2>6. Live' + Cardinality(Busy') <= MaxRequests + Cardinality(Uploads) - 1
    <3>1. Live' = Live \/ Live' = 0
      BY <1>1, <1>2, <2>2, LiveNat DEF Live
    <3>2. QED
      BY <2>2, <2>5, <3>1, LiveNat, RateConstants, BusySize DEF UploadCounts
  <2>7. QED
    BY <1>1, <2>2, <2>3, <2>4, <2>5, <2>6 DEF UploadCounts
<1>10. QED
  BY <1>1, <1>3, <1>4, <1>6, <1>7, <1>8, <1>9 DEF RateInv

-----------------------------------------------------------------------------
LEMMA RateStarts == RateInit => RateInv
<1> SUFFICES ASSUME RateInit PROVE RateInv
  OBVIOUS
<1>1. /\ moment = 0 /\ limiter \in Limiters /\ accepted = <<>>
      /\ windowCount = [start |-> 0, count |-> 0] /\ kvCount = [count |-> 0, expires |-> 0]
      /\ uploadOf = [u \in Uploads |-> NoUpload] /\ memoryLimit = [count |-> 0, resetAt |-> -1]
      /\ timestamps = <<>>
  BY DEF RateInit
<1>2. Len(accepted) = 0 /\ Passes = {} /\ accepted \in Seq(Nat) /\ DOMAIN accepted = {}
  BY <1>1 DEF Passes
<1>3. RateTypes
  BY <1>1, <1>2 DEF RateTypes, NoUpload
<1>4. WindowsHold
  BY <1>2 DEF WindowsHold
<1>5. PageCounts
  <2>1. timestamps \in Seq(Nat) /\ Len(timestamps) = 0
    BY <1>1
  <2>2. /\ 0 \in 0 .. Len(accepted) /\ Len(timestamps) = Len(accepted) - 0
        /\ \A i \in 1 .. Len(accepted) - 0 : timestamps[i] = accepted[0 + i]
        /\ \A j \in 1 .. 0 : accepted[j] <= moment - Window
    BY <1>2, <2>1
  <2>3. QED
    BY <2>1, <2>2 DEF PageCounts
<1>6. MemoryCounts
  BY <1>1 DEF MemoryCounts
<1>7. UploadCounts
  <2>1. Busy = {}
    BY <1>1 DEF Busy, NoUpload
  <2>2. Live = 0 /\ Cardinality(Busy) = 0
    BY <1>1, <2>1, FS_EmptySet DEF Live
  <2>3. Live + Cardinality(Busy) <= MaxRequests + Cardinality(Uploads) - 1
    BY <2>2, RateConstants
  <2>4. /\ 0 \in 0 .. Len(accepted) /\ Len(accepted) - 0 <= kvCount.count
        /\ \A j \in 1 .. 0 : accepted[j] <= moment - Window
    BY <1>1, <1>2
  <2>5. QED
    BY <1>2, <2>3, <2>4 DEF UploadCounts
<1>8. WindowCounts
  <2>1. windowCount.start = 0 /\ windowCount.count = 0 /\ windowCount.start = 0 * Window
    BY <1>1, RateConstants
  <2>2. InWindow(windowCount.start) = {} /\ InWindow(windowCount.start - Window) = {}
    BY <1>2 DEF InWindow
  <2>3. /\ Cardinality(InWindow(windowCount.start)) = 0
        /\ Cardinality(InWindow(windowCount.start - Window)) = 0
    BY <2>2, FS_EmptySet
  <2>4. windowCount.start <= moment /\ \E q \in Nat : windowCount.start = q * Window
    BY <1>1, <2>1
  <2>5. \A j \in Passes : accepted[j] < windowCount.start + Window
    BY <1>2
  <2>6. QED
    BY <2>1, <2>3, <2>4, <2>5, RateConstants DEF WindowCounts
<1>9. QED
  BY <1>3, <1>4, <1>5, <1>6, <1>7, <1>8 DEF RateInv

LEMMA RateTypesKept ==
  ASSUME RateTypes, RateNext, ~ TimeGoesOn
  PROVE  RateTypes' /\ limiter' = limiter
<1>1. /\ moment \in Nat /\ limiter \in Limiters
      /\ windowCount \in [start : Nat, count : Nat] /\ kvCount \in [count : Nat, expires : Nat]
      /\ memoryLimit \in [count : Nat, resetAt : Int]
      /\ Window \in Nat /\ Live \in Nat /\ CacheIncr \in Nat /\ WindowStart \in Nat
  BY LiveNat, CacheIncrFacts, RateConstants DEF RateTypes
<1> DEFINE Steps == [step : {"idle", "asks", "counts"}, now : Nat]
<1>2. uploadOf \in [Uploads -> Steps] /\ NoUpload \in Steps
  BY DEF RateTypes, NoUpload
<1>3. moment' = moment /\ limiter' = limiter /\ (Accept \/ accepted' = accepted)
  BY DEF RateNext, CheckRateLimit, CheckWithoutStore, CheckUploadInMemory, CheckAndRecord,
         StartUpload, ReadUploads, CountUpload, StoreThrows
<1>4. windowCount' \in [start : Nat, count : Nat]
  BY <1>1 DEF RateNext, CheckRateLimit, CheckWithoutStore, CheckUploadInMemory, CheckAndRecord,
              StartUpload, ReadUploads, CountUpload, StoreThrows, gatewayVars
<1>5. kvCount' \in [count : Nat, expires : Nat]
  <2>1. Incremented \in [count : Nat, expires : Nat]
    BY <1>1 DEF Incremented
  <2>2. kvCount' = kvCount \/ kvCount' = Incremented
    BY DEF RateNext, CheckRateLimit, CheckWithoutStore, CheckUploadInMemory, CheckAndRecord,
           StartUpload, ReadUploads, CountUpload, StoreThrows, uploadVars
  <2>3. QED
    BY <1>1, <2>1, <2>2
<1>6. memoryLimit' \in [count : Nat, resetAt : Int]
  <2>1. ASSUME NEW now \in Nat, PassesInMemory(now)
        PROVE  memoryLimit' \in [count : Nat, resetAt : Int]
    BY <1>1, <2>1 DEF PassesInMemory
  <2>2. \/ memoryLimit' = memoryLimit \/ PassesInMemory(moment)
        \/ \E u \in Uploads : PassesInMemory(uploadOf[u].now)
    BY DEF RateNext, CheckRateLimit, CheckWithoutStore, CheckUploadInMemory, CheckAndRecord,
           StartUpload, ReadUploads, CountUpload, StoreThrows, uploadVars
  <2>3. \A u \in Uploads : uploadOf[u].now \in Nat
    BY <1>2
  <2>4. QED
    BY <1>1, <2>1, <2>2, <2>3
<1> DEFINE Typed == /\ uploadOf' \in [Uploads -> Steps]
                    /\ \A u \in Uploads : uploadOf'[u].step # "idle" => limiter = "kv"
<1>7. Typed
  <2>1. ASSUME NEW u \in Uploads, NEW x \in Steps, uploadOf' = [uploadOf EXCEPT ![u] = x],
               x.step # "idle" => limiter = "kv"
        PROVE  Typed
    BY <1>2, <2>1 DEF RateTypes
  <2>2. \A u \in Uploads : Ends(u) => Typed
    <3>1. NoUpload.step = "idle"
      BY DEF NoUpload
    <3>2. QED
      BY <1>2, <2>1, <3>1 DEF Ends
  <2>3. ASSUME NEW u \in Uploads, StartUpload(u)
        PROVE  Typed
    <3>1. PICK x : x = [step |-> "asks", now |-> moment]
      OBVIOUS
    <3>2. x \in Steps /\ uploadOf' = [uploadOf EXCEPT ![u] = x] /\ limiter = "kv"
      BY <1>1, <2>3, <3>1 DEF StartUpload
    <3>3. QED
      BY <2>1, <3>2
  <2>4. ASSUME NEW u \in Uploads, ReadUploads(u)
        PROVE  Typed
    <3>1. CASE Ends(u)
      BY <2>2, <3>1
    <3>2. CASE uploadOf' = [uploadOf EXCEPT ![u].step = "counts"]
      <4>1. PICK x : x = [uploadOf[u] EXCEPT !.step = "counts"]
        OBVIOUS
      <4>2. x \in Steps
        BY <1>2, <4>1
      <4>3. uploadOf' = [uploadOf EXCEPT ![u] = x]
        BY <3>2, <4>1
      <4>4. limiter = "kv"
        BY <2>4 DEF ReadUploads, RateTypes
      <4>5. QED
        BY <2>1, <4>2, <4>3, <4>4
    <3>3. QED
      BY <2>4, <3>1, <3>2 DEF ReadUploads
  <2>5. CASE uploadOf' = uploadOf
    BY <1>2, <2>5 DEF RateTypes
  <2>6. \/ uploadOf' = uploadOf
        \/ \E u \in Uploads : Ends(u) \/ StartUpload(u) \/ ReadUploads(u)
    BY DEF RateNext, CheckRateLimit, CheckWithoutStore, CheckUploadInMemory, CheckAndRecord,
           CountUpload, StoreThrows, uploadVars
  <2>7. QED
    BY <2>2, <2>3, <2>4, <2>5, <2>6
<1>8. /\ accepted' \in Seq(Nat)
      /\ \A i \in Passes' : accepted'[i] <= moment
      /\ \A i, j \in Passes' : i <= j => accepted'[i] <= accepted'[j]
  <2>1. CASE Accept
    BY <1>3, <2>1, PassFacts
  <2>2. CASE accepted' = accepted
    BY <2>2 DEF RateTypes, Passes
  <2>3. QED
    BY <1>3, <2>1, <2>2
<1>9. QED
  BY <1>1, <1>3, <1>4, <1>5, <1>6, <1>7, <1>8 DEF RateTypes

LEMMA RateStep == RateInv /\ [RateNext]_rateVars => RateInv'
<1> SUFFICES ASSUME RateInv, [RateNext]_rateVars PROVE RateInv'
  OBVIOUS
<1>1. CASE TimeGoesOn
  BY <1>1, TimeStep
<1>2. CASE RateNext /\ ~ TimeGoesOn
  <2>1. RateTypes /\ WindowsHold /\ RateTypes' /\ limiter' = limiter
    BY <1>2, RateTypesKept DEF RateInv
  <2>2. CASE CheckRateLimit
    <3>1. limiter = "gateway"
      BY <2>2 DEF CheckRateLimit
    <3>2. QED
      BY <2>1, <2>2, <3>1, LimitStep DEF RateInv
  <2>3. accepted' = accepted => WindowsHold'
    BY <2>1 DEF WindowsHold, PassedTogether, AtMost
  <2>4. CASE CheckWithoutStore
    <3>1. limiter = "gateway" /\ accepted' = accepted
      BY <2>4 DEF CheckWithoutStore
    <3>2. QED
      BY <2>1, <2>3, <2>4, <3>1, StorelessStep DEF RateInv
  <2>5. CASE CheckUploadInMemory
    <3>1. limiter = "memory"
      BY <2>5 DEF CheckUploadInMemory
    <3>2. QED
      BY <2>1, <2>5, <3>1, MemoryStep DEF RateInv
  <2>6. CASE CheckAndRecord
    <3>1. limiter = "page"
      BY <2>6 DEF CheckAndRecord
    <3>2. QED
      BY <2>1, <2>6, <3>1, PageStep DEF RateInv
  <2>7. ASSUME NEW u \in Uploads, StartUpload(u) \/ ReadUploads(u) \/ CountUpload(u) \/ StoreThrows(u)
        PROVE  RateInv'
    <3>1. limiter = "kv" /\ UploadCounts
      BY <2>1, <2>7 DEF StartUpload, ReadUploads, CountUpload, StoreThrows, RateTypes, RateInv
    <3>2. SUFFICES WindowsHold' /\ UploadCounts'
      BY <2>1, <3>1 DEF RateInv
    <3>3. CASE StartUpload(u)
      BY <2>1, <2>3, <3>1, <3>3, StartStep DEF StartUpload
    <3>4. CASE ReadUploads(u)
      BY <2>1, <2>3, <3>1, <3>4, ReadStep DEF ReadUploads
    <3>5. CASE CountUpload(u)
      <4>1. Ends(u) /\ uploadOf[u].step = "counts" /\ moment' = moment
        BY <3>5 DEF CountUpload
      <4>2. CASE kvCount' = Incremented /\ Accept
        BY <2>1, <3>1, <4>1, <4>2, CountStep
      <4>3. CASE UNCHANGED <<kvCount, accepted>>
        BY <2>1, <2>3, <3>1, <4>1, <4>3, UploadEndsStep
      <4>4. QED
        BY <3>5, <4>2, <4>3 DEF CountUpload
    <3>6. CASE StoreThrows(u)
      BY <2>1, <2>3, <3>1, <3>6, ThrowStep DEF StoreThrows
    <3>7. QED
      BY <2>7, <3>3, <3>4, <3>5, <3>6
  <2>8. QED
    BY <1>2, <2>2, <2>4, <2>5, <2>6, <2>7 DEF RateNext
<1>3. CASE UNCHANGED rateVars
  <2>1. UNCHANGED <<limiter, moment, accepted, windowCount, kvCount, uploadOf, memoryLimit, timestamps>>
    BY <1>3 DEF rateVars, gatewayVars, uploadVars
  <2>2. RateTypes' /\ WindowsHold'
    BY <2>1 DEF RateInv, RateTypes, WindowsHold, PassedTogether, AtMost, Passes
  <2>3. /\ limiter' = "page" => PageCounts'
        /\ limiter' = "memory" => MemoryCounts'
    BY <2>1 DEF RateInv, PageCounts, MemoryCounts
  <2>4. limiter' = "kv" => UploadCounts'
    <3>1. Busy' = Busy /\ Live' = Live /\ Passes' = Passes
      BY <2>1 DEF Busy, Live, Passes
    <3>2. QED
      BY <2>1, <3>1 DEF RateInv, UploadCounts
  <2>5. limiter' = "gateway" => WindowCounts'
    <3>1. Passes' = Passes /\ InWindow(windowCount.start)' = InWindow(windowCount.start)
          /\ InWindow(windowCount.start - Window)' = InWindow(windowCount.start - Window)
      BY <2>1 DEF InWindow, Passes
    <3>2. QED
      BY <2>1, <3>1 DEF RateInv, WindowCounts
  <2>6. QED
    BY <2>2, <2>3, <2>4, <2>5 DEF RateInv
<1>4. QED
  BY <1>1, <1>2, <1>3

(* Over any stretch of time as long as a window, every limiter lets pass   *)
(* no more of the requests it counts than AtMost says, whatever the store  *)
(* answers: checkRateLimit, the two limits of the upload and the page's.   *)
(* What passes unchecked while the store fails has no limit.               *)
THEOREM LimitsAlwaysHold == RateSpec => []WindowsHold
<1>1. RateInv => WindowsHold
  BY DEF RateInv
<1>2. QED
  BY <1>1, RateStarts, RateStep, PTL DEF RateSpec

-----------------------------------------------------------------------------
(***************************************************************************)
(* The list of tokens.  A page is a run of rows (PageOf), and rows are     *)
(* only added in front of all others as long as none leaves the listing.   *)
(* So what matters of a list is told by the identities of the rows it      *)
(* lists, and survives a launch: there is no gap in it, and what is older  *)
(* than all of it lies beyond its end cursor (Listed).  A page that is     *)
(* found is a run of rows that joins the list it was asked for             *)
(* (PageFound, Joins).                                                     *)
(***************************************************************************)
Token == [id : Nat, graduated : BOOLEAN, volume : Nat]
Newest == "CREATED_AT_DESC"
Orders == {Newest, "VOLUME_DESC"}
Table(S) == S \subseteq Token /\ IsFiniteSet(S) /\ \A t, u \in S : t.id = u.id => t = u
IdsOf(S) == {t.id : t \in S}
Above(I, n) == Cardinality({m \in I : m > n})
Ids(edges) == {edges[i].id : i \in DOMAIN edges}

LEMMA AboveIsNatural ==
  ASSUME NEW I, IsFiniteSet(I), NEW n
  PROVE  IsFiniteSet({m \in I : m > n}) /\ Above(I, n) \in Nat
<1>1. {m \in I : m > n} \in SUBSET I
  OBVIOUS
<1>2. IsFiniteSet({m \in I : m > n})
  BY <1>1, FS_Subset
<1>3. QED
  BY <1>2, FS_CardinalityType DEF Above

LEMMA AboveGrows ==
  ASSUME NEW J, IsFiniteSet(J), NEW I \in SUBSET J, NEW n
  PROVE  Above(I, n) <= Above(J, n)
<1>1. IsFiniteSet({m \in J : m > n})
  BY AboveIsNatural
<1>2. {m \in I : m > n} \in SUBSET {m \in J : m > n}
  OBVIOUS
<1>3. QED
  BY <1>1, <1>2, FS_Subset DEF Above

LEMMA AboveOrdered ==
  ASSUME NEW I \in SUBSET Nat, IsFiniteSet(I), NEW b \in I, NEW n \in Nat, n < b
  PROVE  Above(I, b) < Above(I, n)
<1> DEFINE B == {m \in I : m > b}
           N == {m \in I : m > n}
<1>1. IsFiniteSet(B) /\ IsFiniteSet(N) /\ Cardinality(B) \in Nat /\ Cardinality(N) \in Nat
  BY AboveIsNatural DEF Above
<1>2. b \notin B /\ B \cup {b} \subseteq N
  <2>1. b \in Nat /\ b > n /\ ~(b > b) /\ \A m \in I : m \in Nat /\ (m > b => m > n)
    OBVIOUS
  <2>2. QED
    BY <2>1
<1> HIDE DEF B, N
<1>3. Cardinality(B \cup {b}) = Cardinality(B) + 1
  BY <1>1, <1>2, FS_AddElement
<1>4. Cardinality(B \cup {b}) <= Cardinality(N)
  BY <1>1, <1>2, FS_Subset
<1>5. QED
  BY <1>1, <1>3, <1>4 DEF Above, B, N

(* Both orders put any two rows in one order.                              *)
LEMMA BeforeIsOrder ==
  ASSUME NEW S, Table(S), NEW order
  PROVE  /\ \A t \in S : ~Before(order, t, t)
         /\ \A t, u, v \in S : Before(order, t, u) /\ Before(order, u, v) => Before(order, t, v)
         /\ \A t, u \in S : t = u \/ Before(order, t, u) \/ Before(order, u, t)
<1>1. \A t \in S : t.id \in Nat /\ t.volume \in Nat
  BY DEF Table, Token
<1>2. \A t, u \in S : t.id = u.id => t = u
  BY DEF Table
<1>3. QED
  BY <1>1, <1>2 DEF Before

LEMMA OffsetIsNatural ==
  ASSUME NEW S, IsFiniteSet(S), NEW order, NEW t
  PROVE  IsFiniteSet({u \in S : Before(order, u, t)}) /\ Offset(order, S, t) \in Nat
<1>1. {u \in S : Before(order, u, t)} \in SUBSET S
  OBVIOUS
<1>2. IsFiniteSet({u \in S : Before(order, u, t)})
  BY <1>1, FS_Subset
<1>3. QED
  BY <1>2, FS_CardinalityType DEF Offset

LEMMA OffsetOrdered ==
  ASSUME NEW S, Table(S), NEW order, NEW t \in S, NEW u \in S, Before(order, u, t)
  PROVE  Offset(order, S, u) < Offset(order, S, t)
<1> DEFINE U == {v \in S : Before(order, v, u)}
           T == {v \in S : Before(order, v, t)}
<1>1. IsFiniteSet(U) /\ IsFiniteSet(T) /\ Cardinality(U) \in Nat /\ Cardinality(T) \in Nat
  BY OffsetIsNatural DEF Offset, Table
<1>2. u \notin U /\ U \cup {u} \subseteq T
  BY BeforeIsOrder
<1> HIDE DEF U, T
<1>3. Cardinality(U \cup {u}) = Cardinality(U) + 1
  BY <1>1, <1>2, FS_AddElement
<1>4. Cardinality(U \cup {u}) <= Cardinality(T)
  BY <1>1, <1>2, FS_Subset
<1>5. QED
  BY <1>1, <1>3, <1>4 DEF Offset, U, T

LEMMA OffsetIsOwn ==
  ASSUME NEW S, Table(S), NEW order, NEW t \in S, NEW u \in S,
         Offset(order, S, t) = Offset(order, S, u)
  PROVE  t = u
<1>1. Offset(order, S, t) \in Nat /\ Offset(order, S, u) \in Nat
  BY OffsetIsNatural DEF Table
<1>2. QED
  BY <1>1, OffsetOrdered, BeforeIsOrder

(* Every place of the order is taken.                                      *)
LEMMA OffsetIsTaken ==
  ASSUME NEW S, Table(S), NEW order, NEW i \in 1 .. Cardinality(S)
  PROVE  \E t \in S : Offset(order, S, t) = i - 1
<1> DEFINE n == Cardinality(S)
           T == 0 .. n - 1
           f == [t \in S |-> Offset(order, S, t)]
<1>1. IsFiniteSet(S) /\ n \in Nat
  BY FS_CardinalityType DEF Table
<1>2. ASSUME NEW t \in S
      PROVE  Offset(order, S, t) \in T
  <2>1. {u \in S : Before(order, u, t)} \in SUBSET (S \ {t})
    BY BeforeIsOrder
  <2>2. IsFiniteSet(S \ {t}) /\ Cardinality(S \ {t}) = n - 1
    BY <1>1, FS_RemoveElement
  <2>3. Offset(order, S, t) <= n - 1
    BY <2>1, <2>2, FS_Subset DEF Offset
  <2>4. Offset(order, S, t) \in Nat
    BY <1>1, OffsetIsNatural
  <2> HIDE DEF n
  <2>5. QED
    BY <1>1, <2>3, <2>4
<1>3. f \in [S -> T]
  BY <1>2
<1>4. f \in Injection(S, T)
  <2>1. \A t, u \in S : f[t] = f[u] => t = u
    BY OffsetIsOwn
  <2> HIDE DEF f, T
  <2>2. QED
    BY <1>3, <2>1 DEF Injection, IsInjective
<1>5. IsFiniteSet(T) /\ Cardinality(T) = n
  <2> HIDE DEF n
  <2>1. QED
    BY <1>1, FS_Interval
<1>6. f \in Surjection(S, T)
  <2> HIDE DEF f, T, n
  <2>1. Cardinality(S) = n
    BY DEF n
  <2>2. QED
    BY <1>4, <1>5, <2>1, FS_Injection
<1>7. i - 1 \in T
  BY <1>1
<1>8. QED
  BY <1>6, <1>7 DEF Surjection

LEMMA RowsInOrder ==
  ASSUME NEW S, Table(S), NEW order
  PROVE  /\ Cardinality(S) \in Nat /\ InOrder(order, S) \in [1 .. Cardinality(S) -> S]
         /\ \A i \in 1 .. Cardinality(S) : Offset(order, S, InOrder(order, S)[i]) = i - 1
         /\ \A t \in S : /\ Offset(order, S, t) + 1 \in 1 .. Cardinality(S)
                         /\ InOrder(order, S)[Offset(order, S, t) + 1] = t
<1>1. Cardinality(S) \in Nat /\ IsFiniteSet(S)
  BY FS_CardinalityType DEF Table
<1>2. ASSUME NEW i \in 1 .. Cardinality(S)
      PROVE  InOrder(order, S)[i] \in S /\ Offset(order, S, InOrder(order, S)[i]) = i - 1
  BY OffsetIsTaken DEF InOrder
<1>3. InOrder(order, S) \in [1 .. Cardinality(S) -> S]
  BY <1>2 DEF InOrder
<1>4. ASSUME NEW t \in S
      PROVE  /\ Offset(order, S, t) + 1 \in 1 .. Cardinality(S)
             /\ InOrder(order, S)[Offset(order, S, t) + 1] = t
  <2>1. {u \in S : Before(order, u, t)} \in SUBSET (S \ {t})
    BY BeforeIsOrder
  <2>2. IsFiniteSet(S \ {t}) /\ Cardinality(S \ {t}) = Cardinality(S) - 1
    BY <1>1, FS_RemoveElement
  <2>3. Offset(order, S, t) <= Cardinality(S) - 1
    BY <2>1, <2>2, FS_Subset DEF Offset
  <2>4. Offset(order, S, t) \in Nat
    BY <1>1, OffsetIsNatural
  <2>5. Offset(order, S, t) + 1 \in 1 .. Cardinality(S)
    BY <1>1, <2>3, <2>4
  <2>6. QED
    BY <1>2, <2>4, <2>5, OffsetIsOwn
<1>5. QED
  BY <1>1, <1>2, <1>3, <1>4

(* A page holds the rows of its offsets.                                   *)
LEMMA PageOf ==
  ASSUME NEW S, Table(S), NEW order, NEW from \in Nat
  PROVE  LET page == Slice(InOrder(order, S), from)
         IN  /\ page \in Seq(S) /\ Len(page) <= PageSize
             /\ \A t \in S : (\E i \in DOMAIN page : page[i] = t)
                    <=> from <= Offset(order, S, t) /\ Offset(order, S, t) < from + PageSize
<1> DEFINE n == Cardinality(S)
           rows == InOrder(order, S)
           last == IF from + PageSize < n THEN from + PageSize ELSE n
           page == SubSeq(rows, from + 1, last)
<1>1. n \in Nat /\ rows \in [1 .. n -> S] /\ PageSize \in Nat \ {0}
  BY RowsInOrder, BrowseAssumption
<1>2. rows \in Seq(S) /\ Len(rows) = n /\ Slice(rows, from) = page
  BY <1>1 DEF Slice
<1>3. ASSUME NEW t \in S
      PROVE  Offset(order, S, t) \in Nat /\ Offset(order, S, t) < n /\ rows[Offset(order, S, t) + 1] = t
  BY <1>1, RowsInOrder, OffsetIsNatural DEF Table
<1>4. \A i \in 1 .. n : Offset(order, S, rows[i]) = i - 1
  BY RowsInOrder
<1> HIDE DEF rows, n
<1>5. last \in Nat /\ last <= n /\ last <= from + PageSize
  BY <1>1
<1> DEFINE k == IF from + 1 <= last THEN last - from ELSE 0
<1> HIDE DEF page, last
<1>6. /\ page \in Seq(S) /\ Len(page) = k /\ k \in Nat /\ k <= PageSize /\ DOMAIN page = 1 .. k
      /\ \A i \in 1 .. k : page[i] = rows[i + from]
  <2>1. \A i \in from + 1 .. last : rows[i] \in S
    BY <1>1, <1>5
  <2>2. /\ page \in Seq(S) /\ Len(page) = (IF from + 1 <= last THEN last - (from + 1) + 1 ELSE 0)
        /\ \A i \in 1 .. last - (from + 1) + 1 : page[i] = rows[(from + 1) + i - 1]
    BY <1>5, <2>1, SubSeqProperties DEF page
  <2>3. k \in Nat /\ k <= PageSize /\ Len(page) = k
    BY <1>1, <1>5, <2>2
  <2>4. ASSUME NEW i \in 1 .. k
        PROVE  page[i] = rows[i + from]
    <3>1. i \in 1 .. last - (from + 1) + 1 /\ (from + 1) + i - 1 = i + from
      BY <1>5, <2>4
    <3>2. QED
      BY <2>2, <3>1
  <2> HIDE DEF k
  <2>5. QED
    BY <2>2, <2>3, <2>4
<1>7. ASSUME NEW t \in S
      PROVE  (\E i \in DOMAIN page : page[i] = t)
                 <=> from <= Offset(order, S, t) /\ Offset(order, S, t) < from + PageSize
  <2> DEFINE o == Offset(order, S, t)
  <2>1. o \in Nat /\ o < n /\ rows[o + 1] = t
    BY <1>3
  <2>2. (k > 0 => k + from <= n) /\ (from < n /\ o < from + PageSize /\ from <= o => o + 1 - from \in 1 .. k)
    <3> HIDE DEF o
    <3>1. QED
      BY <1>1, <1>5, <2>1 DEF last
  <2>3. \A i \in 1 .. k : page[i] = rows[i + from]
    BY <1>6
  <2> HIDE DEF o, k
  <2>4. ASSUME NEW i \in DOMAIN page, page[i] = t
        PROVE  from <= o /\ o < from + PageSize
    <3>1. i \in 1 .. k /\ rows[i + from] = t /\ i + from \in 1 .. n
      BY <1>1, <1>6, <2>2, <2>3, <2>4
    <3>2. o = i + from - 1
      BY <1>4, <3>1 DEF o
    <3>3. QED
      BY <1>1, <1>6, <3>1, <3>2
  <2>5. ASSUME from <= o, o < from + PageSize
        PROVE  \E i \in DOMAIN page : page[i] = t
    <3>1. o + 1 - from \in 1 .. k
      BY <1>1, <2>1, <2>2, <2>5
    <3>2. page[o + 1 - from] = rows[(o + 1 - from) + from] /\ (o + 1 - from) + from = o + 1
      BY <2>1, <2>3, <3>1
    <3>3. QED
      BY <1>6, <2>1, <3>1, <3>2
  <2>6. QED
    BY <2>4, <2>5 DEF o
<1>8. Slice(rows, from) = page
  BY <1>2 DEF page
<1>9. QED
  BY <1>6, <1>7, <1>8 DEF rows

(* By creation, a row's offset is the number of newer identities.          *)
LEMMA OffsetIsAbove ==
  ASSUME NEW S, Table(S), NEW t
  PROVE  Offset(Newest, S, t) = Above(IdsOf(S), t.id)
<1> DEFINE U == {u \in S : Before(Newest, u, t)}
           M == {m \in IdsOf(S) : m > t.id}
           f == [u \in U |-> u.id]
<1>1. IsFiniteSet(U)
  BY OffsetIsNatural DEF Table
<1>2. \A u \in S : Before(Newest, u, t) <=> u.id > t.id
  BY DEF Before, Newest
<1>3. \A u \in U : u \in S /\ u.id \in M
  BY <1>2 DEF IdsOf
<1>4. f \in [U -> M]
  BY <1>3
<1>5. \A u, v \in U : f[u] = f[v] => u = v
  BY <1>3 DEF Table
<1>6. \A m \in M : \E u \in U : f[u] = m
  BY <1>2 DEF IdsOf
<1>7. f \in Bijection(U, M)
  BY <1>4, <1>5, <1>6 DEF Bijection, Injection, IsInjective, Surjection
<1> HIDE DEF f, U, M
<1>8. Cardinality(M) = Cardinality(U)
  BY <1>1, <1>7, FS_Bijection DEF ExistsBijection
<1>9. QED
  BY <1>8 DEF U, M, Offset, Above

LEMMA IdsOfTable ==
  ASSUME NEW S, Table(S)
  PROVE  IsFiniteSet(IdsOf(S)) /\ IdsOf(S) \in SUBSET Nat
<1>1. IdsOf(S) \in SUBSET Nat
  BY DEF Table, Token, IdsOf
<1> DEFINE f == [t \in S |-> t.id]
<1>2. f \in Surjection(S, IdsOf(S))
  BY DEF Surjection, IdsOf
<1> HIDE DEF f
<1>3. IsFiniteSet(IdsOf(S))
  BY <1>2, FS_Surjection DEF Table
<1>4. QED
  BY <1>1, <1>3

(* A page found: a run of rows, beyond whose last row there are others     *)
(* only from the offset on at which the page ends.                         *)
PageFound(edges, from, I) ==
    /\ Len(edges) <= PageSize
    /\ \A a, c \in Ids(edges), b \in I : a > b /\ b > c => b \in Ids(edges)
    /\ \A p \in Ids(edges), b \in I : b < p /\ b \notin Ids(edges) => Above(I, b) >= from + PageSize

(* Between a list and the page that follows it no row is missing.          *)
Joins(edges, list, I) ==
    \A b \in I : (\A m \in Ids(list) : b < m) /\ b \notin Ids(edges) => \A p \in Ids(edges) : b < p

Gapless(edges, I) ==
    \A a, c \in Ids(edges), b \in I :
        /\ a > b /\ b > c
        /\ a <= edges[1].id \/ Above(I, edges[1].id) <= PageSize
        => b \in Ids(edges)

(* A list: no gap, and what is older than all of it lies beyond its end.   *)
Listed(edges, end, I) ==
    /\ Gapless(edges, I)
    /\ IF edges = <<>> THEN end = -1
       ELSE \A b \in I : (\A m \in Ids(edges) : b < m) => Above(I, b) > end

LEMMA IdsOfEdges ==
  ASSUME NEW edges \in Seq(Token)
  PROVE  /\ Ids(edges) \in SUBSET Nat
         /\ edges # <<>> => edges[1].id \in Ids(edges) /\ Ids(edges) # {}
         /\ edges = <<>> => Ids(edges) = {}
         /\ edges # <<>> <=> Len(edges) > 0
         /\ Len(edges) \in Nat
<1>1. \A i \in DOMAIN edges : edges[i] \in Token
  OBVIOUS
<1>2. \A t \in Token : t.id \in Nat
  BY DEF Token
<1>3. Ids(edges) \in SUBSET Nat
  BY <1>1, <1>2 DEF Ids
<1>4. edges # <<>> => 1 \in DOMAIN edges
  OBVIOUS
<1>5. edges = <<>> => DOMAIN edges = {}
  OBVIOUS
<1>6. (edges # <<>> <=> Len(edges) > 0) /\ Len(edges) \in Nat
  OBVIOUS
<1>7. QED
  BY <1>3, <1>4, <1>5, <1>6 DEF Ids

LEMMA IdsOfBoth ==
  ASSUME NEW list \in Seq(Token), NEW edges \in Seq(Token)
  PROVE  /\ list \o edges \in Seq(Token)
         /\ Ids(list \o edges) = Ids(list) \cup Ids(edges)
         /\ list # <<>> => list \o edges # <<>> /\ (list \o edges)[1] = list[1]
<1> DEFINE both == list \o edges
<1>1. /\ both \in Seq(Token) /\ Len(both) = Len(list) + Len(edges)
      /\ DOMAIN both = 1 .. Len(list) + Len(edges)
      /\ \A i \in 1 .. Len(list) + Len(edges) :
             both[i] = IF i <= Len(list) THEN list[i] ELSE edges[i - Len(list)]
  OBVIOUS
<1>2. Len(list) \in Nat /\ Len(edges) \in Nat /\ DOMAIN list = 1 .. Len(list) /\ DOMAIN edges = 1 .. Len(edges)
  OBVIOUS
<1> HIDE DEF both
<1>3. \A i \in DOMAIN list : i \in DOMAIN both /\ both[i] = list[i]
  BY <1>1, <1>2
<1>4. \A i \in DOMAIN edges : i + Len(list) \in DOMAIN both /\ both[i + Len(list)] = edges[i]
  BY <1>1, <1>2
<1>5. \A i \in DOMAIN both : \/ i \in DOMAIN list /\ both[i] = list[i]
                             \/ i - Len(list) \in DOMAIN edges /\ both[i] = edges[i - Len(list)]
  BY <1>1, <1>2
<1>6. Ids(both) = Ids(list) \cup Ids(edges)
  <2>1. \A n \in Ids(both) : n \in Ids(list) \cup Ids(edges)
    BY <1>5 DEF Ids
  <2>2. \A n \in Ids(list) : n \in Ids(both)
    BY <1>3 DEF Ids
  <2>3. \A n \in Ids(edges) : n \in Ids(both)
    BY <1>4 DEF Ids
  <2>4. QED
    BY <2>1, <2>2, <2>3
<1>7. ASSUME list # <<>>
      PROVE  both # <<>> /\ both[1] = list[1]
  <2>1. 1 \in DOMAIN list
    BY <1>7
  <2>2. 1 \in DOMAIN both /\ both[1] = list[1]
    BY <1>3, <2>1
  <2>3. QED
    BY <2>2
<1>8. QED
  BY <1>1, <1>6, <1>7 DEF both

(* A page read now.                                                        *)
LEMMA IdsOfPage ==
  ASSUME NEW S, Table(S), NEW from \in Nat
  PROVE  LET page == Slice(InOrder(Newest, S), from)
         IN  /\ Ids(page) \in SUBSET IdsOf(S)
             /\ \A n \in IdsOf(S) : n \in Ids(page)
                    <=> from <= Above(IdsOf(S), n) /\ Above(IdsOf(S), n) < from + PageSize
<1> DEFINE page == Slice(InOrder(Newest, S), from)
<1>1. /\ page \in Seq(S)
      /\ \A t \in S : (\E i \in DOMAIN page : page[i] = t)
             <=> from <= Offset(Newest, S, t) /\ Offset(Newest, S, t) < from + PageSize
  BY PageOf
<1> HIDE DEF page
<1>2. \A i \in DOMAIN page : page[i] \in S
  BY <1>1
<1>3. Ids(page) \in SUBSET IdsOf(S)
  BY <1>2 DEF Ids, IdsOf
<1>4. ASSUME NEW n \in IdsOf(S)
      PROVE  n \in Ids(page) <=> from <= Above(IdsOf(S), n) /\ Above(IdsOf(S), n) < from + PageSize
  <2>1. PICK t \in S : n = t.id
    BY DEF IdsOf
  <2>2. n \in Ids(page) <=> \E i \in DOMAIN page : page[i] = t
    <3>1. ASSUME NEW i \in DOMAIN page, page[i].id = n PROVE page[i] = t
      BY <1>2, <2>1, <3>1 DEF Table
    <3>2. QED
      BY <2>1, <3>1 DEF Ids
  <2>3. Offset(Newest, S, t) = Above(IdsOf(S), n)
    BY <2>1, OffsetIsAbove
  <2>4. QED
    BY <1>1, <2>2, <2>3
<1>5. QED
  BY <1>3, <1>4 DEF page

LEMMA PageIsFound ==
  ASSUME NEW S, Table(S), NEW from \in Nat
  PROVE  LET page == Slice(InOrder(Newest, S), from)
         IN  /\ page \in Seq(Token) /\ PageFound(page, from, IdsOf(S))
             /\ Ids(page) \in SUBSET IdsOf(S)
             /\ \A list : (\A b \in IdsOf(S) : (\A m \in Ids(list) : b < m) => Above(IdsOf(S), b) >= from)
                           => Joins(page, list, IdsOf(S))
<1> DEFINE page == Slice(InOrder(Newest, S), from)
           I == IdsOf(S)
           P == Ids(page)
<1>1. page \in Seq(Token) /\ Len(page) <= PageSize
  <2>1. page \in Seq(S) /\ Len(page) <= PageSize
    BY PageOf
  <2> HIDE DEF page
  <2>2. S \subseteq Token
    BY DEF Table
  <2>3. QED
    BY <2>1, <2>2
<1>2. /\ P \in SUBSET I
      /\ \A n \in I : n \in P <=> from <= Above(I, n) /\ Above(I, n) < from + PageSize
  BY IdsOfPage
<1>3. /\ I \in SUBSET Nat /\ IsFiniteSet(I) /\ PageSize \in Nat
      /\ \A n \in I : Above(I, n) \in Nat
      /\ \A n, b \in I : n < b => Above(I, b) < Above(I, n)
  BY IdsOfTable, AboveIsNatural, AboveOrdered, BrowseAssumption
<1> HIDE DEF page, I, P
<1>4. ASSUME NEW a \in P, NEW c \in P, NEW b \in I, a > b, b > c
      PROVE  b \in P
  BY <1>2, <1>3, <1>4
<1>5. ASSUME NEW p \in P, NEW b \in I, b < p, b \notin P
      PROVE  Above(I, b) >= from + PageSize
  BY <1>2, <1>3, <1>5
<1>6. ASSUME NEW list, \A b \in I : (\A m \in Ids(list) : b < m) => Above(I, b) >= from,
             NEW b \in I, \A m \in Ids(list) : b < m, b \notin P, NEW p \in P
      PROVE  b < p
  <2>1. Above(I, b) >= from + PageSize /\ Above(I, p) < from + PageSize /\ p \in I
    BY <1>2, <1>3, <1>6
  <2>2. ~(p < b) /\ p # b
    BY <1>3, <1>6, <2>1
  <2>3. QED
    BY <1>3, <2>1, <2>2
<1>7. PageFound(page, from, I)
  BY <1>1, <1>4, <1>5 DEF PageFound, P
<1>8. \A list : (\A b \in I : (\A m \in Ids(list) : b < m) => Above(I, b) >= from) => Joins(page, list, I)
  BY <1>6 DEF Joins, P
<1>9. QED
  BY <1>1, <1>2, <1>7, <1>8 DEF I, page, P

(* The first page is a list.                                               *)
LEMMA PageIsListed ==
  ASSUME NEW I \in SUBSET Nat, IsFiniteSet(I), NEW edges \in Seq(Token), PageFound(edges, 0, I)
  PROVE  Listed(edges, IF edges = <<>> THEN -1 ELSE Len(edges) - 1, I)
<1>1. Gapless(edges, I)
  BY DEF Gapless, PageFound
<1>2. ASSUME edges # <<>>, NEW b \in I, \A m \in Ids(edges) : b < m
      PROVE  Above(I, b) > Len(edges) - 1
  <2>1. PICK p : p \in Ids(edges)
    BY <1>2, IdsOfEdges
  <2>2. b < p /\ b \notin Ids(edges)
    BY <1>2, <2>1
  <2>3. Above(I, b) >= 0 + PageSize /\ Len(edges) <= PageSize
    BY <2>1, <2>2 DEF PageFound
  <2>4. Above(I, b) \in Nat /\ Len(edges) \in Nat /\ PageSize \in Nat
    BY AboveIsNatural, IdsOfEdges, BrowseAssumption
  <2>5. QED
    BY <2>3, <2>4
<1>3. QED
  BY <1>1, <1>2 DEF Listed

(* The page that follows a list joins it.                                  *)
LEMMA AppendedIsListed ==
  ASSUME NEW I \in SUBSET Nat, IsFiniteSet(I), NEW list \in Seq(Token), NEW edges \in Seq(Token),
         NEW end \in Int, end >= -1, list # <<>>, Listed(list, end, I),
         PageFound(edges, end + 1, I), Joins(edges, list, I)
  PROVE  Listed(list \o edges, IF edges = <<>> THEN -1 ELSE end + Len(edges), I)
<1> DEFINE L == Ids(list)
           P == Ids(edges)
           first == list[1].id
<1>1. /\ L \in SUBSET Nat /\ P \in SUBSET Nat /\ first \in L /\ PageSize \in Nat /\ Len(edges) \in Nat
      /\ \A b \in I : Above(I, b) \in Nat
      /\ Above(I, first) \in Nat
  BY IdsOfEdges, AboveIsNatural, BrowseAssumption
<1>2. /\ Ids(list \o edges) = L \cup P /\ list \o edges # <<>> /\ (list \o edges)[1].id = first
  BY IdsOfBoth
<1>3. ASSUME NEW a \in L, NEW c \in L, NEW b \in I, a > b, b > c,
             a <= first \/ Above(I, first) <= PageSize
      PROVE  b \in L
  BY <1>3 DEF Listed, Gapless
<1>4. ASSUME NEW b \in I, \A m \in L : b < m
      PROVE  Above(I, b) > end
  BY <1>4 DEF Listed
<1>5. /\ \A a, c \in P, b \in I : a > b /\ b > c => b \in P
      /\ \A p \in P, b \in I : b < p /\ b \notin P => Above(I, b) >= end + 1 + PageSize
      /\ Len(edges) <= PageSize
  BY DEF PageFound
<1>6. \A b \in I : (\A m \in L : b < m) /\ b \notin P => \A p \in P : b < p
  BY DEF Joins
<1>7. \A b \in I : b > first => Above(I, b) < Above(I, first)
  BY <1>1, AboveOrdered
<1> HIDE DEF L, P, first
<1>8. ASSUME NEW a \in L \cup P, NEW c \in L \cup P, NEW b \in I, a > b, b > c,
             a <= first \/ Above(I, first) <= PageSize
      PROVE  b \in L \cup P
  <2>1. SUFFICES ASSUME b \notin L, b \notin P PROVE FALSE
    OBVIOUS
  <2>2. b \in Nat /\ a \in Nat /\ c \in Nat /\ first \in Nat
    BY <1>1
  <2>3. CASE a \in L /\ c \in L
    BY <1>3, <1>8, <2>1, <2>3
  <2>4. CASE a \in P /\ c \in P
    BY <1>5, <1>8, <2>1, <2>4
  <2>5. CASE a \in L /\ c \in P
    <3>1. CASE \A m \in L : b < m
      <4>1. b < c
        BY <1>6, <2>1, <2>5, <3>1
      <4>2. QED
        BY <1>8, <2>2, <4>1
    <3>2. CASE \E m \in L : ~(b < m)
      <4>1. PICK m \in L : ~(b < m)
        BY <3>2
      <4>2. m \in Nat /\ b > m
        BY <1>1, <2>1, <2>2, <4>1
      <4>3. QED
        BY <1>3, <1>8, <2>1, <2>5, <4>2
    <3>3. QED
      BY <3>1, <3>2
  <2>6. CASE a \in P /\ c \in L
    <3>1. Above(I, b) >= end + 1 + PageSize
      <4>1. ~(\A m \in L : b < m)
        BY <1>8, <2>2, <2>6
      <4>2. b < a
        BY <1>8, <2>2
      <4>3. QED
        BY <1>5, <2>1, <2>6, <4>2
    <3>2. b # first
      BY <1>1, <2>1
    <3>3. CASE b < first
      BY <1>1, <1>3, <1>8, <2>1, <2>2, <2>6, <3>3
    <3>4. CASE b > first
      <4>1. Above(I, first) <= PageSize
        BY <1>8, <2>2, <3>4
      <4>2. Above(I, b) < Above(I, first)
        BY <1>7, <3>4
      <4>3. Above(I, b) \in Nat /\ Above(I, first) \in Nat /\ PageSize \in Nat
        BY <1>1
      <4>4. QED
        BY <3>1, <4>1, <4>2, <4>3
    <3>5. QED
      BY <2>2, <3>2, <3>3, <3>4
  <2>7. QED
    BY <1>8, <2>3, <2>4, <2>5, <2>6
<1>9. Gapless(list \o edges, I)
  BY <1>2, <1>8 DEF Gapless
<1>10. ASSUME NEW b \in I, \A m \in L \cup P : b < m
       PROVE  Above(I, b) > IF edges = <<>> THEN -1 ELSE end + Len(edges)
  <2>1. CASE edges = <<>>
    <3>1. Above(I, b) \in Nat
      BY <1>1
    <3>2. QED
      BY <2>1, <3>1
  <2>2. CASE edges # <<>>
    <3>1. PICK p : p \in P
      BY <2>2, IdsOfEdges DEF P
    <3>2. b < p /\ b \notin P
      BY <1>1, <1>10, <3>1
    <3>3. Above(I, b) >= end + 1 + PageSize
      BY <1>5, <3>1, <3>2
    <3>4. Above(I, b) \in Nat /\ Len(edges) \in Nat /\ PageSize \in Nat /\ Len(edges) <= PageSize
      BY <1>1, <1>5
    <3>5. Above(I, b) > end + Len(edges)
      BY <3>3, <3>4
    <3>6. QED
      BY <2>2, <3>5
  <2>3. QED
    BY <2>1, <2>2
<1>11. QED
  BY <1>2, <1>9, <1>10 DEF Listed

(* A launch adds a row that is newer than all others.                      *)
LEMMA PageStaysFound ==
  ASSUME NEW J \in SUBSET Nat, IsFiniteSet(J), NEW I \in SUBSET J, NEW edges \in Seq(Token),
         NEW from \in Nat, PageFound(edges, from, I),
         \A b \in J \ I, m \in Ids(edges) : b > m
  PROVE  PageFound(edges, from, J)
<1>1. Ids(edges) \in SUBSET Nat /\ PageSize \in Nat
  BY IdsOfEdges, BrowseAssumption
<1>2. ASSUME NEW a \in Ids(edges), NEW c \in Ids(edges), NEW b \in J, a > b, b > c
      PROVE  b \in Ids(edges)
  <2>1. b \in I
    BY <1>1, <1>2
  <2>2. QED
    BY <1>2, <2>1 DEF PageFound
<1>3. ASSUME NEW p \in Ids(edges), NEW b \in J, b < p, b \notin Ids(edges)
      PROVE  Above(J, b) >= from + PageSize
  <2>1. b \in I
    BY <1>1, <1>3
  <2>2. Above(I, b) >= from + PageSize
    BY <1>3, <2>1 DEF PageFound
  <2>3. Above(I, b) <= Above(J, b) /\ Above(J, b) \in Nat /\ Above(I, b) \in Nat
    <3>1. IsFiniteSet(I)
      BY FS_Subset
    <3>2. QED
      BY <3>1, AboveGrows, AboveIsNatural
  <2>4. QED
    BY <1>1, <2>2, <2>3
<1>4. Len(edges) <= PageSize
  BY DEF PageFound
<1>5. QED
  BY <1>2, <1>3, <1>4 DEF PageFound

LEMMA PageStillJoins ==
  ASSUME NEW J \in SUBSET Nat, NEW I \in SUBSET J, NEW list \in Seq(Token), NEW edges,
         list # <<>>, Joins(edges, list, I), \A b \in J \ I, m \in Ids(list) : b > m
  PROVE  Joins(edges, list, J)
<1>1. Ids(list) \in SUBSET Nat /\ Ids(list) # {}
  BY IdsOfEdges
<1>2. ASSUME NEW b \in J, \A m \in Ids(list) : b < m
      PROVE  b \in I
  BY <1>1, <1>2
<1>3. QED
  BY <1>2 DEF Joins

LEMMA ListStaysListed ==
  ASSUME NEW J \in SUBSET Nat, IsFiniteSet(J), NEW I \in SUBSET J, NEW edges \in Seq(Token),
         NEW end \in Int, Listed(edges, end, I),
         \A b \in J \ I, m \in Ids(edges) : b > m
  PROVE  Listed(edges, end, J)
<1>1. Ids(edges) \in SUBSET Nat /\ PageSize \in Nat /\ (edges # <<>> => Ids(edges) # {})
  BY IdsOfEdges, BrowseAssumption
<1>2. \A n : Above(I, n) <= Above(J, n) /\ Above(J, n) \in Nat /\ Above(I, n) \in Nat
  <2>1. IsFiniteSet(I)
    BY FS_Subset
  <2>2. QED
    BY <2>1, AboveGrows, AboveIsNatural
<1>3. ASSUME NEW a \in Ids(edges), NEW c \in Ids(edges), NEW b \in J, a > b, b > c,
             a <= edges[1].id \/ Above(J, edges[1].id) <= PageSize
      PROVE  b \in Ids(edges)
  <2>1. b \in I
    BY <1>1, <1>3
  <2>2. a <= edges[1].id \/ Above(I, edges[1].id) <= PageSize
    BY <1>1, <1>2, <1>3
  <2>3. QED
    BY <1>3, <2>1, <2>2 DEF Listed, Gapless
<1>4. ASSUME edges # <<>>, NEW b \in J, \A m \in Ids(edges) : b < m
      PROVE  Above(J, b) > end
  <2>1. b \in I
    BY <1>1, <1>4
  <2>2. Above(I, b) > end
    BY <1>4, <2>1 DEF Listed
  <2>3. QED
    BY <1>2, <2>2
<1>5. QED
  BY <1>3, <1>4 DEF Listed, Gapless

(***************************************************************************)
(* The lists and the queries, on a table d of which n tokens were made.    *)
(***************************************************************************)
Keys == [order : Orders, search : DOMAIN SearchHits]
FoundIn(d, key, f) == {t \in d : Matches(t, key, f)}
RowIds(d, key, f) == IdsOf(FoundIn(d, key, f))

TableInv(d, n) == n \in Nat /\ Table(d) /\ \A t \in d : t.id \in 1 .. n

IsList(l, n) ==
    /\ DOMAIN l = {"key", "filter", "moved", "edges", "more", "end"}
    /\ l.key \in Keys /\ l.filter \in Filters
    /\ l.edges \in Seq(Token) /\ Ids(l.edges) \subseteq 1 .. n /\ l.end \in Int /\ l.end >= -1
IsQuery(q, n) ==
    /\ DOMAIN q = {"at", "key", "filter", "from", "edges", "total", "old"}
    /\ q.key \in Keys /\ q.filter \in Filters /\ q.from \in Nat
    /\ q.edges \in Seq(Token) /\ Ids(q.edges) \subseteq 1 .. n
    /\ q.at \in {"none", "asked", "counted"} => q.edges = <<>>

ListInv(l, d) ==
    ~l.moved /\ l.key.order = Newest => Listed(l.edges, l.end, RowIds(d, l.key, l.filter))
ReadInv(q, d) ==
    /\ q.from = 0
    /\ ~q.old /\ q.key.order = Newest => PageFound(q.edges, 0, RowIds(d, q.key, q.filter))
LoadInv(q, c, d) ==
    /\ q.at # "none" /\ q.key \in DOMAIN c /\ q.key.order = Newest
    /\ ~c[q.key].moved /\ c[q.key].filter = q.filter
    => /\ c[q.key].edges # <<>> /\ q.from = c[q.key].end + 1
       /\ PageFound(q.edges, q.from, RowIds(d, q.key, q.filter))
       /\ Joins(q.edges, c[q.key].edges, RowIds(d, q.key, q.filter))
CacheInv(c, e, d, n) ==
    \A k \in DOMAIN c : /\ c[k].key = k /\ IsList(c[k], n) /\ ListInv(c[k], d)
                        /\ Ids(c[k].edges) \subseteq DOMAIN e
EntityInv(e) == \A n \in DOMAIN e : e[n].id = n

(* Rows that come are newer than all there were.                           *)
Extends(d, d2, n) ==
    \A key, f : /\ RowIds(d, key, f) \subseteq RowIds(d2, key, f)
                /\ \A b \in RowIds(d2, key, f) \ RowIds(d, key, f) : b > n

LEMMA FoundIsTable ==
  ASSUME NEW d, Table(d), NEW key, NEW f
  PROVE  /\ Table(FoundIn(d, key, f))
         /\ IsFiniteSet(RowIds(d, key, f)) /\ RowIds(d, key, f) \in SUBSET Nat
<1>1. FoundIn(d, key, f) \in SUBSET d
  BY DEF FoundIn
<1>2. Table(FoundIn(d, key, f))
  BY <1>1, FS_Subset DEF Table
<1>3. QED
  BY <1>2, IdsOfTable DEF RowIds

LEMMA NothingListed ==
  ASSUME NEW I
  PROVE  Listed(<<>>, -1, I) /\ (\A from : PageFound(<<>>, from, I)) /\ \A list : Joins(<<>>, list, I)
<1>1. Ids(<<>>) = {}
  BY DEF Ids
<1>2. Len(<<>>) <= PageSize
  <2>1. PageSize \in Nat
    BY BrowseAssumption
  <2>2. Len(<<>>) = 0
    OBVIOUS
  <2>3. QED
    BY <2>1, <2>2
<1>3. Listed(<<>>, -1, I)
  BY <1>1 DEF Listed, Gapless
<1>4. \A from : PageFound(<<>>, from, I)
  BY <1>1, <1>2 DEF PageFound
<1>5. \A list : Joins(<<>>, list, I)
  BY <1>1 DEF Joins
<1>6. QED
  BY <1>3, <1>4, <1>5

LEMMA ListExtends ==
  ASSUME NEW d, NEW d2, NEW n \in Nat, Table(d), Table(d2), Extends(d, d2, n),
         NEW l, IsList(l, n), ListInv(l, d)
  PROVE  ListInv(l, d2)
<1> SUFFICES ASSUME ~l.moved, l.key.order = Newest
             PROVE  Listed(l.edges, l.end, RowIds(d2, l.key, l.filter))
  BY DEF ListInv
<1> DEFINE I == RowIds(d, l.key, l.filter)
           J == RowIds(d2, l.key, l.filter)
<1>1. /\ IsFiniteSet(J) /\ J \in SUBSET Nat /\ I \in SUBSET J /\ \A b \in J \ I : b > n
  BY FoundIsTable DEF Extends
<1>2. l.edges \in Seq(Token) /\ l.end \in Int /\ Listed(l.edges, l.end, I)
      /\ \A m \in Ids(l.edges) : m \in 1 .. n
  BY DEF ListInv, IsList
<1> HIDE DEF I, J
<1>3. \A b \in J \ I, m \in Ids(l.edges) : b > m
  BY <1>1, <1>2
<1>4. Listed(l.edges, l.end, J)
  BY <1>1, <1>2, <1>3, ListStaysListed
<1>5. QED
  BY <1>4 DEF J

LEMMA ReadExtends ==
  ASSUME NEW d, NEW d2, NEW n \in Nat, Table(d), Table(d2), Extends(d, d2, n),
         NEW q, IsQuery(q, n), ReadInv(q, d)
  PROVE  ReadInv(q, d2)
<1> SUFFICES ASSUME ~q.old, q.key.order = Newest
             PROVE  PageFound(q.edges, 0, RowIds(d2, q.key, q.filter))
  BY DEF ReadInv
<1> DEFINE I == RowIds(d, q.key, q.filter)
           J == RowIds(d2, q.key, q.filter)
<1>1. /\ IsFiniteSet(J) /\ J \in SUBSET Nat /\ I \in SUBSET J /\ \A b \in J \ I : b > n
  BY FoundIsTable DEF Extends
<1>2. q.edges \in Seq(Token) /\ PageFound(q.edges, 0, I) /\ \A m \in Ids(q.edges) : m \in 1 .. n
  BY DEF ReadInv, IsQuery
<1> HIDE DEF I, J
<1>3. \A b \in J \ I, m \in Ids(q.edges) : b > m
  BY <1>1, <1>2
<1>4. PageFound(q.edges, 0, J)
  BY <1>1, <1>2, <1>3, PageStaysFound
<1>5. QED
  BY <1>4 DEF J

LEMMA LoadExtends ==
  ASSUME NEW d, NEW d2, NEW n \in Nat, Table(d), Table(d2), Extends(d, d2, n),
         NEW q, IsQuery(q, n), NEW c, NEW e, CacheInv(c, e, d, n), LoadInv(q, c, d)
  PROVE  LoadInv(q, c, d2)
<1> SUFFICES ASSUME q.at # "none", q.key \in DOMAIN c, q.key.order = Newest,
                    ~c[q.key].moved, c[q.key].filter = q.filter
             PROVE  /\ c[q.key].edges # <<>> /\ q.from = c[q.key].end + 1
                    /\ PageFound(q.edges, q.from, RowIds(d2, q.key, q.filter))
                    /\ Joins(q.edges, c[q.key].edges, RowIds(d2, q.key, q.filter))
  BY DEF LoadInv
<1> DEFINE I == RowIds(d, q.key, q.filter)
           J == RowIds(d2, q.key, q.filter)
           list == c[q.key].edges
<1>1. /\ IsFiniteSet(J) /\ J \in SUBSET Nat /\ I \in SUBSET J /\ \A b \in J \ I : b > n
  BY FoundIsTable DEF Extends
<1>2. /\ list # <<>> /\ q.from = c[q.key].end + 1
      /\ PageFound(q.edges, q.from, I) /\ Joins(q.edges, list, I)
  BY DEF LoadInv
<1>3. /\ q.edges \in Seq(Token) /\ q.from \in Nat /\ list \in Seq(Token)
      /\ \A m \in Ids(q.edges) : m \in 1 .. n
      /\ \A m \in Ids(list) : m \in 1 .. n
  BY DEF IsQuery, CacheInv, IsList
<1> HIDE DEF I, J, list
<1>4. (\A b \in J \ I, m \in Ids(q.edges) : b > m) /\ \A b \in J \ I, m \in Ids(list) : b > m
  BY <1>1, <1>3
<1>5. PageFound(q.edges, q.from, J) /\ Joins(q.edges, list, J)
  BY <1>1, <1>2, <1>3, <1>4, PageStaysFound, PageStillJoins
<1>6. QED
  BY <1>2, <1>5 DEF J, list

LEMMA CacheExtends ==
  ASSUME NEW d, NEW d2, NEW n \in Nat, Table(d), Table(d2), Extends(d, d2, n),
         NEW c, NEW e, CacheInv(c, e, d, n)
  PROVE  CacheInv(c, e, d2, n)
<1>1. ASSUME NEW k \in DOMAIN c
      PROVE  ListInv(c[k], d2)
  BY ListExtends DEF CacheInv
<1>2. QED
  BY <1>1 DEF CacheInv

(* What was made before a launch was made after it.                        *)
LEMMA OneMore ==
  ASSUME NEW n \in Nat, NEW n2 \in Nat, n <= n2
  PROVE  /\ \A l : IsList(l, n) => IsList(l, n2)
         /\ \A q : IsQuery(q, n) => IsQuery(q, n2)
         /\ \A c, e, d : CacheInv(c, e, d, n) => CacheInv(c, e, d, n2)
<1>1. \A E : E \subseteq 1 .. n => E \subseteq 1 .. n2
  OBVIOUS
<1>2. \A l : IsList(l, n) => IsList(l, n2)
  BY <1>1 DEF IsList
<1>3. \A q : IsQuery(q, n) => IsQuery(q, n2)
  BY <1>1 DEF IsQuery
<1>4. QED
  BY <1>2, <1>3 DEF CacheInv

(* The lists the client keeps.                                             *)
LEMMA CacheUpdated ==
  ASSUME NEW k, NEW l
  PROVE  /\ DOMAIN CacheWith(k, l) = DOMAIN cache \cup {k} /\ CacheWith(k, l)[k] = l
         /\ \A j \in DOMAIN cache : j # k => CacheWith(k, l)[j] = cache[j]
BY DEF CacheWith

LEMMA Normalises ==
  ASSUME EntityInv(entities), NEW edges \in Seq(Token)
  PROVE  /\ DOMAIN Normalised(edges) = Ids(edges) \cup DOMAIN entities
         /\ EntityInv(Normalised(edges))
<1> DEFINE R == {edges[i] : i \in DOMAIN edges}
           read == {t.id : t \in R}
           h == Normalised(edges)
<1>1. read = Ids(edges)
  BY DEF Ids
<1>2. /\ DOMAIN h = read \cup DOMAIN entities
      /\ \A m \in DOMAIN h : h[m] = IF m \in read THEN CHOOSE t \in R : t.id = m ELSE entities[m]
  BY DEF Normalised
<1>3. \A m \in read : (CHOOSE t \in R : t.id = m).id = m
  OBVIOUS
<1> HIDE DEF R, read, h
<1>4. EntityInv(h)
  BY <1>2, <1>3 DEF EntityInv
<1>5. QED
  BY <1>1, <1>2, <1>4 DEF h

(* What a query brings.                                                    *)
LEMMA ConnectionFields ==
  ASSUME NEW q
  PROVE  /\ DOMAIN Connection(q) = {"key", "filter", "moved", "edges", "more", "end"}
         /\ Connection(q).key = q.key /\ Connection(q).filter = q.filter
         /\ Connection(q).moved = q.old /\ Connection(q).edges = q.edges
         /\ Connection(q).end = IF q.edges = <<>> THEN -1 ELSE q.from + Len(q.edges) - 1
BY DEF Connection

LEMMA EmptyFields ==
  ASSUME NEW q, NEW n, IsQuery(q, n)
  PROVE  /\ DOMAIN EmptyConnection(q) = {"key", "filter", "moved", "edges", "more", "end"}
         /\ EmptyConnection(q).key = q.key /\ EmptyConnection(q).filter = q.filter
         /\ EmptyConnection(q).moved = q.old /\ EmptyConnection(q).edges = <<>>
         /\ EmptyConnection(q).end = -1
<1> DEFINE r == [q EXCEPT !.from = 0, !.edges = <<>>, !.total = 0]
<1>1. r.key = q.key /\ r.filter = q.filter /\ r.old = q.old /\ r.edges = <<>>
  BY DEF IsQuery
<1>2. EmptyConnection(q) = Connection(r)
  BY DEF EmptyConnection
<1> HIDE DEF r
<1>3. QED
  BY <1>1, <1>2, ConnectionFields

LEMMA FirstPageIsList ==
  ASSUME NEW d, NEW n \in Nat, TableInv(d, n), NEW q, IsQuery(q, n), ReadInv(q, d)
  PROVE  IsList(Connection(q), n) /\ ListInv(Connection(q), d)
<1>1. Table(d) /\ q.edges \in Seq(Token) /\ q.from = 0 /\ Len(q.edges) \in Nat
      /\ (q.edges # <<>> => Len(q.edges) > 0)
  BY IdsOfEdges DEF TableInv, IsQuery, ReadInv
<1>2. Connection(q).end \in Int /\ Connection(q).end >= -1
      /\ Connection(q).end = IF q.edges = <<>> THEN -1 ELSE Len(q.edges) - 1
  BY <1>1, ConnectionFields
<1>3. IsList(Connection(q), n)
  BY <1>2, ConnectionFields DEF IsQuery, IsList
<1>4. ASSUME ~q.old, q.key.order = Newest
      PROVE  Listed(q.edges, Connection(q).end, RowIds(d, q.key, q.filter))
  BY <1>1, <1>2, <1>4, FoundIsTable, PageIsListed DEF ReadInv
<1>5. QED
  BY <1>3, <1>4, ConnectionFields DEF ListInv

LEMMA EmptyIsList ==
  ASSUME NEW d, NEW n \in Nat, NEW q, IsQuery(q, n)
  PROVE  IsList(EmptyConnection(q), n) /\ ListInv(EmptyConnection(q), d)
<1>1. <<>> \in Seq(Token) /\ Ids(<<>>) = {} /\ -1 \in Int /\ -1 >= -1
  BY DEF Ids
<1>2. IsList(EmptyConnection(q), n)
  BY <1>1, EmptyFields DEF IsQuery, IsList
<1>3. ListInv(EmptyConnection(q), d)
  BY EmptyFields, NothingListed DEF ListInv
<1>4. QED
  BY <1>2, <1>3

(***************************************************************************)
(* The steps.  What matters of the lists and queries, by the table of now. *)
(***************************************************************************)
ListsInv ==
    /\ IsList(initialTokens, launched) /\ ListInv(initialTokens, db)
    /\ CacheInv(cache, entities, db, launched) /\ EntityInv(entities)
QueriesInv ==
    /\ IsQuery(fetching, launched) /\ IsQuery(polling, launched) /\ IsQuery(loading, launched)
    /\ ReadInv(fetching, db) /\ ReadInv(polling, db) /\ LoadInv(loading, cache, db)
ChoiceInv ==
    /\ sortBy \in DOMAIN sortToOrderBy /\ statusFilter \in Filters
    /\ searchQuery \in DOMAIN SearchHits /\ search \in DOMAIN SearchHits
PagesInv == TableInv(db, launched) /\ ListsInv /\ QueriesInv /\ ChoiceInv

LEMMA KeyOfChoice ==
  ASSUME NEW s \in DOMAIN sortToOrderBy, NEW term \in DOMAIN SearchHits
  PROVE  QueryKey(s, term) \in Keys
<1>1. sortToOrderBy[s] \in Orders
  BY DEF sortToOrderBy, Orders, Newest
<1>2. QED
  BY <1>1 DEF QueryKey, Keys

LEMMA AskedQuery ==
  ASSUME NEW key \in Keys, NEW f \in Filters, NEW after \in Int, after >= -1, NEW n \in Nat
  PROVE  LET q == Ask(key, f, after)
         IN  /\ IsQuery(q, n) /\ q.at = "asked" /\ q.key = key /\ q.filter = f
             /\ q.from = after + 1 /\ q.edges = <<>>
<1> DEFINE q == Ask(key, f, after)
<1>1. /\ q.at = "asked" /\ q.key = key /\ q.filter = f /\ q.from = after + 1 /\ q.edges = <<>>
      /\ DOMAIN q = {"at", "key", "filter", "from", "edges", "total", "old"}
  BY DEF Ask, NoRequest
<1> HIDE DEF q
<1>2. <<>> \in Seq(Token) /\ Ids(<<>>) \subseteq 1 .. n
  BY DEF Ids
<1>3. q.from \in Nat
  BY <1>1
<1>4. QED
  BY <1>1, <1>2, <1>3 DEF IsQuery, q

LEMMA NoQuery ==
  ASSUME NEW n \in Nat
  PROVE  IsQuery(NoRequest, n) /\ NoRequest.at = "none" /\ NoRequest.from = 0 /\ NoRequest.edges = <<>>
<1>1. /\ NoRequest.at = "none" /\ NoRequest.from = 0 /\ NoRequest.edges = <<>>
      /\ NoRequest.key = FirstKey /\ NoRequest.filter = "ALL"
      /\ DOMAIN NoRequest = {"at", "key", "filter", "from", "edges", "total", "old"}
  BY DEF NoRequest
<1>2. <<>> \in Seq(Token) /\ Ids(<<>>) \subseteq 1 .. n
  BY DEF Ids
<1>3. FirstKey \in Keys
  <2>1. "new" \in DOMAIN sortToOrderBy /\ "" \in DOMAIN SearchHits
    BY BrowseAssumption DEF sortToOrderBy
  <2>2. QED
    BY <2>1, KeyOfChoice DEF FirstKey
<1>4. QED
  BY <1>1, <1>2, <1>3 DEF IsQuery, Filters

(* A query with no rows yet.                                               *)
LEMMA NothingRead ==
  ASSUME NEW q, NEW d, q.from = 0, q.edges = <<>>
  PROVE  ReadInv(q, d)
BY NothingListed DEF ReadInv

LEMMA NothingLoading ==
  ASSUME NEW q, NEW c, NEW d, q.at = "none"
  PROVE  LoadInv(q, c, d)
BY DEF LoadInv

(* Only the table changes, and rows only come on top.                      *)
LEMMA TableExtends ==
  ASSUME PagesInv, TableInv(db', launched'), launched' >= launched, Extends(db, db', launched),
         UNCHANGED <<choiceVars, listVars, requestVars>>
  PROVE  PagesInv'
<1>1. /\ initialTokens' = initialTokens /\ cache' = cache /\ entities' = entities
      /\ fetching' = fetching /\ polling' = polling /\ loading' = loading
      /\ sortBy' = sortBy /\ statusFilter' = statusFilter /\ searchQuery' = searchQuery /\ search' = search
  BY DEF choiceVars, listVars, requestVars
<1>2. Table(db) /\ Table(db') /\ launched \in Nat /\ launched' \in Nat /\ launched <= launched'
  BY DEF PagesInv, TableInv
<1>3. /\ ListInv(initialTokens, db') /\ CacheInv(cache, entities, db', launched)
      /\ ReadInv(fetching, db') /\ ReadInv(polling, db') /\ LoadInv(loading, cache, db')
  BY <1>2, ListExtends, CacheExtends, ReadExtends, LoadExtends DEF PagesInv, ListsInv, QueriesInv
<1>4. /\ IsList(initialTokens, launched') /\ CacheInv(cache, entities, db', launched')
      /\ IsQuery(fetching, launched') /\ IsQuery(polling, launched') /\ IsQuery(loading, launched')
  BY <1>2, <1>3, OneMore DEF PagesInv, ListsInv, QueriesInv
<1>5. ListsInv'
  BY <1>1, <1>3, <1>4 DEF PagesInv, ListsInv
<1>6. QueriesInv'
  BY <1>1, <1>3, <1>4 DEF PagesInv, QueriesInv
<1>7. ChoiceInv'
  BY <1>1 DEF PagesInv, ChoiceInv
<1>8. QED
  BY <1>5, <1>6, <1>7 DEF PagesInv

LEMMA LaunchKeeps ==
  ASSUME PagesInv, LaunchToken
  PROVE  PagesInv'
<1>1. /\ launched' = launched + 1 /\ launched \in Nat /\ TableInv(db, launched)
      /\ UNCHANGED <<choiceVars, listVars, requestVars>>
      /\ db' = db \cup {[id |-> launched', graduated |-> FALSE, volume |-> 0]}
  BY DEF PagesInv, TableInv, LaunchToken
<1>2. PICK t : t = [id |-> launched + 1, graduated |-> FALSE, volume |-> 0]
  OBVIOUS
<1>3. t \in Token /\ t.id = launched + 1 /\ db' = db \cup {t}
  BY <1>1, <1>2 DEF Token
<1>4. TableInv(db', launched')
  <2>1. db' \subseteq Token /\ IsFiniteSet(db') /\ \A u \in db : u.id \in 1 .. launched
    BY <1>1, <1>3, FS_AddElement DEF TableInv, Table
  <2>2. \A u, v \in db' : u.id = v.id => u = v
    BY <1>1, <1>3, <2>1 DEF TableInv, Table
  <2>3. \A u \in db' : u.id \in 1 .. launched + 1
    BY <1>1, <1>3, <2>1
  <2>4. QED
    BY <1>1, <2>1, <2>2, <2>3 DEF TableInv, Table
<1>5. Extends(db, db', launched)
  <2>1. SUFFICES ASSUME NEW key, NEW f
                 PROVE  /\ RowIds(db, key, f) \subseteq RowIds(db', key, f)
                        /\ \A b \in RowIds(db', key, f) \ RowIds(db, key, f) : b > launched
    BY DEF Extends
  <2>2. FoundIn(db, key, f) \subseteq FoundIn(db', key, f)
    BY <1>3 DEF FoundIn
  <2>3. \A u \in FoundIn(db', key, f) : u \in FoundIn(db, key, f) \/ u = t
    BY <1>3 DEF FoundIn
  <2>4. \A b \in RowIds(db', key, f) : b \in RowIds(db, key, f) \/ b = t.id
    BY <2>3 DEF RowIds, IdsOf
  <2>5. RowIds(db, key, f) \subseteq RowIds(db', key, f)
    BY <2>2 DEF RowIds, IdsOf
  <2>6. t.id > launched
    BY <1>1, <1>3
  <2>7. QED
    BY <2>4, <2>5, <2>6
<1>6. QED
  BY <1>1, <1>4, <1>5, TableExtends

(* One row is written anew.                                                *)
LEMMA RowWritten ==
  ASSUME TableInv(db, launched), NEW t \in db, NEW u \in Token, u.id = t.id,
         db' = (db \ {t}) \cup {u}, launched' = launched
  PROVE  TableInv(db', launched')
<1>1. IsFiniteSet(db \ {t})
  BY FS_RemoveElement DEF TableInv, Table
<1>2. IsFiniteSet(db') /\ db' \subseteq Token
  BY <1>1, FS_AddElement DEF TableInv, Table
<1>3. \A v \in db' : v = u \/ (v \in db /\ v # t)
  OBVIOUS
<1>4. \A v \in db : v.id = t.id => v = t
  BY DEF TableInv, Table
<1>5. \A v, w \in db' : v.id = w.id => v = w
  BY <1>3, <1>4 DEF TableInv, Table
<1>6. \A v \in db' : v.id \in 1 .. launched
  BY <1>3 DEF TableInv
<1>7. QED
  BY <1>2, <1>5, <1>6 DEF TableInv, Table

LEMMA TradedKeeps ==
  ASSUME PagesInv, NEW t \in db, Traded(t)
  PROVE  PagesInv'
<1>1. /\ launched' = launched /\ launched \in Nat /\ TableInv(db, launched) /\ t \in Token
      /\ UNCHANGED <<choiceVars, listVars, requestVars>>
      /\ db' = (db \ {t}) \cup {[t EXCEPT !.volume = @ + 1]}
  BY DEF PagesInv, TableInv, Table, Traded
<1>2. PICK u : u = [t EXCEPT !.volume = @ + 1]
  OBVIOUS
<1>3. /\ u \in Token /\ u.id = t.id /\ u.graduated = t.graduated /\ db' = (db \ {t}) \cup {u}
  BY <1>1, <1>2 DEF Token
<1>4. TableInv(db', launched')
  BY <1>1, <1>3, RowWritten
<1>5. Extends(db, db', launched)
  <2>1. SUFFICES ASSUME NEW key, NEW f
                 PROVE  RowIds(db, key, f) = RowIds(db', key, f)
    BY DEF Extends
  <2>2. Matches(t, key, f) <=> Matches(u, key, f)
    BY <1>3 DEF Matches
  <2>3. \A v \in FoundIn(db', key, f) : v \in FoundIn(db, key, f) \/ (v = u /\ t \in FoundIn(db, key, f))
    BY <1>3, <2>2 DEF FoundIn
  <2>4. \A v \in FoundIn(db, key, f) : v \in FoundIn(db', key, f) \/ (v = t /\ u \in FoundIn(db', key, f))
    BY <1>3, <2>2 DEF FoundIn
  <2>5. QED
    BY <1>3, <2>3, <2>4 DEF RowIds, IdsOf
<1>6. QED
  BY <1>1, <1>4, <1>5, TableExtends

(* Rows leave the listings.                                                *)
LEMMA RowsMoved ==
  ASSUME PagesInv, TableInv(db', launched'), launched' = launched, RowsMove
  PROVE  PagesInv'
<1>1. /\ initialTokens' = [initialTokens EXCEPT !.moved = TRUE]
      /\ cache' = [k \in DOMAIN cache |-> [cache[k] EXCEPT !.moved = TRUE]]
      /\ fetching' = [fetching EXCEPT !.old = fetching.at # "none"]
      /\ polling' = [polling EXCEPT !.old = polling.at # "none"]
      /\ entities' = entities /\ loading' = loading
      /\ sortBy' = sortBy /\ statusFilter' = statusFilter /\ searchQuery' = searchQuery /\ search' = search
  BY DEF RowsMove, choiceVars
<1>2. ASSUME NEW l, IsList(l, launched)
      PROVE  LET m == [l EXCEPT !.moved = TRUE]
             IN  IsList(m, launched) /\ ListInv(m, db') /\ m.key = l.key /\ m.edges = l.edges /\ m.moved
  <2>1. PICK m : m = [l EXCEPT !.moved = TRUE]
    OBVIOUS
  <2>2. /\ DOMAIN m = DOMAIN l /\ m.key = l.key /\ m.filter = l.filter /\ m.edges = l.edges
        /\ m.end = l.end /\ m.moved
    BY <1>2, <2>1 DEF IsList
  <2>3. IsList(m, launched) /\ ListInv(m, db')
    BY <1>2, <2>2 DEF IsList, ListInv
  <2>4. QED
    BY <2>1, <2>2, <2>3
<1>3. ASSUME NEW q, IsQuery(q, launched), ReadInv(q, db)
      PROVE  LET r == [q EXCEPT !.old = q.at # "none"]
             IN  IsQuery(r, launched) /\ ReadInv(r, db')
  <2>1. PICK r : r = [q EXCEPT !.old = q.at # "none"]
    OBVIOUS
  <2>2. /\ DOMAIN r = DOMAIN q /\ r.key = q.key /\ r.filter = q.filter /\ r.edges = q.edges
        /\ r.from = q.from /\ r.at = q.at
    BY <1>3, <2>1 DEF IsQuery
  <2>3. q.at # "none" => r.old
    BY <1>3, <2>1 DEF IsQuery
  <2>4. IsQuery(r, launched)
    BY <1>3, <2>2 DEF IsQuery
  <2>5. ReadInv(r, db')
    <3>1. CASE q.at # "none"
      BY <1>3, <2>2, <2>3, <3>1 DEF ReadInv
    <3>2. CASE q.at = "none"
      <4>1. r.edges = <<>> /\ r.from = 0
        BY <1>3, <2>2, <3>2 DEF IsQuery, ReadInv
      <4>2. QED
        BY <4>1, NothingRead
    <3>3. QED
      BY <3>1, <3>2
  <2>6. QED
    BY <2>1, <2>4, <2>5
<1>4. ListsInv'
  <2>1. IsList(initialTokens', launched) /\ ListInv(initialTokens', db')
    BY <1>1, <1>2 DEF PagesInv, ListsInv
  <2>2. ASSUME NEW k \in DOMAIN cache
        PROVE  /\ cache'[k].key = k /\ IsList(cache'[k], launched) /\ ListInv(cache'[k], db')
               /\ Ids(cache'[k].edges) \subseteq DOMAIN entities
    <3>1. /\ cache[k].key = k /\ IsList(cache[k], launched) /\ Ids(cache[k].edges) \subseteq DOMAIN entities
      BY <2>2 DEF PagesInv, ListsInv, CacheInv
    <3>2. cache'[k] = [cache[k] EXCEPT !.moved = TRUE]
      BY <1>1, <2>2
    <3>3. QED
      BY <1>2, <3>1, <3>2
  <2>3. CacheInv(cache', entities, db', launched)
    BY <1>1, <2>2 DEF CacheInv
  <2>4. QED
    BY <1>1, <2>1, <2>3 DEF PagesInv, ListsInv
<1>5. QueriesInv'
  <2>1. LoadInv(loading, cache', db')
    <3>1. ASSUME NEW k \in DOMAIN cache PROVE cache'[k].moved
      <4>1. IsList(cache[k], launched) /\ cache'[k] = [cache[k] EXCEPT !.moved = TRUE]
        BY <1>1, <3>1 DEF PagesInv, ListsInv, CacheInv
      <4>2. QED
        BY <1>2, <4>1
    <3>2. DOMAIN cache' = DOMAIN cache
      BY <1>1
    <3>3. QED
      BY <3>1, <3>2 DEF LoadInv
  <2>2. QED
    BY <1>1, <1>3, <2>1 DEF PagesInv, QueriesInv
<1>6. ChoiceInv'
  BY <1>1 DEF PagesInv, ChoiceInv
<1>7. QED
  BY <1>4, <1>5, <1>6 DEF PagesInv

LEMMA GraduatesKeeps ==
  ASSUME PagesInv, NEW t \in db, Graduates(t)
  PROVE  PagesInv'
<1>1. /\ launched' = launched /\ TableInv(db, launched) /\ t \in Token /\ RowsMove
      /\ db' = (db \ {t}) \cup {[t EXCEPT !.graduated = TRUE]}
  BY DEF PagesInv, TableInv, Table, Graduates
<1>2. PICK u : u = [t EXCEPT !.graduated = TRUE]
  OBVIOUS
<1>3. u \in Token /\ u.id = t.id /\ db' = (db \ {t}) \cup {u}
  BY <1>1, <1>2 DEF Token
<1>4. TableInv(db', launched')
  BY <1>1, <1>3, RowWritten
<1>5. QED
  BY <1>1, <1>4, RowsMoved

LEMMA NothingMoves ==
  ASSUME PagesInv, db' = db, launched' = launched, UNCHANGED <<choiceVars, listVars, requestVars>>
  PROVE  PagesInv'
<1>1. Extends(db, db', launched) /\ TableInv(db', launched') /\ launched' >= launched
  BY DEF Extends, PagesInv, TableInv
<1>2. QED
  BY <1>1, TableExtends

LEMMA DeleteKeeps ==
  ASSUME PagesInv, NEW t \in db, DeleteTransactions(t) \/ DeleteToken(t)
  PROVE  PagesInv'
<1>1. CASE db' = db /\ launched' = launched /\ UNCHANGED <<choiceVars, listVars, requestVars>>
  BY <1>1, NothingMoves
<1>2. CASE db' = db \ {t} /\ RowsMove /\ launched' = launched
  <2>1. IsFiniteSet(db') /\ db' \subseteq db
    BY <1>2, FS_RemoveElement DEF PagesInv, TableInv, Table
  <2>2. TableInv(db', launched')
    BY <1>2, <2>1 DEF PagesInv, TableInv, Table
  <2>3. QED
    BY <1>2, <2>2, RowsMoved
<1>3. QED
  BY <1>1, <1>2 DEF DeleteTransactions, DeleteToken


(* The resolver reads a page.                                              *)
LEMMA PageRead ==
  ASSUME NEW d, NEW n, TableInv(d, n), NEW key, NEW f, NEW from \in Nat
  PROVE  LET page == Slice(InOrder(key.order, FoundIn(d, key, f)), from)
         IN  page \in Seq(Token) /\ Ids(page) \subseteq 1 .. n
<1> DEFINE S == FoundIn(d, key, f)
           page == Slice(InOrder(key.order, S), from)
<1>1. Table(S) /\ S \subseteq Token /\ \A t \in S : t.id \in 1 .. n
  <2>1. Table(d) /\ d \subseteq Token /\ \A t \in d : t.id \in 1 .. n
    BY DEF TableInv, Table
  <2>2. S \subseteq d
    BY DEF FoundIn
  <2>3. Table(S)
    BY <2>1, FoundIsTable
  <2>4. QED
    BY <2>1, <2>2, <2>3
<1>2. page \in Seq(S)
  BY <1>1, PageOf
<1> HIDE DEF page, S
<1>3. page \in Seq(Token) /\ \A i \in DOMAIN page : page[i] \in S
  BY <1>1, <1>2
<1>4. Ids(page) \subseteq 1 .. n
  BY <1>1, <1>3 DEF Ids
<1>5. QED
  BY <1>3, <1>4 DEF page, S

LEMMA FindManyFields ==
  ASSUME NEW q, IsQuery(q, launched)
  PROVE  LET r == FindMany(q)
         IN  /\ DOMAIN r = DOMAIN q /\ r.key = q.key /\ r.filter = q.filter /\ r.from = q.from
             /\ r.old = q.old /\ r.at \in {"found", "answered"}
             /\ r.edges = Slice(InOrder(q.key.order, FoundIn(db, q.key, q.filter)), q.from)
<1> DEFINE page == Slice(Rows(q.key, q.filter), q.from)
<1>1. page = Slice(InOrder(q.key.order, FoundIn(db, q.key, q.filter)), q.from)
  BY DEF Rows, Found, FoundIn
<1>2. FindMany(q) = [q EXCEPT !.edges = page, !.at = IF @ = "asked" THEN "found" ELSE "answered"]
  BY DEF FindMany
<1> HIDE DEF page
<1>3. QED
  BY <1>1, <1>2 DEF IsQuery

LEMMA CountFields ==
  ASSUME NEW q, IsQuery(q, launched)
  PROVE  LET r == Count(q)
         IN  /\ DOMAIN r = DOMAIN q /\ r.key = q.key /\ r.filter = q.filter /\ r.from = q.from
             /\ r.old = q.old /\ r.edges = q.edges
             /\ r.at = IF q.at = "asked" THEN "counted" ELSE "answered"
BY DEF IsQuery, Count

LEMMA TokensIsQuery ==
  ASSUME PagesInv, NEW q, IsQuery(q, launched), NEW r \in Tokens(q)
  PROVE  /\ IsQuery(r, launched) /\ q.at # "none" /\ r.at # "none"
         /\ r.key = q.key /\ r.filter = q.filter /\ r.from = q.from /\ r.old = q.old
         /\ \/ r.edges = q.edges
            \/ r.edges = Slice(InOrder(q.key.order, FoundIn(db, q.key, q.filter)), q.from)
<1>1. q.from \in Nat /\ (q.at \in {"none", "asked", "counted"} => q.edges = <<>>)
  BY DEF IsQuery
<1>2. CASE r = FindMany(q) /\ (q.at = "asked" \/ q.at = "counted")
  <2>1. /\ DOMAIN r = DOMAIN q /\ r.key = q.key /\ r.filter = q.filter /\ r.from = q.from
        /\ r.old = q.old /\ r.at \in {"found", "answered"}
        /\ r.edges = Slice(InOrder(q.key.order, FoundIn(db, q.key, q.filter)), q.from)
    BY <1>2, FindManyFields
  <2>2. r.edges \in Seq(Token) /\ Ids(r.edges) \subseteq 1 .. launched
    BY <1>1, <2>1, PageRead DEF PagesInv
  <2>3. IsQuery(r, launched)
    BY <2>1, <2>2 DEF IsQuery
  <2>4. QED
    BY <1>2, <2>1, <2>3
<1>3. CASE r = Count(q) /\ (q.at = "asked" \/ q.at = "found")
  <2>1. /\ DOMAIN r = DOMAIN q /\ r.key = q.key /\ r.filter = q.filter /\ r.from = q.from
        /\ r.old = q.old /\ r.edges = q.edges
        /\ r.at = IF q.at = "asked" THEN "counted" ELSE "answered"
    BY <1>3, CountFields
  <2>2. IsQuery(r, launched)
    BY <1>1, <1>3, <2>1 DEF IsQuery
  <2>3. QED
    BY <1>3, <2>1, <2>2
<1>4. QED
  BY <1>2, <1>3 DEF Tokens

LEMMA ReadAnswered ==
  ASSUME PagesInv, NEW q, IsQuery(q, launched), ReadInv(q, db), NEW r \in Tokens(q)
  PROVE  IsQuery(r, launched) /\ ReadInv(r, db)
<1>1. /\ IsQuery(r, launched) /\ r.key = q.key /\ r.filter = q.filter /\ r.from = q.from /\ r.old = q.old
      /\ \/ r.edges = q.edges
         \/ r.edges = Slice(InOrder(q.key.order, FoundIn(db, q.key, q.filter)), q.from)
  BY TokensIsQuery
<1>2. CASE r.edges = q.edges
  BY <1>1, <1>2 DEF ReadInv
<1>3. CASE r.edges = Slice(InOrder(q.key.order, FoundIn(db, q.key, q.filter)), q.from)
  <2>1. Table(FoundIn(db, q.key, q.filter)) /\ q.from = 0
    BY FoundIsTable DEF PagesInv, TableInv, ReadInv
  <2>2. ASSUME q.key.order = Newest
        PROVE  PageFound(r.edges, 0, RowIds(db, q.key, q.filter))
    BY <1>3, <2>1, <2>2, PageIsFound DEF RowIds
  <2>3. QED
    BY <1>1, <2>1, <2>2 DEF ReadInv
<1>4. QED
  BY <1>1, <1>2, <1>3

LEMMA LoadAnswered ==
  ASSUME PagesInv, NEW q, IsQuery(q, launched), LoadInv(q, cache, db), NEW r \in Tokens(q)
  PROVE  IsQuery(r, launched) /\ LoadInv(r, cache, db)
<1>1. /\ IsQuery(r, launched) /\ q.at # "none"
      /\ r.key = q.key /\ r.filter = q.filter /\ r.from = q.from /\ r.old = q.old
      /\ \/ r.edges = q.edges
         \/ r.edges = Slice(InOrder(q.key.order, FoundIn(db, q.key, q.filter)), q.from)
  BY TokensIsQuery
<1>2. CASE r.edges = q.edges
  BY <1>1, <1>2 DEF LoadInv
<1>3. ASSUME r.edges = Slice(InOrder(q.key.order, FoundIn(db, q.key, q.filter)), q.from),
             q.key \in DOMAIN cache, q.key.order = Newest,
             ~cache[q.key].moved, cache[q.key].filter = q.filter
      PROVE  /\ cache[q.key].edges # <<>> /\ q.from = cache[q.key].end + 1
             /\ PageFound(r.edges, q.from, RowIds(db, q.key, q.filter))
             /\ Joins(r.edges, cache[q.key].edges, RowIds(db, q.key, q.filter))
  <2> DEFINE l == cache[q.key]
             S == FoundIn(db, q.key, q.filter)
             I == RowIds(db, q.key, q.filter)
  <2>1. l.edges # <<>> /\ q.from = l.end + 1
    BY <1>1, <1>3 DEF LoadInv
  <2>2. l.key = q.key /\ l.filter = q.filter /\ l.end \in Int /\ Listed(l.edges, l.end, I)
    BY <1>3 DEF PagesInv, ListsInv, CacheInv, ListInv, IsList
  <2>3. /\ Table(S) /\ I = IdsOf(S) /\ q.from \in Nat /\ IsFiniteSet(I)
        /\ r.edges = Slice(InOrder(Newest, S), q.from)
    BY <1>3, FoundIsTable DEF PagesInv, TableInv, RowIds, IsQuery
  <2> HIDE DEF l, S, I
  <2>4. \A b \in I : (\A m \in Ids(l.edges) : b < m) => Above(I, b) >= q.from
    <3>1. \A b \in I : (\A m \in Ids(l.edges) : b < m) => Above(I, b) > l.end
      BY <2>1, <2>2 DEF Listed
    <3>2. \A b \in I : Above(I, b) \in Nat
      BY <2>3, AboveIsNatural
    <3>3. QED
      BY <2>1, <2>2, <3>1, <3>2
  <2>5. PageFound(r.edges, q.from, I) /\ Joins(r.edges, l.edges, I)
    BY <2>3, <2>4, PageIsFound
  <2>6. QED
    BY <2>1, <2>5 DEF l, I
<1>4. QED
  BY <1>1, <1>2, <1>3 DEF LoadInv

LEMMA ResolveKeeps ==
  ASSUME PagesInv, Resolve
  PROVE  PagesInv'
<1>1. /\ db' = db /\ launched' = launched /\ initialTokens' = initialTokens /\ cache' = cache
      /\ entities' = entities
      /\ sortBy' = sortBy /\ statusFilter' = statusFilter /\ searchQuery' = searchQuery /\ search' = search
      /\ \/ fetching' \in Tokens(fetching) /\ polling' = polling /\ loading' = loading
         \/ polling' \in Tokens(polling) /\ fetching' = fetching /\ loading' = loading
         \/ loading' \in Tokens(loading) /\ fetching' = fetching /\ polling' = polling
  BY DEF Resolve, databaseVars, choiceVars, listVars
<1>2. /\ IsQuery(fetching', launched) /\ ReadInv(fetching', db)
      /\ IsQuery(polling', launched) /\ ReadInv(polling', db)
      /\ IsQuery(loading', launched) /\ LoadInv(loading', cache, db)
  BY <1>1, ReadAnswered, LoadAnswered DEF PagesInv, QueriesInv
<1>3. QED
  BY <1>1, <1>2 DEF PagesInv, ListsInv, QueriesInv, ChoiceInv

(* The user asks for something else.                                       *)
LEMMA RequeryKeeps ==
  ASSUME PagesInv, NEW key \in Keys, NEW f \in Filters, Requery(key, f), ChoiceInv'
  PROVE  PagesInv'
<1>1. /\ db' = db /\ launched' = launched /\ initialTokens' = initialTokens /\ cache' = cache
      /\ entities' = entities /\ polling' = polling /\ loading' = loading
      /\ fetching' = IF key \in DOMAIN cache THEN NoRequest ELSE Ask(key, f, -1)
  BY DEF Requery, databaseVars, listVars
<1>2. IsQuery(fetching', launched) /\ fetching'.from = 0 /\ fetching'.edges = <<>>
  <2>1. launched \in Nat /\ -1 \in Int /\ -1 >= -1 /\ -1 + 1 = 0
    BY DEF PagesInv, TableInv
  <2>2. /\ IsQuery(Ask(key, f, -1), launched)
        /\ Ask(key, f, -1).from = 0 /\ Ask(key, f, -1).edges = <<>>
    BY <2>1, AskedQuery
  <2>3. QED
    BY <1>1, <2>1, <2>2, NoQuery
<1>3. ReadInv(fetching', db)
  BY <1>2, NothingRead
<1>4. QED
  BY <1>1, <1>2, <1>3 DEF PagesInv, ListsInv, QueriesInv

LEMMA StatusKeeps ==
  ASSUME PagesInv, NEW f \in Filters, SetStatusFilter(f)
  PROVE  PagesInv'
<1>1. /\ statusFilter' = f /\ sortBy' = sortBy /\ searchQuery' = searchQuery /\ search' = search
      /\ Requery(Key, f)
  BY DEF SetStatusFilter
<1>2. Key \in Keys
  BY KeyOfChoice DEF Key, PagesInv, ChoiceInv
<1>3. ChoiceInv'
  BY <1>1 DEF PagesInv, ChoiceInv
<1>4. QED
  BY <1>1, <1>2, <1>3, RequeryKeeps

LEMMA SortKeeps ==
  ASSUME PagesInv, NEW s \in Sorts, SetSortBy(s)
  PROVE  PagesInv'
<1>1. /\ sortBy' = s /\ statusFilter' = statusFilter /\ searchQuery' = searchQuery /\ search' = search
  BY DEF SetSortBy
<1>2. s \in DOMAIN sortToOrderBy
  BY BrowseAssumption DEF sortToOrderBy
<1>3. ChoiceInv'
  BY <1>1, <1>2 DEF PagesInv, ChoiceInv
<1>4. CASE UNCHANGED <<databaseVars, listVars, requestVars>>
  BY <1>3, <1>4 DEF databaseVars, listVars, requestVars, PagesInv, ListsInv, QueriesInv
<1>5. CASE Requery(QueryKey(s, search), statusFilter)
  <2>1. QueryKey(s, search) \in Keys /\ statusFilter \in Filters
    BY <1>2, KeyOfChoice DEF PagesInv, ChoiceInv
  <2>2. QED
    BY <1>3, <1>5, <2>1, RequeryKeeps
<1>6. QED
  BY <1>4, <1>5 DEF SetSortBy

LEMMA SearchKeeps ==
  ASSUME PagesInv, (\E term \in DOMAIN SearchHits : SetSearchQuery(term)) \/ Debounce
  PROVE  PagesInv'
<1>1. ASSUME NEW term \in DOMAIN SearchHits, SetSearchQuery(term)
      PROVE  PagesInv'
  <2>1. /\ searchQuery' = term /\ sortBy' = sortBy /\ statusFilter' = statusFilter /\ search' = search
        /\ UNCHANGED <<databaseVars, listVars, requestVars>>
    BY <1>1 DEF SetSearchQuery
  <2>2. ChoiceInv'
    BY <2>1 DEF PagesInv, ChoiceInv
  <2>3. QED
    BY <2>1, <2>2 DEF databaseVars, listVars, requestVars, PagesInv, ListsInv, QueriesInv
<1>2. CASE Debounce
  <2>1. /\ search' = searchQuery /\ sortBy' = sortBy /\ statusFilter' = statusFilter
        /\ searchQuery' = searchQuery /\ Requery(QueryKey(sortBy, searchQuery), statusFilter)
    BY <1>2 DEF Debounce
  <2>2. ChoiceInv'
    BY <2>1 DEF PagesInv, ChoiceInv
  <2>3. QueryKey(sortBy, searchQuery) \in Keys /\ statusFilter \in Filters
    BY KeyOfChoice DEF PagesInv, ChoiceInv
  <2>4. QED
    BY <2>1, <2>2, <2>3, RequeryKeeps
<1>3. QED
  BY <1>1, <1>2

(* The tokens shown are those of the list.                                 *)
LEMMA ShownAreListed ==
  ASSUME PagesInv
  PROVE  LET list == TokensConnection
         IN  /\ IsList(list, launched) /\ ListInv(list, db)
             /\ (Key \in DOMAIN cache => list = cache[Key])
             /\ DOMAIN Grid = DOMAIN list.edges
             /\ \A i \in DOMAIN Grid : Grid[i].token.id = list.edges[i].id
<1> DEFINE list == TokensConnection
           edges == list.edges
<1>1. CASE Key \in DOMAIN cache
  <2>1. list = cache[Key]
    BY <1>1 DEF TokensConnection
  <2>2. IsList(list, launched) /\ ListInv(list, db) /\ Ids(edges) \subseteq DOMAIN entities
    BY <1>1, <2>1 DEF PagesInv, ListsInv, CacheInv
  <2>3. ShownTokens = [i \in DOMAIN edges |-> entities[edges[i].id]]
    BY <1>1 DEF ShownTokens
  <2>4. ASSUME NEW i \in DOMAIN edges
        PROVE  entities[edges[i].id].id = edges[i].id
    <3>1. edges[i].id \in Ids(edges)
      BY DEF Ids
    <3>2. QED
      BY <2>2, <3>1 DEF EntityInv, PagesInv, ListsInv
  <2> HIDE DEF list
  <2>5. DOMAIN Grid = DOMAIN edges /\ \A i \in DOMAIN edges : Grid[i].token = entities[edges[i].id]
    BY <2>3 DEF Grid
  <2>6. QED
    BY <2>1, <2>2, <2>4, <2>5 DEF list
<1>2. CASE Key \notin DOMAIN cache
  <2>1. list = initialTokens
    BY <1>2 DEF TokensConnection
  <2>2. IsList(list, launched) /\ ListInv(list, db)
    BY <2>1 DEF PagesInv, ListsInv
  <2>3. ShownTokens = edges
    BY <1>2 DEF ShownTokens
  <2> HIDE DEF list
  <2>4. DOMAIN Grid = DOMAIN edges /\ \A i \in DOMAIN edges : Grid[i].token = edges[i]
    BY <2>3 DEF Grid
  <2>5. QED
    BY <1>2, <2>2, <2>4 DEF list
<1>3. QED
  BY <1>1, <1>2

LEMMA LoadMoreKeeps ==
  ASSUME PagesInv, HandleLoadMore
  PROVE  PagesInv'
<1> DEFINE list == TokensConnection
<1>1. /\ db' = db /\ launched' = launched /\ initialTokens' = initialTokens /\ cache' = cache
      /\ entities' = entities /\ fetching' = fetching /\ polling' = polling
      /\ sortBy' = sortBy /\ statusFilter' = statusFilter /\ searchQuery' = searchQuery /\ search' = search
      /\ loading' = Ask(Key, statusFilter, list.end) /\ Content = "grid"
  BY DEF HandleLoadMore, CanLoadMore, databaseVars, choiceVars, listVars
<1>2. /\ IsList(list, launched) /\ (Key \in DOMAIN cache => list = cache[Key])
      /\ DOMAIN Grid = DOMAIN list.edges
  BY ShownAreListed
<1>3. Key \in Keys /\ statusFilter \in Filters /\ launched \in Nat
      /\ list.end \in Int /\ list.end >= -1
  BY <1>2, KeyOfChoice DEF Key, PagesInv, TableInv, ChoiceInv, IsList
<1> HIDE DEF list
<1>4. /\ IsQuery(loading', launched) /\ loading'.key = Key /\ loading'.filter = statusFilter
      /\ loading'.from = list.end + 1 /\ loading'.edges = <<>>
  BY <1>1, <1>3, AskedQuery
<1>5. list.edges # <<>>
  <2>1. Grid # <<>>
    BY <1>1 DEF Content
  <2>2. Grid = [i \in DOMAIN Grid |-> Grid[i]]
    BY DEF Grid
  <2>3. SUFFICES ASSUME list.edges = <<>> PROVE FALSE
    OBVIOUS
  <2>4. DOMAIN Grid = {}
    BY <1>2, <2>3
  <2>5. Grid = <<>>
    BY <2>2, <2>4
  <2>6. QED
    BY <2>1, <2>5
<1>6. LoadInv(loading', cache, db)
  BY <1>2, <1>4, <1>5, NothingListed DEF LoadInv
<1>7. QED
  BY <1>1, <1>4, <1>6 DEF PagesInv, ListsInv, QueriesInv, ChoiceInv

LEMMA PollingKeeps ==
  ASSUME PagesInv, PollTokens
  PROVE  PagesInv'
<1>1. /\ db' = db /\ launched' = launched /\ initialTokens' = initialTokens /\ cache' = cache
      /\ entities' = entities /\ fetching' = fetching /\ loading' = loading
      /\ sortBy' = sortBy /\ statusFilter' = statusFilter /\ searchQuery' = searchQuery /\ search' = search
      /\ polling' = Ask(Key, statusFilter, -1)
  BY DEF PollTokens, databaseVars, choiceVars, listVars
<1>2. Key \in Keys /\ statusFilter \in Filters /\ launched \in Nat
      /\ -1 \in Int /\ -1 >= -1 /\ -1 + 1 = 0
  BY KeyOfChoice DEF Key, PagesInv, TableInv, ChoiceInv
<1>3. IsQuery(polling', launched) /\ polling'.from = 0 /\ polling'.edges = <<>>
  BY <1>1, <1>2, AskedQuery
<1>4. ReadInv(polling', db)
  BY <1>3, NothingRead
<1>5. QED
  BY <1>1, <1>3, <1>4 DEF PagesInv, ListsInv, QueriesInv, ChoiceInv

LEMMA FailingKeeps ==
  ASSUME PagesInv, RequestFails
  PROVE  PagesInv'
<1>1. /\ db' = db /\ launched' = launched /\ initialTokens' = initialTokens /\ cache' = cache
      /\ entities' = entities
      /\ sortBy' = sortBy /\ statusFilter' = statusFilter /\ searchQuery' = searchQuery /\ search' = search
      /\ fetching' \in {fetching, NoRequest} /\ polling' \in {polling, NoRequest}
      /\ loading' \in {loading, NoRequest}
  BY DEF RequestFails, databaseVars, choiceVars, listVars
<1>2. IsQuery(NoRequest, launched) /\ ReadInv(NoRequest, db) /\ LoadInv(NoRequest, cache, db)
  BY NoQuery, NothingRead, NothingLoading DEF PagesInv, TableInv
<1>3. QED
  BY <1>1, <1>2 DEF PagesInv, ListsInv, QueriesInv, ChoiceInv

(* An answer is merged.                                                    *)
LEMMA CacheChanges ==
  ASSUME PagesInv, NEW l, IsList(l, launched), ListInv(l, db), NEW e, EntityInv(e),
         DOMAIN entities \subseteq DOMAIN e, Ids(l.edges) \subseteq DOMAIN e
  PROVE  /\ CacheInv(CacheWith(l.key, l), e, db, launched)
         /\ (loading.at # "none" => l.moved) => LoadInv(loading, CacheWith(l.key, l), db)
<1> DEFINE k == l.key
           c == CacheWith(k, l)
<1>1. /\ DOMAIN c = DOMAIN cache \cup {k} /\ c[k] = l
      /\ \A j \in DOMAIN cache : j # k => c[j] = cache[j]
  BY DEF CacheWith
<1>2. CacheInv(cache, entities, db, launched) /\ LoadInv(loading, cache, db)
  BY DEF PagesInv, ListsInv, QueriesInv
<1> HIDE DEF c
<1>3. CacheInv(c, e, db, launched)
  <2>1. SUFFICES ASSUME NEW j \in DOMAIN c
                 PROVE  /\ c[j].key = j /\ IsList(c[j], launched) /\ ListInv(c[j], db)
                        /\ Ids(c[j].edges) \subseteq DOMAIN e
    BY DEF CacheInv
  <2>2. CASE j = k
    BY <1>1, <2>2
  <2>3. CASE j # k
    <3>1. j \in DOMAIN cache /\ c[j] = cache[j]
      BY <1>1, <2>3
    <3>2. QED
      BY <1>2, <3>1 DEF CacheInv
  <2>4. QED
    BY <2>2, <2>3
<1>4. ASSUME loading.at # "none" => l.moved
      PROVE  LoadInv(loading, c, db)
  <2>1. SUFFICES ASSUME loading.at # "none", loading.key \in DOMAIN c, loading.key.order = Newest,
                        ~c[loading.key].moved, c[loading.key].filter = loading.filter
                 PROVE  /\ c[loading.key].edges # <<>> /\ loading.from = c[loading.key].end + 1
                        /\ PageFound(loading.edges, loading.from, RowIds(db, loading.key, loading.filter))
                        /\ Joins(loading.edges, c[loading.key].edges,
                                 RowIds(db, loading.key, loading.filter))
    BY DEF LoadInv
  <2>2. loading.key # k
    BY <1>1, <1>4, <2>1
  <2>3. loading.key \in DOMAIN cache /\ c[loading.key] = cache[loading.key]
    BY <1>1, <2>1, <2>2
  <2>4. QED
    BY <1>2, <2>1, <2>3 DEF LoadInv
<1>5. QED
  BY <1>3, <1>4 DEF c

LEMMA MarkedIsList ==
  ASSUME NEW n, NEW d, NEW l, IsList(l, n), ListInv(l, d), NEW b \in BOOLEAN
  PROVE  LET m == [l EXCEPT !.moved = @ \/ b]
         IN  /\ IsList(m, n) /\ ListInv(m, d) /\ m.key = l.key /\ m.edges = l.edges
             /\ b => m.moved
<1>1. PICK m : m = [l EXCEPT !.moved = @ \/ b]
  OBVIOUS
<1>2. /\ DOMAIN m = DOMAIN l /\ m.key = l.key /\ m.filter = l.filter /\ m.edges = l.edges
      /\ m.end = l.end /\ m.moved = (l.moved \/ b)
  BY <1>1 DEF IsList
<1>3. IsList(m, n) /\ ListInv(m, d) /\ (b => m.moved)
  BY <1>2 DEF IsList, ListInv
<1>4. QED
  BY <1>1, <1>2, <1>3

LEMMA MergeKeeps ==
  ASSUME PagesInv, NEW q, IsQuery(q, launched), ReadInv(q, db), Merge(q),
         fetching' \in {fetching, NoRequest}, polling' \in {polling, NoRequest}
  PROVE  PagesInv'
<1> DEFINE b == (loading.at # "none")
           full == [Connection(q) EXCEPT !.moved = @ \/ b]
           none == [EmptyConnection(q) EXCEPT !.moved = @ \/ b]
<1>1. /\ db' = db /\ launched' = launched /\ initialTokens' = initialTokens /\ loading' = loading
      /\ sortBy' = sortBy /\ statusFilter' = statusFilter /\ searchQuery' = searchQuery /\ search' = search
      /\ \/ cache' = CacheWith(q.key, full) /\ entities' = Normalised(q.edges)
         \/ cache' = CacheWith(q.key, none) /\ entities' = entities
  BY DEF Merge, databaseVars, choiceVars
<1>2. /\ IsList(full, launched) /\ ListInv(full, db) /\ full.key = q.key /\ full.edges = q.edges
      /\ b => full.moved
  <2>1. IsList(Connection(q), launched) /\ ListInv(Connection(q), db)
    BY FirstPageIsList DEF PagesInv, TableInv
  <2>2. b \in BOOLEAN
    OBVIOUS
  <2> HIDE DEF b
  <2>3. QED
    BY <2>1, <2>2, MarkedIsList, ConnectionFields
<1>3. /\ IsList(none, launched) /\ ListInv(none, db) /\ none.key = q.key /\ none.edges = <<>>
      /\ b => none.moved
  <2>1. IsList(EmptyConnection(q), launched) /\ ListInv(EmptyConnection(q), db)
    BY EmptyIsList DEF PagesInv, TableInv
  <2>2. b \in BOOLEAN
    OBVIOUS
  <2> HIDE DEF b
  <2>3. QED
    BY <2>1, <2>2, MarkedIsList, EmptyFields
<1> HIDE DEF full, none
<1>4. CacheInv(cache', entities', db, launched) /\ EntityInv(entities') /\ LoadInv(loading, cache', db)
  <2>1. CASE cache' = CacheWith(q.key, full) /\ entities' = Normalised(q.edges)
    <3>1. /\ EntityInv(entities') /\ DOMAIN entities \subseteq DOMAIN entities'
          /\ Ids(full.edges) \subseteq DOMAIN entities'
      BY <1>2, <2>1, Normalises DEF PagesInv, ListsInv, IsQuery
    <3>2. PICK e : e = entities'
      OBVIOUS
    <3>3. CacheInv(CacheWith(full.key, full), e, db, launched) /\ LoadInv(loading, CacheWith(full.key, full), db)
      BY <1>2, <3>1, <3>2, CacheChanges
    <3>4. QED
      BY <1>2, <2>1, <3>1, <3>2, <3>3
  <2>2. CASE cache' = CacheWith(q.key, none) /\ entities' = entities
    <3>1. EntityInv(entities) /\ Ids(none.edges) \subseteq DOMAIN entities
      BY <1>3 DEF PagesInv, ListsInv, Ids
    <3>2. CacheInv(CacheWith(none.key, none), entities, db, launched)
          /\ LoadInv(loading, CacheWith(none.key, none), db)
      BY <1>3, <3>1, CacheChanges
    <3>3. QED
      BY <1>3, <2>2, <3>1, <3>2
  <2>3. QED
    BY <1>1, <2>1, <2>2
<1>5. IsQuery(NoRequest, launched) /\ ReadInv(NoRequest, db)
  BY NoQuery, NothingRead DEF PagesInv, TableInv
<1>6. QED
  BY <1>1, <1>4, <1>5 DEF PagesInv, ListsInv, QueriesInv, ChoiceInv

(* A page is appended.                                                     *)
LEMMA AppendedIsList ==
  ASSUME PagesInv, Key \in DOMAIN cache, NEW c, IsList(c, launched), c.edges \in Seq(Token),
         ~cache[Key].moved /\ Key.order = Newest
           /\ loading.key = Key /\ loading.filter = cache[Key].filter
         => Listed(cache[Key].edges \o c.edges, c.end, RowIds(db, Key, cache[Key].filter))
  PROVE  LET list == cache[Key]
             l == [c EXCEPT !.edges = list.edges \o @, !.key = Key, !.filter = list.filter,
                            !.moved = \/ list.moved
                                      \/ loading.key # Key \/ loading.filter # list.filter]
         IN  /\ IsList(l, launched) /\ ListInv(l, db) /\ l.key = Key
             /\ Ids(l.edges) \subseteq DOMAIN entities \cup Ids(c.edges)
<1> DEFINE list == cache[Key]
           both == list.edges \o c.edges
           gone == list.moved \/ loading.key # Key \/ loading.filter # list.filter
<1>1. /\ IsList(list, launched) /\ list.key = Key /\ Ids(list.edges) \subseteq DOMAIN entities
  BY DEF PagesInv, ListsInv, CacheInv
<1>2. both \in Seq(Token) /\ Ids(both) = Ids(list.edges) \cup Ids(c.edges)
  BY <1>1, IdsOfBoth DEF IsList
<1>3. PICK l : l = [c EXCEPT !.edges = both, !.key = Key, !.filter = list.filter, !.moved = gone]
  OBVIOUS
<1>4. l = [c EXCEPT !.edges = list.edges \o @, !.key = Key, !.filter = list.filter,
                    !.moved = \/ list.moved
                              \/ loading.key # Key \/ loading.filter # list.filter]
  BY <1>3
<1>5. /\ DOMAIN l = DOMAIN c /\ l.edges = both /\ l.key = Key /\ l.filter = list.filter
      /\ l.moved = gone /\ l.end = c.end
  <2> HIDE DEF both, gone, list
  <2>1. QED
    BY <1>3 DEF IsList
<1>6. IsList(l, launched)
  <2>1. /\ list.key = Key /\ Key \in Keys /\ list.filter \in Filters /\ Ids(both) \subseteq 1 .. launched
    BY <1>1, <1>2 DEF IsList
  <2> HIDE DEF both, list
  <2>2. QED
    BY <1>2, <1>5, <2>1 DEF IsList
<1>7. ListInv(l, db)
  BY <1>5 DEF ListInv
<1>8. QED
  BY <1>1, <1>2, <1>4, <1>5, <1>6, <1>7

LEMMA MergeMoreKeeps ==
  ASSUME PagesInv, MergeMore
  PROVE  PagesInv'
<1> DEFINE list == cache[Key]
           Appended(c) ==
             [c EXCEPT !.edges = list.edges \o @, !.key = Key, !.filter = list.filter,
                       !.moved = \/ list.moved
                                 \/ loading.key # Key \/ loading.filter # list.filter]
           I == RowIds(db, Key, list.filter)
<1>1. /\ db' = db /\ launched' = launched /\ initialTokens' = initialTokens
      /\ loading' = NoRequest /\ fetching' = fetching /\ polling' = polling
      /\ sortBy' = sortBy /\ statusFilter' = statusFilter /\ searchQuery' = searchQuery /\ search' = search
      /\ loading.at # "none"
      /\ \/ /\ Key \in DOMAIN cache /\ cache' = CacheWith(Key, Appended(Connection(loading)))
            /\ entities' = Normalised(loading.edges)
         \/ /\ Key \in DOMAIN cache /\ cache' = CacheWith(Key, Appended(EmptyConnection(loading)))
            /\ entities' = entities
         \/ cache' = cache /\ entities' = entities
  BY DEF MergeMore, databaseVars, choiceVars
<1>2. /\ IsQuery(loading, launched) /\ LoadInv(loading, cache, db) /\ launched \in Nat
      /\ loading.edges \in Seq(Token) /\ loading.from \in Nat /\ Len(loading.edges) \in Nat
      /\ (loading.edges # <<>> => Len(loading.edges) > 0)
  BY IdsOfEdges DEF PagesInv, TableInv, QueriesInv, IsQuery
<1>3. ASSUME Key \in DOMAIN cache
      PROVE  IsList(list, launched) /\ ListInv(list, db) /\ list.key = Key
             /\ IsFiniteSet(I) /\ I \in SUBSET Nat
             /\ list.edges \in Seq(Token) /\ list.end \in Int /\ list.end >= -1
  BY <1>3, FoundIsTable DEF PagesInv, TableInv, ListsInv, CacheInv, IsList
<1>4. ASSUME Key \in DOMAIN cache, ~list.moved, Key.order = Newest,
             loading.key = Key, loading.filter = list.filter
      PROVE  /\ list.edges # <<>> /\ loading.from = list.end + 1 /\ Listed(list.edges, list.end, I)
             /\ PageFound(loading.edges, loading.from, I) /\ Joins(loading.edges, list.edges, I)
  BY <1>1, <1>2, <1>3, <1>4 DEF LoadInv, ListInv
<1>5. ASSUME Key \in DOMAIN cache
      PROVE  LET l == Appended(Connection(loading))
             IN  /\ IsList(l, launched) /\ ListInv(l, db) /\ l.key = Key
                 /\ Ids(l.edges) \subseteq DOMAIN entities \cup Ids(loading.edges)
  <2> DEFINE c == Connection(loading)
  <2>1. /\ c.edges = loading.edges
        /\ c.end = IF loading.edges = <<>> THEN -1 ELSE loading.from + Len(loading.edges) - 1
    BY ConnectionFields
  <2>2. IsList(c, launched)
    <3>1. c.end \in Int /\ c.end >= -1
      BY <1>2, <2>1
    <3>2. QED
      BY <1>2, <3>1, ConnectionFields DEF IsQuery, IsList
  <2>3. ASSUME ~list.moved, Key.order = Newest, loading.key = Key, loading.filter = list.filter
        PROVE  Listed(list.edges \o c.edges, c.end, I)
    <3>1. c.end = IF loading.edges = <<>> THEN -1 ELSE list.end + Len(loading.edges)
      BY <1>2, <1>3, <1>4, <1>5, <2>1, <2>3
    <3>2. /\ list.edges # <<>> /\ Listed(list.edges, list.end, I)
          /\ PageFound(loading.edges, list.end + 1, I) /\ Joins(loading.edges, list.edges, I)
      BY <1>4, <1>5, <2>3
    <3>3. /\ IsFiniteSet(I) /\ I \in SUBSET Nat
          /\ list.edges \in Seq(Token) /\ list.end \in Int /\ list.end >= -1
      BY <1>3, <1>5
    <3> HIDE DEF I, list, c
    <3>4. Listed(list.edges \o loading.edges,
                 IF loading.edges = <<>> THEN -1 ELSE list.end + Len(loading.edges), I)
      BY <1>2, <3>2, <3>3, AppendedIsListed
    <3>5. QED
      BY <2>1, <3>1, <3>4
  <2>4. c.edges \in Seq(Token)
    BY <1>2, <2>1
  <2> HIDE DEF c
  <2>5. QED
    BY <1>5, <2>1, <2>2, <2>3, <2>4, AppendedIsList DEF c
<1>6. ASSUME Key \in DOMAIN cache
      PROVE  LET l == Appended(EmptyConnection(loading))
             IN  /\ IsList(l, launched) /\ ListInv(l, db) /\ l.key = Key
                 /\ Ids(l.edges) \subseteq DOMAIN entities
  <2> DEFINE c == EmptyConnection(loading)
  <2>1. c.edges = <<>> /\ c.end = -1 /\ IsList(c, launched)
    BY <1>2, EmptyFields, EmptyIsList
  <2>2. ASSUME ~list.moved, Key.order = Newest, loading.key = Key, loading.filter = list.filter
        PROVE  Listed(list.edges \o c.edges, c.end, I)
    <3>1. /\ list.edges # <<>> /\ Listed(list.edges, list.end, I)
          /\ IsFiniteSet(I) /\ I \in SUBSET Nat /\ list.edges \in Seq(Token) /\ list.end \in Int
          /\ list.end >= -1
      BY <1>3, <1>4, <1>6, <2>2
    <3> HIDE DEF I, list, c
    <3>2. list.edges \o c.edges = list.edges
      <4>1. list.edges \o <<>> = list.edges
        BY <3>1, ConcatEmptySeq
      <4>2. QED
        BY <2>1, <4>1
    <3>3. \A b \in I : Above(I, b) > -1
      <4>1. \A b \in I : Above(I, b) \in Nat
        BY <3>1, AboveIsNatural
      <4>2. QED
        BY <4>1
    <3>4. QED
      BY <2>1, <3>1, <3>2, <3>3 DEF Listed
  <2>3. c.edges \in Seq(Token) /\ Ids(c.edges) = {}
    BY <2>1 DEF Ids
  <2> HIDE DEF c
  <2>4. QED
    BY <1>6, <2>1, <2>2, <2>3, AppendedIsList DEF c
<1>7. CacheInv(cache', entities', db, launched) /\ EntityInv(entities')
  <2>1. EntityInv(entities)
    BY DEF PagesInv, ListsInv
  <2>2. CASE /\ Key \in DOMAIN cache /\ cache' = CacheWith(Key, Appended(Connection(loading)))
             /\ entities' = Normalised(loading.edges)
    <3>1. PICK e : e = Normalised(loading.edges)
      OBVIOUS
    <3>2. DOMAIN e = Ids(loading.edges) \cup DOMAIN entities /\ EntityInv(e)
      BY <1>2, <2>1, <3>1, Normalises
    <3>3. PICK l : l = Appended(Connection(loading))
      OBVIOUS
    <3>4. /\ IsList(l, launched) /\ ListInv(l, db) /\ l.key = Key
          /\ Ids(l.edges) \subseteq DOMAIN e
      BY <1>5, <2>2, <3>2, <3>3
    <3>5. CacheInv(CacheWith(Key, l), e, db, launched)
      BY <3>2, <3>4, CacheChanges
    <3>6. QED
      BY <2>2, <3>1, <3>2, <3>3, <3>5
  <2>3. CASE /\ Key \in DOMAIN cache /\ cache' = CacheWith(Key, Appended(EmptyConnection(loading)))
             /\ entities' = entities
    <3>1. PICK l : l = Appended(EmptyConnection(loading))
      OBVIOUS
    <3>2. /\ IsList(l, launched) /\ ListInv(l, db) /\ l.key = Key
          /\ Ids(l.edges) \subseteq DOMAIN entities
      BY <1>6, <2>3, <3>1
    <3>3. CacheInv(CacheWith(Key, l), entities, db, launched)
      BY <2>1, <3>2, CacheChanges
    <3>4. QED
      BY <2>1, <2>3, <3>1, <3>3
  <2>4. CASE cache' = cache /\ entities' = entities
    BY <2>4 DEF PagesInv, ListsInv
  <2>5. QED
    BY <1>1, <2>2, <2>3, <2>4
<1>8. IsQuery(NoRequest, launched) /\ LoadInv(NoRequest, cache', db)
  BY <1>2, NoQuery DEF LoadInv
<1>9. QED
  BY <1>1, <1>7, <1>8 DEF PagesInv, ListsInv, QueriesInv, ChoiceInv

(* The first page is all there is of a table without gaps.                 *)
LEMMA PagesStart ==
  ASSUME BrowseInit
  PROVE  PagesInv
<1> DEFINE q == [NoRequest EXCEPT !.edges = Slice(InOrder(FirstKey.order, db), 0),
                                  !.total = Cardinality(db)]
<1>1. /\ sortBy = "new" /\ statusFilter = "ALL" /\ searchQuery = "" /\ search = ""
      /\ fetching = Ask(FirstKey, "ALL", -1) /\ polling = NoRequest /\ loading = NoRequest
      /\ initialTokens \in {Connection(q), EmptyConnection(NoRequest)}
  BY DEF BrowseInit, GetInitialTokens
<1>2. /\ launched = FirstTokens /\ launched \in Nat
  BY BrowseAssumption DEF BrowseInit
<1>3. TableInv(db, launched)
  <2> DEFINE row == [i \in 1 .. FirstTokens |->
                       [id |-> i, volume |-> 0, graduated |-> i <= FirstGraduated]]
  <2>1. \A i \in 1 .. FirstTokens : row[i] \in Token /\ row[i].id = i
    <3>1. SUFFICES ASSUME NEW i \in 1 .. FirstTokens
                   PROVE  row[i] \in Token /\ row[i].id = i
      OBVIOUS
    <3>2. i \in Nat /\ 0 \in Nat
      BY <1>2
    <3>3. FirstGraduated \in Nat
      BY BrowseAssumption
    <3>4. (i <= FirstGraduated) \in BOOLEAN
      BY <3>2, <3>3
    <3>5. row[i] = [id |-> i, volume |-> 0, graduated |-> i <= FirstGraduated]
      OBVIOUS
    <3>6. QED
      BY <3>2, <3>4, <3>5, Zenon DEF Token
  <2>2. db = {row[i] : i \in 1 .. FirstTokens}
    BY DEF BrowseInit
  <2>3. IsFiniteSet(1 .. FirstTokens)
    BY <1>2, FS_Interval
  <2>4. row \in [1 .. FirstTokens -> db]
    BY <2>2
  <2> HIDE DEF row
  <2>5. IsFiniteSet(db)
    <3>1. row \in Surjection(1 .. FirstTokens, db)
      BY <2>2, <2>4 DEF Surjection
    <3>2. QED
      BY <2>3, <3>1, FS_Surjection
  <2>6. \A t \in db : t \in Token /\ t.id \in 1 .. FirstTokens /\ t = row[t.id]
    BY <2>1, <2>2
  <2>7. \A t, u \in db : t.id = u.id => t = u
    BY <2>6
  <2>8. QED
    BY <1>2, <2>5, <2>6, <2>7 DEF TableInv, Table
<1>4. FoundIn(db, FirstKey, "ALL") = db
  <2>1. \A t \in db : t.id \in SearchHits[""]
    <3>1. \A n \in 1 .. FirstTokens : n \in SearchHits[""]
      <4>1. \A n \in 1 .. FirstTokens : n \in 1 .. FirstTokens + LaunchBound
        <5>1. FirstTokens \in Nat /\ LaunchBound \in Nat
          BY BrowseAssumption
        <5>2. QED
          BY <5>1
      <4>2. QED
        BY <4>1, BrowseAssumption
    <3>2. QED
      BY <1>2, <1>3, <3>1 DEF TableInv
  <2>2. FirstKey.search = ""
    BY DEF FirstKey, QueryKey
  <2>3. QED
    BY <2>1, <2>2 DEF FoundIn, Matches
<1>5. FirstKey.order = Newest /\ FirstKey \in Keys
  <2>1. "new" \in DOMAIN sortToOrderBy /\ "" \in DOMAIN SearchHits
    BY BrowseAssumption DEF sortToOrderBy
  <2>2. QED
    BY <2>1, KeyOfChoice DEF FirstKey, QueryKey, sortToOrderBy, Newest
<1>6. /\ IsQuery(NoRequest, launched) /\ NoRequest.at = "none" /\ NoRequest.from = 0
      /\ NoRequest.edges = <<>> /\ ReadInv(NoRequest, db)
      /\ NoRequest.key = FirstKey /\ NoRequest.filter = "ALL"
  BY <1>2, NoQuery, NothingRead DEF NoRequest
<1>7. IsList(EmptyConnection(NoRequest), launched) /\ ListInv(EmptyConnection(NoRequest), db)
  BY <1>2, <1>6, EmptyIsList
<1>8. IsList(Connection(q), launched) /\ ListInv(Connection(q), db)
  <2> DEFINE page == Slice(InOrder(FirstKey.order, db), 0)
  <2>1. /\ page \in Seq(Token) /\ PageFound(page, 0, IdsOf(db)) /\ Ids(page) \subseteq IdsOf(db)
    BY <1>3, <1>5, PageIsFound DEF TableInv
  <2>2. IdsOf(db) \subseteq 1 .. launched
    BY <1>3 DEF TableInv, IdsOf
  <2>3. PICK m : m = Cardinality(db)
    OBVIOUS
  <2>4. q = [NoRequest EXCEPT !.edges = page, !.total = m]
    BY <2>3
  <2> HIDE DEF page, q
  <2>5. /\ DOMAIN q = DOMAIN NoRequest /\ q.edges = page /\ q.key = NoRequest.key
        /\ q.filter = NoRequest.filter /\ q.from = NoRequest.from
    BY <1>6, <2>4 DEF IsQuery
  <2>6. ReadInv(q, db)
    BY <1>4, <1>6, <2>1, <2>5 DEF ReadInv, RowIds
  <2>7. PICK r : r = [q EXCEPT !.at = "answered"]
    OBVIOUS
  <2>8. /\ DOMAIN r = DOMAIN q /\ r.edges = page /\ r.key = q.key /\ r.filter = q.filter
        /\ r.from = q.from /\ r.at = "answered" /\ r.old = q.old /\ r.total = q.total
    BY <1>6, <2>5, <2>7 DEF IsQuery
  <2>9. IsQuery(r, launched)
    BY <1>6, <2>1, <2>2, <2>5, <2>8 DEF IsQuery
  <2>10. ReadInv(r, db)
    BY <2>5, <2>6, <2>8 DEF ReadInv
  <2>11. Connection(q) = Connection(r)
    BY <2>5, <2>8 DEF Connection
  <2>12. QED
    BY <1>2, <1>3, <2>9, <2>10, <2>11, FirstPageIsList
<1>9. /\ IsQuery(fetching, launched) /\ ReadInv(fetching, db)
  <2>1. -1 \in Int /\ -1 >= -1 /\ -1 + 1 = 0 /\ launched \in Nat
    BY <1>2
  <2>2. IsQuery(fetching, launched) /\ fetching.from = 0 /\ fetching.edges = <<>>
    <3>1. "ALL" \in Filters
      BY DEF Filters
    <3>2. fetching = Ask(FirstKey, "ALL", -1)
      BY <1>1
    <3>3. /\ IsQuery(Ask(FirstKey, "ALL", -1), launched)
          /\ Ask(FirstKey, "ALL", -1).from = 0 /\ Ask(FirstKey, "ALL", -1).edges = <<>>
      BY <1>5, <2>1, <3>1, AskedQuery
    <3>4. QED
      BY <3>2, <3>3
  <2>3. QED
    BY <2>2, NothingRead
<1> HIDE DEF q
<1>10. ListsInv
  <2>1. IsList(initialTokens, launched) /\ ListInv(initialTokens, db)
    BY <1>1, <1>7, <1>8
  <2>2. CacheInv(cache, entities, db, launched) /\ EntityInv(entities)
    <3>1. DOMAIN cache = {} /\ DOMAIN entities = {}
      <4>1. cache = <<>> /\ entities = <<>>
        BY DEF BrowseInit
      <4>2. QED
        BY <4>1
    <3>2. QED
      BY <3>1 DEF CacheInv, EntityInv
  <2>3. QED
    BY <2>1, <2>2 DEF ListsInv
<1>11. QueriesInv
  BY <1>1, <1>6, <1>9, NothingLoading DEF QueriesInv
<1>12. ChoiceInv
  BY <1>1, BrowseAssumption DEF ChoiceInv, Filters, sortToOrderBy
<1>13. QED
  BY <1>3, <1>10, <1>11, <1>12 DEF PagesInv

LEMMA PagesStep ==
  ASSUME PagesInv, [BrowseNext]_browseVars
  PROVE  PagesInv'
<1>1. CASE UNCHANGED browseVars
  BY <1>1, NothingMoves DEF browseVars, choiceVars, listVars, requestVars
<1>2. CASE LaunchToken
  BY <1>2, LaunchKeeps
<1>3. CASE \E t \in db : Graduates(t) \/ Traded(t) \/ DeleteTransactions(t) \/ DeleteToken(t)
  BY <1>3, GraduatesKeeps, TradedKeeps, DeleteKeeps
<1>4. CASE Resolve
  BY <1>4, ResolveKeeps
<1>5. CASE (\E f \in Filters : SetStatusFilter(f)) \/ ViewAllGraduated
  <2>1. "GRADUATED" \in Filters
    BY DEF Filters
  <2>2. QED
    BY <1>5, <2>1, StatusKeeps DEF ViewAllGraduated
<1>6. CASE \E s \in Sorts : SetSortBy(s)
  BY <1>6, SortKeeps
<1>7. CASE (\E term \in DOMAIN SearchHits : SetSearchQuery(term)) \/ Debounce
  BY <1>7, SearchKeeps
<1>8. CASE HandleLoadMore
  BY <1>8, LoadMoreKeeps
<1>9. CASE PollTokens
  BY <1>9, PollingKeeps
<1>10. CASE MergeFetch \/ MergePoll
  <2>1. /\ IsQuery(fetching, launched) /\ ReadInv(fetching, db)
        /\ IsQuery(polling, launched) /\ ReadInv(polling, db)
    BY DEF PagesInv, QueriesInv
  <2>2. QED
    BY <1>10, <2>1, MergeKeeps DEF MergeFetch, MergePoll
<1>11. CASE MergeMore
  BY <1>11, MergeMoreKeeps
<1>12. CASE RequestFails
  BY <1>12, FailingKeeps
<1>13. QED
  BY <1>1, <1>2, <1>3, <1>4, <1>5, <1>6, <1>7, <1>8, <1>9, <1>10, <1>11, <1>12 DEF BrowseNext

(* What is listed shows it.                                                *)
LEMMA OffsetIsNewer ==
  ASSUME NEW S, Table(S), NEW t
  PROVE  Offset(Newest, S, t) = Above(IdsOf(S), t.id)
BY OffsetIsAbove

LEMMA PagesShow ==
  ASSUME PagesInv
  PROVE  PagesLeaveNoGap
<1> DEFINE list == TokensConnection
           found == Found(Key, statusFilter)
           ids == {Grid[i].token.id : i \in DOMAIN Grid}
<1>1. /\ IsList(list, launched) /\ ListInv(list, db) /\ DOMAIN Grid = DOMAIN list.edges
      /\ \A i \in DOMAIN Grid : Grid[i].token.id = list.edges[i].id
  BY ShownAreListed
<1>2. Table(found) /\ RowIds(db, Key, statusFilter) = IdsOf(found)
  <2>1. found = FoundIn(db, Key, statusFilter)
    BY DEF Found, FoundIn
  <2>2. QED
    BY <2>1, FoundIsTable DEF PagesInv, TableInv, RowIds
<1> HIDE DEF list, found
<1>3. ids = Ids(list.edges)
  BY <1>1 DEF Ids
<1> HIDE DEF ids
<1>4. ASSUME ~list.moved, list.key = Key, list.filter = statusFilter, Key.order = Newest,
             NEW a \in found, NEW b \in found, NEW c \in found,
             a.id > b.id, b.id > c.id, {a.id, c.id} \subseteq ids,
             a.id <= Grid[1].token.id \/ Offset(Key.order, found, Grid[1].token) <= PageSize
      PROVE  b.id \in ids
  <2>1. Gapless(list.edges, IdsOf(found))
    BY <1>1, <1>2, <1>4 DEF ListInv, Listed
  <2>2. list.edges # <<>>
    BY <1>1, <1>3, <1>4, IdsOfEdges DEF IsList
  <2>3. 1 \in DOMAIN list.edges
    BY <1>1, <2>2, IdsOfEdges DEF IsList
  <2>4. Grid[1].token.id = list.edges[1].id
    BY <1>1, <2>3
  <2>5. Offset(Key.order, found, Grid[1].token) = Above(IdsOf(found), Grid[1].token.id)
    BY <1>2, <1>4, OffsetIsNewer
  <2>6. a.id \in ids /\ c.id \in ids /\ b.id \in IdsOf(found)
    BY <1>4 DEF IdsOf
  <2>7. QED
    BY <1>3, <1>4, <2>1, <2>4, <2>5, <2>6 DEF Gapless
<1>5. QED
  BY <1>4 DEF PagesLeaveNoGap, Newest, list, found, ids

(* In the order of creation no token is missing between two tokens of the  *)
(* grid (PagesLeaveNoGap), whatever is launched, asked for and appended.   *)
THEOREM PagesAreGapless == BrowseSpec => []PagesLeaveNoGap
<1>1. BrowseInit => PagesInv
  BY PagesStart
<1>2. PagesInv /\ [BrowseNext]_browseVars => PagesInv'
  BY PagesStep
<1>3. PagesInv => PagesLeaveNoGap
  BY PagesShow
<1>4. QED
  BY <1>1, <1>2, <1>3, PTL DEF BrowseSpec

-----------------------------------------------------------------------------
(***************************************************************************)
(* The loaders.  LoaderInv: what a request holds for a key are rows about    *)
(* that key, also in batches in which other keys have none; and the        *)
(* creator of a row never changes once it is written.                      *)
(***************************************************************************)
LoaderInv ==
  /\ tokenRows \in [QueryTokens -> [creator : Addresses \cup {"none"}, recent : BOOLEAN]]
  /\ \A k \in LoaderKeys : loaded[k].rows \subseteq QueryTokens
  /\ LoadsAnswerTheirKeys

LEMMA LoadersStart ==
  ASSUME QueriesInit
  PROVE  LoaderInv
BY DEF QueriesInit, LoaderInv, LoadsAnswerTheirKeys, NoRow, NotLoaded

(* The rows of a key are about it.                                         *)
LEMMA RowsAnswer ==
  ASSUME NEW k \in LoaderKeys, NEW t \in RowsOf(k)
  PROVE  t \in QueryTokens /\ IF k \in QueryTokens THEN t = k ELSE tokenRows[t].creator = k
BY DEF RowsOf

LEMMA BatchKeeps ==
  ASSUME LoaderInv, NEW l \in Loaders, LoadBatch(l)
  PROVE  LoaderInv'
<1> PICK keys : keys = wanted[l]
  OBVIOUS
<1>1. /\ tokenRows' = tokenRows
      /\ loaded' = [k \in LoaderKeys |->
                       IF \E i \in DOMAIN keys : keys[i] = k
                       THEN [found |-> TRUE,
                             rows |-> BatchAnswers(keys)[CHOOSE i \in DOMAIN keys : keys[i] = k]]
                       ELSE loaded[k]]
  BY DEF LoadBatch, loaderVars
<1>2. ASSUME NEW k \in LoaderKeys
      PROVE  loaded'[k] = loaded[k] \/ loaded'[k].rows = RowsOf(k)
  <2>1. CASE \E i \in DOMAIN keys : keys[i] = k
    <3>1. PICK i \in DOMAIN keys : i = CHOOSE j \in DOMAIN keys : keys[j] = k
      BY <2>1
    <3>2. keys[i] = k
      BY <2>1, <3>1
    <3>3. BatchAnswers(keys)[i] = RowsOf(k)
      BY <3>1, <3>2 DEF BatchAnswers
    <3>4. QED
      BY <1>1, <2>1, <3>1, <3>3
  <2>2. CASE ~ \E i \in DOMAIN keys : keys[i] = k
    BY <1>1, <2>2
  <2>3. QED
    BY <2>1, <2>2
<1>3. ASSUME NEW k \in LoaderKeys, NEW t \in loaded'[k].rows
      PROVE  t \in QueryTokens /\ IF k \in QueryTokens THEN t = k ELSE tokenRows[t].creator = k
  BY <1>2, RowsAnswer DEF LoaderInv, LoadsAnswerTheirKeys
<1>4. QED
  BY <1>1, <1>3 DEF LoaderInv, LoadsAnswerTheirKeys

(* The indexer only adds rows, and a day that passes changes no creator.   *)
LEMMA TokenRowsKeep ==
  ASSUME LoaderInv, loaded' = loaded, DayPasses \/ \E t \in QueryTokens, a \in Addresses : WriteToken(t, a)
  PROVE  LoaderInv'
<1> DEFINE Creators == [creator : Addresses \cup {"none"}, recent : BOOLEAN]
<1>1. tokenRows' \in [QueryTokens -> Creators]
  <2>1. tokenRows \in [QueryTokens -> Creators]
    BY DEF LoaderInv
  <2>2. CASE DayPasses
    <3>1. \A t \in QueryTokens : [tokenRows[t] EXCEPT !.recent = FALSE] \in Creators
      BY <2>1
    <3>2. QED
      BY <2>2, <3>1 DEF DayPasses
  <2>3. ASSUME NEW t \in QueryTokens, NEW a \in Addresses, WriteToken(t, a)
        PROVE  tokenRows' \in [QueryTokens -> Creators]
    BY <2>1, <2>3 DEF WriteToken
  <2>4. QED
    BY <2>2, <2>3
<1>2. ASSUME NEW t \in QueryTokens, tokenRows[t].creator # "none"
      PROVE  tokenRows'[t].creator = tokenRows[t].creator
  <2>1. CASE DayPasses
    BY <2>1 DEF LoaderInv, DayPasses
  <2>2. ASSUME NEW u \in QueryTokens, NEW a \in Addresses, WriteToken(u, a)
        PROVE  tokenRows'[t].creator = tokenRows[t].creator
    <3>1. u # t
      BY <1>2, <2>2 DEF WriteToken, NoRow
    <3>2. QED
      BY <2>2, <3>1 DEF LoaderInv, WriteToken
  <2>3. QED
    BY <2>1, <2>2
<1>3. ASSUME NEW k \in LoaderKeys, NEW t \in loaded[k].rows, k \notin QueryTokens
      PROVE  tokenRows'[t].creator = k
  <2>1. t \in QueryTokens /\ tokenRows[t].creator = k /\ k \in Addresses
    BY <1>3 DEF LoaderInv, LoadsAnswerTheirKeys, LoaderKeys
  <2>2. k # "none"
    BY <2>1, GatewayQueriesAssumption
  <2>3. QED
    BY <1>2, <2>1, <2>2
<1>4. QED
  BY <1>1, <1>3 DEF LoaderInv, LoadsAnswerTheirKeys

LEMMA LoadersStep == LoaderInv /\ [QueriesNext]_queryVars => LoaderInv'
<1> SUFFICES ASSUME LoaderInv, [QueriesNext]_queryVars PROVE LoaderInv'
  OBVIOUS
<1>1. CASE UNCHANGED <<tokenRows, loaded>>
  BY <1>1 DEF LoaderInv, LoadsAnswerTheirKeys
<1>2. CASE \E l \in Loaders : LoadBatch(l)
  BY <1>2, BatchKeeps
<1>3. CASE DayPasses \/ \E t \in QueryTokens, a \in Addresses : WriteToken(t, a)
  BY <1>3, TokenRowsKeep DEF DayPasses, WriteToken
<1>4. CASE RequestEnds
  BY <1>4 DEF RequestEnds, LoaderInv, LoadsAnswerTheirKeys, NotLoaded
<1>5. QED
  <2>1. CASE \E type \in BoardTypes : \/ BoardExpires(type)
                                      \/ \E timeframe \in {"DAY", "ALL_TIME"} : Leaderboard(type, timeframe)
    BY <1>1, <2>1 DEF BoardExpires, Leaderboard, loaderVars
  <2>2. CASE \E a \in Addresses, n \in RowAmounts, type \in {"TOKEN_BOUGHT", "TOKEN_SOLD"} : WriteTrade(a, type, n)
    BY <1>1, <2>2 DEF WriteTrade, loaderVars
  <2>3. CASE \E l \in Loaders : \E k \in KeysOf(l) : Load(l, k)
    BY <1>1, <2>3 DEF Load
  <2>4. CASE \E t \in QueryTokens : \/ FeeDashboard(t)
                                    \/ \E total, day \in FeeTotals : UpsertFees(t, total, day)
    BY <1>1, <2>4 DEF FeeDashboard, UpsertFees, loaderVars
  <2>5. CASE UNCHANGED queryVars
    BY <1>1, <2>5 DEF queryVars, loaderVars
  <2>6. QED
    BY <1>2, <1>3, <1>4, <2>1, <2>2, <2>3, <2>4, <2>5 DEF QueriesNext

(* What a request is given for a key is about that key (graphql/loaders.ts,*)
(* "in the same order as requested"), for any number of keys, tokens and   *)
(* creators, in whatever batches they are asked for.                       *)
THEOREM LoadsAlwaysAnswerTheirKeys == QueriesSpec => []LoadsAnswerTheirKeys
<1>1. LoaderInv => LoadsAnswerTheirKeys
  BY DEF LoaderInv
<1>2. QED
  BY <1>1, LoadersStart, LoadersStep, PTL DEF QueriesSpec

-----------------------------------------------------------------------------
(***************************************************************************)
(* The sharing of the fees.  Everything is counted in units of 1/PRECISION *)
(* of a token, in which the reward per share is exact: a staker's part of  *)
(* the rewards of token t is then amount * accPerShare[t] less the debt,   *)
(* and the pool covers the sum of these.  A claim takes from both sides    *)
(* alike; a stake or an unstake writes a debt that may be nearly a whole   *)
(* token too small, which is the stakeMoves of the property.               *)
(***************************************************************************)
StakeRecords == [amount : Nat, debt : Nat]
Staked == [u \in Stakers |-> stakeOf[u].amount]

\* What a staker has in the pool of token t, and the rewards not settled yet.
Principal(t, u) == IF t = StakeToken THEN stakeOf[u].amount ELSE 0
Accrued(t, u) ==
  IF t \in Range(rewardTokens)
  THEN stakeOf[u].amount * accPerShare[t] - PRECISION * stakeOf[u].debt
  ELSE 0
OwedOf(t) == [u \in Stakers |-> PRECISION * Principal(t, u) + Accrued(t, u)]

(* As long as one token at most was ever a reward, no debt passes what its *)
(* stake has earned, and no other token has a reward per share.            *)
DebtsFit ==
  \A t \in FeeTokens, u \in Stakers :
     IF t \in Range(rewardTokens)
     THEN PRECISION * stakeOf[u].debt <= stakeOf[u].amount * accPerShare[t]
     ELSE accPerShare[t] = 0
DebtsStart == rewardTokens = << >> => \A u \in Stakers : stakeOf[u].debt = 0

PoolCovers ==
  \A t \in FeeTokens :
     SumFunctionOnSet(OwedOf(t), Stakers)
       <= PRECISION * (held["pool"][t] + drawn["pool"][t] + stakeMoves)

DistributorCovers ==
  \A t \in FeeTokens : held["distributor"][t] + drawn["distributor"][t] >= pendingFees[t]

SharingInv ==
  /\ SharingTypeOK
  /\ DistributorCovers
  /\ poolTotal = SumFunctionOnSet(Staked, Stakers)
  /\ DebtsStart
  /\ Len(rewardTokens) <= 1 => DebtsFit /\ PoolCovers

LEMMA SharingConstants ==
  /\ IsFiniteSet(Stakers) /\ StakeToken \in FeeTokens
  /\ PRECISION \in Nat /\ PRECISION > 0
  /\ Amounts \subseteq Int /\ Minimums \subseteq Int /\ MoveBound \in Nat
  /\ \A s \in Splits : /\ s.treasury \in Nat /\ s.staking \in Nat
                       /\ s.burn \in Nat /\ s.minimum \in Int
BY SharingAssumption

(* A list of one token is that token.                                      *)
LEMMA OneReward ==
  ASSUME NEW s \in Seq(FeeTokens), Len(s) <= 1, s # << >>
  PROVE  Range(s) = {s[1]} /\ Last(s) = s[1] /\ s[1] \in FeeTokens
<1>1. Len(s) = 1
  <2>1. Len(s) \in Nat \ {0}
    BY EmptySeq
  <2>2. QED
    BY <2>1
<1>2. DOMAIN s = 1 .. 1 /\ s[1] \in FeeTokens
  BY <1>1
<1>3. QED
  BY <1>1, <1>2 DEF Range, Last

(* Listing a token.                                                        *)
LEMMA TokenListed ==
  ASSUME NEW s \in Seq(FeeTokens), NEW t \in FeeTokens
  PROVE  /\ WithToken(s, t) \in Seq(FeeTokens) /\ WithToken(s, t) # << >>
         /\ Range(WithToken(s, t)) = Range(s) \cup {t}
         /\ Len(WithToken(s, t)) >= Len(s)
         /\ s # << >> /\ t \notin Range(s) => Len(WithToken(s, t)) >= 2
<1>1. CASE t \in Range(s)
  BY <1>1 DEF WithToken, Range
<1>2. CASE t \notin Range(s)
  <2>1. WithToken(s, t) = Append(s, t)
    BY <1>2 DEF WithToken
  <2>2. Range(Append(s, t)) = Range(s) \cup {t}
    <3>1. DOMAIN Append(s, t) = 1 .. Len(s) + 1 /\ DOMAIN s = 1 .. Len(s) /\ Len(s) \in Nat
      OBVIOUS
    <3>2. \A i \in 1 .. Len(s) : Append(s, t)[i] = s[i]
      OBVIOUS
    <3>3. Append(s, t)[Len(s) + 1] = t
      OBVIOUS
    <3>4. QED
      BY <3>1, <3>2, <3>3 DEF Range
  <2>3. QED
    BY <2>1, <2>2
<1>3. QED
  BY <1>1, <1>2

(* A staker owes nothing negative.                                         *)
LEMMA OwedTypes ==
  ASSUME SharingTypeOK, NEW t \in FeeTokens, NEW u \in Stakers
  PROVE  /\ OwedOf(t)[u] \in Int /\ Staked[u] \in Nat /\ Staked[u] = stakeOf[u].amount
         /\ OwedOf(t)[u] = PRECISION * Principal(t, u) + Accrued(t, u)
         /\ Principal(t, u) \in Nat /\ Accrued(t, u) \in Int
         /\ stakeOf[u].amount \in Nat /\ stakeOf[u].debt \in Nat /\ accPerShare[t] \in Nat
<1>1. stakeOf[u].amount \in Nat /\ stakeOf[u].debt \in Nat /\ accPerShare[t] \in Nat
  BY DEF SharingTypeOK
<1>2. Principal(t, u) \in Nat /\ PRECISION * Principal(t, u) \in Int
  BY <1>1, SharingConstants DEF Principal
<1>3. stakeOf[u].amount * accPerShare[t] \in Int /\ PRECISION * stakeOf[u].debt \in Int
  BY <1>1, SharingConstants
<1>4. Accrued(t, u) \in Int
  BY <1>3 DEF Accrued
<1>5. QED
  BY <1>1, <1>2, <1>4 DEF OwedOf, Staked

LEMMA OwedSum ==
  ASSUME SharingTypeOK, NEW t \in FeeTokens
  PROVE  SumFunctionOnSet(OwedOf(t), Stakers) \in Int
<1>1. \A u \in Stakers : OwedOf(t)[u] \in Int
  BY OwedTypes
<1>2. QED
  BY <1>1, SumMonotone, SharingConstants

(* The invariant is stronger than the property.                            *)
LEMMA CoveredClaims ==
  ASSUME SharingInv
  PROVE  ClaimsAreCovered
<1> SUFFICES ASSUME NEW t \in FeeTokens
             PROVE  /\ held["distributor"][t] + drawn["distributor"][t] >= pendingFees[t]
                    /\ Len(rewardTokens) <= 1 =>
                         held["pool"][t] + drawn["pool"][t] + stakeMoves
                           >= SumFunctionOnSet(ClaimsOn(t), Stakers)
  BY DEF ClaimsAreCovered
<1>1. held["distributor"][t] + drawn["distributor"][t] >= pendingFees[t]
  BY DEF SharingInv, DistributorCovers
<1>2. ASSUME Len(rewardTokens) <= 1
      PROVE  held["pool"][t] + drawn["pool"][t] + stakeMoves
               >= SumFunctionOnSet(ClaimsOn(t), Stakers)
  <2> DEFINE Exact == [u \in Stakers |-> PRECISION * ClaimsOn(t)[u]]
  <2>1. ASSUME NEW u \in Stakers
        PROVE  ClaimsOn(t)[u] \in Int /\ Exact[u] = PRECISION * ClaimsOn(t)[u] /\ Exact[u] \in Int
                 /\ Exact[u] <= OwedOf(t)[u]
    <3> DEFINE a == stakeOf[u].amount
               d == stakeOf[u].debt
               acc == accPerShare[t]
    <3>1. a \in Nat /\ d \in Nat /\ acc \in Nat /\ a * acc \in Nat
      BY OwedTypes, ProductNat DEF SharingInv
    <3>2. ClaimsOn(t)[u] = Principal(t, u) + Harvested(u, t) /\ Principal(t, u) \in Nat
      BY OwedTypes DEF SharingInv, ClaimsOn, Principal
    <3>3. Harvested(u, t) \in Nat /\ PRECISION * Harvested(u, t) <= Accrued(t, u)
      <4>1. CASE t \notin Range(rewardTokens)
        BY <4>1, SharingConstants DEF Harvested, Accrued
      <4>2. CASE t \in Range(rewardTokens)
        <5>1. PRECISION * d <= a * acc /\ Accrued(t, u) = a * acc - PRECISION * d
          BY <1>2, <4>2 DEF SharingInv, DebtsFit, Accrued
        <5> DEFINE q == (a * acc) \div PRECISION
        <5>2. q \in Nat /\ q * PRECISION <= a * acc
          BY <3>1, SharingConstants, DivFloor
        <5>3. Harvested(u, t) = 0 \/ (Harvested(u, t) = q - d /\ q - d > 0)
          BY DEF Harvested, PendingReward
        <5> HIDE DEF q, a, d, acc
        <5>4. PRECISION * (q - d) = q * PRECISION - PRECISION * d
          BY <3>1, <5>2, SharingConstants
        <5>5. QED
          BY <3>1, <5>1, <5>2, <5>3, <5>4, SharingConstants
      <4>3. QED
        BY <4>1, <4>2
    <3>4. PRECISION * (Principal(t, u) + Harvested(u, t))
            = PRECISION * Principal(t, u) + PRECISION * Harvested(u, t)
      BY <3>2, <3>3, SharingConstants
    <3>5. QED
      BY <3>2, <3>3, <3>4, OwedTypes, SharingConstants DEF SharingInv
  <2>2. SumFunctionOnSet(ClaimsOn(t), Stakers) \in Int
        /\ SumFunctionOnSet(Exact, Stakers) = PRECISION * SumFunctionOnSet(ClaimsOn(t), Stakers)
    <3>1. IsScaled(Exact, PRECISION, ClaimsOn(t), Stakers)
      BY <2>1 DEF IsScaled
    <3> HIDE DEF Exact
    <3>2. QED
      BY <2>1, <3>1, SumScaled, SharingConstants
  <2>3. SumFunctionOnSet(Exact, Stakers) \in Int /\ SumFunctionOnSet(OwedOf(t), Stakers) \in Int
        /\ SumFunctionOnSet(Exact, Stakers) <= SumFunctionOnSet(OwedOf(t), Stakers)
    <3>1. \A u \in Stakers : OwedOf(t)[u] \in Int
      BY OwedTypes DEF SharingInv
    <3> HIDE DEF Exact
    <3>2. QED
      BY <2>1, <3>1, SumMonotone, SharingConstants
  <2> DEFINE h == held["pool"][t] + drawn["pool"][t] + stakeMoves
             c == SumFunctionOnSet(ClaimsOn(t), Stakers)
  <2>4. h \in Int
    BY DEF SharingInv, SharingTypeOK, SharedBy
  <2>5. SumFunctionOnSet(OwedOf(t), Stakers) <= PRECISION * h
    BY <1>2 DEF SharingInv, PoolCovers
  <2> HIDE DEF h, Exact
  <2>6. c <= h
    <3>1. c \in Int /\ PRECISION * c <= PRECISION * h
      BY <2>2, <2>3, <2>4, <2>5, SharingConstants
    <3> HIDE DEF c
    <3>2. QED
      BY <2>4, <3>1, SharingConstants
  <2>7. QED
    BY <2>6 DEF h
<1>3. QED
  BY <1>1, <1>2

LEMMA SharingStarts == ASSUME SharingInit PROVE SharingInv
<1>1. SharingTypeOK
  <2>1. Nothing \in [FeeTokens -> Nat] /\ << >> \in Seq(FeeTokens)
    BY EmptySeq DEF Nothing
  <2>2. stakeOf \in [Stakers -> StakeRecords]
    BY DEF SharingInit, StakeRecords
  <2>3. minStake \in Nat \ {0} /\ splitConfig \in Splits
    BY SharingConstants DEF SharingInit
  <2>4. sharingMoves \in 0 .. MoveBound
    BY SharingConstants DEF SharingInit
  <2>5. QED
    BY <2>1, <2>2, <2>3, <2>4 DEF SharingInit, SharingTypeOK, StakeRecords
<1>2. DistributorCovers
  BY DEF SharingInit, DistributorCovers, Nothing, SharedBy
<1>3. \A u \in Stakers : stakeOf[u].amount = 0 /\ stakeOf[u].debt = 0
  BY DEF SharingInit
<1>4. \A t \in FeeTokens : t \notin Range(rewardTokens) /\ accPerShare[t] = 0
  BY DEF SharingInit, Nothing, Range
<1>5. poolTotal = SumFunctionOnSet(Staked, Stakers)
  <2>1. \A u \in Stakers : Staked[u] \in Int /\ Staked[u] >= 0 /\ Staked[u] = 0
    BY <1>3 DEF Staked
  <2>2. SumFunctionOnSet(Staked, Stakers) = 0
    BY <2>1, SumNonNegative, SharingConstants
  <2>3. QED
    BY <2>2 DEF SharingInit
<1>6. PoolCovers
  <2> SUFFICES ASSUME NEW t \in FeeTokens
               PROVE  SumFunctionOnSet(OwedOf(t), Stakers)
                        <= PRECISION * (held["pool"][t] + drawn["pool"][t] + stakeMoves)
    BY DEF PoolCovers
  <2>1. \A u \in Stakers : OwedOf(t)[u] \in Int /\ OwedOf(t)[u] >= 0 /\ OwedOf(t)[u] = 0
    BY <1>3, <1>4, SharingConstants DEF OwedOf, Principal, Accrued
  <2>2. SumFunctionOnSet(OwedOf(t), Stakers) = 0
    BY <2>1, SumNonNegative, SharingConstants
  <2>3. held["pool"][t] + drawn["pool"][t] + stakeMoves = 0
    BY DEF SharingInit, Nothing, SharedBy
  <2>4. QED
    BY <2>2, <2>3, SharingConstants
<1>7. DebtsFit /\ DebtsStart
  BY <1>3, <1>4 DEF DebtsFit, DebtsStart
<1>8. QED
  BY <1>1, <1>2, <1>5, <1>6, <1>7 DEF SharingInv

(* The parts of the invariant about the pool.                              *)
PoolInv ==
  /\ poolTotal = SumFunctionOnSet(Staked, Stakers)
  /\ DebtsStart
  /\ Len(rewardTokens) <= 1 => DebtsFit /\ PoolCovers

(* What leaves the pool's books alone takes nothing it must cover.         *)
LEMMA PoolStands ==
  ASSUME SharingInv, UNCHANGED poolVars, SharingTypeOK',
         \A t \in FeeTokens :
            held["pool"][t] + drawn["pool"][t] <= held'["pool"][t] + drawn'["pool"][t]
  PROVE  PoolInv'
<1>1. /\ stakeOf' = stakeOf /\ poolTotal' = poolTotal /\ accPerShare' = accPerShare
      /\ rewardTokens' = rewardTokens /\ stakeMoves' = stakeMoves
  BY DEF poolVars
<1>2. Staked' = Staked /\ DebtsStart' /\ (DebtsFit => DebtsFit')
  BY <1>1 DEF Staked, DebtsStart, SharingInv, DebtsFit
<1>3. ASSUME PoolCovers PROVE PoolCovers'
  <2> SUFFICES ASSUME NEW t \in FeeTokens
               PROVE  SumFunctionOnSet(OwedOf(t), Stakers)'
                        <= PRECISION * (held'["pool"][t] + drawn'["pool"][t] + stakeMoves')
    BY DEF PoolCovers
  <2>1. OwedOf(t)' = OwedOf(t)
    BY <1>1 DEF OwedOf, Principal, Accrued
  <2> DEFINE a == held["pool"][t] + drawn["pool"][t] + stakeMoves
             b == held'["pool"][t] + drawn'["pool"][t] + stakeMoves'
             c == SumFunctionOnSet(OwedOf(t), Stakers)
  <2>2. a \in Int /\ b \in Int /\ a <= b
    <3>1. /\ held["pool"][t] \in Nat /\ drawn["pool"][t] \in Nat /\ stakeMoves \in Nat
          /\ held'["pool"][t] \in Nat /\ drawn'["pool"][t] \in Nat
      BY DEF SharingInv, SharingTypeOK, SharedBy
    <3>2. QED
      BY <1>1, <3>1
  <2>3. c \in Int
    BY OwedSum DEF SharingInv
  <2>4. c <= PRECISION * a
    BY <1>3 DEF PoolCovers
  <2> HIDE DEF a, b, c
  <2>5. PRECISION * a <= PRECISION * b /\ PRECISION * a \in Int /\ PRECISION * b \in Int
    BY <2>2, SharingConstants
  <2>6. c <= PRECISION * b
    BY <2>3, <2>4, <2>5
  <2>7. QED
    BY <2>1, <2>6 DEF b, c
<1>4. QED
  BY <1>1, <1>2, <1>3 DEF SharingInv, PoolInv

(* What leaves the distributor's books alone leaves it covered.            *)
LEMMA DistributorStands ==
  ASSUME SharingInv, pendingFees' = pendingFees,
         \A t \in FeeTokens : /\ held'["distributor"][t] = held["distributor"][t]
                              /\ drawn'["distributor"][t] = drawn["distributor"][t]
  PROVE  DistributorCovers'
BY DEF SharingInv, DistributorCovers

(* One entry of what the contracts hold, or of what was drawn from them.   *)
LEMMA EntryWritten ==
  ASSUME NEW f \in [SharedBy -> [FeeTokens -> Nat]], NEW c \in SharedBy, NEW t \in FeeTokens,
         NEW n \in Int, f[c][t] + n >= 0, NEW g, g = [f EXCEPT ![c][t] = @ + n]
  PROVE  /\ g \in [SharedBy -> [FeeTokens -> Nat]]
         /\ g[c][t] = f[c][t] + n
         /\ \A d \in SharedBy, x \in FeeTokens : d # c \/ x # t => g[d][x] = f[d][x]
<1>1. f[c] \in [FeeTokens -> Nat] /\ f[c][t] \in Nat /\ f[c][t] + n \in Nat
  OBVIOUS
<1>2. g[c] = [f[c] EXCEPT ![t] = f[c][t] + n] /\ g[c] \in [FeeTokens -> Nat]
  BY <1>1
<1>3. DOMAIN g = SharedBy /\ \A d \in SharedBy : d # c => g[d] = f[d]
  OBVIOUS
<1>4. QED
  BY <1>1, <1>2, <1>3

LEMMA ReceiveKeepsInv ==
  ASSUME SharingInv, NEW t \in FeeTokens, NEW n \in Amounts, ReceiveFees(t, n)
  PROVE  SharingInv'
<1>1. n \in Nat /\ n > 0
  BY SharingConstants DEF ReceiveFees
<1>2. /\ held' \in [SharedBy -> [FeeTokens -> Nat]]
      /\ held'["distributor"][t] = held["distributor"][t] + n
      /\ \A d \in SharedBy, x \in FeeTokens : d # "distributor" \/ x # t => held'[d][x] = held[d][x]
  <2>1. held \in [SharedBy -> [FeeTokens -> Nat]] /\ "distributor" \in SharedBy
    BY DEF SharingInv, SharingTypeOK, SharedBy
  <2>2. held["distributor"][t] + n >= 0
    BY <1>1, <2>1
  <2>3. held' = [held EXCEPT !["distributor"][t] = @ + n]
    BY DEF ReceiveFees
  <2>4. QED
    BY <1>1, <2>1, <2>2, <2>3, EntryWritten
<1>3. pendingFees' \in [FeeTokens -> Nat] /\ pendingFees'[t] = pendingFees[t] + n
      /\ \A x \in FeeTokens : x # t => pendingFees'[x] = pendingFees[x]
  BY <1>1 DEF ReceiveFees, SharingInv, SharingTypeOK
<1>4. SharingTypeOK'
  <2>1. supported' \in Seq(FeeTokens)
    BY TokenListed DEF ReceiveFees, SharingInv, SharingTypeOK
  <2>2. sharingMoves' \in 0 .. MoveBound
    BY SharingConstants DEF ReceiveFees, SharingCalled, SharingInv, SharingTypeOK
  <2>3. QED
    BY <1>2, <1>3, <2>1, <2>2 DEF ReceiveFees, poolVars, SharingInv, SharingTypeOK
<1>5. DistributorCovers'
  <2> SUFFICES ASSUME NEW x \in FeeTokens
               PROVE  held'["distributor"][x] + drawn'["distributor"][x] >= pendingFees'[x]
    BY DEF DistributorCovers
  <2>1. held["distributor"][x] + drawn["distributor"][x] >= pendingFees[x] /\ drawn' = drawn
    BY DEF SharingInv, DistributorCovers, ReceiveFees
  <2>2. /\ held["distributor"][x] \in Nat /\ drawn["distributor"][x] \in Nat
        /\ pendingFees[x] \in Nat /\ "distributor" \in SharedBy
    BY DEF SharingInv, SharingTypeOK, SharedBy
  <2>3. QED
    BY <1>1, <1>2, <1>3, <2>1, <2>2
<1>6. PoolInv'
  <2>1. UNCHANGED poolVars /\ drawn' = drawn /\ \A x \in FeeTokens : held'["pool"][x] = held["pool"][x]
    BY <1>2 DEF ReceiveFees, SharedBy
  <2>2. \A x \in FeeTokens : held["pool"][x] \in Nat /\ drawn["pool"][x] \in Nat
    BY DEF SharingInv, SharingTypeOK, SharedBy
  <2>3. QED
    BY <1>4, <2>1, <2>2, PoolStands
<1>7. QED
  BY <1>4, <1>5, <1>6 DEF SharingInv, PoolInv

(* A distribution pays the pending fees, neither more nor less.            *)
LEMMA OutgoingIsPending ==
  ASSUME SharingTypeOK, NEW t \in FeeTokens
  PROVE  Outgoing(t) = pendingFees[t] /\ StakersShare(t) \in Nat
<1>1. pendingFees[t] \in Nat /\ splitConfig \in Splits
  BY DEF SharingTypeOK
<1>2. ASSUME NEW b \in Nat PROVE ShareOf(pendingFees[t], b) \in Nat
  <2>1. pendingFees[t] * b \in Nat
    BY <1>1, ProductNat
  <2>2. BPS \in Nat \ {0}
    BY DEF BPS
  <2>3. QED
    BY <2>1, <2>2, DivFloor DEF ShareOf
<1>3. /\ ShareOf(pendingFees[t], splitConfig.treasury) \in Nat
      /\ StakersShare(t) \in Nat /\ BurntShare(t) \in Nat
  BY <1>1, <1>2, SharingConstants DEF StakersShare, BurntShare
<1>4. QED
  BY <1>1, <1>3 DEF Outgoing, TreasuryShare, Dust

LEMMA SharedKeepsInv ==
  ASSUME SharingInv, NEW T \in SUBSET FeeTokens, Shared(T), SharingCalled
  PROVE  SharingInv'
<1>1. \A c \in SharedBy, t \in FeeTokens : held[c][t] \in Nat /\ drawn[c][t] \in Nat /\ pendingFees[t] \in Nat
  BY DEF SharingInv, SharingTypeOK
<1>2. \A t \in T : Outgoing(t) = pendingFees[t] /\ StakersShare(t) \in Nat
  BY OutgoingIsPending DEF SharingInv
<1>3. \A t \in FeeTokens :
         /\ held'["distributor"][t] = IF t \in T THEN held["distributor"][t] - pendingFees[t]
                                      ELSE held["distributor"][t]
         /\ held'["pool"][t] = IF t \in T THEN held["pool"][t] + StakersShare(t)
                               ELSE held["pool"][t]
         /\ pendingFees'[t] = IF t \in T THEN 0 ELSE pendingFees[t]
  BY <1>2 DEF Shared, SharedBy
<1>4. \A t \in T : pendingFees[t] <= held["distributor"][t]
  BY <1>2 DEF Shared
<1>5. SharingTypeOK'
  <2>1. held' \in [SharedBy -> [FeeTokens -> Nat]]
    <3>1. /\ DOMAIN held' = SharedBy /\ \A c \in SharedBy : DOMAIN held'[c] = FeeTokens
          /\ held' = [c \in SharedBy |-> [t \in FeeTokens |-> held'[c][t]]]
      BY DEF Shared
    <3>2. \A c \in SharedBy, t \in FeeTokens : held'[c][t] \in Nat
      BY <1>1, <1>2, <1>3, <1>4 DEF SharedBy
    <3>3. QED
      BY <3>1, <3>2
  <2>2. pendingFees' \in [FeeTokens -> Nat]
    BY DEF Shared, SharingInv, SharingTypeOK
  <2>3. sharingMoves' \in 0 .. MoveBound
    BY SharingConstants DEF SharingCalled, SharingInv, SharingTypeOK
  <2>4. QED
    BY <2>1, <2>2, <2>3 DEF Shared, poolVars, SharingInv, SharingTypeOK
<1>6. DistributorCovers'
  <2> SUFFICES ASSUME NEW t \in FeeTokens
               PROVE  held'["distributor"][t] + drawn'["distributor"][t] >= pendingFees'[t]
    BY DEF DistributorCovers
  <2>1. /\ held["distributor"][t] + drawn["distributor"][t] >= pendingFees[t] /\ drawn' = drawn
        /\ held["distributor"][t] \in Nat /\ drawn["distributor"][t] \in Nat /\ pendingFees[t] \in Nat
    BY <1>1 DEF SharingInv, DistributorCovers, Shared, SharedBy
  <2>2. CASE t \in T
    BY <1>3, <1>4, <2>1, <2>2
  <2>3. CASE t \notin T
    BY <1>3, <2>1, <2>3
  <2>4. QED
    BY <2>2, <2>3
<1>7. PoolInv'
  <2>1. UNCHANGED poolVars /\ drawn' = drawn
    BY DEF Shared
  <2>2. \A t \in FeeTokens :
           held["pool"][t] + drawn["pool"][t] <= held'["pool"][t] + drawn'["pool"][t]
    BY <1>1, <1>2, <1>3, <2>1 DEF SharedBy
  <2>3. QED
    BY <1>5, <2>1, <2>2, PoolStands
<1>8. QED
  BY <1>5, <1>6, <1>7 DEF SharingInv, PoolInv

(* Configurations and switches touch no book.                              *)
LEMMA AdministratorKeepsInv ==
  ASSUME SharingInv, SharingCalled, UNCHANGED <<pendingFees, supported, held, drawn>>,
         UNCHANGED <<stakeOf, poolTotal, accPerShare, rewardTokens, stakeMoves>>,
         splitConfig' \in Splits, minStake' \in Nat \ {0}, paused' \in [SharedBy -> BOOLEAN]
  PROVE  SharingInv'
<1>1. SharingTypeOK'
  <2>1. sharingMoves' \in 0 .. MoveBound
    BY SharingConstants DEF SharingCalled, SharingInv, SharingTypeOK
  <2>2. QED
    BY <2>1 DEF SharingInv, SharingTypeOK
<1>2. DistributorCovers'
  BY DistributorStands
<1>3. PoolInv'
  BY DEF SharingInv, PoolInv, DebtsStart, DebtsFit, PoolCovers, OwedOf, Principal, Accrued, Staked
<1>4. QED
  BY <1>1, <1>2, <1>3 DEF SharingInv, PoolInv

LEMMA WithdrawKeepsInv ==
  ASSUME SharingInv, NEW c \in SharedBy, NEW t \in FeeTokens, NEW n \in Amounts,
         EmergencyWithdraw(c, t, n)
  PROVE  SharingInv'
<1>1. n \in Nat /\ n <= held[c][t]
  BY SharingConstants DEF EmergencyWithdraw
<1>2. held \in [SharedBy -> [FeeTokens -> Nat]] /\ drawn \in [SharedBy -> [FeeTokens -> Nat]]
  BY DEF SharingInv, SharingTypeOK
<1>3. /\ held' \in [SharedBy -> [FeeTokens -> Nat]]
      /\ held'[c][t] = held[c][t] - n
      /\ \A d \in SharedBy, x \in FeeTokens : d # c \/ x # t => held'[d][x] = held[d][x]
  <2> DEFINE m == -n
  <2>1. m \in Int /\ held[c][t] + m >= 0 /\ held[c][t] + m = held[c][t] - n
    BY <1>1, <1>2
  <2>2. held' = [held EXCEPT ![c][t] = @ + m]
    BY <1>1, <1>2 DEF EmergencyWithdraw
  <2> HIDE DEF m
  <2>3. QED
    BY <1>2, <2>1, <2>2, EntryWritten
<1>4. /\ drawn' \in [SharedBy -> [FeeTokens -> Nat]]
      /\ drawn'[c][t] = drawn[c][t] + n
      /\ \A d \in SharedBy, x \in FeeTokens : d # c \/ x # t => drawn'[d][x] = drawn[d][x]
  <2>1. drawn[c][t] + n >= 0
    BY <1>1, <1>2
  <2>2. drawn' = [drawn EXCEPT ![c][t] = @ + n]
    BY DEF EmergencyWithdraw
  <2>3. QED
    BY <1>1, <1>2, <2>1, <2>2, EntryWritten
<1>5. \A d \in SharedBy, x \in FeeTokens : held'[d][x] + drawn'[d][x] = held[d][x] + drawn[d][x]
  BY <1>1, <1>2, <1>3, <1>4
<1>6. SharingTypeOK'
  <2>1. sharingMoves' \in 0 .. MoveBound
    BY SharingConstants DEF EmergencyWithdraw, SharingCalled, SharingInv, SharingTypeOK
  <2>2. QED
    BY <1>3, <1>4, <2>1 DEF EmergencyWithdraw, distributorVars, poolVars, SharingInv, SharingTypeOK
<1>7. DistributorCovers'
  <2>1. pendingFees' = pendingFees
    BY DEF EmergencyWithdraw, distributorVars
  <2>2. QED
    BY <1>5, <2>1 DEF SharingInv, DistributorCovers, SharedBy
<1>8. PoolInv'
  <2>1. UNCHANGED poolVars
    BY DEF EmergencyWithdraw
  <2>2. \A x \in FeeTokens :
           held["pool"][x] + drawn["pool"][x] <= held'["pool"][x] + drawn'["pool"][x]
    BY <1>2, <1>3, <1>4, <1>5 DEF SharedBy
  <2>3. QED
    BY <1>6, <2>1, <2>2, PoolStands
<1>9. QED
  BY <1>6, <1>7, <1>8 DEF SharingInv, PoolInv

(* What rewards add to the parts of all stakers together is no more than   *)
(* what they bring.                                                        *)
LEMMA RewardsAreBrought ==
  ASSUME SharingTypeOK, NEW n \in Nat
  PROVE  RewardPerShare(n) \in Nat /\ RewardPerShare(n) * poolTotal <= PRECISION * n
<1>1. poolTotal \in Nat /\ n * PRECISION \in Nat /\ n * PRECISION = PRECISION * n
  BY ProductNat, SharingConstants DEF SharingTypeOK
<1>2. CASE poolTotal = 0
  BY <1>1, <1>2 DEF RewardPerShare
<1>3. CASE poolTotal > 0
  <2>1. RewardPerShare(n) = (n * PRECISION) \div poolTotal
    BY <1>3 DEF RewardPerShare
  <2>2. QED
    BY <1>1, <1>3, <2>1, DivFloor
<1>4. QED
  BY <1>1, <1>2, <1>3

LEMMA AddRewardsKeepsInv ==
  ASSUME SharingInv, NEW t \in FeeTokens, NEW n \in Amounts, AddRewards(t, n)
  PROVE  SharingInv'
<1> DEFINE x == RewardPerShare(n)
<1>1. n \in Nat /\ n > 0
  BY SharingConstants DEF AddRewards
<1>2. x \in Nat /\ x * poolTotal <= PRECISION * n
  BY <1>1, RewardsAreBrought DEF SharingInv
<1>3. /\ held' \in [SharedBy -> [FeeTokens -> Nat]]
      /\ held'["pool"][t] = held["pool"][t] + n
      /\ \A d \in SharedBy, y \in FeeTokens : d # "pool" \/ y # t => held'[d][y] = held[d][y]
  <2>1. held \in [SharedBy -> [FeeTokens -> Nat]] /\ "pool" \in SharedBy
    BY DEF SharingInv, SharingTypeOK, SharedBy
  <2>2. held["pool"][t] + n >= 0
    BY <1>1, <2>1
  <2>3. held' = [held EXCEPT !["pool"][t] = @ + n]
    BY DEF AddRewards
  <2>4. QED
    BY <1>1, <2>1, <2>2, <2>3, EntryWritten
<1>4. /\ accPerShare' \in [FeeTokens -> Nat] /\ accPerShare'[t] = accPerShare[t] + x
      /\ \A y \in FeeTokens : accPerShare[y] \in Nat /\ (y # t => accPerShare'[y] = accPerShare[y])
  BY <1>2 DEF AddRewards, SharingInv, SharingTypeOK
<1>5. /\ rewardTokens \in Seq(FeeTokens)
      /\ rewardTokens' \in Seq(FeeTokens) /\ rewardTokens' # << >>
      /\ Range(rewardTokens') = Range(rewardTokens) \cup {t}
      /\ Len(rewardTokens') >= Len(rewardTokens)
      /\ rewardTokens # << >> /\ t \notin Range(rewardTokens) => Len(rewardTokens') >= 2
  BY TokenListed DEF AddRewards, SharingInv, SharingTypeOK
<1>6. /\ stakeOf' = stakeOf /\ poolTotal' = poolTotal /\ stakeMoves' = stakeMoves
      /\ drawn' = drawn /\ pendingFees' = pendingFees
  BY DEF AddRewards, distributorVars
<1>7. SharingTypeOK'
  <2>1. sharingMoves' \in 0 .. MoveBound
    BY SharingConstants DEF AddRewards, SharingCalled, SharingInv, SharingTypeOK
  <2>2. QED
    BY <1>3, <1>4, <1>5, <2>1 DEF AddRewards, distributorVars, SharingInv, SharingTypeOK
<1>8. DistributorCovers'
  BY <1>3, <1>6, DistributorStands DEF SharedBy
<1>9. ASSUME Len(rewardTokens') <= 1
      PROVE  DebtsFit' /\ PoolCovers'
  <2>1. /\ Len(rewardTokens) <= 1 /\ (rewardTokens = << >> \/ t \in Range(rewardTokens))
        /\ Len(rewardTokens) \in Nat /\ Len(rewardTokens') \in Nat
    BY <1>5, <1>9
  <2>2. DebtsFit /\ PoolCovers
    BY <2>1 DEF SharingInv
  <2>3. Range(rewardTokens') = {t}
    <3>1. CASE rewardTokens = << >>
      <4>1. \A y : y \notin Range(rewardTokens)
        BY <3>1 DEF Range
      <4>2. QED
        BY <1>5, <4>1
    <3>2. CASE rewardTokens # << >>
      <4>1. Range(rewardTokens) = {rewardTokens[1]}
        BY <1>5, <2>1, <3>2, OneReward
      <4>2. QED
        BY <1>5, <2>1, <3>2, <4>1
    <3>3. QED
      BY <3>1, <3>2
  <2>4. ASSUME NEW u \in Stakers
        PROVE  /\ PRECISION * stakeOf[u].debt <= stakeOf[u].amount * accPerShare[t]
               /\ Accrued(t, u) = stakeOf[u].amount * accPerShare[t] - PRECISION * stakeOf[u].debt
    <3>1. stakeOf[u].amount \in Nat /\ stakeOf[u].debt \in Nat /\ accPerShare[t] \in Nat
      BY OwedTypes DEF SharingInv
    <3>2. CASE t \in Range(rewardTokens)
      BY <2>2, <3>2 DEF DebtsFit, Accrued
    <3>3. CASE t \notin Range(rewardTokens)
      <4>1. rewardTokens = << >> /\ stakeOf[u].debt = 0 /\ accPerShare[t] = 0 /\ Accrued(t, u) = 0
        BY <2>1, <2>2, <3>3 DEF SharingInv, DebtsStart, DebtsFit, Accrued
      <4>2. QED
        BY <3>1, <4>1, SharingConstants
    <3>4. QED
      BY <3>2, <3>3
  <2>5. ASSUME NEW u \in Stakers
        PROVE  /\ stakeOf[u].amount \in Nat
               /\ stakeOf[u].amount * accPerShare'[t]
                    = stakeOf[u].amount * accPerShare[t] + x * stakeOf[u].amount
               /\ stakeOf[u].amount * accPerShare[t] \in Nat /\ x * stakeOf[u].amount \in Nat
               /\ PRECISION * stakeOf[u].debt \in Nat
    <3>1. stakeOf[u].amount \in Nat /\ stakeOf[u].debt \in Nat /\ accPerShare[t] \in Nat
      BY OwedTypes DEF SharingInv
    <3> DEFINE a == stakeOf[u].amount
               acc == accPerShare[t]
    <3>2. accPerShare'[t] = acc + x
      BY <1>4
    <3> HIDE DEF x
    <3>3. a * (acc + x) = a * acc + x * a /\ a * acc \in Nat /\ x * a \in Nat
      <4> HIDE DEF a, acc
      <4>1. QED
        BY <1>2, <3>1, ProductNat DEF a, acc
    <3>4. QED
      BY <3>1, <3>2, <3>3, ProductNat, SharingConstants
  <2>6. DebtsFit'
    <3> SUFFICES ASSUME NEW y \in FeeTokens, NEW u \in Stakers
                 PROVE  IF y \in Range(rewardTokens')
                        THEN PRECISION * stakeOf'[u].debt <= stakeOf'[u].amount * accPerShare'[y]
                        ELSE accPerShare'[y] = 0
      BY DEF DebtsFit
    <3>1. CASE y = t
      <4> HIDE DEF x
      <4>1. PRECISION * stakeOf[u].debt <= stakeOf[u].amount * accPerShare'[t]
        BY <2>4, <2>5
      <4>2. QED
        BY <1>6, <2>3, <3>1, <4>1
    <3>2. CASE y # t
      BY <1>4, <1>5, <2>2, <2>3, <3>2 DEF DebtsFit
    <3>3. QED
      BY <3>1, <3>2
  <2>7. PoolCovers'
    <3> SUFFICES ASSUME NEW y \in FeeTokens
                 PROVE  SumFunctionOnSet(OwedOf(y), Stakers)'
                          <= PRECISION * (held'["pool"][y] + drawn'["pool"][y] + stakeMoves')
      BY DEF PoolCovers
    <3> DEFINE h == held["pool"][y] + drawn["pool"][y] + stakeMoves
               c == SumFunctionOnSet(OwedOf(y), Stakers)
    <3>1. h \in Int /\ c \in Int /\ c <= PRECISION * h
      <4>1. /\ held["pool"][y] \in Nat /\ drawn["pool"][y] \in Nat /\ stakeMoves \in Nat
        BY DEF SharingInv, SharingTypeOK, SharedBy
      <4>2. c \in Int
        BY OwedSum DEF SharingInv
      <4>3. c <= PRECISION * h
        BY <2>2 DEF PoolCovers
      <4>4. QED
        BY <4>1, <4>2, <4>3
    <3>2. CASE y = t
      <4>1. IsCombination(OwedOf(t)', OwedOf(t), x, Staked, Stakers)
        <5> SUFFICES ASSUME NEW u \in Stakers
                     PROVE  OwedOf(t)'[u] = OwedOf(t)[u] + x * Staked[u]
          BY DEF IsCombination
        <5>1. OwedOf(t)'[u] = PRECISION * Principal(t, u)
                + (stakeOf[u].amount * accPerShare'[t] - PRECISION * stakeOf[u].debt)
          BY <1>6, <2>3 DEF OwedOf, Principal, Accrued
        <5>2. OwedOf(t)[u] = PRECISION * Principal(t, u)
                + (stakeOf[u].amount * accPerShare[t] - PRECISION * stakeOf[u].debt)
          BY <2>4, OwedTypes DEF SharingInv
        <5>3. Staked[u] = stakeOf[u].amount /\ PRECISION * Principal(t, u) \in Nat
          BY OwedTypes, ProductNat, SharingConstants DEF SharingInv
        <5> HIDE DEF x
        <5>4. QED
          BY <2>5, <5>1, <5>2, <5>3
      <4>2. SumFunctionOnSet(OwedOf(t)', Stakers)
              = SumFunctionOnSet(OwedOf(t), Stakers) + x * SumFunctionOnSet(Staked, Stakers)
        <5>1. \A u \in Stakers : OwedOf(t)[u] \in Int /\ Staked[u] \in Int
          BY OwedTypes DEF SharingInv
        <5> HIDE DEF x
        <5>2. QED
          BY <1>2, <4>1, <5>1, SumCombination, SharingConstants
      <4>3. SumFunctionOnSet(OwedOf(t)', Stakers) = c + x * poolTotal
        BY <3>2, <4>2 DEF SharingInv
      <4>4. held'["pool"][y] + drawn'["pool"][y] + stakeMoves' = h + n
        <5>1. held["pool"][y] \in Nat /\ drawn["pool"][y] \in Nat /\ stakeMoves \in Nat
          BY DEF SharingInv, SharingTypeOK, SharedBy
        <5>2. QED
          BY <1>1, <1>3, <1>6, <3>2, <5>1
      <4>5. x * poolTotal \in Int
        BY <1>2, ProductNat DEF SharingInv, SharingTypeOK
      <4> HIDE DEF x, h, c
      <4>6. PRECISION * (h + n) = PRECISION * h + PRECISION * n
            /\ PRECISION * h \in Int /\ PRECISION * n \in Int
        BY <1>1, <3>1, SharingConstants
      <4>7. c + x * poolTotal <= PRECISION * (h + n)
        BY <1>2, <3>1, <4>5, <4>6
      <4>8. QED
        BY <3>2, <4>3, <4>4, <4>7
    <3>3. CASE y # t
      <4>1. OwedOf(y)' = OwedOf(y)
        <5>1. y \notin Range(rewardTokens) /\ y \notin Range(rewardTokens')
          BY <1>5, <2>3, <3>3
        <5>2. QED
          BY <1>6, <5>1 DEF OwedOf, Principal, Accrued
      <4>2. held'["pool"][y] + drawn'["pool"][y] + stakeMoves' = h
        BY <1>3, <1>6, <3>3 DEF SharedBy
      <4>3. QED
        BY <3>1, <4>1, <4>2
    <3>4. QED
      BY <3>2, <3>3
  <2>8. QED
    BY <2>6, <2>7
<1>10. QED
  BY <1>5, <1>6, <1>7, <1>8, <1>9 DEF SharingInv, DebtsStart, Staked

(* The arithmetic of a settlement: with a staked before and b after it, at *)
(* the reward per share acc and the debt d, the new debt is what b has     *)
(* earned, rounded down, and the staker is paid what a has earned beyond   *)
(* the old one.  Only a change of the stake leaves a remainder.            *)
LEMMA SettlementRounds ==
  ASSUME NEW P \in Nat, P > 0, NEW a \in Nat, NEW b \in Nat, NEW acc \in Nat, NEW d \in Nat,
         P * d <= a * acc
  PROVE  LET paid == (a * acc) \div P - d
             new == (b * acc) \div P
         IN  /\ paid \in Nat /\ new \in Nat
             /\ P * new <= b * acc
             /\ b * acc - P * new <= a * acc - P * d - P * paid + P
             /\ a = b => b * acc - P * new = a * acc - P * d - P * paid
<1> DEFINE q == (a * acc) \div P
           w == (b * acc) \div P
           A == a * acc
           B == b * acc
<1>1. A \in Nat /\ B \in Nat
  BY ProductNat
<1>2. /\ q \in Nat /\ q * P <= A /\ A < q * P + P
      /\ w \in Nat /\ w * P <= B /\ B < w * P + P
  BY <1>1, DivFloor
<1>3. a = b => A = B /\ q = w
  OBVIOUS
<1>4. P * d <= A
  OBVIOUS
<1> HIDE DEF q, w, A, B
<1>5. q >= d
  <2>1. SUFFICES ASSUME q + 1 <= d PROVE FALSE
    BY <1>2
  <2>2. (q + 1) * P <= d * P
    BY <1>2, <2>1
  <2>3. (q + 1) * P = q * P + P /\ d * P = P * d
    BY <1>2
  <2>4. q * P \in Int /\ P * d \in Int
    BY <1>2
  <2>5. QED
    BY <1>1, <1>2, <1>4, <2>2, <2>3, <2>4
<1>6. P * (q - d) = q * P - P * d /\ P * w = w * P /\ q * P \in Int /\ w * P \in Int /\ P * d \in Int
  BY <1>2
<1>7. /\ q - d \in Nat /\ P * w <= B
      /\ B - P * w <= A - P * d - P * (q - d) + P
      /\ a = b => B - P * w = A - P * d - P * (q - d)
  BY <1>1, <1>2, <1>3, <1>5, <1>6
<1>8. QED
  BY <1>2, <1>7 DEF q, w, A, B

(* The pool's total follows the stakes.                                    *)
LEMMA TotalFollows ==
  ASSUME SharingInv, NEW u \in Stakers, NEW n \in Int, Settle(u, n)
  PROVE  poolTotal' = SumFunctionOnSet(Staked', Stakers)
<1>1. /\ \A v \in Stakers : Staked[v] = stakeOf[v].amount /\ Staked[v] \in Int
      /\ poolTotal = SumFunctionOnSet(Staked, Stakers)
  BY OwedTypes, SharingConstants DEF SharingInv
<1>2. stakeOf' = [stakeOf EXCEPT ![u] = [amount |-> stakeOf[u].amount + n,
                                         debt |-> DebtFor(u, stakeOf[u].amount + n)]]
  BY DEF Settle
<1>3. /\ Staked'[u] = Staked[u] + n
      /\ \A v \in Stakers : v # u => Staked'[v] = Staked[v]
  BY <1>1, <1>2 DEF Staked, SharingInv, SharingTypeOK
<1>4. \A v \in Stakers : Staked'[v] \in Int
  BY <1>1, <1>3
<1>5. SumFunctionOnSet(Staked', Stakers) = SumFunctionOnSet(Staked, Stakers) - Staked[u] + Staked'[u]
  BY <1>1, <1>3, <1>4, SumDiffersAtOnePoint, SharingConstants
<1>6. poolTotal' = poolTotal + n /\ poolTotal \in Nat
  BY DEF Settle, SharingInv, SharingTypeOK
<1>7. QED
  BY <1>1, <1>3, <1>5, <1>6

LEMMA SettleKeepsInv ==
  ASSUME SharingInv, SharingCalled, NEW u \in Stakers, NEW n \in Int,
         stakeOf[u].amount + n >= 0, Settle(u, n),
         stakeMoves' \in Nat, stakeMoves' >= stakeMoves, n # 0 => stakeMoves' = stakeMoves + 1
  PROVE  SharingInv'
<1> DEFINE a == stakeOf[u].amount
           b == stakeOf[u].amount + n
           d == stakeOf[u].debt
           new == DebtFor(u, b)
           in(t) == IF t = StakeToken THEN n ELSE 0
<1>1. /\ a \in Nat /\ b \in Nat /\ d \in Nat
      /\ rewardTokens \in Seq(FeeTokens)
      /\ \A t \in FeeTokens : accPerShare[t] \in Nat /\ in(t) \in Int
  BY DEF SharingInv, SharingTypeOK
<1>2. /\ stakeOf' = [stakeOf EXCEPT ![u] = [amount |-> b, debt |-> new]]
      /\ poolTotal' = poolTotal + n
      /\ pendingFees' = pendingFees /\ splitConfig' = splitConfig /\ supported' = supported
      /\ minStake' = minStake /\ accPerShare' = accPerShare /\ rewardTokens' = rewardTokens
      /\ paused' = paused /\ drawn' = drawn
  BY DEF Settle, distributorVars
<1>3. /\ DOMAIN held' = SharedBy
      /\ held'["pool"] = [t \in FeeTokens |-> held["pool"][t] + (in(t) - Harvested(u, t))]
      /\ held'["distributor"] = held["distributor"]
      /\ \A t \in FeeTokens : held["pool"][t] + (in(t) - Harvested(u, t)) >= 0
  BY DEF Settle, SharingInv, SharingTypeOK, SharedBy
<1>4. /\ stakeOf'[u].amount = b /\ stakeOf'[u].debt = new
      /\ \A v \in Stakers : v # u => stakeOf'[v] = stakeOf[v]
  BY <1>2 DEF SharingInv, SharingTypeOK
<1>5. new \in Nat
  <2>1. CASE rewardTokens = << >>
    BY <1>1, <2>1 DEF DebtFor
  <2>2. CASE rewardTokens # << >>
    <3>1. Last(rewardTokens) \in FeeTokens
      <4>1. Len(rewardTokens) \in Nat \ {0}
        BY <1>1, <2>2, EmptySeq
      <4>2. QED
        BY <1>1, <4>1 DEF Last
    <3>2. b * accPerShare[Last(rewardTokens)] \in Nat
      <4> HIDE DEF b
      <4>1. QED
        BY <1>1, <3>1, ProductNat
    <3>3. new = (b * accPerShare[Last(rewardTokens)]) \div PRECISION
      BY <2>2 DEF DebtFor
    <3> HIDE DEF new, b
    <3>4. QED
      BY <3>2, <3>3, DivFloor, SharingConstants
  <2>3. QED
    BY <2>1, <2>2
<1>6. \A t \in FeeTokens : Harvested(u, t) \in Nat
  <2> SUFFICES ASSUME NEW t \in FeeTokens PROVE Harvested(u, t) \in Nat
    OBVIOUS
  <2>1. a * accPerShare[t] \in Nat
    BY <1>1, ProductNat
  <2>2. (a * accPerShare[t]) \div PRECISION \in Nat
    BY <2>1, DivFloor, SharingConstants
  <2>3. PendingReward(u, t) \in Int
    BY <1>1, <2>2 DEF PendingReward
  <2>4. QED
    BY <2>3 DEF Harvested
<1>7. SharingTypeOK'
  <2>1. stakeOf' \in [Stakers -> StakeRecords]
    <3>1. [amount |-> b, debt |-> new] \in StakeRecords
      BY <1>1, <1>5 DEF StakeRecords
    <3>2. stakeOf \in [Stakers -> StakeRecords]
      BY DEF SharingInv, SharingTypeOK, StakeRecords
    <3> HIDE DEF b, new
    <3>3. QED
      BY <1>2, <3>1, <3>2
  <2>2. held' \in [SharedBy -> [FeeTokens -> Nat]]
    <3>1. \A t \in FeeTokens : held["pool"][t] \in Nat
      BY DEF SharingInv, SharingTypeOK, SharedBy
    <3>2. \A t \in FeeTokens : held["pool"][t] + (in(t) - Harvested(u, t)) \in Nat
      <4> HIDE DEF in
      <4>1. QED
        BY <1>1, <1>3, <1>6, <3>1
    <3>3. held'["pool"] \in [FeeTokens -> Nat]
      BY <1>3, <3>2
    <3>4. held'["distributor"] \in [FeeTokens -> Nat]
      BY <1>3 DEF SharingInv, SharingTypeOK, SharedBy
    <3>5. held' = [c \in SharedBy |-> held'[c]]
      BY DEF Settle, SharingInv, SharingTypeOK
    <3>6. QED
      BY <3>3, <3>4, <3>5 DEF SharedBy
  <2>3. poolTotal' \in Nat
    <3>1. \A v \in Stakers : Staked'[v] \in Int /\ Staked'[v] >= 0
      BY <2>1 DEF Staked, StakeRecords
    <3>2. SumFunctionOnSet(Staked', Stakers) \in Nat
      BY <3>1, SumNonNegative, SharingConstants
    <3>3. poolTotal' = SumFunctionOnSet(Staked', Stakers)
      BY TotalFollows
    <3>4. QED
      BY <3>2, <3>3
  <2>4. sharingMoves' \in 0 .. MoveBound
    BY SharingConstants DEF SharingCalled, SharingInv, SharingTypeOK
  <2>5. QED
    BY <1>2, <2>1, <2>2, <2>3, <2>4 DEF SharingInv, SharingTypeOK, StakeRecords
<1>8. DistributorCovers'
  BY <1>2, <1>3, DistributorStands
<1>9. DebtsStart'
  <2>1. ASSUME rewardTokens = << >> PROVE new = d
    BY <2>1 DEF DebtFor
  <2>2. QED
    BY <1>2, <1>4, <2>1 DEF SharingInv, DebtsStart
<1>10. ASSUME Len(rewardTokens) <= 1
       PROVE  /\ DebtsFit'
              /\ \A t \in FeeTokens :
                    OwedOf(t)'[u] <= OwedOf(t)[u] + PRECISION * (in(t) - Harvested(u, t))
                                       + PRECISION * (stakeMoves' - stakeMoves)
  <2>1. ASSUME NEW t \in FeeTokens, t \in Range(rewardTokens)
        PROVE  /\ new = (b * accPerShare[t]) \div PRECISION
               /\ PRECISION * d <= a * accPerShare[t]
               /\ Harvested(u, t) = (a * accPerShare[t]) \div PRECISION - d
    <3>1. rewardTokens # << >>
      BY <2>1 DEF Range
    <3>2. Range(rewardTokens) = {rewardTokens[1]} /\ Last(rewardTokens) = rewardTokens[1]
      BY <1>1, <1>10, <3>1, OneReward
    <3>3. t = Last(rewardTokens)
      BY <2>1, <3>2
    <3>4. PRECISION * d <= a * accPerShare[t]
      BY <1>10, <2>1 DEF SharingInv, DebtsFit
    <3>5. (a * accPerShare[t]) \div PRECISION - d \in Nat
      <4> HIDE DEF a, d
      <4>1. QED
        BY <1>1, <3>4, SettlementRounds, SharingConstants
    <3>6. a = 0 => (a * accPerShare[t]) \div PRECISION - d = 0
      <4>1. ASSUME a = 0 PROVE a * accPerShare[t] = 0 /\ d = 0 /\ 0 \div PRECISION = 0
        <5>1. a * accPerShare[t] = 0
          BY <1>1, <4>1
        <5>2. PRECISION * d <= 0
          BY <3>4, <5>1
        <5>3. d = 0
          <6> HIDE DEF d
          <6>1. SUFFICES ASSUME d - 1 \in Nat PROVE FALSE
            BY <1>1
          <6>2. PRECISION * (d - 1) \in Nat
            BY <6>1, ProductNat, SharingConstants
          <6>3. PRECISION * d = PRECISION * (d - 1) + PRECISION
            BY <1>1, SharingConstants
          <6>4. QED
            BY <5>2, <6>2, <6>3, SharingConstants
        <5>4. 0 \div PRECISION = 0
          BY SharingConstants
        <5>5. QED
          BY <5>1, <5>3, <5>4
      <4>2. QED
        BY <4>1
    <3>7. Harvested(u, t) = (a * accPerShare[t]) \div PRECISION - d
      BY <2>1, <3>5, <3>6 DEF Harvested, PendingReward
    <3>8. QED
      BY <3>1, <3>3, <3>4, <3>7 DEF DebtFor
  <2>2. ASSUME NEW t \in FeeTokens, t \in Range(rewardTokens)
        PROVE  /\ PRECISION * new <= b * accPerShare[t]
               /\ b * accPerShare[t] - PRECISION * new
                    <= a * accPerShare[t] - PRECISION * d - PRECISION * Harvested(u, t) + PRECISION
               /\ a = b => b * accPerShare[t] - PRECISION * new
                             = a * accPerShare[t] - PRECISION * d - PRECISION * Harvested(u, t)
    <3>1. accPerShare[t] \in Nat
      BY <1>1
    <3>2. /\ new = (b * accPerShare[t]) \div PRECISION
          /\ PRECISION * d <= a * accPerShare[t]
          /\ Harvested(u, t) = (a * accPerShare[t]) \div PRECISION - d
      BY <2>1, <2>2
    <3> DEFINE acc == accPerShare[t]
               H == Harvested(u, t)
    <3>3. /\ new = (b * acc) \div PRECISION /\ PRECISION * d <= a * acc
          /\ H = (a * acc) \div PRECISION - d /\ acc \in Nat
          /\ a \in Nat /\ b \in Nat /\ d \in Nat
      BY <1>1, <3>1, <3>2
    <3> HIDE DEF a, b, d, new, acc, H
    <3>4. /\ PRECISION * new <= b * acc
          /\ b * acc - PRECISION * new <= a * acc - PRECISION * d - PRECISION * H + PRECISION
          /\ a = b => b * acc - PRECISION * new = a * acc - PRECISION * d - PRECISION * H
      BY <3>3, SettlementRounds, SharingConstants
    <3>5. QED
      BY <3>4 DEF acc, H
  <2>3. DebtsFit'
    <3> SUFFICES ASSUME NEW t \in FeeTokens, NEW v \in Stakers
                 PROVE  IF t \in Range(rewardTokens)
                        THEN PRECISION * stakeOf'[v].debt <= stakeOf'[v].amount * accPerShare[t]
                        ELSE accPerShare[t] = 0
      BY <1>2 DEF DebtsFit
    <3>1. DebtsFit
      BY <1>10 DEF SharingInv
    <3>2. CASE v = u
      BY <1>4, <2>2, <3>1, <3>2 DEF DebtsFit
    <3>3. CASE v # u
      BY <1>4, <3>1, <3>3 DEF DebtsFit
    <3>4. QED
      BY <3>2, <3>3
  <2>4. ASSUME NEW t \in FeeTokens
        PROVE  OwedOf(t)'[u] <= OwedOf(t)[u] + PRECISION * (in(t) - Harvested(u, t))
                                  + PRECISION * (stakeMoves' - stakeMoves)
    <3> DEFINE D == PRECISION * (stakeMoves' - stakeMoves)
               H == Harvested(u, t)
               X == b * accPerShare[t] - PRECISION * new
               Y == a * accPerShare[t] - PRECISION * d
    <3>1. H \in Nat /\ in(t) \in Int /\ accPerShare[t] \in Nat
      BY <1>1, <1>6
    <3>2. X \in Int /\ Y \in Int
      <4>1. /\ b * accPerShare[t] \in Nat /\ PRECISION * new \in Nat
            /\ a * accPerShare[t] \in Nat /\ PRECISION * d \in Nat
        <5> HIDE DEF a, b, d, new
        <5>1. QED
          BY <1>1, <1>5, <3>1, ProductNat, SharingConstants
      <4> HIDE DEF a, b, d, new
      <4>2. QED
        BY <4>1
    <3>3. D \in Int /\ D >= 0 /\ (a # b => D = PRECISION)
      <4>1. stakeMoves \in Nat
        BY DEF SharingInv, SharingTypeOK
      <4>2. a # b => stakeMoves' - stakeMoves = 1
        <5>1. a # b => n # 0
          BY <1>1
        <5>2. QED
          BY <4>1, <5>1
      <4>3. stakeMoves' - stakeMoves \in Nat
        <5>1. \A x, y \in Nat : y >= x => y - x \in Nat
          OBVIOUS
        <5>2. QED
          BY <4>1, <5>1, Zenon
      <4> DEFINE k == stakeMoves' - stakeMoves
      <4>4. /\ k \in Nat /\ (a # b => k = 1)
            /\ D = PRECISION * k
        BY <4>2, <4>3
      <4> HIDE DEF a, b, k, D
      <4>5. PRECISION * k \in Nat
        BY <4>4, ProductNat, SharingConstants
      <4>6. a # b => PRECISION * k = PRECISION
        BY <4>4, SharingConstants
      <4>7. QED
        BY <4>4, <4>5, <4>6
    <3>4. OwedOf(t)'[u] = PRECISION * (IF t = StakeToken THEN b ELSE 0)
                            + (IF t \in Range(rewardTokens) THEN X ELSE 0)
      BY <1>2, <1>4 DEF OwedOf, Principal, Accrued
    <3>5. OwedOf(t)[u] = PRECISION * (IF t = StakeToken THEN a ELSE 0)
                           + (IF t \in Range(rewardTokens) THEN Y ELSE 0)
      BY DEF OwedOf, Principal, Accrued
    <3>6. PRECISION * (IF t = StakeToken THEN b ELSE 0)
            = PRECISION * (IF t = StakeToken THEN a ELSE 0) + PRECISION * in(t)
      <4>1. CASE t = StakeToken
        BY <1>1, <4>1, SharingConstants
      <4>2. CASE t # StakeToken
        BY <4>2, SharingConstants
      <4>3. QED
        BY <4>1, <4>2
    <3>7. PRECISION * (in(t) - H) = PRECISION * in(t) - PRECISION * H
      <4> HIDE DEF in, H
      <4>1. QED
        BY <3>1, SharingConstants
    <3>8. t \notin Range(rewardTokens) => H = 0
      BY DEF Harvested
    <3>9. t \in Range(rewardTokens) => X <= Y - PRECISION * H + D
      <4>1. ASSUME t \in Range(rewardTokens)
            PROVE  X <= Y - PRECISION * H + PRECISION /\ (a = b => X = Y - PRECISION * H)
        BY <2>2, <4>1
      <4>2. PRECISION * H \in Int
        BY <3>1, SharingConstants
      <4> HIDE DEF X, Y, H, D, a, b
      <4>3. QED
        BY <3>2, <3>3, <4>1, <4>2, SharingConstants
    <3>10. /\ PRECISION * (IF t = StakeToken THEN a ELSE 0) \in Int
           /\ PRECISION * in(t) \in Int /\ PRECISION * H \in Int
      BY <1>1, <3>1, SharingConstants
    <3> DEFINE K == PRECISION * (IF t = StakeToken THEN a ELSE 0)
               I == PRECISION * in(t)
               G == PRECISION * H
    <3>11. /\ OwedOf(t)'[u] = K + I + (IF t \in Range(rewardTokens) THEN X ELSE 0)
           /\ OwedOf(t)[u] = K + (IF t \in Range(rewardTokens) THEN Y ELSE 0)
           /\ K \in Int /\ I \in Int /\ G \in Int
           /\ t \in Range(rewardTokens) => X <= Y - G + D
           /\ t \notin Range(rewardTokens) => G = 0
           /\ PRECISION * (in(t) - H) = I - G
      BY <3>4, <3>5, <3>6, <3>7, <3>8, <3>9, <3>10, SharingConstants
    <3> HIDE DEF X, Y, D, K, I, G, H, in
    <3>12. OwedOf(t)'[u] <= OwedOf(t)[u] + (I - G) + D
      BY <3>2, <3>3, <3>11
    <3>13. QED
      BY <3>11, <3>12 DEF D, H
  <2>5. QED
    BY <2>3, <2>4
<1>11. ASSUME Len(rewardTokens) <= 1 PROVE PoolCovers'
  <2> SUFFICES ASSUME NEW t \in FeeTokens
               PROVE  SumFunctionOnSet(OwedOf(t), Stakers)'
                        <= PRECISION * (held'["pool"][t] + drawn'["pool"][t] + stakeMoves')
    BY DEF PoolCovers
  <2> DEFINE h == held["pool"][t] + drawn["pool"][t] + stakeMoves
             i == in(t) - Harvested(u, t)
             m == stakeMoves' - stakeMoves
             c == SumFunctionOnSet(OwedOf(t), Stakers)
             c2 == SumFunctionOnSet(OwedOf(t)', Stakers)
             o == OwedOf(t)[u]
             o2 == OwedOf(t)'[u]
  <2>1. (\A v \in Stakers : OwedOf(t)[v] \in Int) /\ (\A v \in Stakers : OwedOf(t)'[v] \in Int)
    <3>1. \A v \in Stakers : OwedOf(t)[v] \in Int
      BY OwedTypes DEF SharingInv
    <3>2. \A v \in Stakers : OwedOf(t)'[v] \in Int
      <4>1. \A v \in Stakers : stakeOf'[v].amount \in Nat /\ stakeOf'[v].debt \in Nat
        BY <1>7 DEF SharingTypeOK
      <4>2. accPerShare[t] \in Nat
        BY <1>1
      <4>3. QED
        BY <1>2, <4>1, <4>2, SharingConstants DEF OwedOf, Principal, Accrued
    <3>3. QED
      BY <3>1, <3>2
  <2>2. \A v \in Stakers : v # u => OwedOf(t)'[v] = OwedOf(t)[v]
    BY <1>2, <1>4 DEF OwedOf, Principal, Accrued
  <2>3. c \in Int /\ c2 = c - o + o2 /\ o \in Int /\ o2 \in Int
    BY <2>1, <2>2, SumDiffersAtOnePoint, SharingConstants
  <2>4. h \in Int /\ i \in Int /\ m \in Int /\ c <= PRECISION * h
        /\ held'["pool"][t] + drawn'["pool"][t] + stakeMoves' = h + i + m
    <3>1. held["pool"][t] \in Nat /\ drawn["pool"][t] \in Nat /\ stakeMoves \in Nat
      BY DEF SharingInv, SharingTypeOK, SharedBy
    <3>2. in(t) \in Int /\ Harvested(u, t) \in Nat
      BY <1>1, <1>6
    <3>3. held'["pool"][t] = held["pool"][t] + i /\ drawn' = drawn
      BY <1>2, <1>3
    <3>4. c <= PRECISION * h
      BY <1>11 DEF SharingInv, PoolCovers
    <3> HIDE DEF in
    <3>5. QED
      BY <3>1, <3>2, <3>3, <3>4
  <2>5. o2 <= o + PRECISION * i + PRECISION * m
    BY <1>10, <1>11
  <2> HIDE DEF h, i, m, c, c2, o, o2
  <2>6. PRECISION * (h + i + m) = PRECISION * h + PRECISION * i + PRECISION * m
        /\ PRECISION * h \in Int /\ PRECISION * i \in Int /\ PRECISION * m \in Int
    BY <2>4, SharingConstants
  <2>7. c2 <= PRECISION * (h + i + m)
    BY <2>3, <2>4, <2>5, <2>6
  <2>8. QED
    BY <2>4, <2>7 DEF c2
<1>12. poolTotal' = SumFunctionOnSet(Staked', Stakers)
  BY TotalFollows
<1>13. QED
  BY <1>2, <1>7, <1>8, <1>9, <1>10, <1>11, <1>12 DEF SharingInv

LEMMA SharingStep ==
  ASSUME SharingInv, [SharingNext]_sharingVars
  PROVE  SharingInv'
<1>1. ASSUME NEW t \in FeeTokens, NEW n \in Amounts, ReceiveFees(t, n) \/ AddRewards(t, n)
      PROVE  SharingInv'
  BY <1>1, ReceiveKeepsInv, AddRewardsKeepsInv
<1>2. ASSUME NEW t \in FeeTokens, Distribute(t) PROVE SharingInv'
  BY <1>2, SharedKeepsInv DEF Distribute
<1>3. CASE DistributeAll
  <2>1. {t \in Range(supported) : Due(t)} \in SUBSET FeeTokens
    BY DEF SharingInv, SharingTypeOK, Range
  <2>2. QED
    BY <1>3, <2>1, SharedKeepsInv DEF DistributeAll
<1>4. ASSUME NEW s \in Splits, UpdateSplit(s) PROVE SharingInv'
  BY <1>4, AdministratorKeepsInv DEF UpdateSplit, poolVars, SharingInv, SharingTypeOK
<1>5. ASSUME NEW u \in Stakers, NEW n \in Amounts, Stake(u, n) \/ Unstake(u, n)
      PROVE  SharingInv'
  <2>1. /\ stakeOf[u].amount \in Nat /\ stakeMoves \in Nat /\ minStake \in Nat
        /\ n \in Int
    BY SharingConstants DEF SharingInv, SharingTypeOK
  <2>2. CASE Stake(u, n)
    <3>1. stakeOf[u].amount + n >= 0
      BY <2>1, <2>2 DEF Stake
    <3>2. QED
      BY <2>1, <2>2, <3>1, SettleKeepsInv DEF Stake
  <2>3. CASE Unstake(u, n)
    <3> DEFINE m == -n
    <3>1. m \in Int /\ stakeOf[u].amount + m >= 0 /\ Settle(u, m)
      BY <2>1, <2>3 DEF Unstake
    <3> HIDE DEF m
    <3>2. QED
      BY <2>1, <2>3, <3>1, SettleKeepsInv DEF Unstake
  <2>4. QED
    BY <1>5, <2>2, <2>3
<1>6. ASSUME NEW u \in Stakers, ClaimRewards(u) PROVE SharingInv'
  <2>1. stakeOf[u].amount + 0 >= 0 /\ stakeMoves' \in Nat /\ stakeMoves' >= stakeMoves
    BY <1>6 DEF ClaimRewards, SharingInv, SharingTypeOK
  <2>2. QED
    BY <1>6, <2>1, SettleKeepsInv DEF ClaimRewards
<1>7. ASSUME NEW m \in Minimums, UpdateStaking(m) PROVE SharingInv'
  BY <1>7, AdministratorKeepsInv, SharingConstants
     DEF UpdateStaking, distributorVars, SharingInv, SharingTypeOK
<1>8. ASSUME NEW c \in SharedBy, NEW b \in BOOLEAN, SetPaused(c, b) PROVE SharingInv'
  <2>1. paused' \in [SharedBy -> BOOLEAN]
    BY <1>8 DEF SetPaused, SharingInv, SharingTypeOK
  <2>2. QED
    BY <1>8, <2>1, AdministratorKeepsInv
       DEF SetPaused, distributorVars, poolVars, SharingInv, SharingTypeOK
<1>9. ASSUME NEW c \in SharedBy, NEW t \in FeeTokens, NEW n \in Amounts, EmergencyWithdraw(c, t, n)
      PROVE  SharingInv'
  BY <1>9, WithdrawKeepsInv
<1>10. CASE UNCHANGED sharingVars
  BY <1>10
     DEF sharingVars, distributorVars, poolVars, SharingInv, SharingTypeOK, DistributorCovers, Staked,
         DebtsStart, DebtsFit, PoolCovers, OwedOf, Principal, Accrued
<1>11. QED
  BY <1>1, <1>2, <1>3, <1>4, <1>5, <1>6, <1>7, <1>8, <1>9, <1>10 DEF SharingNext

(* Distributor and staking pool can always pay what they owe, for any      *)
(* number of stakers, tokens and amounts, any splits and any precision     *)
(* (fee-distributor lib.rs:153-235, staking-pool lib.rs:115-294).          *)
THEOREM ClaimsAreAlwaysCovered == SharingSpec => []ClaimsAreCovered
<1>1. SharingInit => SharingInv
  BY SharingStarts
<1>2. SharingInv /\ [SharingNext]_sharingVars => SharingInv'
  BY SharingStep
<1>3. SharingInv => ClaimsAreCovered
  BY CoveredClaims
<1>4. QED
  BY <1>1, <1>2, <1>3, PTL DEF SharingSpec
=============================================================================
