--------------------------- MODULE SignedRequests ---------------------------
(***************************************************************************)
(* Signed requests to the gateway: the headers a page signs                *)
(* (src/apps/web/src/contexts/WalletContext.tsx), their acceptance         *)
(* (src/backend/api-gateway-v2/src/graphql/context.ts) and the store of    *)
(* nonces in use (src/backend/api-gateway-v2/src/lib/nonce-store.ts).  A   *)
(* request may be delivered several times and late.  The clock counts      *)
(* milliseconds, of which the constants keep the proportions; the page's   *)
(* clock may be ahead of the gateway's.                                    *)
(***************************************************************************)
EXTENDS Integers

CONSTANTS
    Requests,       \* requests a page may sign
    MaxAge,         \* SIGNATURE_MAX_AGE_MS
    NonceTtl,       \* NONCE_TTL_MS
    CleanupEvery,   \* CLEANUP_INTERVAL_MS
    Skew,           \* bound of the model on how far a page's clock is ahead
    LastTime,       \* bound of the model on the time
    RestartBound    \* bound of the model on restarts of the gateway

ASSUME SignedRequestsAssumption ==
    /\ MaxAge \in Nat /\ NonceTtl \in Nat /\ CleanupEvery \in Nat \ {0} /\ Skew \in Nat
    /\ MaxAge <= NonceTtl

VARIABLES
    now,          \* the gateway's clock
    signedAt,     \* signedAt[r]: the timestamp header of r; Unsigned before
    broken,       \* requests with a signature that does not verify
    usedNonces,   \* usedNonces[r]: when the gateway recorded the nonce of r, or Unused
    nextCleanup,  \* when the cleanup timer fires; 0 while it has not been started
    accepted,     \* accepted[r]: times the running gateway authenticated r
    restarts

signedVars == <<now, signedAt, broken, usedNonces, nextCleanup, accepted, restarts>>

Unsigned == -1
Unused == -1

SignedInit ==
    /\ now = 1
    /\ signedAt = [r \in Requests |-> Unsigned]
    /\ broken = {}
    /\ usedNonces = [r \in Requests |-> Unused]
    /\ nextCleanup = 0
    /\ accepted = [r \in Requests |-> 0]
    /\ restarts = 0

\* signAuthMessage: the page's own time and a new nonce are part of the message.
SignAuthMessage(r) ==
    /\ signedAt[r] = Unsigned
    /\ \E ahead \in 0 .. Skew : signedAt' = [signedAt EXCEPT ![r] = now + ahead]
    /\ broken' \in {broken, broken \cup {r}}
    /\ UNCHANGED <<now, usedNonces, nextCleanup, accepted, restarts>>

Fresh(r) == signedAt[r] <= now /\ now - signedAt[r] <= MaxAge

\* extractUser with verifyStellarSignature and checkAndUseNonce.  The nonce is
\* recorded before the signature is looked at; the first one starts the timer.
\* A request that is stale, from the future or without a nonce changes nothing.
ExtractUser(r) ==
    /\ signedAt[r] # Unsigned
    /\ Fresh(r) /\ usedNonces[r] = Unused
    /\ usedNonces' = [usedNonces EXCEPT ![r] = now]
    /\ nextCleanup' = IF nextCleanup = 0 THEN now + CleanupEvery ELSE nextCleanup
    /\ accepted' = IF r \in broken THEN accepted ELSE [accepted EXCEPT ![r] = @ + 1]
    /\ UNCHANGED <<now, signedAt, broken, restarts>>

\* Mutant: a nonce is forgotten while its signature is still fresh.
CleanUpNonces_Early ==
    /\ nextCleanup # 0 /\ now >= nextCleanup
    /\ usedNonces' = [r \in Requests |->
            IF usedNonces[r] # Unused /\ now - usedNonces[r] >= NonceTtl THEN Unused
            ELSE usedNonces[r]]
    /\ nextCleanup' = now + CleanupEvery
    /\ UNCHANGED <<now, signedAt, broken, accepted, restarts>>

\* The timer removes the nonces that are older than their time to live.
CleanUpNonces ==
    /\ nextCleanup # 0 /\ now >= nextCleanup
    /\ usedNonces' = [r \in Requests |->
            IF usedNonces[r] # Unused /\ now - usedNonces[r] > NonceTtl THEN Unused
            ELSE usedNonces[r]]
    /\ nextCleanup' = now + CleanupEvery
    /\ UNCHANGED <<now, signedAt, broken, accepted, restarts>>

\* The store is in the memory of the process.
GatewayRestarts ==
    /\ restarts < RestartBound
    /\ restarts' = restarts + 1
    /\ usedNonces' = [r \in Requests |-> Unused]
    /\ nextCleanup' = 0
    /\ accepted' = [r \in Requests |-> 0]
    /\ UNCHANGED <<now, signedAt, broken>>

TimePasses ==
    /\ now < LastTime
    /\ now' = now + 1
    /\ UNCHANGED <<signedAt, broken, usedNonces, nextCleanup, accepted, restarts>>

SignedNext ==
    \/ \E r \in Requests : SignAuthMessage(r) \/ ExtractUser(r)
    \/ CleanUpNonces
    \/ GatewayRestarts
    \/ TimePasses

SignedSpec == SignedInit /\ [][SignedNext]_signedVars

-----------------------------------------------------------------------------
\* Types of the variables.
SignedTypeOK ==
    /\ now \in Nat
    /\ signedAt \in [Requests -> Nat \cup {Unsigned}]
    /\ usedNonces \in [Requests -> Nat \cup {Unused}]
    /\ nextCleanup \in Nat
    /\ accepted \in [Requests -> Nat]

\* "Each signature can only be used once" (WalletContext.tsx:332): one gateway
\* process authenticates a signed request at most once however often it arrives,
\* since a nonce is forgotten only after its request has expired; the two periods
\* are constants of different files (verifyStellarSignature, startCleanupTimer).
SignatureUsedOnce == \A r \in Requests : accepted[r] <= 1

\* Why: a request that was accepted has its nonce on record, recorded no earlier
\* than it was signed, or has expired.
AcceptedIsRecorded ==
    \A r \in Requests :
        /\ usedNonces[r] # Unused => signedAt[r] # Unsigned /\ signedAt[r] <= usedNonces[r]
                                     /\ usedNonces[r] <= now
        /\ accepted[r] > 0 => \/ usedNonces[r] # Unused
                              \/ signedAt[r] # Unsigned /\ now - signedAt[r] > MaxAge

=============================================================================
