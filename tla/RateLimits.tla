------------------------------ MODULE RateLimits ------------------------------
(***************************************************************************)
(* The four limiters of requests: checkRateLimit of the gateway            *)
(* (src/backend/api-gateway-v2/src/lib/rate-limiter.ts), which counts in   *)
(* fixed windows in a shared store; the two of the image upload            *)
(* (src/apps/web/src/app/api/upload-image/route.ts), a counter with a time *)
(* to live in a shared store, read and then incremented, and a window in   *)
(* memory, for when there is no store or it cannot be reached; and the     *)
(* sliding window of a page (src/apps/web/src/hooks/useRateLimit.ts,       *)
(* lib/rate-limiter.ts).  Each is shown for one client; limiter is the one *)
(* looked at.                                                              *)
(***************************************************************************)
EXTENDS Integers, FiniteSets, SequencesExt

CONSTANTS
    Window,        \* windowMs
    MaxRequests,   \* of a window
    Uploads,       \* uploads of the client under way at once
    RequestBound,  \* bound of the model on the accepted requests of a limiter
    CheckLasts,    \* the longest an upload waits for the store
    LastMoment,    \* bound of the model on the time
    UncheckedBound \* bound of the model on the requests that pass unchecked

ASSUME RateAssumption ==
    /\ Window \in Nat \ {0} /\ MaxRequests \in Nat \ {0} /\ IsFiniteSet(Uploads)
    /\ CheckLasts \in 0 .. Window

VARIABLES
    limiter,       \* the limiter looked at
    moment,
    accepted,      \* the times at which it counted a request and let it pass
    unchecked,     \* how many it let pass because the store failed, counting none
    windowCount,   \* the key of the gateway: [start, count]; older keys have expired
    kvCount,       \* the key of the uploads: [count, expires]
    uploadOf,      \* uploadOf[u] = [step, now]: where the check of an upload is, and when it began
    memoryLimit,   \* memoryRateLimits: [count, resetAt]
    remembered,    \* when uploads the store failed passed by memoryLimit, in the last window
    timestamps     \* the actions a page remembers

gatewayVars == <<windowCount>>
uploadVars == <<kvCount, uploadOf, memoryLimit, remembered>>
rateVars == <<limiter, moment, accepted, unchecked, gatewayVars, uploadVars, timestamps>>

Limiters == {"gateway", "kv", "memory", "page"}
Accept == Len(accepted) < RequestBound /\ accepted' = Append(accepted, moment)
PassUnchecked == unchecked < UncheckedBound /\ unchecked' = unchecked + 1
NoUpload == [step |-> "idle", now |-> 0]

RateInit ==
    /\ moment = 0
    /\ limiter \in Limiters /\ accepted = <<>> /\ unchecked = 0
    /\ windowCount = [start |-> 0, count |-> 0]
    /\ kvCount = [count |-> 0, expires |-> 0]
    /\ uploadOf = [u \in Uploads |-> NoUpload]
    /\ memoryLimit = [count |-> 0, resetAt |-> -1]
    /\ remembered = <<>> /\ timestamps = <<>>

-----------------------------------------------------------------------------
\* cacheIncr: the counter of the window of now is incremented, or begins; above the
\* limits of the limiter and of its mutant the model stops counting.
WindowStart == (moment \div Window) * Window
CacheIncr == IF windowCount.start # WindowStart THEN 1
             ELSE Min({windowCount.count + 1, MaxRequests + 2})

\* Mutant: the request that reaches one more than the limit passes.
CheckRateLimit_Inclusive ==
    /\ limiter = "gateway"
    /\ windowCount' = [start |-> WindowStart, count |-> CacheIncr]
    /\ IF CacheIncr > MaxRequests + 1 THEN UNCHANGED accepted ELSE Accept
    /\ UNCHANGED <<limiter, moment, unchecked, uploadVars, timestamps>>

\* checkRateLimit: refused requests count too.
CheckRateLimit ==
    /\ limiter = "gateway"
    /\ windowCount' = [start |-> WindowStart, count |-> CacheIncr]
    /\ IF CacheIncr > MaxRequests THEN UNCHANGED accepted ELSE Accept
    /\ UNCHANGED <<limiter, moment, unchecked, uploadVars, timestamps>>

\* The store does not answer, or only after it has counted: cacheIncr catches the
\* failure and returns zero, so nothing reaches the catch of checkRateLimit and the
\* request passes, whatever failOpen says.
CheckWithoutStore ==
    /\ limiter = "gateway"
    /\ windowCount' \in {windowCount, [start |-> WindowStart, count |-> CacheIncr]}
    /\ PassUnchecked
    /\ UNCHANGED <<limiter, moment, accepted, uploadVars, timestamps>>

-----------------------------------------------------------------------------
\* An upload notes the time and asks for the counter.
Live == IF kvCount.expires > moment THEN kvCount.count ELSE 0
Ends(u) == uploadOf' = [uploadOf EXCEPT ![u] = NoUpload]
StartUpload(u) ==
    /\ limiter = "kv" /\ uploadOf[u].step = "idle"
    /\ uploadOf' = [uploadOf EXCEPT ![u] = [step |-> "asks", now |-> moment]]
    /\ UNCHANGED <<limiter, moment, accepted, unchecked, gatewayVars, kvCount, memoryLimit, remembered, timestamps>>

\* It is refused, or goes on to increment the counter; with a status that says the
\* read went wrong it passes at once, neither checked nor counted.
ReadUploads(u) ==
    /\ uploadOf[u].step = "asks"
    /\ \/ Live < MaxRequests /\ uploadOf' = [uploadOf EXCEPT ![u].step = "counts"] /\ UNCHANGED unchecked
       \/ Live >= MaxRequests /\ Ends(u) /\ UNCHANGED unchecked
       \/ Ends(u) /\ PassUnchecked
    /\ UNCHANGED <<limiter, moment, accepted, gatewayVars, kvCount, memoryLimit, remembered, timestamps>>

\* INCR and EXPIRE; a status that says they went wrong is ignored.
Incremented == [count |-> Live + 1, expires |-> moment + Window]
CountUpload(u) ==
    /\ uploadOf[u].step = "counts" /\ Ends(u)
    /\ \/ kvCount' = Incremented /\ Accept /\ UNCHANGED unchecked
       \/ PassUnchecked /\ UNCHANGED <<kvCount, accepted>>
    /\ UNCHANGED <<limiter, moment, gatewayVars, memoryLimit, remembered, timestamps>>

\* Mutant: a window that goes on does not count.
PassesInMemory_Uncounted(now) ==
    \/ /\ memoryLimit.resetAt < now
       /\ memoryLimit' = [count |-> 1, resetAt |-> now + Window]
    \/ memoryLimit.resetAt >= now /\ memoryLimit.count < MaxRequests /\ UNCHANGED memoryLimit

\* The window in memory begins with the first upload that began after the last one was
\* over.
PassesInMemory(now) ==
    \/ /\ memoryLimit.resetAt < now
       /\ memoryLimit' = [count |-> 1, resetAt |-> now + Window]
    \/ /\ memoryLimit.resetAt >= now /\ memoryLimit.count < MaxRequests
       /\ memoryLimit' = [memoryLimit EXCEPT !.count = @ + 1]

\* A request to the store throws, the increment perhaps after the store has done it:
\* the window in memory decides, for the time at which the upload began.
StoreThrows(u) ==
    LET now == uploadOf[u].now
    IN  /\ uploadOf[u].step # "idle" /\ Ends(u)
        /\ kvCount' \in {kvCount} \cup IF uploadOf[u].step = "counts" THEN {Incremented} ELSE {}
        /\ \/ PassesInMemory(now) /\ remembered' = Append(remembered, moment)
           \/ /\ memoryLimit.resetAt >= now /\ memoryLimit.count >= MaxRequests
              /\ UNCHANGED <<memoryLimit, remembered>>
        /\ UNCHANGED <<limiter, moment, accepted, unchecked, gatewayVars, timestamps>>

\* Without a store there is nothing to wait for.
CheckUploadInMemory ==
    /\ limiter = "memory"
    /\ PassesInMemory(moment) /\ Accept
    /\ UNCHANGED <<limiter, moment, unchecked, gatewayVars, kvCount, uploadOf, remembered, timestamps>>

-----------------------------------------------------------------------------
\* cleanupExpired forgets the actions before the window that ends now: the first ones,
\* as they are remembered in the order in which they were taken.
Expired == {i \in DOMAIN timestamps : timestamps[i] <= moment - Window}
Recent == SubSeq(timestamps, Cardinality(Expired) + 1, Len(timestamps))

\* checkAndRecord and the checkRateLimit of the page.
CheckAndRecord ==
    /\ limiter = "page"
    /\ IF Len(Recent) < MaxRequests
       THEN timestamps' = Append(Recent, moment) /\ Accept
       ELSE timestamps' = Recent /\ UNCHANGED accepted
    /\ UNCHANGED <<limiter, moment, unchecked, gatewayVars, uploadVars>>

TimeGoesOn ==
    /\ moment < LastMoment /\ moment' = moment + 1
    /\ \A u \in Uploads : uploadOf[u].step # "idle" => moment < uploadOf[u].now + CheckLasts
    /\ remembered' = SelectSeq(remembered, LAMBDA t : t > moment' - Window)
    /\ UNCHANGED <<limiter, accepted, unchecked, gatewayVars, kvCount, uploadOf, memoryLimit, timestamps>>

RateNext ==
    \/ CheckRateLimit \/ CheckWithoutStore \/ CheckUploadInMemory \/ CheckAndRecord \/ TimeGoesOn
    \/ \E u \in Uploads : StartUpload(u) \/ ReadUploads(u) \/ CountUpload(u) \/ StoreThrows(u)
RateSpec == RateInit /\ [][RateNext]_rateVars

-----------------------------------------------------------------------------
\* Types of the variables.
RateTypeOK ==
    /\ moment \in 0 .. LastMoment
    /\ windowCount.count \in Nat /\ kvCount.count \in Nat
    /\ uploadOf \in [Uploads -> [step : {"idle", "asks", "counts"}, now : 0 .. LastMoment]]
    /\ Len(timestamps) <= MaxRequests

\* How many requests were let pass in the window that ends with the i-th one.
PassedTogether(i) == Cardinality({j \in 1 .. i : accepted[j] > accepted[i] - Window})
AtMost == [gateway |-> 2 * MaxRequests, kv |-> MaxRequests + Cardinality(Uploads) - 1,
           memory |-> 2 * MaxRequests - 1, page |-> MaxRequests]

\* What the limiters promise of the requests they count, over any stretch of time as
\* long as a window and not only over their own windows: a page its limit, the upload
\* counter its limit but for the uploads that read it together, a fixed window up to
\* twice its limit at a boundary.  What passes unchecked has no limit: it is not here.
WindowsHold == \A i \in DOMAIN accepted : PassedTogether(i) <= AtMost[limiter]

\* The uploads that fall back on the window in memory: because each brings the time at
\* which it began to wait for the store, a late one may begin a window in the past and
\* three windows meet in a stretch as long as one.  More than that never pass.
FallbackHolds == Len(remembered) <= 3 * MaxRequests - 1
=============================================================================
