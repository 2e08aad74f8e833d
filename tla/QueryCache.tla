----------------------------- MODULE QueryCache -----------------------------
(***************************************************************************)
(* The gateway's cache of query answers (cacheGetOrSet and what it calls   *)
(* in src/backend/api-gateway-v2/src/lib/cache.ts), behind the resolvers   *)
(* trendingTokens, leaderboard, globalStats and others.  An answer is the  *)
(* version of the database it was read from.  The store may not answer;    *)
(* several requests miss at once, and the slowest stores last.             *)
(***************************************************************************)
EXTENDS Naturals

CONSTANTS
    Readers,       \* requests under way at once
    WriteBound,    \* bound of the model on writes to the database
    CacheFaults    \* bound of the model on failures of the store

VARIABLES
    version,     \* of the database
    entry,       \* the key in the store: [held, value, expires]
    reader,      \* reader[r]: [at, value]
    cacheErrors

cacheVars == <<version, entry, reader, cacheErrors>>

NoEntry == [held |-> FALSE, value |-> 0, expires |-> FALSE]
NotReading == [at |-> "none", value |-> 0]

CacheInit ==
    /\ version = 1 /\ entry = NoEntry /\ cacheErrors = 0
    /\ reader = [r \in Readers |-> NotReading]

CacheError == cacheErrors < CacheFaults /\ cacheErrors' = cacheErrors + 1

\* The indexer writes.
DatabaseWrite ==
    /\ version <= WriteBound
    /\ version' = version + 1
    /\ UNCHANGED <<entry, reader, cacheErrors>>

\* cacheGet: a hit is the answer; a miss and an error of the store look the same.
CacheGet(r) ==
    /\ reader[r].at = "none"
    /\ \/ ~entry.held /\ UNCHANGED cacheErrors
       \/ CacheError
    /\ reader' = [reader EXCEPT ![r].at = "fetching"]
    /\ UNCHANGED <<version, entry>>

\* fetchFn, whose answer goes to the client at once.
Fetch(r) ==
    /\ reader[r].at = "fetching"
    /\ reader' = [reader EXCEPT ![r] = [at |-> "storing", value |-> version]]
    /\ UNCHANGED <<version, entry, cacheErrors>>

\* Mutant: the entry is stored without a time to live.
CacheSet_NoExpiry(r) ==
    /\ reader[r].at = "storing"
    /\ \/ /\ entry' = [held |-> TRUE, value |-> reader[r].value, expires |-> FALSE]
          /\ UNCHANGED cacheErrors
       \/ CacheError /\ UNCHANGED entry
    /\ reader' = [reader EXCEPT ![r] = NotReading]
    /\ UNCHANGED version

\* cacheSet in the background, with a time to live; its failure is only logged.
CacheSet(r) ==
    /\ reader[r].at = "storing"
    /\ \/ /\ entry' = [held |-> TRUE, value |-> reader[r].value, expires |-> TRUE]
          /\ UNCHANGED cacheErrors
       \/ CacheError /\ UNCHANGED entry
    /\ reader' = [reader EXCEPT ![r] = NotReading]
    /\ UNCHANGED version

\* The store drops the key when its time is over.
Expire ==
    /\ entry.held /\ entry.expires
    /\ entry' = NoEntry
    /\ UNCHANGED <<version, reader, cacheErrors>>

CacheNext ==
    \/ DatabaseWrite
    \/ \E r \in Readers : CacheGet(r) \/ Fetch(r) \/ CacheSet(r)
    \/ Expire

\* While the gateway runs queries end and the store's clock goes on; clients need
\* not ask.
CacheFairness ==
    /\ WF_cacheVars(Expire)
    /\ \A r \in Readers : /\ WF_cacheVars(Fetch(r))
                          /\ WF_cacheVars(CacheSet(r))

CacheSpec == CacheInit /\ [][CacheNext]_cacheVars /\ CacheFairness

-----------------------------------------------------------------------------
\* Types of the variables.
CacheTypeOK ==
    /\ version \in Nat
    /\ entry.held \in BOOLEAN /\ entry.value \in 0 .. version
    /\ \A r \in Readers : reader[r].at \in {"none", "fetching", "storing"}

\* Once the database is quiet no client is served an old answer for ever, although
\* a slow request may store what it read before a write over a newer answer
\* (cacheGetOrSet, cacheSet).
OldAnswersEnd == <>[](entry.held => entry.value = version)

=============================================================================
