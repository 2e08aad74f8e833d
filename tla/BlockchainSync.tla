--------------------------- MODULE BlockchainSync ---------------------------
(***************************************************************************)
(* The other writers of the token rows                                     *)
(* (src/backend/indexer/src/services/blockchain-sync.service.ts and        *)
(* bootstrap-service.ts, src/backend/api-gateway-v2/src/lib/               *)
(* sync-service.ts, src/backend/shared/scripts/sync-tokens.ts), composed   *)
(* with the poller and its handlers.                                       *)
(* Bootstrap creates or overwrites every row before the poller starts;     *)
(* then a periodic sync lists the rows, fetches each token from the        *)
(* contract and overwrites a row whose listed values are off by over 1 %.  *)
(* The gateway's syncToken mutation upserts one row, in another process,   *)
(* and the sync-tokens script every row it finds, in a third.              *)
(***************************************************************************)
EXTENDS EventIndexer

CONSTANTS
    Syncers,        \* runs of the sync that may overlap: the timer's, forced ones
    FetchAttempts   \* attempts of the gateway to read a token: one and the extended retries

VARIABLES
    boot,          \* bootstrap: [listed, todo]
    sync,          \* each run: [busy, forced, todo, rows, fetched]
    syncFailures,  \* consecutiveFailures, counted to 3
    gateway,       \* the syncToken mutation at work: [tokens, left, info]
    creationTx,    \* tokens with a TOKEN_CREATED transaction of the gateway's
    script         \* the sync-tokens script at work: [todo, at, info], info that of the token at

gatewayVars == <<gateway, creationTx, script>>
syncVars == <<boot, sync, syncFailures, gatewayVars>>
databaseVars == <<tokenVars, indexerVars, syncVars>>

NoRows == [t \in Tokens |-> NoRow]
NoSync == [busy |-> FALSE, forced |-> FALSE, todo |-> {}, rows |-> NoRows, fetched |-> NoRows]
NoBoot == [listed |-> FALSE, todo |-> {}]
NoMutation == [tokens |-> {}, left |-> 0, info |-> NoRow]
NoScript == [todo |-> {}, at |-> {}, info |-> NoRow]
IsHealthy == syncFailures < 3

SyncInit ==
    /\ boot = NoBoot
    /\ sync = [s \in Syncers |-> NoSync]
    /\ syncFailures = 0
    /\ gateway = NoMutation
    /\ creationTx = {}
    /\ script = NoScript

\* getTokensFromEvents: the tokens that events of ledger l and later name, l where
\* the last week begins; past the head for an RPC that does not answer.
TokensFromEvents(l) == {chain[i].token : i \in Range(FromLedger(l))}

\* bootstrap: the addresses the events name and those of the rows.  The factory has
\* none of the methods that getAllTokens asks before, so they answer nothing.
Bootstrap ==
    /\ up = "boot" /\ ~boot.listed
    /\ \E l \in 1 .. head + 1 :
           boot' = [listed |-> TRUE, todo |-> TokensFromEvents(l) \cup {t \in Tokens : HasRow(t)}]
    /\ UNCHANGED <<tokenVars, indexerVars, sync, syncFailures, gatewayVars>>

\* syncToken of the bootstrap: an upsert of the contract's values with the volume
\* back at zero; nothing for a token the contract does not answer for.
BootstrapToken(t) ==
    /\ up = "boot" /\ t \in boot.todo
    /\ boot' = [boot EXCEPT !.todo = @ \ {t}]
    /\ \/ /\ tokenRow' = [tokenRow EXCEPT ![t] = ReadTokenInfo(t)]
          /\ UNCHANGED faultCount
       \/ Faults(1) /\ UNCHANGED tokenRow
    /\ UNCHANGED <<chain, head, txRow, handler, lost, cursorRow, cursorCache, seen, unhandled, poll, up,
                   sync, syncFailures, gatewayVars>>

\* main goes on whether or not the bootstrap succeeded.
BootstrapEnds ==
    /\ up = "boot" /\ boot.listed /\ boot.todo = {}
    /\ up' = "run" /\ boot' = NoBoot
    /\ UNCHANGED <<tokenVars, cursorRow, cursorCache, seen, unhandled, poll, faultCount, sync, syncFailures,
                   gatewayVars>>

\* Fields more than 1 % off the contract's, or another graduation state.
Near(x, y) == (IF x > y THEN x - y ELSE y - x) <= (y * 100) \div 10000
DetectMismatch(listed, onChain) ==
    ~Near(listed.raised, onChain.raised) \/ listed.graduated # onChain.graduated

\* runSync of the timer or of POST /sync/force lists the rows; when that fails
\* the run is over.
RunSync(s) ==
    /\ up = "run" /\ ~sync[s].busy
    /\ \/ /\ sync' = [sync EXCEPT ![s] = [NoSync EXCEPT !.busy = TRUE, !.rows = tokenRow,
                                              !.todo = {t \in Tokens : HasRow(t)}]]
          /\ UNCHANGED <<faultCount, syncFailures>>
       \/ /\ Faults(1)
          /\ syncFailures' = IF IsHealthy THEN syncFailures + 1 ELSE syncFailures
          /\ UNCHANGED sync
    /\ UNCHANGED <<tokenVars, cursorRow, cursorCache, seen, unhandled, poll, up, boot, gatewayVars>>

\* syncSingleToken of POST /sync/token: whatever the row says.
SyncSingleToken(s, t) ==
    /\ up = "run" /\ ~sync[s].busy /\ HasRow(t)
    /\ Faults(1)
    /\ sync' = [sync EXCEPT ![s] = [NoSync EXCEPT !.busy = TRUE, !.forced = TRUE, !.todo = {t}]]
    /\ UNCHANGED <<tokenVars, cursorRow, cursorCache, seen, unhandled, poll, up, boot, syncFailures,
                   gatewayVars>>

Leaves(s, t) == sync' = [sync EXCEPT ![s].todo = @ \ {t}]

\* getTokenFromBlockchain and the comparison with the row as it was listed.
FetchToken(s, t) ==
    /\ t \in sync[s].todo /\ sync[s].fetched[t] = NoRow
    /\ IF sync[s].forced \/ DetectMismatch(sync[s].rows[t], ReadTokenInfo(t))
       THEN sync' = [sync EXCEPT ![s].fetched[t] = ReadTokenInfo(t)]
       ELSE Leaves(s, t)
    /\ UNCHANGED <<tokenVars, indexerVars, boot, syncFailures, gatewayVars>>

\* Mutant: the update writes the flag and forgets the amount.
UpdateToken_FlagOnly(s, t) ==
    /\ t \in sync[s].todo /\ sync[s].fetched[t] # NoRow
    /\ tokenRow' = [tokenRow EXCEPT ![t].graduated = sync[s].fetched[t].graduated]
    /\ Leaves(s, t)
    /\ UNCHANGED <<chain, head, txRow, handler, lost, indexerVars, boot, syncFailures, gatewayVars>>

\* updateTokenInDatabase: the fetched values, over whatever the row holds by now.
UpdateToken(s, t) ==
    /\ t \in sync[s].todo /\ sync[s].fetched[t] # NoRow
    /\ tokenRow' = [tokenRow EXCEPT ![t].raised = sync[s].fetched[t].raised,
                                    ![t].graduated = sync[s].fetched[t].graduated]
    /\ Leaves(s, t)
    /\ UNCHANGED <<chain, head, txRow, handler, lost, indexerVars, boot, syncFailures, gatewayVars>>

\* The RPC or the database does not answer for the token: skipped.
SyncTokenFails(s, t) ==
    /\ t \in sync[s].todo /\ Faults(1)
    /\ Leaves(s, t)
    /\ UNCHANGED <<tokenVars, cursorRow, cursorCache, seen, unhandled, poll, up, boot, syncFailures,
                   gatewayVars>>

RunSyncEnds(s) ==
    /\ sync[s].busy /\ sync[s].todo = {}
    /\ sync' = [sync EXCEPT ![s] = NoSync]
    /\ syncFailures' = IF sync[s].forced THEN syncFailures ELSE 0
    /\ UNCHANGED <<tokenVars, indexerVars, boot, gatewayVars>>

\* The process dies with its bootstrap and sync runs.
ProcessDies ==
    /\ Crash
    /\ boot' = NoBoot /\ sync' = [s \in Syncers |-> NoSync] /\ syncFailures' = 0
    /\ UNCHANGED gatewayVars

\* The gateway's syncToken mutation for an address of the launchpad.  The bound of
\* the model counts it twice, for the instances would grow too large.
RequestSync(t) ==
    /\ gateway = NoMutation /\ Launched(t)
    /\ Faults(2)
    /\ gateway' = [tokens |-> {t}, left |-> FetchAttempts, info |-> NoRow]
    /\ UNCHANGED <<tokenVars, cursorRow, cursorCache, seen, unhandled, poll, up, boot, sync, syncFailures,
                   creationTx, script>>

\* The record of the contract as it is has no field of the name graduated, so the
\* mutation and the script take FALSE.
RawTokenInfo(t) == [ReadTokenInfo(t) EXCEPT !.graduated = FALSE]

\* getTokenInfoFromContract answers.
GetTokenInfo(t) ==
    /\ t \in gateway.tokens /\ gateway.info = NoRow /\ gateway.left > 0
    /\ gateway' = [gateway EXCEPT !.info = RawTokenInfo(t)]
    /\ UNCHANGED <<tokenVars, indexerVars, boot, sync, syncFailures, creationTx, script>>

\* The attempt fails or times out; after the last one the mutation answers with
\* the row there is, and writes nothing.
GetTokenInfoFails(t) ==
    /\ t \in gateway.tokens /\ gateway.info = NoRow
    /\ gateway' = IF gateway.left > 1 THEN [gateway EXCEPT !.left = @ - 1] ELSE NoMutation
    /\ UNCHANGED <<tokenVars, indexerVars, boot, sync, syncFailures, creationTx, script>>

\* Mutant: the creation is recorded without looking for one.
SyncTokenToDatabase_Unchecked(t) ==
    /\ t \in gateway.tokens /\ gateway.info # NoRow
    /\ tokenRow' = [tokenRow EXCEPT ![t] = gateway.info]
    /\ creationTx' = creationTx \cup {t}
    /\ gateway' = NoMutation
    /\ UNCHANGED <<chain, head, txRow, handler, lost, indexerVars, boot, sync, syncFailures, script>>

\* syncTokenToDatabase: one transaction upserts the row and records the creation
\* unless a transaction of that type is there.
SyncTokenToDatabase(t) ==
    /\ t \in gateway.tokens /\ gateway.info # NoRow
    /\ tokenRow' = [tokenRow EXCEPT ![t] = gateway.info]
    /\ creationTx' = IF \E i \in txRow : chain[i].kind = "launched" /\ chain[i].token = t
                     THEN creationTx ELSE creationTx \cup {t}
    /\ gateway' = NoMutation
    /\ UNCHANGED <<chain, head, txRow, handler, lost, indexerVars, boot, sync, syncFailures, script>>

\* The database refuses the transaction: the mutation answers with the row there is.
SyncTokenRollsBack ==
    /\ gateway.info # NoRow
    /\ gateway' = NoMutation
    /\ UNCHANGED <<tokenVars, indexerVars, boot, sync, syncFailures, creationTx, script>>

\* What the script may find: the tokens that the events of the last week name or, when
\* there are none, those of the creators among the users.
TokensFound == SUBSET {t \in Tokens : Launched(t)}

\* main of the script.  It counts twice as well.
RunScript ==
    /\ script = NoScript /\ Faults(2)
    /\ \E found \in TokensFound : script' = [NoScript EXCEPT !.todo = found]
    /\ UNCHANGED <<tokenVars, cursorRow, cursorCache, seen, unhandled, poll, up, boot, sync, syncFailures,
                   gateway, creationTx>>

\* processToken reads one token after the other and skips one that does not answer.
ProcessToken(t) ==
    /\ t \in script.todo /\ script.at = {}
    /\ \/ script' = [todo |-> script.todo \ {t}, at |-> {t}, info |-> RawTokenInfo(t)]
       \/ script' = [script EXCEPT !.todo = @ \ {t}]
    /\ UNCHANGED <<tokenVars, indexerVars, boot, sync, syncFailures, gateway, creationTx>>

\* It upserts the row, without a transaction for the launch; a failing write is only
\* logged.
UpsertToken(t) ==
    /\ t \in script.at
    /\ script' = [script EXCEPT !.at = {}, !.info = NoRow]
    /\ \/ tokenRow' = [tokenRow EXCEPT ![t] = script.info]
       \/ UNCHANGED tokenRow
    /\ UNCHANGED <<chain, head, txRow, handler, lost, indexerVars, boot, sync, syncFailures,
                   gateway, creationTx>>

SyncStep(s) == RunSync(s) \/ RunSyncEnds(s) \/ \E t \in Tokens : FetchToken(s, t) \/ UpdateToken(s, t)
BootStep == Bootstrap \/ BootstrapEnds \/ \E t \in Tokens : BootstrapToken(t)
PollerStep == PollStep \/ Handle \/ Restart

DatabaseInit == TokenInit /\ IndexerInit /\ SyncInit
DatabaseNext ==
    \/ \E t \in Tokens, a \in Amounts : LedgerCloses(t, a) /\ UNCHANGED <<indexerVars, syncVars>>
    \/ PollStarts /\ UNCHANGED syncVars
    \/ SkipDuplicate /\ UNCHANGED syncVars
    \/ TakeEvent /\ UNCHANGED syncVars
    \/ RefuseQueued /\ UNCHANGED syncVars
    \/ Handle /\ UNCHANGED syncVars
    \/ MarkProcessed /\ UNCHANGED syncVars
    \/ PollEnds /\ UNCHANGED syncVars
    \/ Restart /\ UNCHANGED syncVars
    \/ ProcessDies
    \/ Bootstrap
    \/ BootstrapEnds
    \/ \E t \in Tokens : BootstrapToken(t)
    \/ \E s \in Syncers : RunSync(s) \/ RunSyncEnds(s)
    \/ \E s \in Syncers, t \in Tokens :
           SyncSingleToken(s, t) \/ FetchToken(s, t) \/ UpdateToken(s, t) \/ SyncTokenFails(s, t)
    \/ \E t \in Tokens :
           RequestSync(t) \/ GetTokenInfo(t) \/ GetTokenInfoFails(t) \/ SyncTokenToDatabase(t)
    \/ SyncTokenRollsBack
    \/ RunScript
    \/ \E t \in Tokens : ProcessToken(t) \/ UpsertToken(t)

\* Timers fire, requests are answered (failures are the bounded faults), handlers
\* run to their end, and the platform restarts a process that died.
DatabaseFairness ==
    /\ WF_databaseVars(PollStep /\ UNCHANGED syncVars)
    /\ WF_databaseVars(Handle /\ HandlerStep /\ UNCHANGED syncVars)
    /\ WF_databaseVars(Restart /\ UNCHANGED syncVars)
    /\ WF_databaseVars(BootStep)
    /\ \A s \in Syncers : WF_databaseVars(SyncStep(s))
    /\ WF_databaseVars(\E t \in Tokens : GetTokenInfo(t) \/ SyncTokenToDatabase(t))

DatabaseSpec == DatabaseInit /\ [][DatabaseNext]_databaseVars /\ DatabaseFairness

-----------------------------------------------------------------------------
SyncTypeOK ==
    /\ IndexerTypeOK
    /\ \A s \in Syncers : sync[s].todo \subseteq Tokens
    /\ boot.todo \subseteq Tokens
    /\ syncFailures \in 0 .. 3
    /\ gateway.tokens \subseteq Tokens /\ gateway.left \in 0 .. FetchAttempts
    /\ script.todo \subseteq Tokens /\ script.at \subseteq Tokens

\* The launch of a token is recorded once: the indexer's handler and the gateway's
\* mutation each check before they write, and race (handleTokenCreated and
\* syncTokenToDatabase).
LaunchRecordedOnce ==
    \A t \in creationTx : \A i \in txRow : chain[i].token = t => chain[i].kind # "launched"

\* Whatever the handlers, a stale sync and a crash did to a row, once the chain is quiet the
\* XLM raised that it tells agree within the tolerance with those the contract holds, and
\* stay so (runSync, detectMismatch, the handlers' own writes).  The graduation does not:
\* the sync reads no status it knows and takes back what handleTokenGraduated wrote.
RowsConverge ==
    <>[](\A t \in Tokens : HasRow(t) => Near(tokenRow[t].raised, OnChain(t).raised))

\* The cursor reaches the network's latest ledger however often the process dies
\* or a cursor write fails (pollTokenFactoryEvents).
CursorReachesHead == <>[](up = "run") => <>[](cursorRow = head)

=============================================================================
