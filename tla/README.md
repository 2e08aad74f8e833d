# Astro launchpad: TLA+ models, checks and proofs

This directory holds the formal model of the launchpad. A token is launched by the
Soroban contract `sac-factory` on a bonding curve, traded there, and, when it has
raised enough, moved to an AMM pair ("graduation"). An indexer reads the events of
the contracts into a database, a gateway serves that database, and the web
application trades, launches and shows tokens. The models follow a token along this
path; what lies beside it is listed and left out.

Contents

1. Inventory of the system
2. Modules and how they correspond to the code
3. Runs: what TLC checks, the bounds, the fairness, what is shown
4. Theorems: what TLAPS proves, from what, and how
5. Disagreements between the code and what the repository says of it
6. What is not modelled, and why
7. Plan
8. Running the tools

## 1. Inventory of the system

### 1.1 Contracts

| part | state it keeps | operations |
|---|---|---|
| bonding curve (`bonding_curve.rs`) | per token: XLM reserve, tokens sold and remaining, total supply, `k` | `new`, `calculate_buy`, `calculate_sell`, `execute_buy_with_lp_fee`, `execute_sell_with_lp_fee` |
| roles and state (`access_control.rs`, `state_management.rs`) | `Role(account, role)` entries, the contract state | `grant_role`, `revoke_role`, `transfer_ownership`, `pause`, `unpause`, guards |
| fees (`fee_management.rs`) | creation fee, two rates, treasury, accumulated fees | `calculate_fee_breakdown`, four setters, `transfer_protocol_fee` |
| anti-whale (`anti_whale.rs`) | configuration with tiers, holdings and last buy of each wallet | `validate_buy`, `record_buy`, `record_sell`, configuration, wallet resets |
| books and life of a token (`lib.rs`, `storage.rs`) | `TokenInfo`, used symbols, `TotalLockedXlm`, threshold, configuration of AMM, ASTRO pool, bridge, oracle | `initialize`, `launch_token`, `launch_token_v2`, `buy`, `sell`, `manual_graduation`, `retry_graduation`, `recover_to_bonding`, `withdraw_fees`, setters |
| AMM pair (`contracts/amm-pair`) | reserves, LP shares | `initialize`, `add_liquidity`, `remove_liquidity`, `swap` |

`buy` is the richest call. It asks the state guard, the anti-whale module (with an
estimate made from the gross amount), pulls XLM from the buyer, asks the fee module
for a breakdown, adds the whale tax, asks the curve again with the net amount,
executes the curve, writes three books (`locked_xlm_amount`, `TotalLockedXlm`,
`xlm_raised`), and then, if the threshold is reached, graduates the token in the same
call. `sell` goes the other way without the anti-whale check, and pays its fees in
XLM where `buy` mints them as tokens.

What is hard: a call is atomic, so the difficulty lies in long sequences of legal
calls and in books kept in several places. Four figures describe the same XLM, each
written with its own mix of gross, net and fee amounts; every division rounds; the
global counter saturates at zero in silence; graduation is reached from three entry
points and its failure path writes state and then returns an error; limits are
decided on estimates; roles and configuration change between any two trades.

What makes it correct: curve, lock and life cycle of every token agree; the counter
is the sum of the locks; the factory holds what it owes; a token graduates when it
reaches the threshold, once, and pays out what it raised; the tokens counted as sold
exist; the limits hold; a paused contract does not trade; an initialized one has an
owner; nobody's share of a pair loses value by what others do.

### 1.2 Indexer

| part | state | operations | hard behaviours | correct when |
|---|---|---|---|---|
| ingestion (`optimized-event-indexer.ts`, `state-manager.ts`, `event-deduplication.ts`) | cursor and its copy, cache of seen events, rows | poll, skip, handle, mark, save the cursor, restart | cursor and rows are written apart, pages are cut, failing writes, crashes | the cursor passes nothing unseen, each event counts once, the head is reached |
| batches (`batch-processor.ts`) | buffer, timers, queue of batches | add, flush, run, retry, shut down | timers racing shutdown and back-pressure | no buffered event is forgotten |
| recovery (`dead-letter-queue.ts`, `dlq-maintenance.ts`, `ledger-gap-detector.ts`) | failed events, gaps, passes at work | add, retry, requeue, detect, recover in chunks | passes over stale lists interleave on one row, a failed fetch, a crash | a recovered gap was fetched, letters settle |
| breaker (`circuit-breaker.ts`) | state, counters, delay | let through, count, open, half open, close | calls begun in one state end in another | it closes only after its probes |
| handlers (`handlers/*`) | rows of tokens, pools, fees, logs | one handler per event; those of tokens are modelled (section 6) | redelivery, a crash between two writes, swallowed errors | a volume has its transactions, a launch has one record |
| synchronisation (`bootstrap-service.ts`, `blockchain-sync.service.ts`, `contract-reader.ts`, gateway `sync-service.ts`, `sync-tokens.ts`) | the same rows | bootstrap, periodic and requested sync, `syncToken`, the script of an operator | five writers of one row in three processes, stale reads, two readings of one record | rows converge to what is read of the contract, a launch is recorded once |
| fee statistics (both services, cron, CLI) | fee rows, statistics, configuration | recalculate, reset windows, clean up, report | overlapping aggregations, stale upserts | statistics converge to their records |

### 1.3 Gateway

| part | state | operations | hard behaviours | correct when |
|---|---|---|---|---|
| authentication (`context.ts`, `nonce-store.ts`) | nonces and their times | accept, clean up, restart | duplicates, late requests, clock skew | a signature is used once |
| queries (`resolvers`, `loaders.ts`) | none of its own | token list, leaderboards, fees, batched loads | offset cursors over moving rows, rounding | pages leave no gap, a load answers its own key |
| cache (`cache.ts`) | cached answers | get or fetch, expire | a slow reader stores an old answer over a newer one | old answers end |
| live updates (`websocket/server.ts`) | clients, subscribers, connections per address | connect, subscribe, heartbeat, disconnect | close event racing the heartbeat, late messages | the three tables agree |
| limits (`rate-limiter.ts`, upload route, page) | windows and counters | check, count | window boundaries, concurrent uploads, a store that fails or answers late, the counter in memory behind it | of the requests it counts, no window lets through more than it promises |

### 1.4 Web application

| part | state | operations | hard behaviours | correct when |
|---|---|---|---|---|
| trading (three widgets, `useTrade`, `sac-factory.service.ts`) | form, quote, stage of a trade, transaction | edit, quote, trustline, sign, submit, poll | the market moves between quote and execution; a poll may end before the transaction does | errors are final, a quoted trade is accepted, screens settle |
| launch (`create/page.tsx`) | form, upload, lock, launch | edit, upload, launch, poll, search | the answer may not name the token, others launch meanwhile | the token shown is the launched one |
| wallet (`WalletContext.tsx`, `useBalance.ts`) | account, saved account, balance | connect, change, poll | answers for an earlier account | the balance follows the account |
| hooks and store (`usePrice`, `useToken`, `useTokenStore`) | price, records, marks of loading | poll, refresh, reset | answers for an earlier token | the view follows the token |
| explore page (`ExploreClient.tsx`, GraphQL cache) | filters, cached lists, requests at work | filter, sort, search, load more, poll | cache keys, merged pages, late answers | pages leave no gap |
| token page, charts, lists | source, records, points, rows | load, fall back, poll, celebrate | overlapping reads, one failure switches the source, two lists that share one cache entry | the page follows what the token raised, charts draw their points, feeds catch up |

### 1.5 How they interact

Contracts call contracts (factory to pair, tokens, treasury). The indexer polls the
events from an RPC node. It and the gateway write the same database without a common
lock. The web application reads contracts and gateway, and sends transactions
through a wallet that may wait. No channel between them is ordered beyond one
request, and each may fail: that is why most hazards listed in `PROJECT.json` are
about an answer that meets a state other than the one it was asked in.

### 1.6 Beside the path

`staking-pool`, `fee-distributor`, `treasury-vault` and `liquidity-locker` are called
neither by the factory nor by the application. The first two share the protocol's fees
and are modelled (`FeeSharing`): a distributor holds every fee it lists as pending, and
the pool every stake and the reward pending on it. The other two are listed in
`PROJECT.json` with the hazards seen in them. `packages/*`, the other scripts and the
database schema keep no state.

## 2. Modules and how they correspond to the code

```
BondingCurve <- CurveMarket                      the market of one token (abstract)
AccessControl <- FeeManagement, AntiWhale
BondingCurve, FeeManagement, AntiWhale <- SacFactory
AmmPair <- FactoryClient <- TokenPage, TradeScreens
TokenEvents <- EventIndexer <- BlockchainSync    the rows of a token and their writers
DeadLetterQueue <- LedgerGapDetector
alone: FeeSharing TradeClient SignedRequests TokenBrowsing FeeStats CircuitBreaker
       BatchProcessor LiveUpdates QueryCache WalletSession TokenHooks TokenCreation
       GatewayQueries RateLimits MarketCharts ActivityFeeds
proofs: ArithmeticTheorems <- BondingCurveTheorems <- CurveMarketProofs, SacFactoryProofs
        ArithmeticTheorems <- AmmPairProofs, IndexerProofs, ServiceProofs;  ClientProofs
```

**The unit of a step.** Soroban runs a call alone and rolls back every write of a call
that ends in an error. An action of a contract is one *successful call*, with all its
early returns, signatures, balances and the needs of external contracts as guards. A
failing call is no step. The exception is a failing graduation: `BuyFailsToGraduate`
and `ManualGraduationFails` record in a history variable that it happened and change
nothing else, which is what the rollback leaves. In the TypeScript parts one action is
the code between two `await`s (or the body of one callback), so that everything that
may come in between, does. A failure is an action of its own, and a crash clears what
is kept in memory.

### 2.1 The factory

`BondingCurve` holds the operators of `bonding_curve.rs`; a `Can...` operator is the
condition for `Ok`. Divisions are floor divisions. `CurveMarket` is the abstract
specification: one token with its phase, curve, raised and locked amounts, whose fees
are *any* amounts its constants allow; it states what every fee schedule has to
respect. `AccessControl` maps role entries to sets of roles per account.
`FeeManagement` and `AntiWhale` hold their configuration, the setters with the role
and range checks, and the arithmetic of a trade. `SacFactory` composes them with the
tokens, the books, the external balances and the clock:

| action | code |
|---|---|
| `Initialize` | `initialize` |
| `Launch` (kinds `V1`, `V2`) | `launch_token`, `launch_token_v2` |
| `MakeMintable` | external: the issuer of a V1 asset hands over its admin role |
| `Buy`, `BuyAndGraduate`, `BuyFailsToGraduate` | `buy`, by what happens at the threshold |
| `Sell` | `sell` |
| `Transfer` | external: holders move tokens |
| `ManualGraduation`, `ManualGraduationFails` | `manual_graduation` |
| `WithdrawFees` | `withdraw_fees` |
| `SetGraduationThreshold`, `Configure` | setters that trading and graduation read |
| `RoleStep`, `PauseStep`, `FeeAdminStep`, `WhaleAdminStep` | admin calls of the modules |
| `Tick` | the ledger's clock |

`retry_graduation` and `recover_to_bonding` demand the status `GraduationFailed`, which
no committed call stores; their guard is the operator `MayRecover`. `withdrawn` and
`failedGraduations` are history, `pool` records what a graduation paid into the main
pair. The AMM, the ASTRO pool and the bridge are one account `DEX` that takes what the
factory authorises, or fails and takes the call with it. `AmmPair` models the pair on
its own: deposits, withdrawals and swaps with deadlines and minima, the locked shares
nobody owns, every quotient rounded as `math.rs` does.

`FeeSharing` is the fee distributor beside the staking pool. They meet in the ledgers of
the tokens alone: the distributor transfers the stakers' share to the pool and never
calls `add_rewards`.

| action | code |
|---|---|
| `ReceiveFees`, `Distribute`, `DistributeAll`, `UpdateSplit` | `receive_fees`, `distribute`, `distribute_all`, `update_config` of `fee-distributor` |
| `Stake`, `Unstake`, `ClaimRewards`, `AddRewards`, `UpdateStaking` | `stake`, `unstake`, `claim`, `add_rewards`, `update_config` of `staking-pool` |
| `SetPaused`, `EmergencyWithdraw` | the administrator's calls of either |

`DebtFor` is the one `reward_debt` of a user, written for each reward token in turn so
that the last one's stays; `drawn` counts what `emergency_withdraw` took, `stakeMoves` the
calls that round a debt. Left out are the totals for display, the identity and the
succession of the administrator, and what callers own. What goes to the treasury, the
burn address or a user leaves the model.

### 2.2 Indexer and gateway

| module | state | actions worth knowing |
|---|---|---|
| `TokenEvents` | `chain` (what the factory emitted; ids are positions), `tokenRow`, `txRow`, `handler` | the handlers in two steps, check and commit; other writers come in between. `ReadTokenInfo` is what the indexer makes of the contract's record, `RawTokenInfo` (in `BlockchainSync`) what gateway and script do |
| `EventIndexer` | `cursorRow`, `cursorCache`, `seen`, `poll`, histories `lost` and `unhandled` | `PollStarts`, `SkipDuplicate`, `TakeEvent`, `RefuseQueued`, `MarkProcessed`, `PollEnds`, `Crash`. `GetLastLedger` may fail, is then answered as if there were no cursor, and the poll starts at the network's latest ledger: what it jumps over is `lost` (`Jumped`). `Key` is the code's key of an event, which two events of one type in one transaction share; `Routed` is the switch on topics, and what it has no case for is `unhandled` |
| `BlockchainSync` | `boot`, `sync[s]`, `gateway`, `script` | bootstrap from the tokens the events name (`TokensFromEvents`), `RunSync`, `FetchToken`, `UpdateToken`, `SyncTokenToDatabase`; the script reads a token (`ProcessToken`) and writes it (`UpsertToken`) in two steps |
| `DeadLetterQueue`, `LedgerGapDetector` | `failedEvent`, `worker`, `ledgerGap`, `recovery` | passes over lists read at their start, chunks, `TriggerRecovery` of an operator |
| `CircuitBreaker` | state, counters, `calls` | `Execute`, `CallSucceeds`, `CallFails`; the answers come in any state |
| `BatchProcessor` | `buffered`, `timerSet`, `batches` | `AddEvent`, `FlushTimerFires`, `RetryTimerFires`, `Shutdown` |
| `FeeStats` | fee rows, `statsRow`, configuration, tasks at work | `TaskStep` (one query of an aggregation), cron jobs, CLI commands |
| `SignedRequests` | nonces, requests, two clocks | `SignAuthMessage`, `ExtractUser`, `CleanUpNonces`, `GatewayRestarts` |
| `GatewayQueries` | rows, boards in the cache, batches of the loaders | `Leaderboard` of traders and creators, cached under a key without the timeframe; `Load` and `LoadBatch`: the keys of one tick go to the database together and each is answered by position; `WriteToken` in between; `TopTokensByFees` (amounts ordered as text). The board of liquidity providers is always empty (section 6) |
| `QueryCache` | cached answer, readers | `CacheGet`, `Fetch`, `CacheSet`, `Expire` |
| `LiveUpdates` | sockets with both ends, three tables | the server of `websocket/server.ts` and the hook `useWebSocket` |
| `RateLimits` | counters of four limiters, uploads waiting for the store | `CheckRateLimit` and, when the store fails, `CheckWithoutStore`; `StartUpload`, `ReadUploads` (a refusing store lets the upload pass unchecked), `CountUpload` (a failing increment is ignored), `StoreThrows` (the upload is counted in memory, at the time it began to wait) |

### 2.3 Web application

| module | what it follows |
|---|---|
| `TradeClient` | a trade from the click to the answer of the network, in four components that share one sequence number, beside a market others move |
| `FactoryClient` | every read and transaction of `sac-factory.service.ts` with its adapters, as a call that reads the chain of its own moment, beside a curve and a pair. The factory it meets charges the fees its administrators set and the tax of a whale, refuses what the cap, a cooldown, a pause or the holder's balance forbid, and its administrators act in between |
| `TradeScreens` | the three trading screens: reads, controls and when they can be pressed, the trade in its stages, how the screen comes back |
| `TokenPage`, `MarketCharts`, `ActivityFeeds` | sources and fall-backs of a token page; points, lines and candles; lists with polls, pauses and highlights: on the page of a token the feed and the history share one entry of the client's cache, and each answer replaces the rows of both |
| `TokenBrowsing` | the resolver `tokens`, `deleteToken` and the explore page with the cache of its client |
| `TokenCreation` | the form, the upload, the launch and the search for the launched token. A launch goes on after its page is left (`LeaveCreatePage`), clears the form that is stored by then and redirects |
| `WalletSession`, `TokenHooks` | connection and balance; price, records and holdings |

A payload is told apart only by what a property needs: a token's state on the chain is a
version number in `TokenHooks`, a form its symbol and image in `TokenCreation`, a
transaction its kind in `ActivityFeeds`. Conversions that a property is about are modelled
by what they do: decimal strings by their digits (`FactoryClient.ToStroops`), rounding for
display (`TradeClient.ToFixed`), the shape in which an enum arrives (`Keys`,
`StatusIsText`), text ordering of amounts (`GatewayQueries.TextBefore`). The status of a
token arrives as an array of one symbol in every run, as the code has it, and the adapter
takes each token for `Bonding`: no page sees a graduation through the contract, the pool's
half of client and screens stands in the model as in the code and is never entered, and
only the gateway's flag shows one.

## 3. Runs: what TLC checks, the bounds, the fairness, what is shown

The factory's constants are scaled down (a virtual reserve of 4, 48 tokens of a supply
of 60, rates in tenths): with the real numbers one unit of rounding is invisible for
millions of trades; with these every trade rounds in both directions and a handful of
trades takes a market from launch to graduation. The formulas are the code's.

Parts that share no state are checked side by side in one run: a variable `focus`,
chosen at the start, names the part that moves. The states are the union, not the
product, and each part has the behaviours it has alone.

| run | properties | what it asks, and its bounds |
|---|---|---|
| `trading` | `TypeOK`, `SoldTokensExist`, `CapRespected` | The whole factory, one V1 token, two accounts: buys of 3, 5, 9, sells of 4 and 23, transfers of 9, two deadlines on a clock of two ticks, pauses, whale limits switched and replaced between trades. |
| `two_tokens` | `LockedTotal`, `Backing`, `NoGraduationSkipped`, `TokenIsMarket` | Two tokens on one balance and one counter: launches, trades, graduations that succeed or fail, withdrawals, a threshold lowered from 6 to 3. Two are what it takes for one to draw on the other. |
| `graduation` | `RaisedXlmReachesDex`, `OwnerNeverLost`, `ClaimsAreCovered` | Scenario "graduations": both kinds of token, automatic and manual, through AMM, AMM with ASTRO pool and bridge, configuration coming and going; amounts make the three shares round. Scenario "roles": two accounts grant, revoke and hand over in every order, change fees, pause. Scenario "sharing": two stakers, the staked token and another, amounts of 1 and 3 with a precision of 10 so that every quotient rounds, minima of 0 to 2, three splits, six calls in every order; without the unit for each rounded debt the claims exceed the holdings in six calls. |
| `clients` | `LockCoversEverySale`, `ErrorsAreFinal`, `QuotedTradesAreAccepted`, `SignatureUsedOnce`, `PagesLeaveNoGap`, `FeedCatchesUp`, `StatsConverge` | foci: one market (fees {0,1} and {1,2}, reserves to 14); four widgets on one account, trades of 1200 on a curve of 20 000 units and then on a small pair, a lifetime of 2 and 5 seconds, polls for 2; two requests, a late or double delivery, a restart; three tokens in pages of one, a launch, a change of filter, order or search, failing requests; every list of transactions, two records of two kinds, limits of one for the feed and two for the lists, answers that fail and pauses; fee statistics of one token over 4 days, one fault, two overlapping tasks. |
| `database` | `VolumeHasTransactions`, `CursorPassesNothingUnseen`, `LaunchRecordedOnce`, `RowsConverge`, `CursorReachesHead` | A chain of 3 events, two of which may share a transaction and with it their key, pages of 2, a cache of one (so that it forgets), two faults (crash, failing write, failing read or write of the cursor), one sync run, two attempts of the gateway. A new database starts at the network's latest ledger, the default. Topics are those the switch has a case for; `event_topics` takes the factory's. The mutation of the gateway and the script of an operator count as two faults each, so that each is seen alone with everything else. `StatusIsText = FALSE` is the form the contract's status has. |
| `services` | `RecoveredGapsAreFetched`, `BufferedEventsAreScheduled`, `TablesAgree`, `LettersSettle`, `ClosesOnlyAfterProbes`, `OldAnswersEnd` | foci: gap of two ledgers read in chunks and pages of one by two overlapping recoveries; two callers, thresholds of two; two contracts, batches of two, back-pressure at two; two sockets of two hosts with limits of one; two readers and two writes. |
| `pages` | `ShownTokenIsTheLaunched`, `LoadsAnswerTheirKeys`, `WindowsHold`, `FallbackHolds`, `BalanceFollowsAccount`, `ViewFollowsToken` | foci: two accounts, two requests at once; two tokens, two reads at once, a list beside the page; two tries of a launch among three creations, lists of two; two tokens and two creators asked for in any batches, with three rows; five requests in windows of two moments and of two requests, two uploads that wait for the store up to two moments, one request that passes unchecked. |
| `exchange` | `FreshTradesSimulate`, `QuotesAgree`, `ChartsDrawPoints`, `ShareValueNeverFalls`, `PageFollowsToken`, `ScreensSettle` | foci: three calls on a pair; two calls of the client, with amounts of 15.5 and 20.009, beside two moves of a market of 20 000 that has raised 19 200 and one act of an administrator (fees of 1 %, a cap with two tiers, a pause); the getters; a page; three charts over three seconds; every screen with two reads at once, two edits, one fault and one outside trade, while no administrator acts. The trades of others have no holdings on record. |

Four more runs are expected to be *violated* (section 5): `reserves`, `recovery`,
`event_topics`, `graduated_tokens`.

**Deadlock** is checked in the factory's runs: an admin call is always possible there.
The distributor and the pool rest at their bound, which is a step of the scenario. The
others may rightly stop: a graduated market does nothing more, a chain is at its bound, a
page is left.

**Why the bounds suffice.** Amounts have gaps, so that different orders of the same
trades reach different roundings. Two accounts, tokens, slots, callers or requests are
what it takes for one to come between two steps of another, and no property relates
three. Limits (pages, caches, batches, windows) are 1 or 2, so they are reached and
passed. Faults are bounded by one or two: after that the parts are fault-free, which is
also what the liveness properties speak of. Each property is also run against a mutant,
a plausible bug in a mapped definition, and found violated under the same bounds.

**Fairness.** *Contracts: none.* Nobody is obliged to call them. Elsewhere fairness is
asked of the code's own timers, of answers and of promises that go on, never of users,
traders or faults:

- `FeeStats`: weak for the cron job and each task. `StatsConverge` promises something
  only if the jobs are not stopped for good (`<>[]cron`).
- `BlockchainSync`: weak for the poll, the handler, bootstrap, the sync steps and the
  restart of a dead process (the platform restarts it).
- `LedgerGapDetector`: weak for recoveries and passes that began; strong, for each row,
  for the worker's listing: it lists every two minutes, a maintenance job every five,
  and a pass holds a row only between two writes, so a row that keeps becoming due is
  listed.
- `QueryCache`: weak for expiry and for the readers' two steps.
- `WalletSession`: weak for the balance timer and its answers.
- `TokenHooks`: weak for answers, strong for the two timers: the bound on reads under
  way can close their action again and again, the intervals fire nevertheless.
- `TokenPage`: weak for timers and arrivals, strong for a *successful* read: reads do
  not fail for ever. Without it the page is only promised to have given up.
- `ActivityFeeds`: weak for polls and arrivals, strong for an answer of the gateway.
- `TradeScreens`: weak for reads, the steps of a trade and balances. None for the quote
  timer, which every answer clears and sets again: `ScreensSettle` promises an output only
  if the timer is not due for ever, as it stays when answers are faster than it.

**Statements kept without a run.** `GraduationIsFinal`, `PauseStopsTrading`,
`SymbolsUnique`, `CurvesConsistent`, `CurveConsistent` and `LiquidityGrows` are proved
(section 4), so runs were given to others. `FeesWithinLimit`, `LoadingIsUnderWay`
and `FormComesBack` (under `CreateFairness`) gave way to deeper
properties; `ShutdownCompletes` is stated for `BatchFairness` and has no run. The others
state what a doc or a comment says and the code does not do (section 5, second list).

## 4. Theorems: what TLAPS proves, from what, and how

Every theorem holds for all values of the constants that satisfy the named `ASSUME`s of
its module (a positive virtual reserve, rates within their denominators, finite sets,
positive sizes, a nonce kept as long as its signature is valid, and so on); TLC
evaluates these on every run. Two theorems carry a hypothesis of their own, named below
(`LiquidityAlwaysGrows`, `LockAlwaysCovers`).

| module | theorem | says |
|---|---|---|
| `CurveMarketProofs` | `TypeCorrect`, `CurveStaysConsistent` | the books of a market are natural numbers; `k`, supply and lock agree with the reserve |
| | `LiquidityAlwaysGrows` | with an LP fee of at least one unit no trade lowers `k` while a unit of XLM buys a token |
| | `LockAlwaysCovers` | the lock covers every sale a holder may still make |
| `SacFactoryProofs` | `AccessTypeCorrect`, `OwnerAlwaysPresent`, `FactoryImplementsAccess`, `FactoryKeepsOwner` | roles and state move only by the operations of `AccessControl`; there is always an owner |
| | `FactoryTypeCorrect`, `CurvesStayConsistent`, `LockedTotalIsSum`, `FactoryIsBacked` | nothing goes below zero, every curve and lock agree, the counter is the sum of the locks, the XLM is there |
| | `SoldTokensAlwaysExist` | the tokens a curve counts as sold are covered by balances |
| | `RaisedXlmAlwaysReachesDex` | the DEX received what graduated tokens had raised, less two units a token at most |
| | `BuysRespectCap` | no buy records a holding above the cap |
| | `EveryTokenIsMarket` | the factory implements `CurveMarket`, token by token |
| | `GraduatedTokensAreFinal`, `BuysNeverSkipGraduation`, `PausedMarketsStandStill`, `LaunchedSymbolsUnique` | what no call does |
| `AmmPairProofs` | `PairBooksBalance`, `ProvidersNeverLose` | shares add up and reserves are empty exactly without shares; no call lowers what a share is worth |
| | `FreshTradesAreTaken` | a trade prepared of an unmoved market is refused only for what the factory takes under no minimum (a pause, a limit, a graduation, its size, a missing balance), for charges of more than 1 %, or for a trustline |
| | `QuotesArePaid` | while the factory charges the fees the application counts on and no tax, its quotes are what the curve pays; its swap quotes are what the pair pays, always |
| | `ChartsAreTrue` | lines ascend, candles sum up exactly the points of their interval |
| `IndexerProofs` | `VolumesHaveTransactions`, `LaunchesRecordedOnce` | no volume without its transactions, one record of a launch, with all writers of a row |
| | `NothingUnseenIsPassed` | the cursor passes no trade that is neither recorded, nor at work, nor lost to a fault, nor of a topic without a case |
| `ServiceProofs` | `BreakerTypeCorrect`, `BreakerClosesAfterProbes` | an open breaker closes only after its probes |
| | `RecoveredMeansFetched` | a gap is marked recovered only when it was fetched |
| | `NoBufferedEventIsForgotten` | a buffered event has a timer, and the counter is the sum of the buffers |
| | `TablesAlwaysAgree` | the three tables of the live updates describe the same connections |
| | `LimitsAlwaysHold` | how many of the requests it counts each limiter lets pass in any stretch as long as a window, whatever the store answers |
| | `PagesAreGapless` | in the order of creation no token is missing between two tokens of the list |
| | `LoadsAlwaysAnswerTheirKeys` | what a request is given for a key is about that key, in whatever batches |
| | `ClaimsAreAlwaysCovered` | distributor and staking pool can pay what they owe, but for what an administrator drew and for the rounding of the debts; the pool while it pays in one token |
| `ClientProofs` | `SignedTypeCorrect`, `SignaturesUsedOnce` | a gateway process accepts a signed request at most once |
| | `ErrorsAreAlwaysFinal` | a widget that reports an error tells the truth |
| | `QuotedTradesAreTaken` | a trade quoted on the reserves of now meets its own minimum, in all three widgets that quote |
| | `ShownTokenIsAlwaysTheLaunched` | the token shown after a launch is the launched one |
| `ArithmeticTheorems`, `BondingCurveTheorems` | `SumUpdate`, `SumDiffersAtOnePoint`, and lemmas | sums, products, floor division; a curve stays sound through each trade |

**The market.** `TypeOK` is not inductive: that a sell leaves a natural number needs to
know that `k` is the product of the reserves. `IInv == TypeOK /\ CurveConsistent` is.
The steps come down to `DivFloor`: `k \div d <= k` and `d * (k \div d) <= k`. For
`LiquidityAlwaysGrows` the rounding of a swap loses at most `d - 1` of the product and
one unit of LP fee adds at least the other reserve.

`LockAlwaysCovers` rests on `LaunchLiquidityKept`: `k` never falls below what it was at
the launch, so a full sale cannot take the reserve below the virtual one. It assumes
`0 \notin LpFees` and `ReservesAreSmall`: a reserve, times itself less one, stays
within the product of the launch. Both are needed: without an LP fee rounding
lowers `k` (section 5), and beyond that bound a unit of LP fee is worth less than what
rounding takes. With the constants of `lib.rs` the bound is met by reserves up to
4 * 10^12, forty times the graduation threshold.

**The owner.** `OwnerNeverLost` needs `NoRolesBeforeInitialize`: otherwise somebody with
the role `PauseAdmin` could make the contract active before `initialize`. A revocation
leaves the revoker; a transfer writes the new entry after the old one is removed.
`StepAccess` shows each action of the factory to be a step of `AccessNext` or none.

**The books.** The inductive invariant of the factory is

```
FactoryInv == TypeOK /\ TiersLimited /\ CurvesConsistent
              /\ NothingRaisedBeforeLaunch /\ LockedTotal /\ Backing
```

That `totalLocked` stays the sum needs that a lock is never larger than the counter,
which is `LockedTotal` itself: it makes the saturating subtraction of `storage.rs`
exact. `TiersLimited` keeps the whale tax below what it is taken from.
`NothingRaisedBeforeLaunch` says a launch creates no debt. In `Backing` a token on the
curve is owed the larger of its lock and of what was raised; a buy brings `gross` and
raises either by at most that much (`BuyFeeParts`); a sell takes `net + protocol`; a
graduation takes at most what was raised and owes nothing afterwards (`PayoutFacts`: the
three rounded shares never exceed the total, and leave at most two units); a withdrawal
takes from the balance what it adds to `withdrawn`. One lemma per action does this, and
`SumDiffersAtOnePoint` turns the change of one token into that of the sum.

On top of it, `SoldTokensAlwaysExist` follows every mint, burn and transfer of a token:
`bal` is a function over holders whose sum changes by what the call mints, so the sum
stays at least `tokens_sold`; a launch starts at zero. `RaisedXlmAlwaysReachesDex` needs
that nothing but a graduation pays `DEX`, and adds one token to the sum over graduated
ones with the rounding of `PayoutFacts`. `BuysRespectCap` has to bridge the estimate and
the amount minted: less XLM never buys more tokens (a monotonicity lemma on
`CalculateBuy`), and the net amount is below the gross amount the estimate was made of.

**The refinement.** `EveryTokenIsMarket` maps token `t` to `CurveMarket` with
`phase <- status[t]`, `curve <- curve[t]`, `raised <- raised[t]`, `locked <- locked[t]`,
the supply on the curve, and any natural number as fee. Each action is a step of the
market for its token (the fee and the tax of the call are the fee the market allows) and
stutters for every other one (`Untouched`); calls that leave the books alone stutter for
all. It uses `UnlaunchedIsNew`: the record of a token that was never launched is the one
the market starts with. The run `two_tokens` checks the same refinement, with the
bounds of the fees made explicit (`TokenIsMarket`).

**The pair.** `PairInv == PairTypeOK /\ ReservesFollowShares /\ SharesAddUp`. A
withdrawal burns only shares of accounts, so the locked ones always remain
(`SharesBounded`) and both reserves stay positive. `ProvidersNeverLose` compares the
product of the reserves per squared share before and after: deposits and withdrawals
round each side against the caller (`PartOfSide`), the two sides multiply (`SideBySide`),
the first deposit is bounded by the square root (`RootExists`), and a swap is accepted
only if the product does not fall.

**The rows of a token.** `RecordsInv` joins what the chain holds (`ChainInv`), rows
(`RowsInv`), the handler at work (`HandlerInv`: what it read plus its own trade is at
most what has a transaction plus its trade), the other writers (`WritersInv`: rows never
vanish, so a sync lists rows that are there), the script (`ScriptInv`: what it holds of a
token counts no volume) and the cursor. The handler is in two
steps, and the invariant is what makes the second correct whatever came in between.
`NothingUnseenIsPassed` adds `CursorInv`: everything up to the ledger a poll answered is
accounted for or still in its page, and what is in the cache of seen events is accounted
for. `Accounted` is a
transaction, a fault (`lost`: a handler that failed, a page jumped over after a failing
read of the cursor, an event whose key another one had used) or a topic without a case
(`unhandled`). Of the topics nothing is assumed: with those the factory emits every trade
is `unhandled`, which is the finding of `event_topics`. The proof keeps
`CursorSafe == RecordsInv /\ ScriptInv /\ CursorInv /\ Passed`.

**The services.** *Breaker*: `CountsOnlyServed`, the breaker's counter is never more than
the calls that really succeeded since it opened. *Gaps*: `DoneBelow`, what lies below the
position of a recovery at work was fetched or is known as missed; it survives a second
recovery of the same gap. *Batches*: `QueueBounded`; a contract never buffers a full batch
and the counter never passes the limit. *Live updates*: sockets are numbered in order of
their making and never change their address, and a connection the server knows has a
server end; with that, counting connections per address is a count of a finite set that
changes by one. *Limiters*: each remembers something else of the requests it let pass, so
`RateInv` has a part for each: a page the last requests (`PageCounts`), the window in
memory where it began and where the one before did (`MemoryCounts`), the counter of the
uploads a number no smaller than what passed with the store, with the uploads that still
have to count (`UploadCounts`), the gateway at most one window full beside the one it
counts (`WindowCounts`). What passes while the store fails is not counted by the code and
has no limit: the statement leaves it out, and section 5 says where the code promises
more. *Loaders*: `LoaderInv` is the property with the types of the rows; a row of a token
keeps its creator once written, so that an answer stays about its key. *Sharing of fees*:
`SharingInv` joins `DistributorCovers`, the total of the pool as the sum of the stakes,
`DebtsStart` (no debt before the first reward token) and, while there is one reward token
at most, `DebtsFit` (no debt above what the stake has earned) and `PoolCovers`, which
counts in units of `1/PRECISION` what stakes have earned beyond their debts. A harvest
pays at most that, a new debt is rounded down and costs less than one unit, and a reward
per share rounded down never gives more than was added. Both conditions of the statement
are needed: TLC refutes it without the unit for each rounded debt, and with two reward
tokens.

**The clients.** *Requests*: `AcceptedIsRecorded`, an accepted request has its nonce on
record no earlier than it was signed, or has expired. *Trades*: `Truthful` says for each
stage what the transaction may still do; poll `k` comes at least `k` seconds after the
wallet's answer, so the last one is after the deadline. This needs
`TxTimeout <= PollAttempts`, true of three of the four components; the statement excepts
the fourth, `TradingInterface`, whose transactions outlive its polls (section 5). *Quotes*:
`QuotesInv` says that the minimum of a fresh trade comes from a quote for its own amount
on reserves that existed, and that a quote on the form belongs to what it names. What is
left is arithmetic, for every size of the reserves: the page takes the fee from the output
and the factory from the input, each rounded, the output is shown in whole grains, and the
tolerance has to cover all of that. `RoundingAssumption` says how large the amounts must
be: a smallest trade of at least 1000 and a minimum of at least 700 and 250 grains; in
stroops the smallest trade is 1 000 000 and the grain 1000. *Launches*:
`SymbolsDiffer` (the factory refuses a used symbol) and `Listed`: a launch is in the
creator's list, at its end while nothing was launched since.

**Client and chain.**
`ClientInv == ChainInv /\ SettingsInv /\ CallInv /\ TradeInv /\ FreshTradesSimulate`.
`ChainInv` keeps both reserves of the curve positive with `k` their product, and those of
the pair both empty or neither; `SettingsInv` bounds the fees and types the tiers that
administrators choose; `CallInv` says where each method of `sac-factory.service.ts`
stands (a buy with trustline simulates only when there is one); `TradeInv` types what
waits for the wallet and the network. `QuotesAgree` follows from `ChainInv`, by lemmas on
the two formulas: the curve of `bonding-curve.utils.ts` pays more for more and, being
concave, loses no larger part of its output than of its input (`ToleranceCovers`), and
from an amount of 300 on the factory's fees, at their defaults, are at most the client's
one per cent (`FeesWithin`). The code's smallest trade is 1 000 000. With the same
concavity `FreshTradesAreTaken` asks of the charges of a trade, configured fees and whale
tax together, only that they are no more than one per cent. `FactoryClientAssumption`
says what administrators may choose: each fee up to 100 basis points, the tax of a tier up
to 5000.

**Charts.** `ChartsInv` says that the points of both series ascend, whatever polls were
under way. That candles sum up their points is an induction on the length of the line,
with a state of the pass (the rows made so far, each the first, last, least and greatest
value of its interval) in place of the fold.

**Pages.** The listing of an order is described by the *set* of ids that a query finds:
a page is the ids between two offsets (`PageFound`), a list the ids down from its first
(`Listed`), and a page on its way joins the list it was asked for (`Joins`), whatever was
launched since, because a new id is above all listed ones. `PagesInv` says this of the list
of the server, of every list in the cache and of the three queries. The attempt to prove
the property in its first form failed for a reason: a token can be missing above the first
card, after more launches than a page holds (with `LaunchBound = 3` and pages of one TLC
shows it). The statement now says so and speaks of the tokens between two of the grid, and
of those above the first while no more than a page of tokens is newer.

**Sums.** `SumFunctionOnSet` is a fold. The library's induction theorems take an
operator, so `ArithmeticTheorems` argues by a minimal counterexample: strict subsets of
a finite set are well-founded, hence a function from subsets to their sums exists
(`SumExists`), and the fold is its value. `FiniteInduction` is induction over an interval
that takes a set where the library's theorem takes an operator; what recursive functions
and folds of charts compute is proved with it.

**Only model-checked**, and why:

- `StatsConverge`, `RowsConverge`, `CursorReachesHead`, `LettersSettle`, `OldAnswersEnd`,
  `BalanceFollowsAccount`, `ViewFollowsToken`, `PageFollowsToken`, `FeedCatchesUp`,
  `ScreensSettle`: liveness under fairness, out of the prover's reach.
- `TokenIsMarket` is the refinement with the bounds of the fees of its instance; the
  theorem `EveryTokenIsMarket` proves the step form for every token and fee.
- `FallbackHolds` bounds what the counter in memory of the upload route lets pass when
  late uploads begin windows in the past; it has no theorem yet.

Every other invariant and action property of a passing run is stated by a theorem.

## 5. Disagreements between the code and what the repository says of it

Each of the first list is a run that TLC finds violated, quoted in `PROJECT.json`.

- `reserves` (`ReservesProtected`). `withdraw_fees` keeps the XLM in `TotalLockedXlm`
  and takes the rest. `graduate_to_amm` then pays out `xlm_raised`, which counts the
  protocol fees taken before. The difference comes out of other tokens' locks.
  `Backing` is the sharp bound: the shortfall is never larger than what was withdrawn.
- `recovery` (`FailedGraduationRecoverable`). `GraduationFailed`, written "so recovery is
  possible", is rolled back by the error that follows. No recovery call is ever open.
- `event_topics` (`ProcessedTradesAreRecorded`). The factory's topics have underscores,
  the switch compares without them: trades are marked as processed and not recorded.
- `graduated_tokens` (`GraduatedTradesOnAmm`). The status arrives as an array of one
  symbol; the adapter looks for keys of an object and takes every token for `Bonding`. It
  follows that no page shows a graduation it reads from the contract and no screen ever
  trades on the pool: `PageFollowsToken` speaks of the amount raised, the screens settle on
  the curve, and the swap formula is compared with the pair beside them (`QuotesAgree`).

Others met while modelling have a definition or a comment in the module, and no run:

- *Factory.* `lib.rs:534` calls `xlm_raised` cumulative, but `sell` subtracts.
  `bonding_curve.rs:191` says `k` grows: with an LP fee of zero, which `set_lp_fee`
  allows, rounding lowers it. The main pool gets 75 % where `lib.rs:1350` promises 80 %
  (`MainPoolGetsItsShare`). The cap is on what the factory recorded, so received transfers
  do not count (`HoldingsWithinCap`). The fee of a buy, an amount of XLM, is minted as
  that number of token units (`OnlySoldTokensExist`). `astro_client.rs` and `amm_client`
  call an interface other than the one of `contracts/amm-pair`.
- *Sharing of fees.* "Earn rewards from multiple tokens" (`staking-pool/src/lib.rs:10`):
  all reward tokens share one debt, so a second one is paid by the first one's figures.
  Rewards added while nobody stakes are credited to nobody. The stakers' share arrives by
  a plain transfer, which `add_rewards` never learns of. `cooldown_period` and
  `max_stake_per_user` are configured and never asked. "Skip failed distributions"
  (`fee-distributor/src/lib.rs:253`) never skips a failing transfer, which traps and takes
  the whole call back.
- *Indexer.* "The indexer will pick these up" (`ledger-gap-detector.ts:400`): a recovered
  event is resolved without a handler having seen it (`RecoveredEventsAreProcessed`).
  `storeRecoveredEvent` swallows its errors. `cleanupOldRecords` shrinks totals.
  `parseTokenInfo` compares the status with a text (`contract-reader.ts:320`), and it
  arrives as a list of one name: bootstrap, sync and `handleTokenCreated` never read a
  graduation, and a sync takes back the flag that `handleTokenGraduated` wrote.
  "Consistency with on-chain state" and the automatic repair of
  `blockchain-sync.service.ts:4-10` therefore do not reach the flag, and `RowsConverge`
  speaks of what both readings agree on, the amount raised. A read of the cursor that
  fails is answered like a missing cursor (`state-manager.ts:79-82`): the next poll starts
  at the network's latest ledger and saves it, and what lies between is passed unseen. Two
  events of one type in one transaction have one key (`event-deduplication.ts:205-217`),
  and the second is taken for a duplicate.
- *Gateway.* Its copy of the fee service answers other revenue than the original it claims
  to copy (`GatewayAgreesOnRevenue`). Amounts are ordered as text, so 9 is above 10
  (`TopTokensAreTop`). The limiter is called a sliding window and is a fixed one;
  `WindowsHold` is what holds, twice the limit at a boundary. What a failing store lets
  pass is not counted: the gateway's increment catches its error and answers as the first
  request of a window, against "fail closed" (`rate-limiter.ts:39-44`, `66-98`, `189`);
  the upload route passes when the store refuses the read (`upload-image/route.ts:88-91`)
  and ignores a failing increment. `deleteToken` is not atomic; the leaderboard's cache
  key omits the timeframe, so one timeframe is shown as another.
- *Trading.* A tolerance of 0.5 % chosen for the pool is set back to 1 % by the next read
  (`TradingWidgetPremium.tsx:212`), and a minimum may be that of an earlier amount,
  against "Slippage protection" (`:129-131`; `SlippageProtected`). One transaction lives
  300 seconds and is polled for 30 (`base-contract.service.ts`). `useTrade` ignores the
  result of the trustline. The graduation toast of the premium widget never fires
  (`:675-677`). Answers faster than the quote timer of 300 ms keep it from firing
  (`:235-250`, `325-330`).
- *Browsing.* The status is not in the cache key (`ListMatchesFilter`; `client.ts:101`).
  The poll of the first page drops the pages loaded after it. A resolver that fails
  answers an empty list, and the page says that there are no tokens.
- *Pages.* After a change of account an old answer may leave a balance without an account
  (`NoBalanceWithoutAccount`; `WalletContext.tsx:293`). The first of two uploads to end
  clears the mark of the other, and the last to end wins (`ImageIsShown`). A launch whose
  page was left goes on: it clears the form that is stored by then and redirects the
  visitor (`create/page.tsx:460-467`). Pausing the feed on the page of a token does not
  keep its rows still: the poll of the history rewrites the entry they share
  (`graphql/client.ts:127-129`), and rows that are only older are highlighted as new. A
  reopened socket subscribes from a stale reference (`OpenSocketFollows`;
  `useWebSocket.ts:214`). One failed read makes a token page fall back, and it stops
  polling. `TradingViewChart` with an empty history draws nothing.

## 6. What is not modelled, and why

In `sac-factory`: getters, counters for display, events and TTL extension change nothing
a modelled call reads; `set_xlm_token_address` and `upgrade` replace the premises; the
oracle's price only decides whether a graduation fails, a free choice here; the
configurable ASTRO basis points are read by nothing. `i128` overflow is out of reach of
the amounts that exist. The lock of `amm-pair` against re-entrance is not seen, because
a call is one step.

In the indexer: metrics, HTTP endpoints that only read, the Redis copy of a lock. The
handlers of pools, graduations, fees and users are left out because the code as it stands
never lets them write: the contracts' topics have underscores and reach no case
(`optimized-event-indexer.ts:712`), the validation of the pool handlers throws for the
tuples the pair publishes (`pool-events.ts:48-50`, `144-146`, `205-207`), and the address
they store violates the foreign key to `Pool.id` (`schema.prisma:214`, `230`), which takes
the transaction back. For the same reason the leaderboard of liquidity providers has
nothing to rank, and is modelled as the empty answer it gives.

In the gateway: resolvers that are one query. In the web application:
layout, wording, animation, and pages and widgets that only render.

`treasury-vault`, `liquidity-locker` and the token contracts: not on the path of a
launched token. The hazards seen in them are listed without a property.

What a property leaves out, because the code gives it up: `CursorPassesNothingUnseen`
exempts what a fault lost and what has no case, `RecoveredGapsAreFetched` the chunk whose
fetch failed and was logged (`missed`), `LettersSettle` the rows a crash leaves at
`RETRYING`, and `PagesLeaveNoGap` does not see that the status is missing in the cache
key (`ListMatchesFilter`, above). These are the limits of what the code promises there,
and not covered hazards.

External parts (network, wallet, database, Redis, issuer) are modelled from how the code
uses them: they answer or fail, in any order the client allows.

## 7. Plan

What was planned first is there: the factory and its refinement, the pair, the indexer
with recovery, the gateway, the clients, and a theorem for each safety property that the
provers reach. In order of importance, what remains:

1. Proofs: `RowsConverge` as far as it is safety (a row of a quiet chain that agrees
   stays so).
2. A theorem for `FallbackHolds`.
3. `LiquidityLocker` and `TreasuryVault`.
4. The poller of the pairs with the pool handlers, once their topics, their validation and
   their keys let an event through.

## 8. Running the tools

```
tlasany SacFactory.tla
tlc -workers 2 -config TwoTokens.cfg MCSacFactory
tlapm SacFactoryProofs.tla
```

The runs take between half a minute and three and a half minutes with two workers. The
proofs of `SacFactoryProofs`, `IndexerProofs` and `ServiceProofs` take longest.
