------------------------------ MODULE FeeStats ------------------------------
(***************************************************************************)
(* The fee statistics: table FeeStats with one row per token and the row   *)
(* GLOBAL, computed from the rows of table FeeCollection                   *)
(* (src/backend/indexer/src/services/fee-stats.service.ts, its maintenance *)
(* tasks and initializer) and the gateway's copy of the service            *)
(* (src/backend/api-gateway-v2/src/lib/fee-stats-service.ts).  A           *)
(* recalculation of one row is four queries, one after the other, and an   *)
(* upsert; tasks, both services and new fees interleave between them.  The *)
(* rows of FeeCollection and FeeConfig are those FeeEventHandler creates   *)
(* from an event it is given (the poller, which knows topics without       *)
(* underscores, gives it none), and the initializer.                       *)
(* Time is counted in days, the last day being the current one; the other  *)
(* windows keep their order, not their lengths.                            *)
(***************************************************************************)
EXTENDS Integers, FiniteSets, SequencesExt

CONSTANTS
    FeeTokens,
    Week, Month,      \* TIME_WINDOWS, in days; a day is 0
    Retention,        \* feeCollectionDays
    OldDays,          \* days one of which has the record the model starts with
    LastDay,          \* bound of the model on the days that pass
    RecordBound,      \* bound of the model on the fees collected
    FeeTopics,        \* names of the fee events that happen
    ConfigTopics,     \* names of the changes of the configuration that happen
    NewValue,         \* what such a change sets
    MaxTasks,         \* bound of the model on the tasks at work at once
    FeeFaultBound     \* bound of the model on failing tasks, midnights, and what
                      \* administrators and operators do

ASSUME FeeStatsAssumption ==
    /\ Week \in Nat /\ Month \in Nat /\ Retention \in Nat
    /\ 0 < Week /\ Week < Month /\ Month < Retention

VARIABLES
    today,
    records,       \* table FeeCollection: records of [id, token, day, fee]
    statsRow,      \* table FeeStats: NoStats, or an aggregate per window
    task,          \* the tasks at work: [todo, list, now, got]
    resetDue,      \* the cron job of midnight has not started yet
    feeConfig,     \* table FeeConfig, unique by contract: NoConfig, or its one row
    cron,          \* the cron jobs are scheduled (isRunning)
    setup,         \* where the initializer is
    once,          \* what runAllTasks has still to run
    feeFaults

operated == <<feeConfig, cron, setup, once>>
feeVars == <<today, records, statsRow, task, resetDue, operated, feeFaults>>

Global == "GLOBAL"
Scopes == FeeTokens \cup {Global}
NoStats == <<>>
\* The cron jobs of the maintenance, the gateway's mutations, and the two commands of an
\* operator: the backfill of the initializer and runAllTasks.
TaskNames == {"recalculateStats", "resetTimeWindows", "gateway", "backfill", "once"}
IdleTask == [todo |-> <<>>, list |-> FALSE, now |-> -1, got |-> <<>>]

\* The rows FeeEventHandler makes of its events; the type of a withdrawal is none of the
\* database's, which rejects it.
FeeType == {"PROTOCOL_FEE", "LP_FEE", "CREATION_FEE"}
FeeRow(topic, token, tx) ==
    LET row == [id |-> tx, token |-> token, day |-> today, type |-> "PROTOCOL_FEE",
                protocol |-> 0, lp |-> 0, amount |-> 2]
    IN  CASE topic = "fee_breakdown" -> [row EXCEPT !.protocol = 2, !.lp = 1, !.amount = 3]
          [] topic = "protocol_fee_collected" -> [row EXCEPT !.protocol = 2]
          [] topic = "lp_fee_collected" -> [row EXCEPT !.type = "LP_FEE", !.lp = 2]
          [] topic = "fees_withdrawn" -> [row EXCEPT !.type = "WITHDRAWAL"]

\* aggregateFeesSecure: sums and number of the fees of a scope since a day.
AggregateFees(s, since) ==
    LET found == {r \in records : (s = Global \/ r.token = s) /\ r.day >= since}
    IN  [protocol |-> MapThenSumSet(LAMBDA r : r.protocol, found),
         lp |-> MapThenSumSet(LAMBDA r : r.lp, found),
         creation |-> MapThenSumSet(LAMBDA r : IF r.type = "CREATION_FEE" THEN r.amount ELSE 0,
                                    found),
         count |-> Cardinality(found)]
TotalFees(a) == a.protocol + a.lp + a.creation

\* The four queries of a recalculation: all, day, week, month.
Since(now) == <<-1, now, now - Week, now - Month>>
Stats(s, now) == [q \in 1 .. 4 |-> AggregateFees(s, Since(now)[q])]
\* getUniqueTokenAddresses.
UniqueTokens == {t \in FeeTokens : AggregateFees(t, -1).count > 0}

NoConfig == <<>>
DefaultConfig == [protocol |-> 5, lp |-> 25, creation |-> 100, treasury |-> "contract"]

FeeInit ==
    /\ today = Retention
    /\ records \in {{[FeeRow("fee_breakdown", t, 0) EXCEPT !.day = d]} :
                    t \in FeeTokens, d \in OldDays}
    /\ statsRow = [s \in Scopes |-> NoStats]
    /\ task = [k \in TaskNames |-> IdleTask]
    /\ resetDue = FALSE
    /\ feeConfig = NoConfig
    /\ cron = FALSE
    /\ setup = "no" /\ once = <<>>
    /\ feeFaults = 0

IsIdle(k) == task[k] = IdleTask
FeeFault == feeFaults < FeeFaultBound /\ feeFaults' = feeFaults + 1
Begins(k, todo, list) ==
    /\ IsIdle(k) /\ Cardinality({j \in TaskNames : ~IsIdle(j)}) < MaxTasks
    /\ task' = [task EXCEPT ![k] = [IdleTask EXCEPT !.todo = todo, !.list = list, !.now = today]]
    /\ IF k = "gateway" THEN FeeFault ELSE UNCHANGED feeFaults
    /\ UNCHANGED <<today, records, statsRow>>

\* recalculateStats: the global row, then every token that has a fee record.
RecalculateStats(k, includeGlobal, includeTokens) ==
    /\ Begins(k, IF includeGlobal THEN <<Global>> ELSE <<>>, includeTokens)
    /\ UNCHANGED resetDue

\* resetExpiredTimeWindows: the tokens with a fee in the last month, then the
\* global row.
ResetExpiredTimeWindows(k) ==
    Begins(k, Append(SetToSeq({t \in FeeTokens : AggregateFees(t, today - Month).count > 0}),
                     Global), FALSE)

\* startCronJobs of the maintenance, which does nothing the second time, and stopCronJobs,
\* which lets the tasks at work end.
StartCronJobs ==
    /\ ~cron /\ cron' = TRUE
    /\ UNCHANGED <<today, records, statsRow, task, resetDue, feeConfig, setup, once,
                   feeFaults>>
StopCronJobs ==
    /\ cron /\ FeeFault /\ cron' = FALSE /\ resetDue' = FALSE
    /\ UNCHANGED <<today, records, statsRow, task, feeConfig, setup, once>>

\* runTask of the cron jobs.
CronRecalculates == cron /\ RecalculateStats("recalculateStats", TRUE, TRUE) /\ UNCHANGED operated
CronResets ==
    /\ cron /\ resetDue /\ ResetExpiredTimeWindows("resetTimeWindows") /\ resetDue' = FALSE
    /\ UNCHANGED operated

\* The mutations recalculateFeeStats and resetExpiredTimeWindows of an administrator, by the
\* gateway's copy of the service.
GatewayRecalculates(includeGlobal, includeTokens) ==
    RecalculateStats("gateway", includeGlobal, includeTokens)
RecalculateFeeStats ==
    /\ \E g, t \in BOOLEAN : (g \/ t) /\ GatewayRecalculates(g, t)
    /\ UNCHANGED operated
GatewayResets == ResetExpiredTimeWindows("gateway") /\ UNCHANGED resetDue
ResetByGateway == GatewayResets /\ UNCHANGED operated

\* runAllTasks: one task after the other, whether or not the one before it failed.
RunAllTasks ==
    /\ once = <<>> /\ IsIdle("once") /\ FeeFault
    /\ once' = <<"reset", "recalculate", "cleanup">>
    /\ UNCHANGED <<today, records, statsRow, task, resetDue, feeConfig, cron, setup>>
RunNextTask ==
    /\ once # <<>> /\ once' = Tail(once)
    /\ CASE Head(once) = "reset" -> ResetExpiredTimeWindows("once")
         [] Head(once) = "recalculate" -> Begins("once", <<Global>>, TRUE)
         [] OTHER -> /\ IsIdle("once")
                     /\ records' = {r \in records : r.day >= today - Retention}
                     /\ UNCHANGED <<today, statsRow, task, feeFaults>>
    /\ UNCHANGED <<resetDue, feeConfig, cron, setup>>

\* The next query of the row at work.
AggregateNext(k) ==
    /\ task[k].todo # <<>> /\ Len(task[k].got) < 4
    /\ LET now == IF task[k].got = <<>> THEN today ELSE task[k].now
           q == Len(task[k].got) + 1
       IN  task' = [task EXCEPT ![k].now = now,
                        ![k].got = Append(@, AggregateFees(Head(task[k].todo), Since(now)[q]))]
    /\ UNCHANGED <<today, records, statsRow, resetDue, operated, feeFaults>>

\* Mutant: the upsert writes nothing over a row that exists.
UpsertStats_CreateOnly(k) ==
    /\ Len(task[k].got) = 4
    /\ k = "gateway" => Head(task[k].todo) # Global
    /\ statsRow' = [statsRow EXCEPT ![Head(task[k].todo)] = IF @ = NoStats THEN task[k].got ELSE @]
    /\ task' = [task EXCEPT ![k] = IF Tail(@.todo) = <<>> /\ ~@.list THEN IdleTask
                                   ELSE [@ EXCEPT !.todo = Tail(@), !.got = <<>>]]
    /\ UNCHANGED <<today, records, resetDue, operated, feeFaults>>

\* recalculateGlobalStats and recalculateTokenStats end with an upsert of the row;
\* the last row ends a task that has no tokens to list.
UpsertStats(k) ==
    /\ Len(task[k].got) = 4
    /\ k = "gateway" => Head(task[k].todo) # Global
    /\ statsRow' = [statsRow EXCEPT ![Head(task[k].todo)] = task[k].got]
    /\ task' = [task EXCEPT ![k] = IF Tail(@.todo) = <<>> /\ ~@.list THEN IdleTask
                                   ELSE [@ EXCEPT !.todo = Tail(@), !.got = <<>>]]
    /\ UNCHANGED <<today, records, resetDue, operated, feeFaults>>

\* The gateway upserts the global row by an undefined key, which the client
\* rejects: its task ends there.
UpsertUndefined(k) ==
    /\ k = "gateway" /\ Len(task[k].got) = 4 /\ Head(task[k].todo) = Global
    /\ task' = [task EXCEPT ![k] = IdleTask]
    /\ UNCHANGED <<today, records, statsRow, resetDue, operated, feeFaults>>

\* The tokens are listed once the global row is done, if the task asks for it; an
\* empty list ends the task.
ListTokens(k) ==
    /\ ~IsIdle(k) /\ task[k].todo = <<>> /\ task[k].got = <<>>
    /\ task' = [task EXCEPT ![k] = IF UniqueTokens # {}
                                   THEN [@ EXCEPT !.todo = SetToSeq(UniqueTokens), !.list = FALSE]
                                   ELSE IdleTask]
    /\ UNCHANGED <<today, records, statsRow, resetDue, operated, feeFaults>>

\* A query or an upsert fails: runTask logs it, the rest of the task is not done; the
\* initializer ends with it.
TaskFails(k) ==
    /\ ~IsIdle(k) /\ k # "backfill" /\ FeeFault
    /\ task' = [task EXCEPT ![k] = IdleTask]
    /\ UNCHANGED <<today, records, statsRow, resetDue, operated>>
BackfillFails ==
    /\ ~IsIdle("backfill") /\ task' = [task EXCEPT !["backfill"] = IdleTask]
    /\ setup' = "failed"
    /\ UNCHANGED <<today, records, statsRow, resetDue, feeConfig, cron, once, feeFaults>>

\* initialize, step by step: the global row and the configuration are created when there
\* is none; the backfill is optional, and skipped when no transaction has fees.
InitializeGlobalStats ==
    /\ setup = "no" /\ setup' = "config" /\ FeeFault
    /\ statsRow' = [statsRow EXCEPT ![Global] =
                       IF @ = NoStats
                       THEN [q \in 1 .. 4 |-> [protocol |-> 0, lp |-> 0, creation |-> 0, count |-> 0]]
                       ELSE @]
    /\ UNCHANGED <<today, records, task, resetDue, feeConfig, cron, once>>
InitializeFeeConfig ==
    /\ setup = "config" /\ setup' = "backfill"
    /\ feeConfig' = IF feeConfig = NoConfig THEN DefaultConfig ELSE feeConfig
    /\ UNCHANGED <<today, records, statsRow, task, resetDue, cron, once, feeFaults>>
BackfillHistoricalData ==
    /\ setup = "backfill" /\ setup' = "check"
    /\ \/ Begins("backfill", <<Global>>, TRUE)
       \/ UNCHANGED <<today, records, statsRow, task, feeFaults>>
    /\ UNCHANGED <<resetDue, feeConfig, cron, once>>
ValidateSetup ==
    /\ setup = "check" /\ IsIdle("backfill")
    /\ setup' = IF statsRow[Global] # NoStats /\ feeConfig # NoConfig THEN "valid" ELSE "failed"
    /\ UNCHANGED <<today, records, statsRow, task, resetDue, feeConfig, cron, once,
                   feeFaults>>

\* cleanupOldRecords.
CleanupOldRecords ==
    /\ cron /\ \E r \in records : r.day < today - Retention
    /\ records' = {r \in records : r.day >= today - Retention}
    /\ UNCHANGED <<today, statsRow, task, resetDue, operated, feeFaults>>

\* The handlers of collected fees: one row for a transaction, whose second event is
\* rejected; a rejected event goes back to the poller as an error.
HandleFeeEvent(topic, token, tx) ==
    /\ LET row == FeeRow(topic, token, tx)
       IN  /\ row.type \in FeeType /\ row.id \notin {r.id : r \in records}
           /\ records' = records \cup {row}
    /\ UNCHANGED <<today, statsRow, task, resetDue, operated, feeFaults>>

\* getCurrentFeeConfig and the handlers of changes, which create a row with one value new
\* and the others kept: the contract may have one row alone, so the first stays.
GetCurrentFeeConfig ==
    IF feeConfig = NoConfig THEN [DefaultConfig EXCEPT !.treasury = ""] ELSE feeConfig
UpdatedConfig(topic) ==
    LET current == GetCurrentFeeConfig
        kept == IF current.treasury = "" THEN [current EXCEPT !.treasury = "admin"] ELSE current
    IN  CASE topic = "protocol_fee_updated" -> [kept EXCEPT !.protocol = NewValue]
          [] topic = "lp_fee_updated" -> [kept EXCEPT !.lp = NewValue]
          [] topic = "creation_fee_updated" -> [kept EXCEPT !.creation = NewValue]
          [] topic = "treasury_updated" -> [current EXCEPT !.treasury = "new"]
HandleConfigEvent(topic) ==
    /\ feeConfig = NoConfig
    /\ feeConfig' = UpdatedConfig(topic)
    /\ UNCHANGED <<today, records, statsRow, task, resetDue, cron, setup, once, feeFaults>>

\* The days pass, and no task outlasts more than a midnight.
DayPasses ==
    /\ today < LastDay /\ FeeFault
    /\ \A k \in TaskNames : task[k].now \in {-1, today}
    /\ today' = today + 1
    /\ resetDue' = (resetDue \/ cron)
    /\ UNCHANGED <<records, statsRow, task, operated>>

FeeNext ==
    \/ StartCronJobs
    \/ StopCronJobs
    \/ CronRecalculates
    \/ CronResets
    \/ RecalculateFeeStats
    \/ ResetByGateway
    \/ RunAllTasks
    \/ RunNextTask
    \/ \E k \in TaskNames : \/ AggregateNext(k) \/ UpsertStats(k) \/ UpsertUndefined(k)
                            \/ ListTokens(k) \/ TaskFails(k)
    \/ BackfillFails
    \/ InitializeGlobalStats
    \/ InitializeFeeConfig
    \/ BackfillHistoricalData
    \/ ValidateSetup
    \/ CleanupOldRecords
    \/ \E topic \in FeeTopics, t \in FeeTokens, tx \in 1 .. RecordBound : HandleFeeEvent(topic, t, tx)
    \/ \E topic \in ConfigTopics : HandleConfigEvent(topic)
    \/ DayPasses

TaskStep(k) == AggregateNext(k) \/ UpsertStats(k) \/ UpsertUndefined(k) \/ ListTokens(k)

\* While the services run the hourly cron fires, and queries are answered.
FeeFairness ==
    /\ WF_feeVars(CronRecalculates)
    /\ \A k \in TaskNames : WF_feeVars(TaskStep(k))

FeeSpec == FeeInit /\ [][FeeNext]_feeVars /\ FeeFairness

-----------------------------------------------------------------------------
\* The answers of the services.  The gateway looks for a row whose token address
\* is null; the indexer for the row GLOBAL.
GetGlobalStats(service) == IF service = "indexer" THEN statsRow[Global] ELSE NoStats
GetTokenStats(t) == statsRow[t]

\* The revenue of four windows: total, day, week, month.  The indexer counts the
\* transactions of a week and a month in another table (counted).
Windows == {"total", "day", "week", "month"}
Column(window) == CASE window = "total" -> 1 [] window = "day" -> 2
                    [] window = "week" -> 3 [] OTHER -> 4
EmptyRevenue ==
    [protocol |-> [w \in Windows |-> 0], lp |-> [w \in Windows |-> 0],
     creation |-> [w \in Windows |-> 0], total |-> [w \in Windows |-> 0],
     count |-> [w \in Windows |-> 0]]
RevenueOf(stats, counted) ==
    [protocol |-> [w \in Windows |-> stats[Column(w)].protocol],
     lp |-> [w \in Windows |-> stats[Column(w)].lp],
     creation |-> [w \in Windows |-> stats[Column(w)].creation],
     total |-> [w \in Windows |-> TotalFees(stats[Column(w)])],
     count |-> [w \in Windows |-> IF w \in {"week", "month"} THEN counted[w]
                                  ELSE stats[Column(w)].count]]
GetRevenueBreakdown(service, counted) ==
    LET stats == GetGlobalStats(service)
    IN  IF stats = NoStats THEN EmptyRevenue ELSE RevenueOf(stats, counted)

CalculateAvgFee(fees, count) == IF count = 0 THEN 0 ELSE fees \div count

\* getTopTokensByFees lists every row with a token address, GLOBAL included, by the
\* fees of a window, with the figures of all time.
GetTopTokensByFees(window, limit) ==
    LET rows == {s \in Scopes : statsRow[s] # NoStats}
        sorted == SetToSortSeq(rows, LAMBDA a, b : TotalFees(statsRow[a][Column(window)])
                                                   > TotalFees(statsRow[b][Column(window)]))
        top == SubSeq(sorted, 1, IF Len(sorted) < limit THEN Len(sorted) ELSE limit)
    IN  [i \in DOMAIN top |->
            LET all == statsRow[top[i]][1]
            IN  [token |-> top[i], protocol |-> all.protocol, lp |-> all.lp,
                 total |-> TotalFees(all), count |-> all.count,
                 avg |-> CalculateAvgFee(TotalFees(all), all.count), rank |-> i]]

GetAverageFeePerTransaction(stats) ==
    IF stats = NoStats THEN [protocol |-> 0, lp |-> 0, total |-> 0]
    ELSE [protocol |-> CalculateAvgFee(stats[1].protocol, stats[1].count),
          lp |-> CalculateAvgFee(stats[1].lp, stats[1].count),
          total |-> CalculateAvgFee(TotalFees(stats[1]), stats[1].count)]

\* calculateGrowth: the day against the average day of the week, in per cent,
\* cut toward zero.
CalculateGrowth(revenue) ==
    LET average == revenue.total["week"] \div 7
        diff == revenue.total["day"] - average
    IN  IF average = 0 THEN 0
        ELSE IF diff >= 0 THEN (diff * 100) \div average ELSE -((-diff * 100) \div average)
GetDashboardSummary(service, counted) ==
    LET revenue == GetRevenueBreakdown(service, counted)
    IN  [revenue |-> revenue, top |-> GetTopTokensByFees("day", 5),
         growth |-> [protocol |-> revenue.protocol["day"], lp |-> revenue.lp["day"],
                     total |-> revenue.total["day"], change |-> CalculateGrowth(revenue)]]

\* A page of the collected fees, the newest first, of one token or of all, of one type or
\* of all, between two days.
GetFeeCollectionHistory(t, type, start, end, limit, offset) ==
    LET found == {r \in records : /\ t \in {r.token, Global} /\ type \in {r.type, "all"}
                                  /\ r.day \in start .. end}
        sorted == SetToSortSeq(found, LAMBDA a, b : a.day > b.day)
        last == IF offset + limit < Len(sorted) THEN offset + limit ELSE Len(sorted)
    IN  [items |-> SubSeq(sorted, offset + 1, last), total |-> Len(sorted),
         hasMore |-> last < Len(sorted)]

\* The resolvers of the gateway: figures of zero before there are any, and a limit of 1 to
\* 100 rows.
NotCounted == [week |-> 0, month |-> 0]
GlobalFeeStats ==
    LET stats == GetGlobalStats("gateway")
    IN  IF stats = NoStats
        THEN [q \in 1 .. 4 |-> [protocol |-> 0, lp |-> 0, creation |-> 0, count |-> 0]] ELSE stats
TokenFeeStats(t) == GetTokenStats(t)
RevenueBreakdown == GetRevenueBreakdown("gateway", NotCounted)
TopTokensByFees(window, limit) ==
    IF limit \in 1 .. 100 THEN GetTopTokensByFees(window, limit) ELSE "BAD_USER_INPUT"
FeeCollectionHistory(t, type, start, end, limit, offset) ==
    IF limit \notin 1 .. 100 THEN "BAD_USER_INPUT"
    ELSE LET page == GetFeeCollectionHistory(t, type, start, end, limit, offset)
         IN  [items |-> page.items, hasNextPage |-> page.hasMore, hasPreviousPage |-> offset > 0]
FeeDashboard == GetDashboardSummary("gateway", NotCounted)
AverageFeePerTransaction(t) ==
    GetAverageFeePerTransaction(IF t = Global THEN GetGlobalStats("gateway") ELSE GetTokenStats(t))
ShownFeeConfig == IF feeConfig = NoConfig THEN DefaultConfig ELSE feeConfig

\* What the indexer logs: the daily report, and the status after the initializer.
DailyReport(counted) ==
    [revenue |-> GetRevenueBreakdown("indexer", counted), top |-> GetTopTokensByFees("day", 10)]
PrintStatus ==
    [revenue |-> GetGlobalStats("indexer"), config |-> feeConfig,
     top |-> GetTopTokensByFees("total", 5)]

-----------------------------------------------------------------------------
FeeTypeOK ==
    /\ today \in 0 .. LastDay
    /\ \A r \in records : r.token \in FeeTokens /\ r.day \in 0 .. today /\ r.type \in FeeType
    /\ \A s \in Scopes : Len(statsRow[s]) \in {0, 4}
    /\ resetDue \in BOOLEAN /\ cron \in BOOLEAN
    /\ \A k \in TaskNames : Len(task[k].got) <= 4

\* While the cron jobs run, the rows of the tokens that have records, and the global row,
\* come to hold what the records say, and the figures a reader asks for follow them: a
\* stale upsert of a slow task, a failed task, or a command given meanwhile is made good
\* (recalculateStats).
StatsConverge ==
    <>[]cron =>
    <>[](/\ \A s \in UniqueTokens \cup {Global} :
               statsRow[s] # NoStats => statsRow[s] = Stats(s, today)
         /\ statsRow[Global] # NoStats =>
               GetDashboardSummary("indexer", NotCounted).revenue
                  = RevenueOf(Stats(Global, today), NotCounted)
         /\ \A t \in UniqueTokens : statsRow[t] # NoStats =>
               AverageFeePerTransaction(t).total
                  = TotalFees(AggregateFees(t, -1)) \div AggregateFees(t, -1).count)

\* "This is a copy of the indexer's FeeStatsService" (fee-stats-service.ts:11):
\* both answer the same revenue.
GatewayAgreesOnRevenue ==
    GetRevenueBreakdown("gateway", NotCounted).total = GetRevenueBreakdown("indexer", NotCounted).total

=============================================================================
