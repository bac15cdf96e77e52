----------------------------- MODULE UsageReports ----------------------------
(***************************************************************************)
(* The three usage repositories and the reports they answer.  SQLite       *)
(* (personal edition) keeps the request log and groups it on every query.  *)
(* Postgres (team edition) keeps the log and three hourly tables, updated  *)
(* in one transaction.  ClickHouse receives the batches of the usage       *)
(* worker: one row per key and batch, in tables whose background merges    *)
(* keep only the newest row of a key.  The usage part of an edition        *)
(* migration copies a log from SQLite to Postgres or back.                 *)
(*                                                                         *)
(* Ids are numbers, in the order of the uuids; 0 is an absent id, and the  *)
(* absent filter of a query.  Time is in ticks, HourTicks to the hour; a   *)
(* report is taken over a window of whole hours.                           *)
(***************************************************************************)
EXTENDS Naturals, FiniteSets, Sequences, Bags, FiniteSetsExt, SequencesExt

CONSTANTS UsageEvents,   \* records [id, account, tenant, apiKey, at, open, tokens, model]
          HourTicks, ReportLimit,
          MaxFlushes     \* bound: batches flushed to ClickHouse

ASSUME UsageReportsAssumption ==
    /\ IsFiniteSet(UsageEvents) /\ MaxFlushes \in Nat
    /\ HourTicks \in Nat \ {0, 1} /\ ReportLimit \in Nat \ {0}
    /\ \A e \in UsageEvents : (e.tenant = 0) = (e.apiKey = 0)

VARIABLES sqliteLogs,    \* usage_request_logs of the personal edition
          pgLogs,        \* usage_request_logs of the team edition
          pgHourly,      \* its hourly tables: each a bag of keys
          chLogs,        \* ClickHouse: the request log
          chRows,        \* its hourly tables: each a sequence of rows
          flushes,
          chExact        \* history: no event delivered twice, no row merged away

reportVars == <<sqliteLogs, pgLogs, pgHourly, chLogs, chRows, flushes, chExact>>

UsageTables == {"account", "tenant_api_key", "tenant_account"}

ReportInit ==
    /\ sqliteLogs = {} /\ pgLogs = {} /\ chLogs = {}
    /\ pgHourly = [t \in UsageTables |-> EmptyBag]
    /\ chRows = [t \in UsageTables |-> <<>>]
    /\ flushes = 0 /\ chExact = TRUE

TruncateToHour(at) == at - (at % HourTicks)

\* The key an event has in an hourly table.
HourlyKey(t, e) ==
    [account |-> IF t = "tenant_api_key" THEN 0 ELSE e.account,
     tenant |-> IF t = "account" THEN 0 ELSE e.tenant,
     apiKey |-> IF t = "tenant_api_key" THEN e.apiKey ELSE 0,
     hour |-> TruncateToHour(e.at)]

\* aggregate_by_hour: an event without a tenant is counted for its account only.
AggregateByHour(S) ==
    [t \in UsageTables |->
        LET kept == {e \in S : t # "account" => e.tenant # 0}
            keys == {HourlyKey(t, e) : e \in kept}
        IN  [k \in keys |-> Cardinality({e \in kept : HourlyKey(t, e) = k})]]

-----------------------------------------------------------------------------
(* Writing.                                                                *)

\* SqliteUsageRepo::ingest_request_log: INSERT OR IGNORE.
SqliteIngest(e) ==
    /\ sqliteLogs' = sqliteLogs \cup {e}
    /\ UNCHANGED <<pgLogs, pgHourly, chLogs, chRows, flushes, chExact>>

\* INSERT ... ON CONFLICT (id) DO NOTHING inserted a row
Inserted(e) == e \notin pgLogs

\* PostgresUsageRepo::ingest_request_log: one transaction; a row that is there
\* already leaves the hourly tables alone.
PgIngest(e) ==
    /\ pgLogs' = pgLogs \cup {e}
    /\ pgHourly' = IF Inserted(e)
                   THEN [t \in UsageTables |-> pgHourly[t] (+) AggregateByHour({e})[t]]
                   ELSE pgHourly
    /\ UNCHANGED <<sqliteLogs, chLogs, chRows, flushes, chExact>>

\* export_sqlite_usage_bundle and import_postgres_usage_bundle, one transaction.
ImportIntoPostgres ==
    /\ pgLogs = {} /\ sqliteLogs # {}
    /\ pgLogs' = sqliteLogs
    /\ pgHourly' = [t \in UsageTables |-> pgHourly[t] (+) AggregateByHour(sqliteLogs)[t]]
    /\ UNCHANGED <<sqliteLogs, chLogs, chRows, flushes, chExact>>

\* export_postgres_usage_bundle and import_sqlite_usage_bundle: row by row, so an
\* error leaves the first rows (the oldest) and the target refuses a second attempt.
ImportIntoSqlite ==
    /\ sqliteLogs = {} /\ pgLogs # {}
    /\ \E last \in pgLogs :
          sqliteLogs' = {e \in pgLogs : e.at < last.at \/ (e.at = last.at /\ e.id <= last.id)}
    /\ UNCHANGED <<pgLogs, pgHourly, chLogs, chRows, flushes, chExact>>

\* The events flush_messages aggregates.
CountedEvents(S) == {e \in S : ~e.open}

\* One flush of the usage worker: upsert_request_logs and upsert_hourly.  Open
\* records are logged and not counted; a reclaimed batch delivers events again.
ClickHouseFlush(S) ==
    /\ flushes < MaxFlushes /\ flushes' = flushes + 1
    /\ chLogs' = chLogs \cup S
    /\ chRows' = [t \in UsageTables |->
                    LET counts == AggregateByHour(CountedEvents(S))[t]
                    IN  chRows[t] \o SetToSeq({[key |-> k, count |-> counts[k]] :
                                                  k \in DOMAIN counts})]
    /\ chExact' = (chExact /\ chLogs \cap S = {})
    /\ UNCHANGED <<sqliteLogs, pgLogs, pgHourly>>

\* A background merge of a ReplacingMergeTree drops a row with a newer row of its key.
BackgroundMerge(t) ==
    /\ \E i, j \in DOMAIN chRows[t] :
          /\ i < j /\ chRows[t][i].key = chRows[t][j].key
          /\ chRows' = [chRows EXCEPT ![t] = RemoveAt(chRows[t], i)]
    /\ chExact' = FALSE
    /\ UNCHANGED <<sqliteLogs, pgLogs, pgHourly, chLogs, flushes>>

SqlNext ==
    \/ \E e \in UsageEvents : SqliteIngest(e) \/ PgIngest(e)
    \/ ImportIntoPostgres \/ ImportIntoSqlite

ClickHouseNext ==
    \/ \E S \in SUBSET UsageEvents \ {{}} : ClickHouseFlush(S)
    \/ \E t \in UsageTables : BackgroundMerge(t)

-----------------------------------------------------------------------------
(* Reading.  A query is a record [start, end, account, tenant, apiKey]; a  *)
(* report is a sequence of rows [key, count].                              *)

Matches(filter, id) == filter = 0 \/ id = filter
OfAccount(q, k) == Matches(q.account, k.account)
OfTenant(q, k) == Matches(q.tenant, k.tenant)
OfApiKey(q, k) == OfTenant(q, k) /\ Matches(q.apiKey, k.apiKey)
Sum(rows) == MapThenSumSet(LAMBDA r : r.count, rows)

IdsBefore(j, k) ==
    \/ j.tenant < k.tenant
    \/ j.tenant = k.tenant /\ j.account + j.apiKey < k.account + k.apiKey
AtMost(limit, s) == SubSeq(s, 1, Min({limit, Len(s)}))

\* ORDER BY hour_start ASC, ids ASC LIMIT
InTimeOrder(rows) ==
    LET before(r, s) == \/ r.key.hour < s.key.hour
                        \/ r.key.hour = s.key.hour /\ IdsBefore(r.key, s.key)
    IN  AtMost(ReportLimit, SetToSortSeq(rows, before))

\* ORDER BY total_requests DESC, ids ASC LIMIT
ByTotal(rows) ==
    LET before(r, s) == r.count > s.count \/ (r.count = s.count /\ IdsBefore(r.key, s.key))
    IN  AtMost(ReportLimit, SetToSortSeq(rows, before))

\* ORDER BY request_count DESC, total_tokens DESC, model ASC LIMIT
ModelsByRequests(limit, rows) ==
    LET before(r, s) ==
            \/ r.count > s.count
            \/ r.count = s.count /\ r.tokens > s.tokens
            \/ r.count = s.count /\ r.tokens = s.tokens /\ r.model < s.model
    IN  AtMost(limit, SetToSortSeq(rows, before))

\* SELECT key, SUM(count) GROUP BY key.
SumBy(rows, Key(_)) ==
    {[key |-> k, count |-> Sum({r \in rows : Key(r.key) = k})] : k \in {Key(r.key) : r \in rows}}

NoKey == [account |-> 0, tenant |-> 0, apiKey |-> 0, hour |-> 0]
HourOnly(k) == [NoKey EXCEPT !.hour = k.hour]
TenantHour(k) == [NoKey EXCEPT !.tenant = k.tenant, !.hour = k.hour]
TenantOnly(k) == [NoKey EXCEPT !.tenant = k.tenant]
AccountOnly(k) == [NoKey EXCEPT !.account = k.account]
ApiKeyOnly(k) == [NoKey EXCEPT !.tenant = k.tenant, !.apiKey = k.apiKey]

Tokens(S) == MapThenSumSet(LAMBDA e : e.tokens, S)
TokensByHour(S) ==
    {[hour |-> h, tokens |-> Tokens({e \in S : TruncateToHour(e.at) = h})] :
        h \in {TruncateToHour(e.at) : e \in S}}
TokensByModel(S) ==
    {[model |-> m, count |-> Cardinality({e \in S : e.model = m}),
      tokens |-> Tokens({e \in S : e.model = m})] : m \in {e.model : e \in S}}

\* Mutant: the last hour of the window is left out.
PgRowsBefore(t, q) ==
    {[key |-> k, count |-> CopiesIn(k, pgHourly[t])] :
        k \in {k \in BagToSet(pgHourly[t]) : k.hour >= TruncateToHour(q.start) /\ k.hour < TruncateToHour(q.end)}}

\* Postgres: the rows of a table whose hour is in the window, its bounds truncated.
PgRows(t, q) ==
    {[key |-> k, count |-> CopiesIn(k, pgHourly[t])] :
        k \in {k \in BagToSet(pgHourly[t]) : /\ k.hour >= TruncateToHour(q.start)
                                             /\ k.hour <= TruncateToHour(q.end)}}
PgHourlyAccounts(q) == InTimeOrder({r \in PgRows("account", q) : OfAccount(q, r.key)})
PgHourlyTenantApiKeys(q) == InTimeOrder({r \in PgRows("tenant_api_key", q) : OfApiKey(q, r.key)})
PgHourlyAccountTotals(q) ==
    InTimeOrder(SumBy({r \in PgRows("account", q) : OfAccount(q, r.key)}, HourOnly))
PgHourlyTenantApiKeyTotals(q) ==
    InTimeOrder(SumBy({r \in PgRows("tenant_api_key", q) : OfApiKey(q, r.key)}, HourOnly))
PgHourlyTenantTotals(q) ==
    InTimeOrder(SumBy({r \in PgRows("tenant_api_key", q) : OfApiKey(q, r.key)}, TenantHour))
PgTenantLeaderboard(q) ==
    ByTotal(SumBy({r \in PgRows("tenant_api_key", q) : OfTenant(q, r.key)}, TenantOnly))
PgAccountLeaderboard(q) ==
    ByTotal(SumBy({r \in PgRows("account", q) : OfAccount(q, r.key)}, AccountOnly))
PgTenantScopedAccountLeaderboard(q) ==
    ByTotal(SumBy({r \in PgRows("tenant_account", q) :
                      r.key.tenant = q.tenant /\ OfAccount(q, r.key)}, AccountOnly))
PgApiKeyLeaderboard(q) ==
    ByTotal(SumBy({r \in PgRows("tenant_api_key", q) : OfApiKey(q, r.key)}, ApiKeyOnly))
PgDashboardLogs(q) ==
    {e \in pgLogs : e.at >= q.start /\ e.at <= q.end /\ ~e.open /\ OfAccount(q, e) /\ OfApiKey(q, e)}
PgTokenTrends(q) == TokensByHour(PgDashboardLogs(q))
PgModelDistribution(q) == ModelsByRequests(50, TokensByModel(PgDashboardLogs(q)))
PgSummary(q) ==
    LET accounts == {r \in PgRows("account", q) : OfAccount(q, r.key)}
        keyed == {r \in PgRows("tenant_api_key", q) : OfApiKey(q, r.key)}
    IN  [accountTotal |-> Sum(accounts), apiKeyTotal |-> Sum(keyed),
         accounts |-> Cardinality({r.key.account : r \in accounts}),
         apiKeys |-> Cardinality({ApiKeyOnly(r.key) : r \in keyed})]
PgRequestLogs(q) ==
    {e \in pgLogs : e.at >= q.start /\ e.at <= q.end /\ OfApiKey(q, e)}

\* SQLite: the log is filtered by created_at_ts and grouped.
SqliteWindow(q) == {e \in sqliteLogs : e.at >= q.start /\ e.at <= q.end}
SqliteKeyed(q) == {e \in SqliteWindow(q) : e.tenant # 0 /\ e.apiKey # 0 /\ OfApiKey(q, e)}
GroupCount(t, S) ==
    {[key |-> k, count |-> Cardinality({e \in S : HourlyKey(t, e) = k})] :
        k \in {HourlyKey(t, e) : e \in S}}
SqliteHourlyAccounts(q) ==
    InTimeOrder(GroupCount("account", {e \in SqliteWindow(q) : OfAccount(q, e)}))
SqliteHourlyTenantApiKeys(q) == InTimeOrder(GroupCount("tenant_api_key", SqliteKeyed(q)))
SqliteHourlyAccountTotals(q) ==
    InTimeOrder(SumBy(GroupCount("account", {e \in SqliteWindow(q) : OfAccount(q, e)}), HourOnly))
SqliteHourlyTenantApiKeyTotals(q) ==
    InTimeOrder(SumBy(GroupCount("tenant_api_key", SqliteKeyed(q)), HourOnly))
SqliteHourlyTenantTotals(q) ==
    InTimeOrder(SumBy(GroupCount("tenant_account",
        {e \in SqliteWindow(q) : e.tenant # 0 /\ OfApiKey(q, e)}), TenantHour))
SqliteTenantLeaderboard(q) ==
    ByTotal(SumBy(GroupCount("tenant_account",
        {e \in SqliteWindow(q) : e.tenant # 0 /\ OfTenant(q, e)}), TenantOnly))
SqliteAccountLeaderboard(q) ==
    ByTotal(SumBy(GroupCount("account", {e \in SqliteWindow(q) : OfAccount(q, e)}), AccountOnly))
SqliteTenantScopedAccountLeaderboard(q) ==
    ByTotal(SumBy(GroupCount("tenant_account",
        {e \in SqliteWindow(q) : e.tenant = q.tenant /\ OfAccount(q, e)}), AccountOnly))
SqliteApiKeyLeaderboard(q) ==
    ByTotal(SumBy(GroupCount("tenant_api_key", SqliteKeyed(q)), ApiKeyOnly))
\* summary_base_sql: open records are not left out here.
SqliteSummaryBase(q) == {e \in SqliteWindow(q) : OfAccount(q, e) /\ OfApiKey(q, e)}
SqliteTokenTrends(q) == TokensByHour(SqliteSummaryBase(q))
SqliteModelDistribution(q) ==
    ModelsByRequests(10, TokensByModel({e \in SqliteSummaryBase(q) : e.model # 0}))
SqliteSummaryAggregate(q) ==
    LET S == SqliteSummaryBase(q)
        keyed == {e \in S : e.tenant # 0 /\ e.apiKey # 0}
    IN  [accountTotal |-> Cardinality(S), apiKeyTotal |-> Cardinality(keyed),
         accounts |-> Cardinality({e.account : e \in S}),
         apiKeys |-> Cardinality({ApiKeyOnly(e) : e \in keyed})]
SqliteRequestLogs(q) == {e \in SqliteWindow(q) : OfApiKey(q, e)}

\* ClickHouse: physical rows, bounds not truncated; < end for the hourly reports and
\* <= end for the others.
ChRows(t, q) ==
    {[key |-> chRows[t][i].key, count |-> chRows[t][i].count, n |-> i] :
        i \in {i \in DOMAIN chRows[t] :
                  chRows[t][i].key.hour >= q.start /\ chRows[t][i].key.hour <= q.end}}
ChRowsBefore(t, q) == {r \in ChRows(t, q) : r.key.hour < q.end}
ChHourlyAccountTotals(q) ==
    InTimeOrder(SumBy({r \in ChRowsBefore("account", q) : OfAccount(q, r.key)}, HourOnly))
ChHourlyTenantApiKeyTotals(q) ==
    InTimeOrder(SumBy({r \in ChRowsBefore("tenant_api_key", q) : OfApiKey(q, r.key)}, HourOnly))
ChHourlyTenantTotals(q) ==
    InTimeOrder(SumBy({r \in ChRowsBefore("tenant_api_key", q) : OfApiKey(q, r.key)}, TenantHour))
ChTenantLeaderboard(q) ==
    ByTotal(SumBy({r \in ChRows("tenant_api_key", q) : OfTenant(q, r.key)}, TenantOnly))
ChAccountLeaderboard(q) ==
    ByTotal(SumBy({r \in ChRows("account", q) : OfAccount(q, r.key)}, AccountOnly))
ChTenantScopedAccountLeaderboard(q) ==
    ByTotal(SumBy({r \in ChRows("tenant_account", q) :
                      r.key.tenant = q.tenant /\ OfAccount(q, r.key)}, AccountOnly))
ChApiKeyLeaderboard(q) ==
    ByTotal(SumBy({r \in ChRows("tenant_api_key", q) : OfApiKey(q, r.key)}, ApiKeyOnly))
ChSummary(q) ==
    LET accounts == {r \in ChRows("account", q) : OfAccount(q, r.key)}
        keyed == {r \in ChRows("tenant_api_key", q) : OfApiKey(q, r.key)}
    IN  [accountTotal |-> Sum(accounts), apiKeyTotal |-> Sum(keyed),
         accounts |-> Cardinality({r.key.account : r \in accounts}),
         apiKeys |-> Cardinality({ApiKeyOnly(r.key) : r \in keyed})]
ChDashboardLogs(q) ==
    {e \in chLogs : e.at >= q.start /\ e.at <= q.end /\ ~e.open /\ OfAccount(q, e) /\ OfApiKey(q, e)}

-----------------------------------------------------------------------------
(* Properties.                                                             *)

WholeHourQueries ==
    LET hours == {TruncateToHour(e.at) : e \in UsageEvents}
        ids(f) == {0} \cup {e[f] : e \in UsageEvents}
    IN  [start : hours, end : {h + HourTicks - 1 : h \in hours},
         account : ids("account"), tenant : ids("tenant"), apiKey : ids("apiKey")]

\* Whatever order events arrive in, and however often one is posted again, the hourly
\* tables of Postgres hold exactly the counts of its request log; an import keeps that.
HourlyTablesMatchTheLog == pgHourly = AggregateByHour(pgLogs)

\* After a migration, or after the same requests, Postgres and SQLite give the same
\* answer to every hourly report, leaderboard and unfiltered summary over whole hours,
\* although one sums counters it keeps and the other groups its log.  The dashboards,
\* of which only Postgres leaves out open streams, agree when no stream is open.
EditionsReportTheSame ==
    pgLogs # {} /\ pgLogs = sqliteLogs => \A q \in WholeHourQueries :
        /\ PgHourlyAccounts(q) = SqliteHourlyAccounts(q)
        /\ PgHourlyTenantApiKeys(q) = SqliteHourlyTenantApiKeys(q)
        /\ PgHourlyAccountTotals(q) = SqliteHourlyAccountTotals(q)
        /\ PgHourlyTenantApiKeyTotals(q) = SqliteHourlyTenantApiKeyTotals(q)
        /\ PgHourlyTenantTotals(q) = SqliteHourlyTenantTotals(q)
        /\ PgTenantLeaderboard(q) = SqliteTenantLeaderboard(q)
        /\ PgAccountLeaderboard(q) = SqliteAccountLeaderboard(q)
        /\ PgApiKeyLeaderboard(q) = SqliteApiKeyLeaderboard(q)
        /\ q.tenant # 0 =>
              PgTenantScopedAccountLeaderboard(q) = SqliteTenantScopedAccountLeaderboard(q)
        /\ q.account = 0 /\ q.tenant = 0 /\ q.apiKey = 0 => PgSummary(q) = SqliteSummaryAggregate(q)
        /\ PgRequestLogs(q) = SqliteRequestLogs(q)
        /\ (\A e \in pgLogs : ~e.open) =>
              /\ PgTokenTrends(q) = SqliteTokenTrends(q)
              /\ SelectSeq(PgModelDistribution(q), LAMBDA r : r.model # 0) =
                    SqliteModelDistribution(q)

\* As long as no event was delivered twice and no merge has dropped a row, the sums of
\* ClickHouse's hourly rows agree with the requests in its own log.  (A merge keeps one
\* batch's count of a key: reports over merged rows may be lower, and are not bounded
\* from below by anything but one batch.)
ClickHouseSumsMatchItsLog ==
    chLogs # {} /\ chExact => \A q \in WholeHourQueries :
        LET Total(s) == FoldSeq(LAMBDA r, n : n + r.count, 0, s)
            AllShown(s) == Len(s) < ReportLimit
            requests == Cardinality(ChDashboardLogs(q))
            Agrees(s) == AllShown(s) => Total(s) = requests
        IN  /\ q.tenant = 0 /\ q.apiKey = 0 =>
                  /\ Agrees(ChHourlyAccountTotals(q)) /\ Agrees(ChAccountLeaderboard(q))
                  /\ ChSummary(q).accountTotal = requests
            /\ q.account = 0 /\ q.tenant # 0 =>
                  /\ Agrees(ChHourlyTenantApiKeyTotals(q)) /\ Agrees(ChHourlyTenantTotals(q))
                  /\ Agrees(ChApiKeyLeaderboard(q)) /\ ChSummary(q).apiKeyTotal = requests
            /\ q.tenant # 0 /\ q.apiKey = 0 => Agrees(ChTenantScopedAccountLeaderboard(q))
            /\ q.account = 0 /\ q.tenant # 0 /\ q.apiKey = 0 => Agrees(ChTenantLeaderboard(q))

\* What a repository reports is what its own request log holds, in all three.
ReportsCountTheLog ==
    HourlyTablesMatchTheLog /\ EditionsReportTheSame /\ ClickHouseSumsMatchItsLog
=============================================================================
