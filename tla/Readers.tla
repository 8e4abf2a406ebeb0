------------------------------ MODULE Readers ------------------------------
(***************************************************************************)
(* The queries of the dashboards, over the tables of Usage.  v1 queries    *)
(* read the daily rollups, or single events through the compatibility view *)
(* (services/queries.py, report.py, insights.py); v2 queries read the      *)
(* ledger's finals and the active costs (queries_v2.py, heatmap_v2.py,     *)
(* cost_queries.py, query_framework.py).                                   *)
(*                                                                         *)
(* A range is two days.  Queries of single events and the heatmap end it   *)
(* at 23:59:59 of the last one.                                            *)
(***************************************************************************)
EXTENDS Usage

CONSTANTS
    SessionOf,     \* the session of each attempt, or NoValue
    Registered     \* the attempts of registered machines

ASSUME ReadersAssumption == Registered \subseteq Attempts

Within(from, to) == {d \in UsageDays : from <= d /\ d <= to}

(* What a query returns: a row for each of the keys it has found.          *)
PerKey(found, keyOf(_), rowOf(_)) ==
    [x \in {keyOf(y) : y \in found} |-> rowOf({y \in found : keyOf(y) = x})]

Adds(f) == Sum(LAMBDA x : f[x], DOMAIN f)

-----------------------------------------------------------------------------
(* v1 queries of whole days.  _apply_rollup_filters: the rollups of a range,*)
(* derived or imported; what was imported has no cost.                     *)
ImportKeys == {<<i[1], i[2], "imported">> : i \in {i \in DOMAIN imported : imported[i] # NoValue}}

DailyRollups == {k \in Keys : rollup[k] # NoValue} \union ImportKeys

Rollup(k) ==
    IF k \in Keys THEN rollup[k]
    ELSE [tokens |-> imported[k[1], k[2]], priced |-> NoValue, partial |-> NoValue,
          estimated |-> NoValue, unpriced |-> 0, subscription |-> NoValue]

RollupsOf(from, to) == {k \in DailyRollups : k[1] \in Within(from, to)}

CostUsd(k) ==
    IF Rollup(k).priced = NoValue /\ Rollup(k).partial = NoValue /\ Rollup(k).estimated = NoValue
    THEN NoValue
    ELSE Known(Rollup(k).priced) + Known(Rollup(k).partial) + Known(Rollup(k).estimated)

(* A UsageBucket.                                                          *)
Bucket(ks) == [tokens |-> Sum(LAMBDA k : Rollup(k).tokens, ks),
               cost |-> SumKnown(CostUsd, ks)]

(* usage_grouped, by day or by a dimension of the grain.                   *)
UsageByDay(from, to) == PerKey(RollupsOf(from, to), LAMBDA k : k[1], Bucket)
UsageByGroup(from, to) == PerKey(RollupsOf(from, to), LAMBDA k : k[2], Bucket)

TotalCost(from, to) == Known(Bucket(RollupsOf(from, to)).cost)

-----------------------------------------------------------------------------
(* v1 queries of events: the view has snapshots too, and no reasoning       *)
(* tokens.                                                                 *)
Viewed == {a \in Attempts : rows[a] # NoValue}

InTime(as, to) == {a \in as : ~(rows[a].day = to /\ a \in LastSecond)}

EventsOf(from, to) == InTime({a \in Viewed : rows[a].day \in Within(from, to)}, to)

ViewTokens(as) == Sum(LAMBDA a : rows[a].tokens, as)

GroupIn(a) == GroupOf["configured"][a]

(* _usage_by_session: events without a session are one bucket.             *)
UsageBySession(from, to) == PerKey(EventsOf(from, to), LAMBDA a : SessionOf[a], ViewTokens)

(* punch_card of a project: its group, as the rollups have it.             *)
PunchCard(from, to, g) == ViewTokens({a \in EventsOf(from, to) : GroupIn(a) = g})

DailyTrend(from, to) == PerKey(EventsOf(from, to), LAMBDA a : rows[a].day, ViewTokens)

(* build_report: the sessions of a range, each in one project.             *)
InSession(as) == {a \in as : SessionOf[a] # NoValue}

ProjectOf(as) == CHOOSE g \in {GroupIn(a) : a \in as} : TRUE

SessionsOf(as) == {{a \in InSession(as) : SessionOf[a] = s} : s \in {SessionOf[a] : a \in InSession(as)}}

Scorecard(from, to) == Sum(ViewTokens, SessionsOf(EventsOf(from, to)))

ReportProjects(from, to) ==
    PerKey(SessionsOf(EventsOf(from, to)), ProjectOf, LAMBDA sessions : Sum(ViewTokens, sessions))

(* Of all time: overview, list_sessions, session_detail, detect_anomalies   *)
(* and list_machines.                                                      *)
Overview == [bucket |-> Bucket(DailyRollups),
             sessions |-> Cardinality({SessionOf[a] : a \in InSession(Viewed)})]

ListedSessions == PerKey(InSession(Viewed), LAMBDA a : SessionOf[a], ViewTokens)

SessionDetail(s) == {<<rows[a].day, rows[a].tokens>> : a \in {a \in Viewed : SessionOf[a] = s}}

MachineTokens == ViewTokens(Viewed \cap Registered)

-----------------------------------------------------------------------------
(* v2 queries.  grouped_usage: finals.                                     *)
FinalsOf(from, to) == {a \in Finals : rows[a].day \in Within(from, to)}

LedgerTokens(as) == Sum(LAMBDA a : AllTokens(rows, a), as)

GroupedByDay(from, to) == PerKey(FinalsOf(from, to), LAMBDA a : rows[a].day, LedgerTokens)
GroupedByGroup(from, to) == PerKey(FinalsOf(from, to), GroupIn, LedgerTokens)

(* build_heatmap's calendar.                                               *)
Heatmap(from, to) == PerKey(InTime(FinalsOf(from, to), to), LAMBDA a : rows[a].day, LedgerTokens)

(* grouped_costs: active costs, of whatever event.                         *)
Costed(from, to) ==
    {a \in Viewed : active[a] # NoValue /\ rows[a].day \in Within(from, to)}

Split(as) ==
    [priced |-> Sum(LAMBDA a : Known(Billed(active, a, "priced")), as),
     partial |-> Sum(LAMBDA a : Known(Billed(active, a, "partial")), as),
     estimated |-> Sum(LAMBDA a : Known(Billed(active, a, "estimated")), as),
     unpriced |-> NotPriced(active, as),
     subscription |-> Sum(LAMBDA a : Known(Equivalent(active, a)), as)]

(* Its actual spend: the amounts of all that is not subscription usage.    *)
Spend(as) == Sum(LAMBDA a : Known(active[a].amount),
                 {a \in as : active[a].mode # "subscription"})

(* dual_cost_metrics: two sums that are never added together.              *)
Dual(from, to) ==
    [spend |-> Sum(LAMBDA a : Known(active[a].amount),
                   {a \in Costed(from, to) : active[a].mode = "api_billed"}),
     value |-> Sum(LAMBDA a : Known(active[a].equivalent),
                   {a \in Costed(from, to) : active[a].mode = "subscription"})]

(* collect_warnings: unpriced and partial costs.                           *)
Warned(from, to) == {a \in Costed(from, to) : active[a].status \in {"unpriced", "partial"}}

-----------------------------------------------------------------------------
Ranges == {r \in UsageDays \X UsageDays : r[1] <= r[2]}

TokensOf(buckets) == [x \in DOMAIN buckets |-> buckets[x].tokens]

SplitOfRollups(ks) ==
    [priced |-> Sum(LAMBDA k : Known(Rollup(k).priced), ks),
     partial |-> Sum(LAMBDA k : Known(Rollup(k).partial), ks),
     estimated |-> Sum(LAMBDA k : Known(Rollup(k).estimated), ks),
     unpriced |-> Sum(LAMBDA k : Rollup(k).unpriced, ks),
     subscription |-> Sum(LAMBDA k : Known(Rollup(k).subscription), ks)]

(* The v1 costs of what no worker has priced yet.                          *)
V1Costs(as) == Sum(LAMBDA a : Known(rows[a].cost), {a \in as : active[a] = NoValue})

(* v1 and v2 queries of whole days agree: on the days and the groups there  *)
(* are, on their tokens, and on the split of their costs.                  *)
WholeDaysAgree(from, to) ==
    LET costed == Costed(from, to)
        ours == FinalsOf(from, to)
        split == [Split(costed) EXCEPT !.priced = @ + V1Costs(ours)]
    IN /\ TokensOf(UsageByDay(from, to)) = GroupedByDay(from, to)
       /\ TokensOf(UsageByGroup(from, to)) = GroupedByGroup(from, to)
       /\ SplitOfRollups(RollupsOf(from, to)) = split
       /\ TotalCost(from, to) = Spend(costed) + V1Costs(ours)
       /\ Adds(Heatmap(from, to)) + LedgerTokens(ours \ InTime(ours, to))
             = Adds(GroupedByDay(from, to))

(* Where there are no snapshots, reasoning tokens or events of the last     *)
(* second, queries of events agree as well; the report leaves out what has  *)
(* no session, and puts a session that spans projects in one of them.      *)
Plain(from, to) ==
    \A a \in Viewed : rows[a].day \in Within(from, to) =>
        rows[a].final /\ rows[a].reasoning = 0 /\ ~(rows[a].day = to /\ a \in LastSecond)

EventsAgree(from, to) ==
    LET ours == FinalsOf(from, to)
        scored == InSession(ours)
    IN /\ DailyTrend(from, to) = TokensOf(UsageByDay(from, to))
       /\ \A g \in DOMAIN UsageByGroup(from, to) :
             PunchCard(from, to, g) = UsageByGroup(from, to)[g].tokens
       /\ Adds(UsageBySession(from, to)) = Adds(DailyTrend(from, to))
       /\ Scorecard(from, to) + ViewTokens(ours \ scored) = Adds(GroupedByDay(from, to))
       /\ (\A a, b \in scored : SessionOf[a] = SessionOf[b] => GroupIn(a) = GroupIn(b))
             => ReportProjects(from, to) = PerKey(scored, GroupIn, LedgerTokens)

AllTimeAgrees ==
    /\ Overview.bucket.tokens = LedgerTokens(Viewed)
    /\ Overview.sessions = Cardinality(DOMAIN ListedSessions)
    /\ Adds(ListedSessions) + ViewTokens(Viewed \ InSession(Viewed)) = Overview.bucket.tokens
    /\ MachineTokens + ViewTokens(Viewed \ Registered) = Overview.bucket.tokens

(* On days that nothing has changed on since the rollups were rebuilt, and *)
(* that no collector has imported, all queries of v1 and v2 tell one story *)
(* (docs/api/query-v2.md, "v1 parity").  Where one has, a rebuild keeps     *)
(* what it imported: v1 counts that on top of the ledger, and v2 does not.  *)
ImportedDays == {k[1] : k \in ImportKeys}

ImportedTokens(day) == Sum(LAMBDA k : imported[k[1], k[2]], {k \in ImportKeys : k[1] = day})

RebuiltDaysAgree ==
    /\ \A r \in Ranges : Within(r[1], r[2]) \subseteq rebuilt \ ImportedDays =>
          WholeDaysAgree(r[1], r[2]) /\ (Plain(r[1], r[2]) => EventsAgree(r[1], r[2]))
    /\ rebuilt \ ImportedDays = UsageDays /\ (\A r \in Ranges : Plain(r[1], r[2])) => AllTimeAgrees
    /\ \A day \in rebuilt : Bucket(RollupsOf(day, day)).tokens
                            = LedgerTokens(FinalsOn(rows, day)) + ImportedTokens(day)

(* A day that only collectors report is never undercounted, whatever the    *)
(* cost worker, repricing and the operator do in between, though v1 ingest *)
(* only refreshes the day it names and the cost worker refreshes nothing   *)
(* (services/rollups.py, ingest.py).  Neither is a group of it, unless the *)
(* default roots fold one of its attempts elsewhere: a reprice then leaves *)
(* that one out of the group's row (repricing.py).  As long as no attempt  *)
(* has moved to another grain every group is counted exactly.  The          *)
(* exception is a day whose last refresh had read the ledger before another *)
(* request committed, and wrote what it had summed up over what that one    *)
(* had written: until the next refresh it may count too little.             *)
V1Tokens(day, g) ==
    Sum(LAMBDA m : rollup[day, g, m].tokens, {m \in Modes : rollup[day, g, m] # NoValue})

V2Tokens(day, g) == LedgerTokens({a \in FinalsOn(rows, day) : GroupIn(a) = g})

DayTokens(day) == Sum(LAMBDA k : rollup[k].tokens, {k \in Keys : rollup[k] # NoValue /\ k[1] = day})

FoldAlike(as) == \A a \in as : GroupOf["default"][a] = GroupIn(a)

CollectedDaysCounted ==
    \A day \in UsageDays \ stale : FinalsOn(rows, day) \subseteq Legacy =>
        /\ DayTokens(day) >= LedgerTokens(FinalsOn(rows, day))
        /\ \A g \in Groups :
              LET v1 == V1Tokens(day, g)
                  v2 == V2Tokens(day, g)
              IN  /\ FoldAlike({a \in FinalsOn(rows, day) : GroupIn(a) = g}) => v1 >= v2
                  /\ moved = {} => v1 = v2

(* Spend and subscription value stay apart in every range: /costs and the   *)
(* dual metrics agree, the statuses add up to the spend, only what /usage   *)
(* counts has a cost, and an unpriced cost that is not an error comes with  *)
(* a warning (queries_v2.py, cost_queries.py, query_framework.py).         *)
CostsAgree ==
    \A r \in Ranges :
        LET as == Costed(r[1], r[2])
            split == Split(as)
        IN /\ Spend(as) = Dual(r[1], r[2]).spend
           /\ Spend(as) = split.priced + split.partial + split.estimated
           /\ split.subscription = Dual(r[1], r[2]).value
           /\ \A a \in as : a \in FinalsOf(r[1], r[2])
           /\ split.unpriced > 0 /\ Warned(r[1], r[2]) = {} =>
                 \E a \in as : active[a].status = "error"

(* Two ways of asking for the same total get the same answer: v1 and v2 of  *)
(* a rebuilt day, /costs and the dual metrics of any range.                *)
QueriesAgree == RebuiltDaysAgree /\ CostsAgree

(* database.md: a day is recomputed as a whole, so "the rollup always       *)
(* reflects keep-max updates and re-ingestion is idempotent": after a v1    *)
(* request the daily rollups count what the ledger has (rollups.py, ingest).*)
RollupsReflectKeepMax ==
    [][(\E a \in Attempts, day \in UsageDays, tokens \in Sizes, cost \in V1Prices :
            CollectorReports(Now, a, day, tokens, cost)) =>
          \A day \in UsageDays, g \in Groups : (V1Tokens(day, g) = V2Tokens(day, g))']_usageVars
=============================================================================
