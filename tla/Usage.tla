------------------------------- MODULE Usage -------------------------------
(***************************************************************************)
(* What the dashboards read, and the requests and jobs that change it: the *)
(* daily rollups of v1 queries (services/rollups.py), the ledger and the   *)
(* active costs of v2 queries; v1 and v2 ingest, the cost worker,          *)
(* repricing, the v1 recompute and the rebuild of the rollups.  Readers    *)
(* has the queries.                                                        *)
(*                                                                         *)
(* The requests that refresh rollups read the ledger and the costs without  *)
(* a lock and write what they have summed up when they commit.  `views` has *)
(* what transactions that are still open have read; one that commits has    *)
(* read the database as it is, or one of those.                             *)
(*                                                                         *)
(* A rollup's grain is the day, the billing mode of the active cost and    *)
(* the rest, which is one value here: provider, model, machine, source,    *)
(* environment, and the project that the raw directory folds to.  v1       *)
(* ingest, recompute and rebuild fold by the configured project roots; a   *)
(* reprice folds by the default ones.  Rollups that a collector imports     *)
(* have a grain of their own, by their provenance.                         *)
(***************************************************************************)
EXTENDS Integers, Sums

CONSTANTS
    Attempts,
    Legacy,         \* the attempts a collector reports, by v1
    UsageDays,      \* days
    SourceDays,     \* bound: the days that attempts of other sources start on
    Groups,         \* the rest of the grain
    HostOf,      \* the machine of each of the attempts in Legacy
    Imports,        \* what collectors import: [day, group, tokens]
    GroupOf,        \* [configured, default]: the group of each attempt
    LastSecond,     \* attempts that start in the last second of a day
    Sizes,          \* token counts collectors report
    SourceSizes,    \* those of other sources: [tokens, reasoning]
    Quotes,         \* what rate cards price an attempt at: [status, amount]
    V1Prices,       \* what the v1 cost function makes of one
    MaxAdmin,       \* bound on what administrators change
    MaxViews,       \* bound on the different states that open transactions have read
    NoValue         \* NULL, or no row

Modes == {"api_billed", "subscription"}
CostStatuses == {"priced", "partial", "estimated", "unpriced", "error"}
Roots == {"configured", "default"}
Money == Nat \union {NoValue}

EventRows == [final : BOOLEAN, day : UsageDays, tokens : Nat, reasoning : Nat, cost : Money]
ActiveRows == [mode : Modes, status : CostStatuses, amount : Money, equivalent : Money]
RollupRows == [tokens : Nat, priced : Money, partial : Money, estimated : Money,
               unpriced : Nat, subscription : Money]

ASSUME UsageAssumption ==
    /\ Legacy \subseteq Attempts /\ LastSecond \subseteq Attempts
    /\ IsFiniteSet(Attempts) /\ IsFiniteSet(UsageDays) /\ IsFiniteSet(Groups)
    /\ UsageDays \subseteq Nat /\ SourceDays \subseteq UsageDays
    /\ GroupOf \in [Roots -> [Attempts -> Groups]]
    /\ Imports \subseteq [day : UsageDays, group : Groups, tokens : Nat]
    /\ Sizes \subseteq Nat \ {0}
    /\ SourceSizes \subseteq [tokens : Nat, reasoning : Nat]
    /\ Quotes \subseteq [status : CostStatuses, amount : Money]
    /\ \A q \in Quotes : q.amount = NoValue <=> q.status \in {"unpriced", "error"}
    /\ V1Prices \subseteq Money
    /\ MaxAdmin \in Nat /\ MaxViews \in Nat
    /\ NoValue \notin Nat \union EventRows \union ActiveRows \union RollupRows

VARIABLES
    rows,      \* usage_events_v2: finality, day, tokens, reasoning tokens, cost_usd
    active,    \* the active row of computed_costs
    billing,   \* the mode the source and the overrides give an attempt
    rollup,    \* daily_rollups that are derived
    imported,  \* and those that are not, by day and group: their tokens
    views,     \* what open transactions have read
    rebuilt,   \* history: days that nothing has changed on since a rebuild
    moved,     \* history: attempts that changed their grain since a rebuild, or
               \* that a refresh missed
    stale,     \* history: days that were last refreshed from an old view
    admin      \* changes of administrators so far

database == <<rows, active, billing, rollup>>
usageVars == <<database, imported, views, rebuilt, moved, stale, admin>>

Keys == UsageDays \X Groups \X Modes

UsageInit ==
    /\ rows = [a \in Attempts |-> NoValue]
    /\ active = [a \in Attempts |-> NoValue]
    /\ billing \in [Attempts -> Modes]
    /\ rollup = [k \in Keys |-> NoValue]
    /\ imported = [i \in UsageDays \X Groups |-> NoValue]
    /\ views = {}
    /\ stale = {}
    /\ rebuilt = {}
    /\ moved = {}
    /\ admin = 0

-----------------------------------------------------------------------------
(* Sums over attempts.  SUM is NULL when there is nothing but NULL.        *)
Sum(f(_), as) == Total([a \in as |-> f(a)], as)

Known(x) == IF x = NoValue THEN 0 ELSE x

SumKnown(f(_), as) ==
    IF \A a \in as : f(a) = NoValue THEN NoValue ELSE Sum(LAMBDA a : Known(f(a)), as)

FinalsOn(ledger, day) ==
    {a \in Attempts : ledger[a] # NoValue /\ ledger[a].final /\ ledger[a].day = day}

(* Mutant: only attempts that have a cost are joined.                      *)
JoinedCosted(ledger, costs, day) == {a \in FinalsOn(ledger, day) : costs[a] # NoValue}

(* The attempts that _aggregate_day joins: an outer join with the costs.   *)
Joined(ledger, costs, day) == FinalsOn(ledger, day)

ModeOf(costs, a) == IF costs[a] = NoValue THEN "api_billed" ELSE costs[a].mode

Billed(costs, a, status) ==
    IF costs[a] # NoValue /\ costs[a].mode # "subscription" /\ costs[a].status = status
    THEN costs[a].amount ELSE NoValue

Equivalent(costs, a) ==
    IF costs[a] # NoValue /\ costs[a].mode = "subscription" THEN costs[a].equivalent ELSE NoValue

(* _cost_split_columns: an attempt without a cost keeps its v1 cost.       *)
PricedOrV1(ledger, costs, a) ==
    IF costs[a] = NoValue THEN ledger[a].cost ELSE Billed(costs, a, "priced")

NotPriced(costs, as) ==
    Cardinality({a \in as : costs[a] # NoValue /\ costs[a].status \in {"unpriced", "error"}})

AllTokens(ledger, a) == ledger[a].tokens + ledger[a].reasoning

RollupRow(ledger, costs, as) ==
    [tokens |-> Sum(LAMBDA a : AllTokens(ledger, a), as),
     priced |-> SumKnown(LAMBDA a : PricedOrV1(ledger, costs, a), as),
     partial |-> SumKnown(LAMBDA a : Billed(costs, a, "partial"), as),
     estimated |-> SumKnown(LAMBDA a : Billed(costs, a, "estimated"), as),
     unpriced |-> NotPriced(costs, as),
     subscription |-> SumKnown(LAMBDA a : Equivalent(costs, a), as)]

(* refresh_rollups_for_days: a row for every group of the days that has     *)
(* attempts, in place of the one there was; a group that has none left      *)
(* keeps its row.                                                          *)
OfRollup(ledger, costs, roots, k) ==
    {a \in Joined(ledger, costs, k[1]) : /\ GroupOf[roots][a] = k[2]
                                         /\ ModeOf(costs, a) = k[3]}

Refreshed(table, ledger, costs, roots, days) ==
    [k \in Keys |-> LET as == OfRollup(ledger, costs, roots, k) IN
                    IF k[1] \in days /\ as # {} THEN RollupRow(ledger, costs, as) ELSE table[k]]

-----------------------------------------------------------------------------
(* A view is what the statements of a transaction have read.               *)
Now == [rows |-> rows, active |-> active, billing |-> billing, rollup |-> rollup]

(* A transaction reads, and commits or fails later.                        *)
OpenTransaction ==
    /\ Now \notin views /\ Cardinality(views) < MaxViews
    /\ views' = views \union {Now}
    /\ UNCHANGED <<database, imported, rebuilt, moved, stale, admin>>

EndTransaction(v) ==
    /\ views' = views \ {v}
    /\ UNCHANGED <<database, imported, rebuilt, moved, stale, admin>>

DayOf(ledger, a) == IF ledger[a] = NoValue THEN {} ELSE {ledger[a].day}

StoredDay(a) == DayOf(rows, a)

(* What others have committed meanwhile, which a refresh of the days from   *)
(* this ledger and these costs overlooks.                                  *)
Missed(ledger, costs, days, ledgerNow, costsNow) ==
    {a \in Attempts : /\ ledger[a] # ledgerNow[a] \/ costs[a] # costsNow[a]
                      /\ (DayOf(ledger, a) \union DayOf(ledgerNow, a)) \intersect days # {}}

(* The days of theirs that it leaves behind the ledger.                    *)
LeftStale(ledger, days, ledgerNow, missed) ==
    days \intersect UNION {DayOf(ledger, a) \union DayOf(ledgerNow, a) : a \in missed}

(* A request of a machine waits for the others of that machine: it writes   *)
(* the row of the machine first (_touch_machine).                          *)
OfMachine(a) == {b \in Legacy : HostOf[b] = HostOf[a]}

SameReport(ledger, b) ==
    \/ ledger[b] = NoValue /\ rows[b] = NoValue
    \/ /\ ledger[b] # NoValue /\ rows[b] # NoValue
       /\ ledger[b].day = rows[b].day /\ ledger[b].tokens = rows[b].tokens

(* v1 ingest: the ledger's keep-max rule, and the rollups of the day the    *)
(* request names.  Of the lines of one answer, which may be written on both *)
(* sides of midnight, the last one has the most tokens.                    *)
Report(a, day, tokens, cost) ==
    IF rows[a] = NoValue \/ tokens >= rows[a].tokens
    THEN [final |-> TRUE, day |-> day, tokens |-> tokens, reasoning |-> 0, cost |-> cost]
    ELSE rows[a]

CollectorReports(v, a, day, tokens, cost) ==
    LET seen == [v.rows EXCEPT ![a] = IF rows'[a] = rows[a] THEN @ ELSE rows'[a]]
        missed == Missed(seen, v.active, {day}, rows', active)
    IN  /\ a \in Legacy
        /\ \A b \in OfMachine(a) : SameReport(v.rows, b)
        /\ rows' = [rows EXCEPT ![a] = Report(a, day, tokens, cost)]
        /\ rows' = rows \/ v.rows[a] = rows[a]
        /\ rollup' = Refreshed(rollup, seen, v.active, "configured", {day})
        /\ stale' = (stale \ {day}) \union LeftStale(seen, {day}, rows', missed)
        /\ rebuilt' = (IF rows' = rows THEN rebuilt ELSE rebuilt \ ({day} \union StoredDay(a)))
                         \ stale'
        /\ moved' = moved \union missed
                          \union {b \in {a} : ~ StoredDay(b) \subseteq {rows'[b].day}}
        /\ UNCHANGED <<active, billing, imported, views, admin>>

(* v1 ingest of a collector's history: one rollup, in place of what was     *)
(* imported for its grain before.                                          *)
ImportHistory(i) ==
    /\ imported' = [imported EXCEPT ![<<i.day, i.group>>] = i.tokens]
    /\ UNCHANGED <<database, views, rebuilt, moved, stale, admin>>

(* v2 ingest: a snapshot, a final or a correction of one, whose attempt    *)
(* starts when it starts.                                                  *)
SourceReports(a, day, final, size) ==
    /\ a \notin Legacy
    /\ day \in SourceDays /\ StoredDay(a) \subseteq {day}
    /\ rows[a] # NoValue /\ rows[a].final => final
    /\ rows' = [rows EXCEPT ![a] = [final |-> final, day |-> day, tokens |-> size.tokens,
                                   reasoning |-> size.reasoning, cost |-> NoValue]]
    /\ rebuilt' = rebuilt \ {day}
    /\ UNCHANGED <<active, billing, rollup, imported, views, moved, stale, admin>>

(* CostEngineV2._record: only one of the two columns has the amount.       *)
Recorded(mode, quote) ==
    [mode |-> mode, status |-> quote.status,
     amount |-> IF mode = "subscription" THEN NoValue ELSE quote.amount,
     equivalent |-> IF mode = "subscription" THEN quote.amount ELSE NoValue]

Administers == admin < MaxAdmin /\ admin' = admin + 1

FinalsIn(ledger) == {a \in Attempts : ledger[a] # NoValue /\ ledger[a].final}

Finals == FinalsIn(rows)

(* The cost worker prices a final without an active cost.                  *)
PriceUncosted(a, quote) ==
    /\ a \in Finals
    /\ active[a] = NoValue
    /\ active' = [active EXCEPT ![a] = Recorded(billing[a], quote)]
    /\ moved' = IF billing[a] # ModeOf(active, a) THEN moved \union {a} ELSE moved
    /\ rebuilt' = rebuilt \ StoredDay(a)
    /\ UNCHANGED <<rows, billing, rollup, imported, views, stale, admin>>

PricedIn(ledger, days) == {a \in FinalsIn(ledger) : ledger[a].day \in days}

Repriced(priced, costOf(_)) ==
    [a \in Attempts |-> IF a \in priced THEN costOf(a) ELSE active[a]]

Moves(days, roots) ==
    {a \in Finals : \/ ModeOf(active', a) # ModeOf(active, a)
                    \/ rows[a].day \in days /\ GroupOf[roots][a] # GroupOf["configured"][a]}

(* reprice: the finals in range, and the rollups of their days.  A cost     *)
(* that somebody else has replaced meanwhile fails it (the unique index on *)
(* active costs; Costs has the statements).                                *)
Reprice(v, days, quote) ==
    LET priced == PricedIn(v.rows, days)
        touched == {v.rows[a].day : a \in priced}
        seen == [a \in Attempts |-> IF a \in priced THEN active'[a] ELSE v.active[a]]
        missed == Missed(v.rows, seen, touched, rows, active')
    IN  /\ Administers
        /\ \A a \in priced : v.active[a] = active[a]
        /\ active' = Repriced(priced, LAMBDA a : Recorded(v.billing[a], quote))
        /\ rollup' = Refreshed(rollup, v.rows, seen, "default", touched)
        /\ stale' = (stale \ touched) \union LeftStale(v.rows, touched, rows, missed)
        /\ moved' = moved \union missed \union Moves(days, "default")
        /\ rebuilt' = rebuilt \ (days \union {rows[a].day : a \in priced})
        /\ UNCHANGED <<rows, billing, imported, views>>

(* revert: earlier prices come back; the rollups stay as they are.         *)
Revert(days, mode, quote) ==
    /\ Administers
    /\ \A a \in PricedIn(rows, days) : active[a] # NoValue
    /\ active' = Repriced(PricedIn(rows, days), LAMBDA a : Recorded(mode, quote))
    /\ moved' = moved \union Moves(days, "configured")
    /\ rebuilt' = rebuilt \ days
    /\ UNCHANGED <<rows, billing, rollup, imported, views, stale>>

(* POST /pricing/recompute: the v1 costs of all attempts, and all days.    *)
Recompute(v, cost) ==
    LET changed == {a \in Attempts : v.rows[a] # NoValue /\ v.rows[a].cost # cost}
        seen == [a \in Attempts |-> IF a \in changed THEN rows'[a] ELSE v.rows[a]]
        missed == Missed(seen, v.active, UsageDays, rows', active)
    IN  /\ Administers
        /\ \A a \in changed : v.rows[a] = rows[a]
        /\ rows' = [a \in Attempts |-> IF a \in changed THEN [rows[a] EXCEPT !.cost = cost]
                                       ELSE rows[a]]
        /\ rollup' = Refreshed(rollup, seen, v.active, "configured", UsageDays)
        /\ stale' = LeftStale(seen, UsageDays, rows', missed)
        /\ moved' = moved \union missed
        /\ rebuilt' = {}
        /\ UNCHANGED <<active, billing, imported, views>>

(* Mutant: what was derived before is not deleted.                         *)
RebuiltOver(v) == Refreshed(rollup, v.rows, v.active, "configured", UsageDays)

(* rebuild_all_rollups deletes what was derived before, and nobody writes   *)
(* those rows again until it ends; what others insert meanwhile stays.     *)
RebuiltFrom(v) ==
    Refreshed([k \in Keys |-> IF v.rollup[k] = NoValue THEN rollup[k] ELSE NoValue],
              v.rows, v.active, "configured", UsageDays)

Undisturbed(v) == v.rows = rows /\ v.active = active /\ v.rollup = rollup

(* POST /admin/rebuild-rollups.                                            *)
Rebuild(v) ==
    LET missed == Missed(v.rows, v.active, UsageDays, rows, active)
    IN  /\ \A k \in Keys : v.rollup[k] # NoValue => rollup[k] = v.rollup[k]
        /\ rollup' = RebuiltFrom(v)
        /\ stale' = LeftStale(v.rows, UsageDays, rows, missed)
        /\ rebuilt' = IF Undisturbed(v) THEN UsageDays ELSE {}
        /\ moved' = IF Undisturbed(v) THEN {} ELSE moved \union missed
        /\ UNCHANGED <<rows, active, billing, imported, views, admin>>

(* The operator changes a source's mode, or the overrides by machine.      *)
SetBilling(a, mode) ==
    /\ Administers
    /\ billing[a] # mode
    /\ billing' = [billing EXCEPT ![a] = mode]
    /\ UNCHANGED <<rows, active, rollup, imported, views, rebuilt, moved, stale>>

RefreshRequest(v) ==
    \/ \E a \in Attempts, day \in UsageDays, tokens \in Sizes, cost \in V1Prices :
          CollectorReports(v, a, day, tokens, cost)
    \/ \E days \in (SUBSET UsageDays) \ {{}}, quote \in Quotes : Reprice(v, days, quote)
    \/ \E cost \in V1Prices : Recompute(v, cost)
    \/ Rebuild(v)

UsageNext ==
    \/ OpenTransaction
    \/ \E v \in views : EndTransaction(v)
    \/ \E v \in views \union {Now} : RefreshRequest(v)
    \/ \E i \in Imports : ImportHistory(i)
    \/ \E a \in Attempts, day \in UsageDays, final \in BOOLEAN, size \in SourceSizes :
          SourceReports(a, day, final, size)
    \/ \E a \in Attempts, quote \in Quotes : PriceUncosted(a, quote)
    \/ \E days \in (SUBSET UsageDays) \ {{}}, mode \in Modes, quote \in Quotes :
          Revert(days, mode, quote)
    \/ \E a \in Attempts, mode \in Modes : SetBilling(a, mode)

UsageSpec == UsageInit /\ [][UsageNext]_usageVars
=============================================================================
