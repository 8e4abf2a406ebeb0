------------------------------ MODULE Upgrade ------------------------------
(***************************************************************************)
(* Taking a database of an earlier release to this one: the migrations     *)
(* that move rows (0008, 0009, 0010, 0014 and 0017 with db/backfill.py and *)
(* db/pricing_migration.py), the server's start-up and the admin commands  *)
(* that run them (app.py, cli.py, db/migrate.py, db/migrations/env.py), the*)
(* registry backfill that follows, downgrades, and what releases on either *)
(* side write in between.                                                  *)
(*                                                                         *)
(* PostgreSQL: env.py opens one transaction for all the migrations of an   *)
(* upgrade, so a failure takes every one of them back.  EventIds are         *)
(* attempts of one provider and day; a row's tokens stand for the output   *)
(* count the keep-max rule compares.                                       *)
(***************************************************************************)
EXTENDS Integers, FiniteSets, Sums

CONSTANTS
    EventIds,      \* event ids
    Machines,
    MachineOf,     \* the machine of each event
    NativeModels,  \* native models
    ModelOf,       \* the native model of each event
    Claude,        \* the models whose name is a Claude model's
    MaxCount,      \* bound on a row's tokens
    Costs,         \* prices of the v1 cost function
    MaxFaults,     \* bound on crashes and downgrades
    Null           \* NULL, or no row

Counts == 1 .. MaxCount
NoEvents == [e \in EventIds |-> Null]

(* The migrations that move rows; between them only the schema changes.    *)
HeadRevision == 17
SchemaRevisions == {7, 8, 9, 10, 14, HeadRevision}

(* usage_events, the table, and from 0010 on usage_events_v1_archive.      *)
UsageRows == [tokens : Counts, cost : Costs \union {Null}]

(* usage_events_v2: its cost column (0009), the v1 cost and the mark that  *)
(* a backfilled row carries in extra, whether it names its machine, and    *)
(* where it is attributed to.                                              *)
LedgerRows == [tokens : Counts, cost : Costs \union {Null}, v1cost : Costs \union {Null},
               marked : BOOLEAN, machine : BOOLEAN, source : {Null, "collector", "app"}]

Statuses == {"priced", "unpriced"}
Lifecycles == {"unknown", "active"}

(* registryDone: the app_settings key registry_backfill_done.              *)
Databases == [rev : SchemaRevisions,
              usage : [EventIds -> UsageRows \union {Null}],
              ledger : [EventIds -> LedgerRows \union {Null}],
              costs : [EventIds -> Statuses \union {Null}],
              sources : SUBSET Machines,
              models : [NativeModels -> Lifecycles \union {Null}],
              registryDone : BOOLEAN]

Present(table) == {e \in EventIds : table[e] # Null}

ASSUME UpgradeAssumption ==
    /\ IsFiniteSet(EventIds)
    /\ MachineOf \in [EventIds -> Machines]
    /\ ModelOf \in [EventIds -> NativeModels]
    /\ Claude \subseteq NativeModels
    /\ MaxCount \in Nat \ {0}
    /\ MaxFaults \in Nat
    /\ Costs \subseteq Nat \ {0}
    /\ Null \notin Costs \union UsageRows \union LedgerRows \union Databases
    /\ Null \notin Lifecycles

VARIABLES
    db,       \* what is committed
    work,     \* the database as an open upgrade sees it, or Null
    process,  \* what runs: nothing, a start or an admin command, the server
    faults,   \* crashes and downgrades so far
    reports,  \* the most tokens an answered request has reported for an event
    collected \* the events that an answered v1 request has reported

upgradeVars == <<db, work, process, faults, reports, collected>>

Commands == {"backfill-registries", "backfill-usage-events"}
Processes == {"none", "start", "up"} \union Commands

UpgradeTypeOK ==
    /\ db \in Databases
    /\ work \in Databases \union {Null}
    /\ process \in Processes
    /\ faults \in 0 .. MaxFaults
    /\ reports \in [EventIds -> 0 .. MaxCount]
    /\ collected \subseteq EventIds

-----------------------------------------------------------------------------
(* _v2_row: what the backfill makes of a v1 row.                           *)
Backfilled(row) == [tokens |-> row.tokens, cost |-> row.cost, v1cost |-> row.cost,
                    marked |-> TRUE, machine |-> TRUE, source |-> Null]

(* What the earlier release's own backfill made of it (before 0009 the row *)
(* has no cost column).                                                    *)
OldBackfilled(row, rev) ==
    [Backfilled(row) EXCEPT !.cost = IF rev >= 9 THEN row.cost ELSE Null]

Native(tokens, machine) == [tokens |-> tokens, cost |-> Null, v1cost |-> Null,
                            marked |-> FALSE, machine |-> machine, source |-> Null]

(* The databases that earlier releases leave behind: one before the        *)
(* backfill (an empty one stands for a new database), and those a release  *)
(* at 0008 or 0009 backfilled and went on writing v1 rows to.  The         *)
(* registries were filled from usage_events by its start, unless that was  *)
(* cut short; its v2 rows (native), some of which name a machine, have no  *)
(* source, for there is no table of sources yet.                           *)
Twin(copied, rev) == IF copied = Null THEN Null ELSE OldBackfilled(copied, rev)

Grown(copied, row) == copied = Null \/ copied.tokens <= row.tokens

LeftBehind(rev, usage, copies, native, named, done) ==
    [rev |-> rev, usage |-> usage,
     ledger |-> [e \in EventIds |-> IF e \in native THEN Native(1, e \in named)
                                  ELSE Twin(copies[e], rev)],
     costs |-> NoEvents, sources |-> {},
     models |-> [m \in NativeModels |->
                    IF done /\ \E e \in Present(usage) : ModelOf[e] = m
                    THEN (IF m \in Claude THEN "active" ELSE "unknown") ELSE Null],
     registryDone |-> done]

UpgradeInit ==
    /\ \E rev \in {7, 8, 9}, usage \in [EventIds -> UsageRows \union {Null}],
          copies \in [EventIds -> UsageRows \union {Null}],
          native \in SUBSET EventIds, done \in BOOLEAN : \E named \in SUBSET native :
          /\ native \cap Present(usage) = {}
          /\ Present(copies) \subseteq (IF rev = 7 THEN {} ELSE Present(usage))
          /\ \A e \in Present(copies) : Grown(copies[e], usage[e])
          /\ db = LeftBehind(rev, usage, copies, native, named, done)
          /\ reports = [e \in EventIds |-> IF usage[e] # Null THEN usage[e].tokens
                                         ELSE IF e \in native THEN 1 ELSE 0]
          /\ collected = Present(usage)
    /\ work = Null
    /\ process = "none"
    /\ faults = 0

-----------------------------------------------------------------------------
(* What a read of usage_events returns: the table, then the view.          *)
View(d) == IF d.rev < 10 THEN d.usage
           ELSE [e \in EventIds |-> IF d.ledger[e] = Null THEN Null
                    ELSE [tokens |-> d.ledger[e].tokens, cost |-> d.ledger[e].cost]]

(* backfill_usage_events_v2: ON CONFLICT DO NOTHING.  Its insert names the  *)
(* column cost_usd, which the table does not have before 0009.             *)
CanBackfill(d) == d.rev >= 9 \/ Present(View(d)) = {}

Backfill(d) == [d EXCEPT !.ledger = [e \in EventIds |->
                   IF d.ledger[e] = Null /\ View(d)[e] # Null THEN Backfilled(View(d)[e])
                   ELSE d.ledger[e]]]

(* populate_transitional_cost: the v1 cost that extra keeps.               *)
CostsPopulated(d) == [d EXCEPT !.ledger = [e \in EventIds |->
                         LET row == d.ledger[e]
                         IN  IF row # Null /\ row.v1cost # Null
                             THEN [row EXCEPT !.cost = row.v1cost] ELSE row]]

(* verify_backfill: per machine, the v1 rows and the marked rows are as     *)
(* many, and their tokens and v1 costs add up to the same.                 *)
Amount(cost) == IF cost = Null THEN 0 ELSE cost

Marked(d) == {e \in Present(d.ledger) : d.ledger[e].marked}

TokenColumn(table)  == [e \in Present(table) |-> table[e].tokens]
CostColumn(table)   == [e \in Present(table) |-> Amount(table[e].cost)]
V1CostColumn(table) == [e \in Present(table) |-> Amount(table[e].v1cost)]

Totals(es, tokens, costs) ==
    [count |-> Cardinality(es), tokens |-> Total(tokens, es), cost |-> Total(costs, es)]

Of(es, m) == {e \in es : MachineOf[e] = m}

UsageTotals(d, m) ==
    Totals(Of(Present(View(d)), m), TokenColumn(View(d)), CostColumn(View(d)))

MarkedTotals(d, m) ==
    Totals(Of(Marked(d), m), TokenColumn(d.ledger), V1CostColumn(d.ledger))

(* Mutant: only the rows are counted.                                      *)
RowsVerified(d) == \A m \in Machines :
    UsageTotals(d, m).count = MarkedTotals(d, m).count

Verified(d) == \A m \in Machines : UsageTotals(d, m) = MarkedTotals(d, m)

(* attribute_backfilled_sources: rows that name a machine and have no       *)
(* source get the machine's.                                               *)
Attributed(d) ==
    LET none == {e \in Present(d.ledger) : d.ledger[e].source = Null /\ d.ledger[e].machine}
    IN  [d EXCEPT !.sources = d.sources \union {MachineOf[e] : e \in none},
                  !.ledger = [e \in EventIds |->
                      IF e \in none THEN [d.ledger[e] EXCEPT !.source = "collector"]
                      ELSE d.ledger[e]]]

(* materialize_computed_costs: an active cost for every row there is.      *)
Materialized(d) == [d EXCEPT !.costs = [e \in EventIds |->
                       IF d.ledger[e] = Null THEN Null
                       ELSE IF d.ledger[e].cost = Null THEN "unpriced" ELSE "priced"]]

-----------------------------------------------------------------------------
(* The lifespan of app.py and the commands of cli.py begin with             *)
(* upgrade_to_head; there is one process at a time.                        *)
Start(p) ==
    /\ process = "none"
    /\ process' = p
    /\ work' = db
    /\ UNCHANGED <<db, faults, reports, collected>>

Migration(from, to, may(_), of(_)) ==
    /\ work # Null
    /\ work.rev = from
    /\ may(work)
    /\ work' = [of(work) EXCEPT !.rev = to]
    /\ UNCHANGED <<db, process, faults, reports, collected>>

(* 0011 makes the sources anew and ties the rows' source_id to them: after  *)
(* a downgrade the rows of other sources than collectors point at none.    *)
SourcesExist(d) == \A e \in Present(d.ledger) : d.ledger[e].source # "app"

Always(d) == TRUE
Unchanged(d) == d

Migrate0008 == Migration(7, 8, CanBackfill, Backfill)
Migrate0009 == Migration(8, 9, Always, CostsPopulated)
Migrate0010 == Migration(9, 10, Verified, Unchanged)
Migrate0014 == Migration(10, 14, SourcesExist, Attributed)
Migrate0017 == Migration(14, HeadRevision, Always, Materialized)

(* A migration that raises takes the whole upgrade back, and the process    *)
(* ends.                                                                   *)
MigrationFails ==
    /\ work # Null
    /\ \/ work.rev = 7 /\ ~CanBackfill(work)
       \/ work.rev = 9 /\ ~Verified(work)
       \/ work.rev = 10 /\ ~SourcesExist(work)
    /\ work' = Null
    /\ process' = "none"
    /\ UNCHANGED <<db, faults, reports, collected>>

CommitUpgrade ==
    /\ work # Null
    /\ work.rev = HeadRevision
    /\ db' = work
    /\ work' = Null
    /\ UNCHANGED <<process, faults, reports, collected>>

(* RegistryBackfill._upsert_model: a row is made for a model, or an unknown *)
(* one found to be active; a lifecycle is never lowered.                   *)
Catalogued(m, lifecycle) == IF m \in Claude THEN "active"
                            ELSE IF lifecycle = Null THEN "unknown" ELSE lifecycle

RegistryFilled(d) ==
    [d EXCEPT !.models = [m \in NativeModels |-> IF \E e \in Present(View(d)) : ModelOf[e] = m
                                          THEN Catalogued(m, d.models[m]) ELSE d.models[m]],
              !.registryDone = TRUE]

(* RegistryBackfill.run, at a start unless the marker says it is done, and  *)
(* by the command with --force or without.                                 *)
FillRegistry(force) ==
    /\ process \in {"start", "backfill-registries"}
    /\ work = Null
    /\ process = "start" => ~force
    /\ db' = IF db.registryDone /\ ~force THEN db ELSE RegistryFilled(db)
    /\ process' = IF process = "start" THEN "up" ELSE "none"
    /\ UNCHANGED <<work, faults, reports, collected>>

(* backfill-usage-events, after its upgrade: what it reads is the view.    *)
BackfillUsage ==
    /\ process = "backfill-usage-events"
    /\ work = Null
    /\ db' = Backfill(db)
    /\ process' = "none"
    /\ UNCHANGED <<work, faults, reports, collected>>

Crash ==
    /\ faults < MaxFaults
    /\ process # "none"
    /\ process' = "none"
    /\ work' = Null
    /\ faults' = faults + 1
    /\ UNCHANGED <<db, reports, collected>>

-----------------------------------------------------------------------------
(* The model registry's observe.                                           *)
(* Mutant: ingest leaves the registry to the backfill.                     *)
NotObserved(models, m) == models

Observed(models, m) == [models EXCEPT ![m] = IF models[m] = Null THEN "unknown" ELSE models[m]]

Reported(e, tokens) == [reports EXCEPT ![e] = IF tokens > reports[e] THEN tokens
                                              ELSE reports[e]]

(* Mutant: what extra already held is kept.                                *)
MirroredOver(e, tokens, cost) ==
    [tokens |-> tokens, cost |-> cost, v1cost |-> Null,
     marked |-> db.ledger[e] # Null /\ db.ledger[e].marked,
     machine |-> TRUE, source |-> "collector"]

(* _v1_to_v2: no mark, and no v1 cost in extra.                            *)
Mirrored(e, tokens, cost) == [tokens |-> tokens, cost |-> cost, v1cost |-> Null,
                              marked |-> FALSE, machine |-> TRUE, source |-> "collector"]

(* A v1 request: the ledger's keep-max rule.                               *)
IngestV1(e, tokens, cost) ==
    /\ process = "up"
    /\ db' = [db EXCEPT
          !.ledger[e] = IF db.ledger[e] = Null \/ tokens >= db.ledger[e].tokens
                        THEN Mirrored(e, tokens, cost) ELSE db.ledger[e],
          !.sources = db.sources \union {MachineOf[e]},
          !.models = Observed(db.models, ModelOf[e])]
    /\ reports' = Reported(e, tokens)
    /\ collected' = collected \union {e}
    /\ UNCHANGED <<work, process, faults>>

(* A v2 request of another source, with an event the ledger does not have; *)
(* its model is not shown to the registry.                                 *)
IngestV2(e, tokens) ==
    /\ process = "up"
    /\ db.ledger[e] = Null
    /\ db' = [db EXCEPT !.ledger[e] = [Native(tokens, FALSE) EXCEPT !.source = "app"]]
    /\ reports' = Reported(e, tokens)
    /\ UNCHANGED <<work, process, faults, collected>>

(* A v1 request that an earlier release answers: usage_events, keep-max.   *)
OldIngest(e, tokens, cost) ==
    /\ process = "none"
    /\ db.rev < 10
    /\ db' = [db EXCEPT
          !.usage[e] = IF db.usage[e] = Null \/ tokens >= db.usage[e].tokens
                       THEN [tokens |-> tokens, cost |-> cost] ELSE db.usage[e],
          !.models = Observed(db.models, ModelOf[e])]
    /\ reports' = Reported(e, tokens)
    /\ collected' = collected \union {e}
    /\ UNCHANGED <<work, process, faults>>

-----------------------------------------------------------------------------
(* The downgrades: 0017 drops the costs, 0014 unlinks the collector sources *)
(* and deletes them, 0010 gives the archive its name back, 0009 drops the   *)
(* column, and 0008 removes the backfilled rows.                           *)
Unattributed(d) == [d EXCEPT !.sources = {}, !.ledger = [e \in EventIds |->
                       IF d.ledger[e] # Null /\ d.ledger[e].source = "collector"
                       THEN [d.ledger[e] EXCEPT !.source = Null] ELSE d.ledger[e]]]

(* Mutant: the backfilled events' rows go, whether or not still marked.    *)
ArchivedRemoved(d) == [d EXCEPT !.ledger = [e \in EventIds |->
                          IF d.usage[e] # Null THEN Null ELSE @[e]]]

BackfilledRemoved(d) == [d EXCEPT !.ledger = [e \in EventIds |->
                            IF e \in Marked(d) THEN Null ELSE d.ledger[e]]]

CostDropped(d) == [d EXCEPT !.ledger = [e \in EventIds |->
                      IF d.ledger[e] = Null THEN Null
                      ELSE [d.ledger[e] EXCEPT !.cost = Null]]]

To0009(d) == IF d.rev < HeadRevision THEN d
             ELSE [Unattributed(d) EXCEPT !.costs = NoEvents, !.rev = 9]

To0008(d) == [CostDropped(d) EXCEPT !.rev = 8]

To0007(d) == [BackfilledRemoved(d) EXCEPT !.rev = 7]

(* The operator downgrades a stopped server's database.                    *)
Downgrade(to) ==
    /\ faults < MaxFaults
    /\ process = "none"
    /\ db.rev > to
    /\ db' = CASE to = 9 -> To0009(db)
               [] to = 8 -> To0008(To0009(db))
               [] to = 7 -> To0007(To0008(To0009(db)))
    /\ faults' = faults + 1
    /\ UNCHANGED <<work, process, reports, collected>>

Migrates == Migrate0008 \/ Migrate0009 \/ Migrate0010 \/ Migrate0014 \/ Migrate0017

UpgradeNext ==
    \/ \E p \in {"start"} \union Commands : Start(p)
    \/ Migrates
    \/ MigrationFails
    \/ CommitUpgrade
    \/ \E force \in BOOLEAN : FillRegistry(force)
    \/ BackfillUsage
    \/ Crash
    \/ \E e \in EventIds, tokens \in Counts, cost \in Costs \union {Null} :
          IngestV1(e, tokens, cost) \/ OldIngest(e, tokens, cost)
    \/ \E e \in EventIds, tokens \in Counts : IngestV2(e, tokens)
    \/ \E to \in {7, 8, 9} : Downgrade(to)

UpgradeSpec == UpgradeInit /\ [][UpgradeNext]_upgradeVars

-----------------------------------------------------------------------------
(* A v1 row is in the view that takes its table's place: no archived event  *)
(* is missing, none shows fewer tokens, and what no release has rewritten   *)
(* keeps its machine's cost.  verify_backfill adds up whole machines; that  *)
(* it speaks of every event takes that a copy never has more tokens than    *)
(* its v1 row (db/backfill.py, 0010).                                      *)
SwapLosesNothing ==
    db.rev >= 10 =>
        /\ \A e \in Present(db.usage) : /\ db.ledger[e] # Null
                                     /\ db.ledger[e].tokens >= db.usage[e].tokens
        /\ \A m \in Machines :
              Of(Present(db.usage), m) \subseteq Marked(db) =>
                  Total(CostColumn(db.ledger), Of(Present(db.usage), m))
                      = Total(CostColumn(db.usage), Of(Present(db.usage), m))

(* Whatever upgrades, failures, crashes and downgrades come, what a release *)
(* was answered for is in one of the two tables.  A downgrade deletes the   *)
(* marked rows, so a row that a request has changed may not stay marked     *)
(* (remove_backfilled_rows, services/ingest.py _v1_to_v2).                 *)
ReportsSurvive ==
    \A e \in EventIds : reports[e] > 0 =>
        \/ db.usage[e] # Null /\ db.usage[e].tokens >= reports[e]
        \/ db.ledger[e] # Null /\ db.ledger[e].tokens >= reports[e]

(* While the server answers, the registry has the model of every event that *)
(* a v1 request of any release has reported, whichever start, observation or*)
(* downgrade it went through (services/registry_backfill.py,                *)
(* services/ingest.py observe); a model that only v2 requests name may be   *)
(* missing.                                                                *)
RegistryCoversLedger ==
    process = "up" => \A e \in collected : db.models[ModelOf[e]] # Null

(* An upgrade, however often it is cut short, undone or run again, loses    *)
(* no report, no row of the view and no model that v1 requests named.      *)
UpgradeLosesNothing == SwapLosesNothing /\ ReportsSurvive /\ RegistryCoversLedger
=============================================================================
