# tokemetry in TLA+

TLA+ modules of tokemetry: the way of a usage event from a transcript file, a
proxy or an instrumented application into the ledger, what the server derives
from the ledger, the jobs and administrators that change both, and what is
shown. Each module is model-checked with TLC on small instances; the invariants
that matter most are proved with TLAPS for every instance.

Paths are relative to the repository root: `server/` stands for
`apps/server/src/tokemetry_server/`, `collector/` for
`apps/collector/src/tokemetry_collector/`, `core/` for
`packages/core/src/tokemetry_core/`. `PROJECT.json` lists every component with
its status, the hazards at the lines where they bite, the lines that each
definition models, and a mutation of the code's behaviour for each property,
which the property must catch.

## Inventory

| Component | State | Operations | Hard behaviour | What makes it correct |
|---|---|---|---|---|
| Revision engine (`server/services/revisions.py`) | `usage_events_v2`, `billable_units`, `usage_event_revisions`, conflicts | `resolve`, `apply`, `_archive`, `_replace_billable_units` | retransmission, reordering, requests that overlap between read and write | the active row is the newest state; finals change by correction only; complete audit trail; units follow the row |
| Ingest (`services/ingest.py`, `ingest_v2.py`, `api/ingest.py`, `api/v2/ingest.py`, `api/deps.py`) | one transaction per request | v1 and v2 events, limits, bootstrap | partial failure, commit before or behind the answer | all or nothing; what is answered is stored |
| Tokens, scopes, privacy, rate limits (`api/auth.py`, `services/tokens.py`, `privacy.py`, `rate_limit.py`) | `api_tokens`, buckets in memory | mint, revoke, authenticate, check, sanitize | a principal used after it was read; lazily refilled buckets; two paths through the same checks | nothing is stored that was not allowed; validate tells what ingest will do |
| OTLP receiver (`otel/`, `api/v2/otel.py`) | none | parse, convert, ingest | exports repeated, amended, malformed, with content, with values that are no scalars | whole exports; content, and what is no scalar, is all that is lost |
| Collector (`collector/runner.py`, `state.py`, `uploader.py`, `cli.py`) | `file_offsets`, `upload_queue`, `meta`, one commit per call | tail, poll, drain, bootstrap | death between commits; lost, late, repeated requests; truncated files | nothing read is lost; progress |
| Transcript parser (`core/providers/claude_code.py`) | none | `discover`, `parse`, `bootstrap` | lines being written, malformed lines | every line passed once |
| Clients (`packages/clients`) | none | submit, retry, bisect | retry of what was stored; poison | every good event stored, each bad one set aside |
| Logical requests, listings (`logical_requests.py`, `trace_queries.py`) | `logical_requests` | recompute, paginated reads | corrections, requests that overlap, inserts between pages | requests agree with their attempts; a walk skips nothing |
| Rollups and queries (`rollups.py`, `queries.py`, `queries_v2.py`, ...) | `daily_rollups` | refresh, rebuild, import, v1 and v2 queries | rows that move between days or groups; read, then overwritten | two ways to ask for a total agree |
| Costs (`computed_costs.py`, `cost_worker.py`, `repricing.py`) | `computed_costs` | sweep, reprice, revert | two writers of one event | an active cost stays; prior amounts stay; every event is costed |
| Rate cards (`pricing_admin.py`, `pricing_import.py`, `pricing_v2.py`) | `rate_cards` | create, close, import | check, then write | one price per grain and day; the past stands |
| Limits (`limits_*.py`, `ingest_v2_meta.py`, `analytics.py`, `limit_forecast.py`) | `limit_snapshots` | poll, flood control, forecast | late and repeated snapshots, resets rolled forward | what is shown follows from what was polled |
| Retention, deletion (`retention_worker.py`, `retention.py`, `admin_deletion.py`) | all tables, policy, status | sweep, preview, execute | ingest between check and delete; policy edits during a sweep | only what is old and counted goes; erased usage is not counted |
| Alerting (`services/alerting/`) | rule state, alert events | loop, manual evaluation | notice before commit; cooldown; quiet hours | what is announced is new or real |
| Source registry (`services/sources.py`) | `sources` | resolve, refresh, revoke | stale copies written back | a revocation sticks |
| Registries, data quality (`registries.py`, `data_quality.py`) | `providers`, `models`, `data_quality_events` | normalize, observe, record | savepoints that fail; two first sightings | nothing unknown is stored unnoticed |
| Live stream (`broadcast.py`, `api/stream.py`) | queues and counters in memory | publish, subscribe, re-authorise | slow subscribers, revocation | no gap; caps hold; revoked connections close |
| Upgrade (`db/migrations`, `db/backfill.py`, `registry_backfill.py`) | the database of an earlier release | migrate, verify, downgrade, fill | failure and crash between steps | no report is lost |
| Dashboard, website, deployment | | | | |

How they interact: the collector uploads v1 events and bootstrap aggregates and
v2 limit batches over HTTP; proxies and the clients upload v2 events;
exporters send spans. All three are applied by one revision engine, v1 events in
its `KEEP_MAX` mode after a projection. v2 ingest derives logical requests and
v1 ingest rollups in the same transaction; the cost, retention and alert loops
of `server/app.py` and the administrators' requests read and write the same
tables from transactions of their own. The dashboards query those tables and are
told of v1 ingest through an in-memory broadcaster.

## Modules

| Module | Models | Checked by |
|---|---|---|
| `Revisions` | the pure part of the revision engine: rows, fingerprints, `resolve`, the ORM's UPDATE | with `Ledger` |
| `Ledger` | requests of many events that apply it inside interleaved transactions | `MCLedger` |
| `Collector` | tools, files, daemon, state database, network, the server's v1 ingest | `MCCollector` |
| `Delivery` | abstract: what collector and server promise; `Collector` implements it | `MCCollector` |
| `RateCards` | cards, their selection, creation, closing, reviewed import | `MCServer` |
| `Costs` | sweep, reprice and revert, statement by statement | `MCCosts` |
| `History` | rollups, rebuilds, imports, deletion and sweep of raw events | `MCHistory` |
| `RetentionSweep` | policy, sweep and status of every other category | `MCHistory` |
| `Sources` | the registry of sources and their health | `MCAlerts` |
| `Alerts` | the alert engine over `Sources` | `MCAlerts` |
| `Intake` | tokens, scopes, source lists, buckets, batch checks, privacy gate, preflight | `MCAlerts` |
| `Client` | batching, retry and bisection of the ingest clients | `MCTraces` |
| `Traces` | `Client` with the ledger, logical requests and paginated listings behind it | `MCTraces` |
| `Otlp` | the OTLP receiver | `MCTraces` |
| `Stream` | WebSocket handlers, queues, caps, revocation | `MCFront` |
| `Observed` | provider and model registries and anomaly records of v1 ingest | `MCFront` |
| `Limits` | polls, gateways, flood control, and what is shown of limits | `MCServer` |
| `Upgrade` | migrations, verification, start-up, downgrades, releases before and after | `MCServer` |
| `Usage` | rollups, ledger and active costs, and the requests and jobs that change them | `MCServer` |
| `Readers` | the v1 and v2 queries over `Usage` | `MCServer`, `MCUsage` |
| `LedgerProofs`, `CollectorProofs`, `PricingProofs` (`RateCards`, `Costs`, `Usage` with `Readers`), `StorageProofs` (`RetentionSweep`, `Upgrade`, `History`, `Limits`), `SourcesProofs` (with `Alerts`), `IntakeProofs` (with `Stream`, `Observed`), `FrontProofs` (`Client` with `Traces`, `Otlp`) | theorems | tlapm |
| `Sums`, `SumLemmas` | sums and folds over finite sets, and what they add up to | with `MCServer`, `MCHistory`; tlapm |

`Alerts` extends `Sources`, `Traces` extends `Client`, and `Readers` extends
`Usage`: these are compositions of components that share state, and a step of
the one moves the other. Where an `MC` module puts further modules side by side,
they have no table in common and no property speaks of two of them: a behaviour
takes the steps of one, chosen in its initial state (`part`, `half`, `via`,
`front`), which only keeps the number of runs small. A behaviour of the whole
server interleaves these parts, but a step of one does not enable, disable or
change a step of another.

### Revisions and Ledger

A row is `[finality, sequence, output, detail, money]`: the columns `resolve()`
decides by, one value for all others it only compares, and the text of the money
column (a `Numeric(20, 10)` returns `0.012` as `0.0120000000`, which is what the
fingerprint sees: `StoredMoney`). `Begin` takes a batch, `ResolveEvent` is the
first half of `apply()`, `WriteEvent` the second (archive, write, replace the
units, flush), `InsertFails` and `ArchiveFails` the two ways in which the flush
ends the request, `Commit` and `Rollback` the end of the transaction. The database
is PostgreSQL at READ COMMITTED (`server/db/session.py` sets no other level): a
read sees committed rows and the transaction's own writes, a flushed write holds
its row's lock, a second insert of a key fails, and the ORM's UPDATE sets only the
columns that differ from the row it loaded, so that a stale writer merges into the
current row (`Updated`).

### Collector and Delivery

`pc` follows `collect_once`: `scan` (`ParseFile`, then `EnqueueChunk` per chunk and
`SaveOffset`, each a commit of its own), `PollLimits` or `SkipLimits`, `drain` (`Send`,
`MarkUploaded` or `UploadFails`). `Crash` may happen between any two; the state database
survives. `wire` holds requests the server has still to handle, those the client gave up
on included. The v1 handlers answer, and `get_session` commits behind the answer (with
FastAPI 0.139.0 of `uv.lock` the exit of a dependency with `yield` runs after the
response is sent): the batch is in `uncommitted` until `CommitAnswered` or
`AbortAnswered`. `bootstrap()` answers a history (`QueueHistory`) or, when the stats
cache is missing, unreadable or half written, nothing (`NoHistory`), and the flag is set
in either case; `history` remembers which. `Promise` in `Collector` is `Delivery` with
`recorded <- store`.

### Intake and Otlp

A request of `Intake` occupies a slot from `Arrive` (the query bucket of the
middleware) over `Authenticate` (which commits `last_used`, and keeps scopes and
sources as they were) to its handler. `Ingest` is the handler up to its commit:
ingest bucket, size, envelope, per-event validation, source list, privacy gate.
`Validate` repeats part of that on a path of its own. `MintToken` and
`RevokeToken` interleave at every await; `Restart` replaces policy and buckets.
Buckets count in integer units (`Capacity`, `Refill`, `Price`), so that the refill
is exact; a float bucket of the code differs by rounding only.

In `Otlp`, `wire` counts the requests that carry each export. `RefuseMalformed` is
the 400 of the parser, `FailInvalid` the 500 of a count the event model refuses,
`RefuseContent` the 422 of the privacy gate, `StoreExport` the batch and its commit,
`FailExport` a failure before or behind the answer. An attribute is its key, and
`compound` has the keys whose values are arrays, lists of keys or bytes, for which
`_attr_value` answers `None`.

### Sources and Alerts

`Resolve` is the lookup of a request, `CommitIngest` writes back the columns it
changed in its copy. A pass of the alert engine (`BeginPass`, `RunSingle`, `Fire`,
`Recover`, `CommitPass`, `FailPass`) sends as it goes and commits at its end. Kinds
of rules with one finding are one kind, whose condition the environment changes;
`stale_source` and `schema_drift` look at the rows of `Sources`.

### Client and Traces

The slices a call has still to submit are consecutive, so `next` and `ends` give
them. `Exchange` is a request with its answer: stored, refused, failed, or stored
with the answer lost; `IngestLate` is a request the client had given up. A batch is one
step (`Ingest`) where nothing overlaps it; else `OpenIngest` is what the transaction
reads, its rows and the attempts it groups, and `Commit` what it writes of that, later,
column by column as the ORM does, unless an insert clashes (`FailIngest`). `stale` has
the requests that were written from an old read, or that an attempt left. A walk
reads one page per step (`FetchPage`), with commits between pages.

### RateCards, Costs, Usage, Readers

A grain is what two cards may not both price on one day. `CheckOverlap` and
`CreateCard`, `CheckDigest` and `ApplyImport` are the two halves of a request. In
`Costs`, each statement of `record_cost`, of the sweep, reprice and revert is a
step, with the row locks of PostgreSQL (an UPDATE waits, then checks its WHERE
clause again). `Usage` has transactions instead: `refresh_rollups_for_days` and
`rebuild_all_rollups` read the ledger and the costs without a lock, and overwrite the
rollups when they commit. A request that writes rollups is therefore a step with a
parameter `v`, what it has read: the database as it is (`Now`), or as it was when some
transaction in `views` opened. What it may not overlook (rows it writes itself, rows a
machine's lock keeps still, active costs under their unique index) is in its guards,
and the days it leaves behind the ledger are in `stale`. The reads of one transaction
are taken at one instant. A collector's import (`ImportHistory`) writes rollups of a
provenance of its own, which a rebuild keeps. `Readers` has one operator per query, and
compares them.

### History and RetentionSweep

`SweepStart`, `SweepCheckDay`, `SweepDeleteDay`, `SweepCommit` are the sweep of raw
events, day by day; writers (v1 requests, rebuilds) have a read and a commit, and
`ExecuteDeletion` compares the digest of its preview and has the option
`recompute_rollups`. A sweep looks at no further day once it has deleted `RawBatch`
rows. `RetentionSweep` has the categories that are deleted by age, category and reason,
in batches (`RetireCategory`), under the policy that `RetireStart` read.

### Stream, Observed, Limits, Upgrade

A step of a `Stream` handler runs from one await to the next. A request of
`Observed` decides at `BeginObserved` from what is committed and writes at
`CommitObserved`; `lost` are the records whose savepoint fails. In `Limits`,
`Judge` is flood control and `Commit` the end of the request, `TimeOut` the
collector's repetition. `Upgrade` runs each migration as a step of one
transaction (`env.py`), with `MigrationFails` and `Crash` at any of them, and
`IngestV1`, `IngestV2` and `OldIngest` as traffic of this and of an earlier release. Of
these only the v1 requests observe models. `Migrate0014` needs the sources that the rows
name to exist (`SourcesExist`), and attributes only rows of a machine.

## Runs

| Run | Result | What it shows |
|---|---|---|
| `MCLedger` | passes | Requests one after another, any batch any number of times, in any order, with failures. `NothingNewerIgnored`: no report that was answered is newer than the active row. `ReportsKept`: a final that was reported is in the row, the archive or a conflict, a v1 id keeps its maximum, and units come from the report the row comes from. `SupersedesInOrder`, `ArchiveComplete`: rows are replaced in order, each with its archive. |
| `MCLedgerOverlap` | passes | Two requests that overlap on two ids: a final never becomes a snapshot again (`FinalStaysFinal`), and only reports that differ are conflicts. |
| `MCLedgerRace` | violation of `SupersedesInOrder` | A snapshot read before a final committed is written after it: the row stays `final` with the snapshot's tokens, and the final is archived nowhere. |
| `MCCollector` | passes | Death anywhere, a history that is missing, lost and late requests, one answered batch rolled back: the collector loses nothing it could read, and with the server it implements `Delivery`. |
| `MCCollectorLive` | passes | With truncations, a death and a refused event: what is read is eventually recorded, unless something the server refuses or the parser dies on is in front of it. |
| `MCCosts` | passes | Sweep, reprice and revert over changing prices, rollbacks and deadlocks: an event never loses its active cost, no commit rewrites amounts of a version up to the current one, every final is costed. |
| `MCHistory` | passes | `TotalsHonest`, `DeletesOnlyCounted`, `EventuallySwept`: deleting raw events loses no total, what was erased with its rollups recomputed is not counted, a day past retention goes whatever days before it stay. `OnlyExpiredRemoved`, `StatusIsTrue`: a row goes only if the policy its sweep read says it is old, and the status tells what went. |
| `MCAlerts` | passes | `StateMatchesHistory`, `NoticesHold`, `EventuallyNoticed` of the alert engine with passes that fail or overlap; `RevocationSticks` of its sources. `GatesHold`: nothing is stored that token, source list, scopes or privacy did not allow, and validate tells what ingest does. `BucketsExact`: a bucket is what its own traffic leaves, and who waits as told is let through. |
| `MCTraces` | passes | `PoisonIsolated`, `EventuallyAnswered` of a client; `ReplaysChangeNothing`, `RequestsAgree`, `WalkStable` of what the server makes and shows of its reports, in transactions that may overlap; `ExportsFaithful` of OTLP. |
| `MCFront` | passes | `PlacesCounted`, `FeedHasNoGap`, `RevokedIsClosed` of the live stream; `RegistriesKeepUp` of v1 ingest: nothing unknown is stored unnoticed, and no event of an unregistered provider under the reject policy. |
| `MCServer` | passes | `OneOpenCard`, `ImportKeepsThePast`, `ImportLeavesNoGap`; `LimitsSound` (flood control lets at most one snapshot per interval through and the newest is shown; resets, forecasts and blocks follow from them); `UpgradeLosesNothing` (the view has what the table had, answered reports are in one of the tables, the registry has every model v1 reported); `QueriesAgree` (v1 and v2 of a rebuilt day, and how much more v1 tells of an imported one; `/costs` and dual metrics); `CollectedDaysCounted` (a day that only collectors report is never undercounted unless its last refresh missed a commit, and counted exactly while no attempt has moved to another grain or been missed). |
| `MCUsageMidnight` | violation of `RollupsReflectKeepMax` | The lines of one answer lie on both sides of midnight and arrive in two batches: the event moves to the new day, and the old day's rollup goes on counting it. |

The two violations are disagreements between the code and its documentation;
`PROJECT.json` quotes the lines under `findings`.

## Bounds

* `MCLedger`: two ids, one session, eleven batches, each any number of times. Three
  sequence numbers, three outputs and two details realise every case of
  `resolve()`, both modes, a correction of a final with and without a cost, one id
  twice in a batch, and a batch that fails half-way. `MCLedgerOverlap`: two
  sessions are enough for a lock, a lost insert and a stale read; its batches take
  two ids in opposite orders, and carry no money.
* `MCCollector`: one file, two ids, two outputs, chunks of one event, one limits
  poll, one death, one rolled back answer, two requests in flight, which a late one
  needs to overtake its retransmission. Files share only the queue.
* `MCCosts`: two events, three versions, so that a reprice also supersedes what another
  has written, a batch of two, the sweep and one
  administrator: two writers of one event. With two administrators, or with five
  jobs at once, `CostHistoryKept` does not hold (see below); the theorem about it is
  for one administrator and any other bound.
* `MCHistory`: two attempts of one day in two groups, or of two days, of which the first
  may stay uncovered; five days, retention of two; a sweep looks at no further day after
  one row; traffic in seven mixtures, so that a property that excepts a kind of traffic
  is checked with it absent and the others present. The sweep: five rows, one of each
  kind of table, days of two ticks, batches of one row, one edit of the policy.
* `MCAlerts`: two sources, one request, a cooldown of two; deployments that each
  have some kinds of rules, one with a manual evaluation beside the loop. The
  intake: one stored token beside the bootstrap token, two requests in progress, two
  or three calls in all, from four workloads; a bucket that holds two requests and is not
  refilled by a whole one in a second, so that fractions matter.
* `MCTraces`: four attempts, two of them with one id, calls of up to five
  reports in batches of four, one retry, pages of one row; seven deployments, of which
  three may hold a transaction open while others commit: two that overlap is what
  a lost update, a lost insert and a stale page need. Seven exports of nine kinds of
  spans, sent five times in all.
* `MCFront`: three connections of two tokens, a cap and a queue of one. Two
  overlapping requests out of three batches, a built-in and an unknown provider in
  two spellings.
* `MCServer`: two grains, two cards each, one request, cards created by hand only for
  the dated model; two windows, two accounts,
  two requests in flight, four instants (with symmetry of the requests, which no
  action tells apart; only safety is checked here); two events of one machine, two
  faults. The usage of three attempts over two days and three groups, three quotes, one
  administrative action, in three parts: `usage`, a collector and a gateway, one request at
  a time; `import`, a collector that has imported its history; `overlap`, the collectors
  of two hosts and an administrator, one old view (`MaxViews`) beside the current state.
  A collector's attempt is not priced `partial` there nor a gateway's `error` (each status
  occurs with the other); in `overlap` one host's attempt stays as it is, the other's grows
  before it is reported on the second day, and all have one price.

Each bound is a `CONSTANT` (`MaxCrashes`, `MaxSends`, `MaxCards`, ...) in the guard
of the action it bounds.

## Fairness and assumptions

* `Collector`: `WF(Daemon)`, since `Collector.run` loops for ever and systemd
  restarts the process; `SF(ParseFile(f))`, a file listed again and again is not
  unreadable for ever; `WF(Transit)`, requests end by a timeout; `WF(Commits)`, the
  exit of `get_session` runs; `SF(ServerAnswers)`, a server asked again and again
  answers some day. `StaysShort`: a truncated file does not grow past the
  remembered offset before the next scan, which nothing in the code could notice.
* `Costs`: the loop (`WF(Sweep)`) and open jobs go on; `SF` of the sweeper's steps,
  because PostgreSQL queues those who wait for a row.
* `History`: the loop and requests go on; `SF(SweepDeleteDay)`, because writers may
  take the rows of a day again and again, and PostgreSQL queues those who wait.
* `Alerts`: `WF` of the loop's passes; of a manual evaluation nothing is asked.
* `Stream`: `WF` of every handler, which asyncio schedules. `Traces`:
  `WF(ClientProgress)`, a call that is running goes on.
* The other specifications are checked for safety only and have no fairness.

`IntakeAssumption`, `OtlpAssumption`, `LedgerAssumption` and the others state what
the constants stand for; TLC evaluates them in the runs. Those that say more than
what set a constant ranges over: in `Traces`, ids and times are integers, and of two
different reports of one attempt one is final and both name one time, as a retried
request's are; in `Observed`, a batch holds one event per provider and model, its
latest, which is what `_apply_registry_policy` makes of the events it gets; in
`Limits`, gateways report known windows, and percentages from 0 to 100; the
sets of grains and windows are finite. No value that stands for "none" is a number or
a row.

## Proofs

All theorems hold for every value of the constants that satisfies the module's
assumptions; a hypothesis beyond those is part of the theorem's statement and named
here. Each was an invariant of a TLC run first.

A pattern recurs. The code reads, decides and writes inside a transaction that
becomes visible by its commit. A property of committed state is then not inductive:
its strengthening says the same of the state that an open transaction would leave if
it committed now. `KeptBy`, `RowsSeen`, `PassAgrees`, `SweptExpired`, `StatusInv`,
`RequestBounded` and `Begun` are of this form.

Sums are folds over finite sets. `SumLemmas` reasons about them by least
counterexamples: among the subsets of a finite set for which a fact fails there would
be a smallest one (`SmallestSet`), and it has an element that can be taken away.
The folds over a batch, report by report, are taken the same way, by the last place of
the places folded so far (`LastPlace`, `FoldExists`); first and last rows of a
listing by `LeastElement` and `Extremes`.

* `LedgerProofs`: `TypeCorrect`, `WritersExclude`, `FinalityIsKept`, for any ids,
  sessions and batches. `LedgerInv` adds to the types and the exclusion of writers
  that a session about to write has decided to (`SessionsConsistent`), that a row
  that was read still exists when it is overwritten (`RowsExist`), and that a draft
  over a final row is final (`DraftsKeepFinals`). The last is the heart: a session
  that read a snapshot may write over a final, but its UPDATE then touches
  `finality` only to make it final, and a final that was committed while a draft
  existed would have needed the row lock.

  `ConflictsAreReal`, also for requests that overlap: a stale writer merges two
  reports into a row that is neither (`Updated`), but then these reports differ, and
  it is enough that a row is one of the reported ones or that two of them differ
  (`Backed`). The hypothesis `CostsScaled` excludes costs with fewer digits than
  the column, which conflict with their own retransmission.

  `NewestIsActive`, `ReplacementsInOrder`, `ReportsAreKept`, `ArchiveIsComplete`,
  with one session (`OneSession`; `MCLedgerRace` shows that it is needed).
  `OrderInv` adds that what the session read is still visible, drafts only move up,
  and processed events are not newer than the visible rows. `ReportsInv` adds that
  the session archived a row before it wrote over it (`ArchivedFirst`), and what
  `ReportsKept` says of the reports up to the event it has come to.
* `CollectorProofs`: `CollectorTyped`; `ImplementsDelivery`, the whole refinement: every
  step of the daemon, the network and the server is a step or a stutter of `Delivery`,
  for which it is needed that what is parsed, queued, in transit or about to be
  committed was emitted (`OnlyEmitted`). `LosesNothing`: `LossInv` follows an event from
  its line to the server. Below a stored offset it is in the queue or answered for
  (`FileKept`); between the parse and the commit of the new offset, in the queue or
  among those still to be queued (`ParsedKept`); a batch leaves the queue only answered
  (`HeadKept`); and the flag of the bootstrap is set only after it has run, and a
  history that it read is queued before (`HistoryKept`). Offsets count in a generation
  of the file, so a truncation makes no claim about what it removed.
* `PricingProofs`: `OneCardIsOpen`, `ImportsKeepThePast`, with one request at a
  time (`SingleRequest`). The invariant says that what an open request has read is
  still so (`RequestsCurrent`): its plan supersedes the open card and no other. Two
  administrators who both pass the check leave two open cards, since no constraint
  of the database keeps them apart. `ImportsLeaveNoGap` follows too: a card is closed
  only where the import opens its successor (`Imported`), and a card that it closes
  has been the only open one.

  `CostsKeepHistory`, for any events, versions, batches and failures, with the sweep and
  one administrator (`OneAdministrator`). Only a commit changes the rows, so the
  invariant speaks of what a job will commit: the amounts it found, but for the version
  it prices (`Faithful`, with `InOrder`: a reprice prices the version after the current
  one, which therefore stands, too), and for an event it is done with an active row, or
  an inactive one beside an active row of the table (`Finished`). That an active row is
  still there when the job commits is a matter of two jobs: no row has two writers
  (`NoSharedRow`), and of two that have touched one event, the one that has deactivated
  rows has them all or the other waits for it (`HoldsAll`, which `FoundOrStopped`
  prepares while the UPDATE waits for its locks).

  `CollectedCounted`, for any attempts, days, groups and folds of projects. Of a day
  that only collectors report, every attempt has a rollup that counts it, if not only
  it (`Covered`): when an attempt moves, a refresh writes the row it moves to, and the
  row it left goes on counting it. The attempt's home is one of its two folds, so the
  total of the day is never short (`CoveredDay`), and no group is whose attempts both
  folds put in it (`GroupSums`). While nothing has moved the home is where the
  attempt belongs (`Counted`). A refresh from an old view is one from what there is for
  every day of which nothing has changed since (`DayFromView`); the others are stale, and
  of these nothing is said (`DaysSound`).

  `QueriesTellOneStory`, for any sessions as well. The invariant says that a rollup of
  an unchanged day is what a rebuild would make of it (`RebuiltFresh`), and that an
  active cost belongs to a final and has one amount, which its mode and status explain
  (`CostsSound`); a rebuild that something disturbed claims nothing (`RebuildFresh`).
  Each of a rollup's columns is then the sum of a column of single attempts
  (`RowColumns`), and a query over rollups, sessions or projects sums it group by group
  (`ColumnSum`, `SessionSum`, by `TotalOfGroups`); what remains is to compare columns
  attempt by attempt. What was imported has keys of its own (`ImportsTyped`) and lies on
  top of the rest (`ImportsOnTop`).
* `StorageProofs`: `RemovesOnlyExpired`, `StatusHonest`, for any rows, policies,
  edits and batch sizes. What the open sweep has deleted was expired by the policy it
  read (`SweptExpired`), which for rollups needs that a rollup bears the start of its
  day; the totals and backlogs it will write are those of the table it will leave
  (`Right`).

  `UpgradesKeepAll`, for any events, machines, models, prices and databases of earlier
  releases. `Sound` is said of the committed database and of the one an open upgrade
  sees: a marked row has no more tokens than its v1 row and its v1 cost (`Copies`),
  which is what makes equal sums mean equal rows (`VerifiedMachine`, by `TotalGrows`)
  and what lets a downgrade delete marked rows; from 0010 on the view stands for the
  archive (`Swapped`); a registry that was filled knows the models of the events that v1
  requests reported (`Filled`): they are among the rows when it is filled (`Survives`),
  and observed when they come later (`ObservedFilled`). The migrations and downgrades
  leave it alone (`SameRegistry`).

  `HistoryIsHonest`, `SweepDeletesOnlyCounted`, for any attempts, days, groups,
  retention, imports, criteria and number of writers. `Bounded` and `Exact` say of the
  rollups, as they are and as an open request will leave them, that they are at most, or
  just, what was recorded; a rebuild or a deletion may lower what was recorded of a day
  only because it drops that day's rollups first (`RefreshesBounded`). `SweptCounted`
  follows the sweep: of a day that retention has not emptied the ledger holds what was
  recorded (`Accounted`), so that no rollup is above its finals and equal day totals mean
  equal rollups (`CoverCounts`); between check
  and commit only requests that count the day's finals again write its rollups
  (`RequestCounts`). That is for events that come in time (`Timely`). For v1 events alone,
  late ones too, no rollup counts less than the ledger, now or once the open request has
  committed (`LedgerCovered`): what commits between the check of a day and its delete
  has brought its own refresh.

  `LimitsAreSound`, for any windows, accounts, batches, interval and requests in
  progress, and any periods. Of flood control, `LimitsInv` says that whatever an open
  request has judged, or was answered for, has a row that stands for it, stored or about
  to be (`NothingForgotten`): a snapshot is dropped only against such a row. While
  requests come one at a time the stored rows of a key, with those of the open request
  behind them, lie the interval apart (`OneAtATime`). What is shown is then a matter of
  any table: a reset rolled forward lies within a period (`RolledAhead`), a line never
  reaches 100 before its last reading (`ExhaustedIs`), and whatever instant anchors the
  grid, its blocks are disjoint, hold the events of their own five hours and add up
  to the usage (`AnyAnchorPartitions`, by `TotalOfGroups`).
* `SourcesProofs`: `RegistryTyped`, `NamedSourcesOnce`, `RevocationsStick`. The
  invariant says that a request that will update has found a row, which is never
  deleted, and that the unique key holds for sources with an instance id. A
  revocation sticks because no request changes `revoked` in its copy, so that no
  UPDATE carries the column. Of the alert engine: `HistoryIsTrue`, `NoticesAreJust`,
  for any deployment. `Agrees` relates a rule row to the last notice of its subject;
  it holds of the database and of what the open pass will commit, rule by rule as the
  pass comes to them (`PassAgrees`). A source declared recovered is not stale when
  the pass that says so began, and health only moves on (`PassJust`, `RowAged`).
* `IntakeProofs`: `IntakeTyped`, `GatesAreKept`, for any tokens, policies, calls and
  requests in progress. A principal is what its token's row says now but for the
  revocation, because of a row only that changes (`PrincipalsHold`); what validate
  and ingest said of a body is what the policy says of it (`ToldTruly`).
  `BucketsAreExact`: `BucketHolds` says that the level is the least, over all seconds
  t, of what the traffic since t leaves of a full bucket. An allowed request lowers
  every one of these alike, a second raises them and starts a new one at the
  capacity. The hypothesis `Price <= Capacity` is needed: `config.py:123` admits
  capacities below one, with which every request is refused, and the time in
  `Retry-After` brings nothing.

  `StreamTyped`, `PlacesAreCounted`, `FeedsHaveNoGap`, for any
  connections, tokens, caps and queue sizes. The counter is the cardinality of the
  set of admitted handlers; the feed needs that nothing is sent before a
  subscription and nothing is in a waiting handler's hands.

  `RegistriesAreKept`, for any providers, spellings, batches, windows, policies and
  number of requests that overlap. `ObservedInv` says of each open request, against
  the tables as they are now (`Begun`): each event's provider and model has a row or
  will get one, and what was unknown when it began has a record, or a report that will
  become one or fail (`Noted`). Rows are only added and records only move in time,
  so that the commits of others take nothing of this away. While requests come one at a
  time it also says what the tables will hold (`Fresh`). The sink is a fold over the
  reports (`RecordedSafely`), each of which leaves a record of its subject.
* `FrontProofs`: `ClientTyped`, `PoisonIsIsolated`, for any calls, batch sizes and
  patterns of failure. The invariant says that slices follow one another from
  `next` on, and counts the bad reports before it. `ExportsAreFaithful`: a stored row
  is the event of the span that brought its key first, which had passed the gate
  (`RowsOfFirsts`), and a stored export had an id for each span (`StoredParse`).

  Of `Traces`, for any reports, deployments and page sizes: `RequestsFollowAttempts`,
  since a batch recomputes every request whose attempts it changes, and what it writes
  of those that nobody has changed since it read is what their attempts say
  (`TransactionOK`, `CommitWrites`); the requests that somebody has are stale when it
  commits. `ReplaysAreHarmless`: every row is of a report that was sent, and a stored
  final left a final (`RowsOK`), so that a slice stored before merges into the rows it
  finds (`MergedRows`, a fold over the reports). `WalksAreStable`: pages are sorted
  sequences, of which it is enough that the cursor is the last row's place
  (`CursorAfter`); a row that was there from the start and has not been met is in front
  of the cursor (`Ahead`), one that was met is behind it (`Behind`). The sessions'
  cursor is an offset: a row stands at least as far down as there are rows before it
  (`StandsBehind`), and without corrections none goes.

Every property of a passing run that is an invariant or speaks of single steps is
stated by one of these theorems. Only model-checked:

* Liveness: `EventuallyRecorded`, `EventuallyCosted`, `EventuallySwept`,
  `EventuallyNoticed`, `EventuallyAnswered`, `RevokedIsClosed`. tlapm has no rules for
  `ENABLED`, which fairness is defined by.
* The two properties the code violates, `SupersedesInOrder` with overlapping sessions
  and `RollupsReflectKeepMax`.

## Behaviours worth knowing

What the models contain beyond the two findings, each a deliberate exception of a
property or a consequence of an assumption:

* Collector: a stats cache that is missing, unreadable or half written at the first
  start is never imported, since the flag is set all the same
  (`collector/runner.py:112-121`, `claude_code.py:136-140`); one whose JSON is no object
  kills the daemon.
* Ledger: money sent with fewer than ten fractional digits conflicts with its own
  replay; a row with a cost cannot be archived as JSON, so that what supersedes it
  fails on every retry; a correction that is retransmitted after a newer one puts
  the older back.
* Delivery: an answered v1 batch, or OTLP export, may be rolled back behind its
  answer (`api/deps.py:28`); a JSON line that is no object stops the daemon in every
  cycle; a refused batch at the head of the queue holds up the rest; a limits batch
  whose answer was lost is stored again when flood control is off (the default).
* Costs: two jobs that each miss the other's row leave two active costs, for which
  no unique index exists, against the docstring of `computed_costs.py`. With five jobs
  at once an event may be left with none: `record_cost` does not write `active` when
  the row it read was active, though another job has deactivated it since. Of two
  administrators who reprice at once, one may take the version back
  (`pricing_v2.py:45-55` reads it without a lock), so that the next reprice writes
  over the amounts of a version before the current one. A keep-max
  growth or a correction does not recompute an active cost.
* Rollups: v2 ingest, the cost worker and a revert refresh none; a billing mode that
  changes after aggregation, or a reprice with custom project roots
  (`repricing.py:98` and `admin_deletion.py:243` fold by the default ones), leaves
  the old group's row beside the new one until a rebuild. After such a reprice a group
  may also lack an attempt that the default roots fold elsewhere, when it has others
  that they do not: its row is written again without that one. Such a day fails the cover
  check of retention and is not swept. A late replay after retention recomputes the
  day from itself alone.
* Rollups of requests that overlap: `rollups.py:77-80` reads without a lock and
  `upsert.py:96-114` overwrites, so that the later of two requests may write back a total
  that lacks what the other has committed. The day then counts less than the ledger until
  its next refresh: `CollectedDaysCounted` excepts it (`stale`). Batches of one machine
  wait for one another; those of two machines, a reprice, a recompute or a rebuild do not.
* Imported rollups: a rebuild deletes only what was derived (`rollups.py:96-98`), so that
  what a collector imported stays, and the v1 queries add it to the ledger's tokens where
  the v2 queries do not, against `docs/architecture/database.md:214-216` and
  `docs/api/query-v2.md:73-75`. `RebuiltDaysAgree` says that the difference is just that.
* Queries: v1 compares raw projects where rollups hold groups, session detail is not
  scoped by provider, cost rows of status "error" are counted but not warned of,
  `source`, `agent` and `trace_id` filters are ignored, ranges end at 23:59:59. A
  keyset cursor skips rows of two providers with one id, and sessions are paged by
  offset, though `docs/api/query-v2.md:34-36` promises stability.
* Logical requests: one that an attempt left is not recomputed. Two v2 requests that
  bring attempts of one logical request at the same time miss each other's
  (`logical_requests.py:49-59` under READ COMMITTED): the last UPDATE wins, or the second
  INSERT fails its whole batch with a 500, where `logical_requests.py:6-10` has the row
  correct in any order. The next transaction that names the request and that none
  overlaps mends it; `RequestsAgree` excepts it until then (`stale`).
* Limits: overlapping requests may store two snapshots in one interval, gateways
  that share a source share its flood key, and predictions merge streams. Nothing
  records the `limit_source_failure` that `docs/architecture/limits-v2.md:45` names.
  The live overview shows a stale `remaining` beside a reset rolled forward.
* Sources: two first requests without an instance id insert two rows, after which
  every lookup fails.
* Intake: a request authenticated before a revocation is still stored; an empty
  source list is no restriction (`auth.py:129`); validate checks neither sources nor
  the event budget; a stored token labelled "bootstrap" shares the bootstrap token's
  ingest bucket; v1 ingest is in no bucket.
* Registries: timestamps of records move backwards with late reports
  (`data_quality.py:153`), so that two open records may lie within a window against
  `:9-12`; a first observation whose recording failed is never recorded later;
  overlapping requests may take `last_seen` back. Nothing resolves records.
* Retention: a legal hold set while a sweep is open does not stop it, and an edit of the
  policy takes effect with the next one. The check of a day compares one sum: with v2
  events that come late, imports, or a deletion that left the rollups alone, totals of
  events that were erased or counted twice may stand in for those of events that were
  never counted, which are then deleted. `DeletesOnlyCounted` excepts these mixtures.
* Deletion: with `recompute_rollups` false (`admin_deletion.py:237`) the usage of the
  erased events stays in the rollups until the day is rebuilt.
* OTLP: one malformed, negative or content-like span refuses the whole export; only
  the text `STATUS_CODE_ERROR` is an error, though OTLP/JSON encodes the codes as
  numbers; `gen_ai.system` is stripped and lowered but not resolved by the aliases;
  the identity of a span is its provider and span id, without the
  trace id. An attribute whose value is an array, a list of keys or bytes, such as
  `gen_ai.response.finish_reasons`, is dropped (`receiver.py:38-40`, `50-52`), though
  `docs/architecture/otel-mapping.md:35-37` has every unmapped attribute retained.
* Upgrade: migration 0008's backfill names a column that only 0009 adds, so an upgrade
  of a v1 database with rows fails (`docs/architecture/database.md:131`); rows reported
  again lose their marker and hold up a second upgrade; verification adds up machines
  and cannot see errors that cancel; 0014 attributes source-less native rows of a
  machine to the collector; a downgrade of it deletes the collector's sources. After a
  downgrade below 0011 rows of other sources name a source that no longer exists, and a
  new upgrade fails at the foreign key (`0011_sources.py:51-54`) until somebody mends
  them by hand. v2 and OTLP ingest observe no model (only `ingest.py:267` does), against
  `docs/architecture/database.md:59`: once the registry is filled, a model that only
  they name is missing from it.

## Plan

Everything in the table of modules is modelled and checked, and every safety property
is proved. What could come next:

1. Observed costs and their reconciliation, agent hierarchies, anomalies: each with its
   module, since none writes a table of those modelled.
2. The hypotheses of the theorems: what holds of the ledger with several sessions
   (beyond `FinalityIsKept` and `ConflictsAreReal`), of costs with two administrators.
3. Twins in listings: a proof that a cursor of place and provider would skip nothing.

## Not modelled

* Dashboard and website: they render what the queries return. Deployment: packaging;
  the restart policy of the service is used for the fairness of the collector.
* The adapters that fetch price lists and currencies: pure conversions.
* Aggregate imports other than the bootstrap: an upsert of a rollup row of another
  provenance; observed costs: rows that nothing else reads but one comparison.
* Ingest batch records and the audit log: written, listed, and swept by age.
* Conditions of the alert rules other than the two source rules: sums over a window,
  abstracted to a load that rises and falls.
* Migrations that only change the schema, `restore_verify`, and trace hierarchies.
* SQLite as the server's database: the modules describe PostgreSQL, the database of
  `deploy/docker-compose.yml`.

## Running

    tlc -config MCLedger.cfg MCLedger.tla
    tlapm LedgerProofs.tla
