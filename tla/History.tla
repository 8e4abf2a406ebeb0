----------------------------- MODULE History -----------------------------
(***************************************************************************)
(* The daily rollups and what deletes the events they are made from: v1    *)
(* and v2 ingest, the bootstrap import, the rebuild of the rollups, the    *)
(* retention sweep and the administrative deletion (services/rollups.py,   *)
(* retention_worker.py, retention.py, admin_deletion.py, ingest.py).       *)
(*                                                                         *)
(* An event is an attempt of one day and one rollup group (machine,        *)
(* project, model, source, environment: one value here).  Its row is       *)
(* whether it is final, and its tokens.  A rollup is the token total of a  *)
(* day and group, one row per provenance: derived from events, or          *)
(* imported as history.                                                    *)
(***************************************************************************)
EXTENDS Integers, FiniteSets, Sums

CONSTANTS
    LastDay,      \* the days are 1 .. LastDay
    Groups,       \* rollup groups
    Events,       \* attempts
    EventDay,     \* the day each attempt started
    EventGroup,   \* the rollup group of each
    MaxTokens,    \* bound on an attempt's tokens
    Writers,      \* requests that may be open at one time
    Retention,    \* days raw events are kept
    RawBatch,     \* raw events after which a sweep looks at no other day
    Imports,      \* rollups a bootstrap import may carry: [day, group, tokens]
    Criteria,     \* what an admin may delete: [groups, days]
    Deployments,  \* the kinds of traffic a server may see, one chosen for good
    None          \* no row, no request, no sweep

Days   == 1 .. LastDay
Tokens == 1 .. MaxTokens
Rows   == [final : BOOLEAN, tokens : Tokens]

(* The traffic a deployment may have besides v1 events that arrive in time.*)
Kinds == {"late",       \* events of days past retention
          "v2",         \* v2 events
          "bootstrap",  \* imports of history
          "rebuild",    \* rebuilds of all rollups
          "erase",      \* administrative deletions, the rollups recomputed
          "strip",      \* administrative deletions that leave the rollups alone
          "overlap"}    \* requests that write rollups at the same time

ASSUME HistoryAssumption ==
    /\ IsFiniteSet(Events) /\ IsFiniteSet(Groups)
    /\ LastDay \in Nat \ {0}
    /\ EventDay \in [Events -> Days]
    /\ EventGroup \in [Events -> Groups]
    /\ MaxTokens \in Nat
    /\ None \notin Rows
    /\ Retention \in Nat /\ Retention >= 2   \* validate_retention_policy
    /\ RawBatch \in Nat \ {0}
    /\ Imports \subseteq [day : Days, group : Groups, tokens : Tokens]
    /\ Criteria \subseteq [groups : SUBSET Groups, days : SUBSET Days]
    /\ Deployments \subseteq SUBSET Kinds

VARIABLES
    traffic,    \* the deployment
    today,      \* the date
    hold,       \* the legal hold
    ledger,     \* usage_events_v2: the row of each attempt, or None
    derived,    \* daily_rollups derived from events: a total, 0 when no row
    imported,   \* daily_rollups of the bootstrap import, likewise
    writer,     \* what each open request will write when it commits
    sweep,      \* the open retention sweep, or None
    preview,    \* the dry run of a deletion its admin may confirm, or None
    recorded    \* history: the most tokens committed of each final attempt that
                \* no admin erased along with its totals, 0 for none

Has(kinds) == traffic \intersect kinds # {}

server  == <<ledger, derived, imported>>
vars    == <<traffic, today, hold, server, writer, sweep, preview, recorded>>

-----------------------------------------------------------------------------
(* Rollups.                                                                *)

IsFinal(rows, e) == rows[e] # None /\ rows[e].final

OfGroup(day, group) == {e \in Events : EventDay[e] = day /\ EventGroup[e] = group}

Finals(rows, day, group) == {e \in OfGroup(day, group) : IsFinal(rows, e)}

TokensOf(rows, events) == [e \in events |-> rows[e].tokens]

Aggregate(rows, day, group) ==
    Total(TokensOf(rows, Finals(rows, day, group)), Finals(rows, day, group))

(* Mutant: the day is aggregated before the request's rows are flushed. *)
RefreshedBeforeFlush(rows, days) ==
    [day \in days |-> [group \in {g \in Groups : Finals(ledger, day, g) # {}} |->
        Aggregate(ledger, day, group)]]

(* The groups of some days that have finals, with their totals; a group    *)
(* that has none keeps the row it had.                                     *)
Refreshed(rows, days) ==
    [day \in days |-> [group \in {g \in Groups : Finals(rows, day, g) # {}} |->
        Aggregate(rows, day, group)]]

Upserted(table, refreshed) ==
    [day \in Days |-> [group \in Groups |->
        IF day \in DOMAIN refreshed /\ group \in DOMAIN refreshed[day]
        THEN refreshed[day][group] ELSE table[day][group]]]

EmptyTable == [day \in Days |-> [group \in Groups |-> 0]]

DayTotal(table, day) == Total(table[day], Groups)

-----------------------------------------------------------------------------
Init ==
    /\ traffic \in Deployments
    /\ today = 1
    /\ hold = FALSE
    /\ ledger = [e \in Events |-> None]
    /\ derived = EmptyTable
    /\ imported = EmptyTable
    /\ writer = [w \in Writers |-> None]
    /\ sweep = None
    /\ preview = None
    /\ recorded = [e \in Events |-> 0]

Idle(w) == writer[w] = None

MayOpen(w) ==
    /\ Idle(w)
    /\ "overlap" \in traffic \/ \A x \in Writers : Idle(x)

(* Another transaction holds the row lock of an attempt.                   *)
RowLocked(e) ==
    \/ \E w \in Writers : ~ Idle(w) /\ e \in DOMAIN writer[w].rows
    \/ sweep # None /\ e \in sweep.deleted

(* In time: the day is not past retention.                                 *)
InTime(e) == today <= EventDay[e] + Retention

(* What is recorded of an attempt, once a row of it is committed.          *)
Remembered(most, row) == IF row.final /\ row.tokens > most THEN row.tokens ELSE most

-----------------------------------------------------------------------------
(* Ingest.                                                                 *)

(* v1: the row grows (keep-max), and the attempt's day is aggregated from  *)
(* what is committed and the request's own rows.                           *)
V1Begin(w, e, tokens) ==
    LET row  == IF ledger[e] # None /\ ledger[e].tokens > tokens
                THEN ledger[e] ELSE [final |-> TRUE, tokens |-> tokens]
        rows == [ledger EXCEPT ![e] = row]
    IN  /\ MayOpen(w)
        /\ ~ RowLocked(e)
        /\ EventDay[e] <= today
        /\ InTime(e) \/ "late" \in traffic
        /\ writer' = [writer EXCEPT ![w] =
              [rows |-> [x \in {e} |-> row], erased |-> {}, dropped |-> {},
               rollups |-> Refreshed(rows, {EventDay[e]})]]
        /\ UNCHANGED <<traffic, today, hold, server, sweep, preview, recorded>>

(* v2: the row only; no rollup is refreshed.  A final stays a final.       *)
V2Ingest(e, row) ==
    /\ "v2" \in traffic
    /\ EventDay[e] <= today
    /\ InTime(e) \/ "late" \in traffic
    /\ ~ RowLocked(e)
    /\ ~ IsFinal(ledger, e)
    /\ ledger' = [ledger EXCEPT ![e] = row]
    /\ recorded' = [recorded EXCEPT ![e] = Remembered(recorded[e], row)]
    /\ UNCHANGED <<traffic, today, hold, derived, imported, writer, sweep, preview>>

Bootstrap(row) ==
    /\ "bootstrap" \in traffic
    /\ row.day <= today
    /\ imported' = [imported EXCEPT ![row.day][row.group] = row.tokens]
    /\ UNCHANGED <<traffic, today, hold, ledger, derived, writer, sweep, preview, recorded>>

(* rebuild_all_rollups: every derived row is deleted, and the days from    *)
(* the first final to the last are aggregated again.                       *)
RebuildBegin(w) ==
    LET days == {EventDay[e] : e \in {f \in Events : IsFinal(ledger, f)}}
        span == {d \in Days : \E lo, hi \in days : lo <= d /\ d <= hi}
    IN  /\ "rebuild" \in traffic
        /\ MayOpen(w)
        /\ writer' = [writer EXCEPT ![w] =
              [rows |-> [e \in {} |-> None], erased |-> {}, dropped |-> Days,
               rollups |-> Refreshed(ledger, span)]]
        /\ UNCHANGED <<traffic, today, hold, server, sweep, preview, recorded>>

-----------------------------------------------------------------------------
(* Administrative deletion of the events of some groups and days.          *)

Matched(criteria) ==
    {e \in Events : /\ ledger[e] # None
                    /\ EventGroup[e] \in criteria.groups
                    /\ EventDay[e] \in criteria.days}

(* The digest is over the criteria and the counts of rows.                 *)
PreviewDeletion(criteria) ==
    /\ Has({"erase", "strip"})
    /\ preview' = [criteria |-> criteria, count |-> Cardinality(Matched(criteria))]
    /\ UNCHANGED <<traffic, today, hold, server, writer, sweep, recorded>>

(* Mutant: the rollups are aggregated again but not deleted first. *)
ExecuteKeepingRollups(w, recompute) ==
    LET gone == Matched(preview.criteria)
        days == {EventDay[e] : e \in gone}
        left == [e \in Events |-> IF e \in gone THEN None ELSE ledger[e]]
    IN  /\ preview # None
        /\ ~ hold
        /\ recompute /\ "erase" \in traffic
        /\ MayOpen(w)
        /\ Cardinality(gone) = preview.count
        /\ \A e \in gone : ~ RowLocked(e)
        /\ preview' = None
        /\ writer' = [writer EXCEPT ![w] =
              [rows |-> [e \in gone |-> None], erased |-> days, dropped |-> {},
               rollups |-> Refreshed(left, days)]]
        /\ UNCHANGED <<traffic, today, hold, server, sweep, recorded>>

(* With recompute_rollups the rollups of the day span of the matched       *)
(* events are deleted, imported ones too, and aggregated again from what   *)
(* is left; without it they keep counting what is gone.                    *)
ExecuteDeletion(w, recompute) ==
    LET gone == Matched(preview.criteria)
        days == {EventDay[e] : e \in gone}
        span == IF recompute THEN {d \in Days : \E lo, hi \in days : lo <= d /\ d <= hi}
                ELSE {}
        left == [e \in Events |-> IF e \in gone THEN None ELSE ledger[e]]
    IN  /\ preview # None
        /\ ~ hold
        /\ IF recompute THEN "erase" \in traffic ELSE "strip" \in traffic
        /\ MayOpen(w)
        /\ Cardinality(gone) = preview.count
        /\ \A e \in gone : ~ RowLocked(e)
        /\ preview' = None
        /\ writer' = [writer EXCEPT ![w] =
              [rows |-> [e \in gone |-> None], erased |-> span, dropped |-> span,
               rollups |-> Refreshed(left, span)]]
        /\ UNCHANGED <<traffic, today, hold, server, sweep, recorded>>

(* What a request leaves: its rows, and the rollups as it computed them.   *)
LedgerAfter(table, t) ==
    [e \in Events |-> IF e \in DOMAIN t.rows THEN t.rows[e] ELSE table[e]]

RecordedAfter(table, t) ==
    [e \in Events |-> IF e \notin DOMAIN t.rows THEN table[e]
                      ELSE IF t.rows[e] = None
                           THEN IF EventDay[e] \in t.erased THEN 0 ELSE table[e]
                      ELSE Remembered(table[e], t.rows[e])]

Without(table, days) == [d \in Days |-> IF d \in days THEN EmptyTable[d] ELSE table[d]]

DerivedAfter(table, t) == Upserted(Without(table, t.dropped), t.rollups)

(* A request commits.                                                      *)
CommitWriter(w) ==
    LET t == writer[w]
    IN  /\ ~ Idle(w)
        /\ ledger' = LedgerAfter(ledger, t)
        /\ recorded' = RecordedAfter(recorded, t)
        /\ derived' = DerivedAfter(derived, t)
        /\ imported' = Without(imported, t.erased)
        /\ writer' = [writer EXCEPT ![w] = None]
        /\ UNCHANGED <<traffic, today, hold, sweep, preview>>

-----------------------------------------------------------------------------
(* The retention sweep: one transaction over the days past retention,      *)
(* oldest first.                                                           *)

Cutoff == today - Retention     \* days before it are past retention

SweepStart ==
    LET stored == {EventDay[e] : e \in {f \in Events : ledger[f] # None}}
    IN  /\ sweep = None
        /\ ~ hold
        /\ \E d \in stored : d < Cutoff
        /\ sweep' = [day |-> Min(stored), cutoff |-> Cutoff, covered |-> FALSE, deleted |-> {}]
        /\ UNCHANGED <<traffic, today, hold, server, writer, preview, recorded>>

OfDay(day) == {e \in Events : ledger[e] # None /\ EventDay[e] = day}

(* Mutant: any rollup of the day will do. *)
AnyRollup(day) == DayTotal(derived, day) + DayTotal(imported, day) > 0

(* All rollups of the day, of either provenance, against its finals.       *)
RollupsCoverDay(day) ==
    /\ DayTotal(derived, day) + DayTotal(imported, day) > 0
    /\ DayTotal(derived, day) + DayTotal(imported, day)
         = Total([g \in Groups |-> Aggregate(ledger, day, g)], Groups)

BatchFull == Cardinality(sweep.deleted) >= RawBatch

(* Mutant: the sweep ends at a day that is not covered. *)
SweepStopsAtUncovered ==
    /\ sweep # None
    /\ ~ sweep.covered
    /\ sweep.day < sweep.cutoff
    /\ ~ BatchFull
    /\ sweep' = IF RollupsCoverDay(sweep.day)
                THEN [sweep EXCEPT !.covered = TRUE]
                ELSE [sweep EXCEPT !.day = sweep.cutoff]
    /\ UNCHANGED <<traffic, today, hold, server, writer, preview, recorded>>

(* A day that is not covered is passed over until the next sweep.          *)
SweepCheckDay ==
    /\ sweep # None
    /\ ~ sweep.covered
    /\ sweep.day < sweep.cutoff
    /\ ~ BatchFull
    /\ sweep' = IF RollupsCoverDay(sweep.day)
                THEN [sweep EXCEPT !.covered = TRUE]
                ELSE [sweep EXCEPT !.day = @ + 1]
    /\ UNCHANGED <<traffic, today, hold, server, writer, preview, recorded>>

(* Every row of the day, finals or not, that is there by now.              *)
SweepDeleteDay ==
    /\ sweep # None
    /\ sweep.covered
    /\ \A e \in OfDay(sweep.day) : ~ RowLocked(e)
    /\ sweep' = [sweep EXCEPT !.covered = FALSE, !.day = @ + 1,
                              !.deleted = @ \union OfDay(sweep.day)]
    /\ UNCHANGED <<traffic, today, hold, server, writer, preview, recorded>>

SweepCommit ==
    /\ sweep # None
    /\ ~ sweep.covered
    /\ sweep.day >= sweep.cutoff \/ BatchFull
    /\ ledger' = [e \in Events |-> IF e \in sweep.deleted THEN None ELSE ledger[e]]
    /\ sweep' = None
    /\ UNCHANGED <<traffic, today, hold, derived, imported, writer, preview, recorded>>

-----------------------------------------------------------------------------
(* A request rolls back.  (A sweep that does has changed nothing either:   *)
(* it commits once, at its end.)                                           *)
WriterFails(w) ==
    /\ ~ Idle(w)
    /\ writer' = [writer EXCEPT ![w] = None]
    /\ UNCHANGED <<traffic, today, hold, server, sweep, preview, recorded>>

SetHold ==
    /\ hold' = ~ hold
    /\ UNCHANGED <<traffic, today, server, writer, sweep, preview, recorded>>

(* A request that is open over midnight may make its event late.           *)
DayPasses ==
    /\ today < LastDay
    /\ "late" \in traffic \/ \A w \in Writers : Idle(w)
    /\ today' = today + 1
    /\ UNCHANGED <<traffic, hold, server, writer, sweep, preview, recorded>>

Sweep == SweepStart \/ SweepCheckDay \/ SweepDeleteDay \/ SweepCommit

Next ==
    \/ \E w \in Writers, e \in Events, tokens \in Tokens : V1Begin(w, e, tokens)
    \/ \E e \in Events, row \in Rows : V2Ingest(e, row)
    \/ \E row \in Imports : Bootstrap(row)
    \/ \E w \in Writers : RebuildBegin(w)
    \/ \E criteria \in Criteria : PreviewDeletion(criteria)
    \/ \E w \in Writers, recompute \in BOOLEAN : ExecuteDeletion(w, recompute)
    \/ \E w \in Writers : CommitWriter(w)
    \/ \E w \in Writers : WriterFails(w)
    \/ Sweep
    \/ SetHold
    \/ DayPasses

Spec == Init /\ [][Next]_vars

(* The sweep runs in a loop, and a request ends.                           *)
Fairness ==
    /\ WF_vars(SweepStart)
    /\ WF_vars(SweepCheckDay)
    /\ SF_vars(SweepDeleteDay)
    /\ WF_vars(SweepCommit)
    /\ \A w \in Writers : WF_vars(CommitWriter(w))

FairSpec == Spec /\ Fairness

-----------------------------------------------------------------------------
(* Properties.                                                             *)

RecordedTotal(day, group) ==
    Total(recorded, OfGroup(day, group))

TypeOK ==
    /\ traffic \in Deployments
    /\ today \in Days
    /\ hold \in BOOLEAN
    /\ ledger \in [Events -> Rows \union {None}]
    /\ derived \in [Days -> [Groups -> Nat]]
    /\ imported \in [Days -> [Groups -> 0 .. MaxTokens]]
    /\ recorded \in [Events -> 0 .. MaxTokens]
    /\ sweep # None => sweep.deleted \subseteq Events

(* Between requests every day and group reports the tokens of all its v1   *)
(* attempts, those retention deleted included (src/README.md:14-15,        *)
(* "preserves usage history indefinitely").                                *)
HistoryKept ==
    (\A w \in Writers : Idle(w)) =>
        \A day \in Days, group \in Groups : derived[day][group] = RecordedTotal(day, group)

(* It holds of v1 events that arrive in time, one request after another,   *)
(* however the sweep, holds and imports come in between.                   *)
HistoryKeptInTime ==
    ~ Has({"late", "v2", "rebuild", "erase", "strip", "overlap"}) => HistoryKept

(* A total never counts an attempt more than once, nor one an admin erased *)
(* with its rollups recomputed (execute_deletion, "no stale grain          *)
(* lingers"), whatever comes late, is rebuilt or is swept.                 *)
NothingErasedCounted ==
    ~ Has({"overlap"}) =>
        \A day \in Days, group \in Groups : derived[day][group] <= RecordedTotal(day, group)

(* The totals history is told by are neither short nor padded.             *)
TotalsHonest == HistoryKeptInTime /\ NothingErasedCounted

(* What retention deletes was counted: the sweep removes an attempt only   *)
(* when its rollup holds its tokens (retention_worker.py:228-249).  For v1 *)
(* events that is so whatever comes late, also between the check of a day  *)
(* and its delete; for v2 events, whose ingest refreshes no rollup, as     *)
(* long as they arrive in time and nothing else stands in for their totals.*)
Countable ==
    /\ ~ Has({"overlap"})
    /\ ~ ("v2" \in traffic /\ Has({"late", "strip", "bootstrap"}))

DeletesOnlyCounted ==
    [][Countable /\ sweep # None /\ sweep' = None =>
          \A e \in Events : IsFinal(ledger, e) /\ ledger'[e] = None =>
              derived[EventDay[e]][EventGroup[e]] >= ledger[e].tokens]_vars

V1Only == ~ Has({"v2", "strip", "bootstrap"})

PastRetention(day) == day < Cutoff /\ OfDay(day) # {}

(* Raw events do not stay for ever: a day past retention whose rollups     *)
(* cover it is deleted, whatever days before it are not covered, and v1    *)
(* events in time are always covered; unless there is a hold for good.     *)
EventuallySwept ==
    Has({"late", "overlap"}) \/ \A day \in Days :
        (PastRetention(day) /\ (V1Only \/ RollupsCoverDay(day)))
            ~> (hold \/ ~ PastRetention(day) \/ ~ (V1Only \/ RollupsCoverDay(day)))
=============================================================================
