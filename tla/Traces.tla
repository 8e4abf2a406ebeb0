------------------------------ MODULE Traces ------------------------------
(***************************************************************************)
(* What the reports of Client become on the server, and what the dashboard *)
(* reads of them: the attempts of the v2 ledger, the logical requests that *)
(* group them (services/logical_requests.py), and the paginated listings   *)
(* (services/trace_queries.py, query_framework.py, api/v2/requests.py,     *)
(* sessions.py).                                                           *)
(*                                                                         *)
(* A batch is one transaction.  What it reads, its rows before it merges   *)
(* and the attempts it groups, it reads without a lock, and what it makes  *)
(* of them it writes at its commit; others commit in between.  Two that    *)
(* report one attempt follow one another here: how they overlap is the     *)
(* subject of Ledger.  A page is one SELECT; between two pages of a walk   *)
(* through a listing batches are committed.  An attempt has one time, and  *)
(* one snapshot at most is sent of it.  The summary events of a proxy,     *)
(* from which a logical request takes its labels, are left out.            *)
(***************************************************************************)
EXTENDS Client

CONSTANTS
    Limit,        \* rows of a page
    Deployments,  \* one is chosen for good: [calls, corrections, statuses, listing,
                  \* overlap]: the calls its client makes, the reports an admin sends as
                  \* corrections, the answers the server and the network give, the
                  \* listing its dashboard walks through, and how many transactions
                  \* it holds open
    None          \* no row, no walk, no cursor

Listings == {"attempts", "requests", "sessions"}

(* A report is [attempt, final, time, request, session, success], and an   *)
(* attempt is [provider, event]; providers, events, requests and sessions  *)
(* are numbers in the order of their names.                                *)
Attempts    == {r.attempt : r \in Reports}
RequestKeys == {[provider |-> r.attempt.provider, request |-> r.request] : r \in Reports}
SessionKeys == {[provider |-> r.attempt.provider, session |-> r.session] : r \in Reports}

Row(r) == [final |-> r.final, time |-> r.time, request |-> r.request,
           session |-> r.session, success |-> r.success]

ASSUME TracesAssumption ==
    /\ Limit \in Nat \ {0}
    /\ None \notin {Row(r) : r \in Reports} \union Nat \union (Int \X Int)
    /\ \A r \in Reports : /\ r.attempt = [provider |-> r.attempt.provider,
                                           event |-> r.attempt.event]
                         /\ r.attempt.provider \in Int /\ r.attempt.event \in Int
                         /\ r.time \in Int /\ r.request \in Int /\ r.session \in Int
                         /\ r.final \in BOOLEAN
    /\ \A r, s \in Reports : r.attempt = s.attempt =>
          r.time = s.time /\ (r.final \/ s.final \/ r = s)
    /\ \A d \in Deployments :
          /\ d.calls \subseteq Calls
          /\ d.corrections \subseteq {r \in Reports \ Bad : r.final}
          /\ d.statuses \subseteq Statuses
          /\ d.listing \in Listings
          /\ d.overlap \in Nat

VARIABLES
    deployment,
    attempts,     \* usage_events_v2: the row of each attempt, or None
    requests,     \* logical_requests, likewise
    opened,       \* the transactions that have read and not committed
    stale,        \* history: the requests written from, or left behind, an old read
    walk          \* a walk through the listing, or None

serverVars == <<attempts, requests, opened, stale, walk>>

vars == <<clientVars, deployment, serverVars>>

-----------------------------------------------------------------------------
Init ==
    /\ ClientInit
    /\ deployment \in Deployments
    /\ attempts = [a \in Attempts |-> None]
    /\ requests = [k \in RequestKeys |-> None]
    /\ opened = {}
    /\ stale = {}
    /\ walk = None

(* Mutant: the last final wins. *)
ApplyLastFinal(rows, r, correction) ==
    IF rows[r.attempt] = None \/ r.final
    THEN [rows EXCEPT ![r.attempt] = Row(r)]
    ELSE rows

(* The revision engine: a final supersedes a snapshot, and a correction a  *)
(* final too.                                                              *)
Apply(rows, r, correction) ==
    IF \/ rows[r.attempt] = None
       \/ r.final /\ (correction \/ ~ rows[r.attempt].final)
    THEN [rows EXCEPT ![r.attempt] = Row(r)]
    ELSE rows

(* The reports of a batch, one after the other.                            *)
Merged(batch, correction) ==
    FoldLeft(LAMBDA rows, r : Apply(rows, r, correction), attempts, batch)

Grouped(rows, k) ==
    {a \in Attempts : /\ rows[a] # None
                      /\ a.provider = k.provider
                      /\ rows[a].request = k.request}

Winners(rows, k) == {a \in Grouped(rows, k) : rows[a].final /\ rows[a].success}

(* _aggregate; of the successful attempts the last one wins.               *)
Aggregate(rows, k) ==
    LET group == Grouped(rows, k)
        won   == Winners(rows, k)
    IN  [count  |-> Cardinality(group),
         winner |-> IF won = {} THEN None
                    ELSE CHOOSE a \in won : \A b \in won : rows[b].time <= rows[a].time,
         first  |-> Min({rows[a].time : a \in group}),
         last   |-> Max({rows[a].time : a \in group})]

(* The requests that the reports of a batch name, and that have an attempt. *)
Refreshed(rows, batch) ==
    {k \in RequestKeys :
        /\ \E r \in Range(batch) : r.attempt.provider = k.provider /\ r.request = k.request
        /\ Grouped(rows, k) # {}}

(* Mutant: the requests are recomputed before the reports are merged. *)
RecomputedBefore(rows, batch) ==
    [k \in RequestKeys |->
        IF k \in Refreshed(attempts, batch) THEN Aggregate(attempts, k) ELSE requests[k]]

(* recompute: the requests the incoming reports name, from the ledger.     *)
Recomputed(rows, batch) ==
    [k \in RequestKeys |->
        IF k \in Refreshed(rows, batch) THEN Aggregate(rows, k) ELSE requests[k]]

Named(batch) == {r.attempt : r \in Range(batch)}

(* What the transaction on a batch finds and means to write: the rows of    *)
(* the attempts it reports, and the requests as it found them and as it     *)
(* recomputes them.  missed are those that others have changed since.       *)
Read(batch, correction) ==
    LET rows == Merged(batch, correction)
    IN  [batch |-> batch, correction |-> correction,
         rows |-> [a \in Named(batch) |-> rows[a]],
         keys |-> Refreshed(rows, batch), records |-> Recomputed(rows, batch),
         loaded |-> requests, missed |-> {}]

RowsBehind(t) == [a \in Attempts |-> IF a \in Named(t.batch) THEN t.rows[a] ELSE attempts[a]]

(* The session writes the columns that it changed.                         *)
Column(new, old, now) == IF new = old THEN now ELSE new

Changes(new, old, now) ==
    [count  |-> Column(new.count, old.count, now.count),
     winner |-> Column(new.winner, old.winner, now.winner),
     first  |-> Column(new.first, old.first, now.first),
     last   |-> Column(new.last, old.last, now.last)]

RequestsBehind(t) ==
    [k \in RequestKeys |->
        IF t.records[k] = t.loaded[k] THEN requests[k]
        ELSE IF requests[k] = None THEN t.records[k]
        ELSE Changes(t.records[k], t.loaded[k], requests[k])]

(* An insert of what another has inserted: the transaction fails.          *)
Clashes(t) ==
    \E k \in RequestKeys : t.loaded[k] = None /\ t.records[k] # None /\ requests[k] # None

-----------------------------------------------------------------------------
(* Listings.                                                               *)

SessionOf(a, rows) == [provider |-> a.provider, session |-> rows[a].session]

Finals(rows) == {a \in Attempts : rows[a] # None /\ rows[a].final}

Listed(listing, rows, records) ==
    CASE listing = "attempts" -> Finals(rows)
      [] listing = "requests" -> {k \in RequestKeys : records[k] # None}
      [] listing = "sessions" -> {SessionOf(a, rows) : a \in Finals(rows)}

(* What a listing is sorted by, and its cursors hold: newest first, then   *)
(* by an id, without the provider; sessions by their whole identity.       *)
Place(listing, x) ==
    CASE listing = "attempts" -> <<-(attempts[x].time), -(x.event)>>
      [] listing = "requests" -> <<-(requests[x].last), -(x.request)>>
      [] listing = "sessions" -> <<x.provider, x.session>>

(* Mutant: the cursor holds the time only. *)
TimeOnly(p, q) == p[1] < q[1]

(* keyset_condition.                                                       *)
Precedes(p, q) == p[1] < q[1] \/ (p[1] = q[1] /\ p[2] < q[2])

Before(x, y) == Precedes(Place(walk.listing, x), Place(walk.listing, y))

(* The rows from the cursor on.  Sessions have an offset for a cursor.     *)
Remaining ==
    LET rows == Listed(walk.listing, attempts, requests)
    IN  IF walk.cursor = None THEN rows
        ELSE IF walk.listing = "sessions"
        THEN {x \in rows : Cardinality({y \in rows : Before(y, x)}) >= walk.cursor}
        ELSE {x \in rows : Precedes(walk.cursor, Place(walk.listing, x))}

StartWalk ==
    /\ walk = None
    /\ walk' = [listing |-> deployment.listing, cursor |-> None, done |-> FALSE,
                seen |-> {}, again |-> {},
                stable |-> Listed(deployment.listing, attempts, requests)]
    /\ UNCHANGED <<clientVars, deployment, attempts, requests, opened, stale>>

(* A next cursor, of the last row, when there are more rows than Limit.    *)
CursorAfter(page) ==
    IF Cardinality(Remaining) <= Limit THEN None
    ELSE IF walk.listing = "sessions"
    THEN IF walk.cursor = None THEN Limit ELSE walk.cursor + Limit
    ELSE CHOOSE p \in {Place(walk.listing, x) : x \in page} :
            \A x \in page : ~ Precedes(p, Place(walk.listing, x))

(* The first rows of the remaining ones, ties in any order.                *)
FetchPage(page) ==
    /\ ~ walk.done
    /\ page \subseteq Remaining
    /\ Cardinality(page) = Min({Limit, Cardinality(Remaining)})
    /\ \A x \in page, y \in Remaining \ page : ~ Before(y, x)
    /\ walk' = [walk EXCEPT !.cursor = CursorAfter(page),
                            !.done = CursorAfter(page) = None,
                            !.seen = @ \union page,
                            !.again = @ \union (page \intersect walk.seen)]
    /\ UNCHANGED <<clientVars, deployment, attempts, requests, opened, stale>>

-----------------------------------------------------------------------------
(* Ingest.                                                                 *)

(* The rows of a listing that a transaction leaves as they are.            *)
Untouched(rows, records) ==
    {x \in walk.stable :
        CASE walk.listing = "attempts" -> rows[x] = attempts[x]
          [] walk.listing = "requests" -> records[x] = requests[x]
          [] walk.listing = "sessions" -> x \in Listed("sessions", rows, records)}

(* The requests whose row or attempts, the former ones included, change.   *)
Affected(rows, records) ==
    {k \in RequestKeys :
        \/ records[k] # requests[k]
        \/ \E a \in Grouped(rows, k) \union Grouped(attempts, k) : rows[a] # attempts[a]}

Free(batch) == \A t \in opened : Named(t.batch) \intersect Named(batch) = {}

(* The slices that the server may be at work on: the one that is posted,    *)
(* and those whose sender has gone on.                                     *)
AtWork == late \union (IF /\ phase = "running" /\ ends # <<>>
                         /\ Slice(next, ends[1]) \intersect Bad = {}
                      THEN {Current} ELSE {})

(* A transaction reads.                                                    *)
OpenIngest(batch, correction) ==
    /\ Cardinality(opened) < deployment.overlap
    /\ Free(batch)
    /\ opened' = opened \union {Read(batch, correction)}
    /\ UNCHANGED <<clientVars, deployment, attempts, requests, stale, walk>>

(* It fails, and is rolled back.                                           *)
FailIngest ==
    /\ \E t \in opened : opened' = opened \ {t}
    /\ UNCHANGED <<clientVars, deployment, attempts, requests, stale, walk>>

(* One that is open, or one that nothing comes in between of.              *)
Handled(batch, correction) ==
    {t \in opened \union (IF Free(batch) THEN {Read(batch, correction)} ELSE {}) :
        t.batch = batch /\ t.correction = correction}

Commit(t) ==
    LET rows     == RowsBehind(t)
        records  == RequestsBehind(t)
        affected == Affected(rows, records)
    IN  /\ ~ Clashes(t)
        /\ attempts' = rows
        /\ requests' = records
        /\ opened' = {[u EXCEPT !.missed = @ \union affected] : u \in opened \ {t}}
        /\ stale' = ((stale \union affected) \ t.keys) \union (t.keys \intersect t.missed)
        /\ walk' = IF walk = None THEN None
                   ELSE [walk EXCEPT !.stable = Untouched(rows, records)]

Ingest(batch, correction) == \E t \in Handled(batch, correction) : Commit(t)

Exchange(status, commits) ==
    /\ status \in deployment.statuses
    /\ Post(status, commits)
    /\ IF commits THEN Ingest(Current, FALSE) ELSE UNCHANGED serverVars
    /\ UNCHANGED deployment

IngestLate(slice) ==
    /\ HandleLate(slice)
    /\ Ingest(slice, FALSE)
    /\ UNCHANGED deployment

(* An admin sends a correction of one attempt.                             *)
Correct(r) ==
    /\ r \in deployment.corrections
    /\ Ingest(<<r>>, TRUE)
    /\ UNCHANGED <<clientVars, deployment>>

(* The client itself.                                                      *)
Submit ==
    /\ \/ \E reports \in deployment.calls : Call(reports)
       \/ TakeBatch
       \/ Return
    /\ UNCHANGED <<deployment, serverVars>>

Next ==
    \/ Submit
    \/ \E status \in Statuses, commits \in BOOLEAN : Exchange(status, commits)
    \/ \E slice \in late : IngestLate(slice)
    \/ \E r \in Reports : Correct(r)
    \/ \E batch \in AtWork : OpenIngest(batch, FALSE)
    \/ \E r \in deployment.corrections : OpenIngest(<<r>>, TRUE)
    \/ FailIngest
    \/ StartWalk
    \/ walk # None /\ \E page \in SUBSET Remaining : FetchPage(page)

Spec == Init /\ [][Next]_vars

(* Every request of the client ends, its timeout included, and a caller    *)
(* that waits for ingest() goes on; nobody else has to do anything.        *)
ClientProgress ==
    \/ (TakeBatch \/ Return) /\ UNCHANGED <<deployment, serverVars>>
    \/ \E status \in Statuses, commits \in BOOLEAN : Exchange(status, commits)

FairSpec == Spec /\ WF_vars(ClientProgress)

-----------------------------------------------------------------------------
(* Properties.                                                             *)

Sent == deployment.corrections \union UNION {Range(c) : c \in deployment.calls}

(* At-least-once delivery is harmless: a slice of reports that the server  *)
(* has committed before, which a retry, a late answer or a repeated call   *)
(* brings again, changes no attempt, corrected or not, and no logical      *)
(* request but one it mends or writes from an old read                     *)
(* (docs/api/ingest-v2.md, "retrying after any transport failure is always *)
(* safe"; recompute is idempotent).                                        *)
ReplaysChangeNothing ==
    [][\/ \E status \in Statuses :
             /\ Exchange(status, TRUE)
             /\ Slice(next, ends[1]) \subseteq stored
       \/ \E slice \in late : IngestLate(slice) /\ Range(slice) \subseteq stored
       => /\ UNCHANGED attempts
          /\ \A k \in RequestKeys \ (stale \union stale') : requests'[k] = requests[k]]_vars

(* The logical requests are what their attempts say, after finals that     *)
(* supersede snapshots, corrections, replays and late slices.  Two         *)
(* transactions that bring attempts of one request at a time miss each      *)
(* other's, although logical_requests.py:6-10 has the row correct in any   *)
(* order, and an attempt that moves away leaves its former request as it   *)
(* was; nothing else goes wrong, and the next transaction that names the   *)
(* request and that none overlaps mends it.                                *)
RequestsAgree ==
    \A k \in RequestKeys \ stale :
        requests[k] = IF Grouped(attempts, k) = {} THEN None ELSE Aggregate(attempts, k)

(* Another row with the same id, of another provider.                      *)
Tied(x) ==
    CASE walk.listing = "attempts" -> \E a \in Attempts \ {x} : a.event = x.event
      [] walk.listing = "requests" -> \E k \in RequestKeys \ {x} : k.request = x.request
      [] walk.listing = "sessions" -> FALSE

(* Pagination is stable while batches are committed between the pages      *)
(* (docs/api/query-v2.md, "stable under concurrent inserts"): a completed  *)
(* walk has met every row that was there from its start and did not change,*)
(* and none twice.  Rows of two providers with one id are left out: the    *)
(* cursor skips them; so are sessions met twice, and sessions when a       *)
(* correction may empty one: their cursor is an offset.                    *)
WalkStable ==
    (walk # None /\ (walk.listing = "sessions" => deployment.corrections = {})) =>
        /\ walk.done => {x \in walk.stable : ~ Tied(x)} \subseteq walk.seen
        /\ walk.listing # "sessions" => walk.again \intersect walk.stable = {}

(* A call ends, whatever is answered: retries are bounded, and a bisection *)
(* comes to single reports.                                                *)
EventuallyAnswered == phase = "running" ~> phase # "running"

=============================================================================
