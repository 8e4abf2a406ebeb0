------------------------------- MODULE Limits -------------------------------
(***************************************************************************)
(* Provider limits, from the endpoints the collector polls                 *)
(* (limits_anthropic.py, limits_openai.py, limits_zai.py, wire.py) and the  *)
(* batches gateways send, through POST /api/v2/ingest/limits with its flood *)
(* control (services/ingest_v2_meta.py), to what is shown of them: current  *)
(* limits, forecasts, burn rate and blocks (services/analytics.py,         *)
(* limit_forecast.py, limit_grouping.py, live_overview.py).                *)
(*                                                                         *)
(* A request is one READ COMMITTED transaction that adds its rows at its    *)
(* end.  The collector sends its queue in order and one batch at a time,    *)
(* but it gives a request up that the server may still be working on, and   *)
(* sends the batch again.                                                  *)
(***************************************************************************)
EXTENDS Integers, Sequences, FiniteSets, Sums

CONSTANTS
    Windows,         \* the <<provider, window_kind>> pairs in use
    Accounts,        \* accounts a credentials file may name
    Pcts,            \* utilization percentages reported
    Posts,           \* ingest requests that may be open at one time
    GatewayBatches,  \* batches gateways send: sequences of <<window, account, age, pct>>
    Interval,        \* limit_snapshot_min_interval_seconds
    Block, Week,     \* the reset periods of the windows
    Lookback,        \* how far forecasts and the burn rate look back
    MaxTime,         \* the clock runs from 0 to MaxTime
    Resets,          \* reset times reported
    MaxPolls,        \* bound on polls and on batches of gateways, together
    MaxMishaps,      \* bound on lost answers, given-up and failed requests
    Nil              \* no value

ASSUME LimitsAssumption ==
    /\ Pcts \subseteq 0 .. 100
    /\ Resets \subseteq Nat
    /\ Interval \in Nat /\ Block \in Nat \ {0} /\ Week \in Nat \ {0} /\ Lookback \in Nat \ {0}
    /\ MaxTime \in Nat /\ MaxPolls \in Nat /\ MaxMishaps \in Nat
    /\ IsFiniteSet(Windows)
    /\ LET Reported == UNION {{b[i] : i \in DOMAIN b} : b \in GatewayBatches}
       IN  /\ GatewayBatches \subseteq Seq(Reported)
           /\ \A x \in Reported : x[1] \in Windows /\ x[3] \in Nat /\ x[4] \in Pcts
    /\ Nil \notin Accounts \union Posts \union Int

Times == 0 .. MaxTime

VARIABLES
    now,        \* the clock
    queue,      \* the collector's queued limits batches, oldest first
    waiting,    \* the request whose answer the collector waits for, or Nil
    judging,    \* what each open request has judged of its batch
    stored,     \* table limit_snapshots, in the order of its ids
    answered,   \* snapshots of the batches that were answered for
    overlapped, \* whether two requests have ever been open at one time
    polls, mishaps

limitsVars == <<now, queue, waiting, judging, stored, answered, overlapped, polls, mishaps>>

LimitsInit ==
    /\ now = 0
    /\ queue = <<>>
    /\ waiting = Nil
    /\ judging = [r \in Posts |-> Nil]
    /\ stored = <<>>
    /\ answered = {}
    /\ overlapped = FALSE
    /\ polls = 0
    /\ mishaps = 0

-----------------------------------------------------------------------------
(* What an endpoint may answer for a window: nothing usable, or how much is *)
(* used and when the window resets, if it says.                            *)
Readings == [pct : Pcts, resets : Resets \union {Nil}]

WindowsOf(p) == {w \in Windows : w[1] = p}

(* _to_snapshots and limit_to_wire_v2: a snapshot for every window that has *)
(* a number; the account of the credentials only goes with Codex's, Z.ai's  *)
(* stays in raw.                                                           *)
Snapshot(w, account, ts, reading, source) ==
    [provider |-> w[1], kind |-> w[2], account |-> account, source |-> source,
     ts |-> ts, pct |-> reading.pct, resets |-> reading.resets]

AccountSent(p, account) == IF p = "openai" THEN account ELSE Nil

Polled(p, answer, account) ==
    {Snapshot(w, AccountSent(p, account), now, answer[w], "collector") :
        w \in {w \in WindowsOf(p) : answer[w] # Nil}}

InAnyOrder(snapshots) == CHOOSE s \in [1 .. Cardinality(snapshots) -> snapshots] :
                            \A x \in snapshots : \E i \in DOMAIN s : s[i] = x

(* A limit source polls.  Without credentials, or when the request fails, is *)
(* refused or cannot be read, it is unavailable, and like an answer with no *)
(* known window that queues nothing.                                       *)
Poll(p, answer, account) ==
    /\ polls < MaxPolls
    /\ polls' = polls + 1
    /\ queue' = IF Polled(p, answer, account) = {} THEN queue
                ELSE Append(queue, InAnyOrder(Polled(p, answer, account)))
    /\ UNCHANGED <<now, waiting, judging, stored, answered, overlapped, mishaps>>

-----------------------------------------------------------------------------
(* The flood-control key: it names neither account nor organization.       *)
FloodKey(s) == <<s.source, s.provider, s.kind>>

Open(r) == judging[r] # Nil

Receive(r, batch) ==
    /\ ~Open(r)
    /\ judging' = [judging EXCEPT ![r] = [batch |-> batch, next |-> 1, rows |-> <<>>]]
    /\ overlapped' = (overlapped \/ \E q \in Posts : Open(q))

Send(r) ==
    /\ queue # <<>>
    /\ waiting = Nil
    /\ Receive(r, Head(queue))
    /\ waiting' = r
    /\ UNCHANGED <<now, queue, stored, answered, polls, mishaps>>

(* A gateway's snapshots may be older than what is stored already.         *)
GatewayRows(batch) ==
    [i \in DOMAIN batch |->
        Snapshot(batch[i][1], batch[i][2], now - batch[i][3],
                 [pct |-> batch[i][4], resets |-> Nil], "gateway")]

GatewaySends(r, batch) ==
    /\ \A i \in DOMAIN batch : now >= batch[i][3]
    /\ polls < MaxPolls
    /\ polls' = polls + 1
    /\ Receive(r, GatewayRows(batch))
    /\ UNCHANGED <<now, queue, waiting, stored, answered, mishaps>>

Latest(rows) == IF rows = {} THEN Nil ELSE Max({x.ts : x \in rows})

OfKey(rows, k) == {rows[i] : i \in {i \in DOMAIN rows : FloodKey(rows[i]) = k}}

(* Mutant: a dropped snapshot moves the threshold too.                     *)
ThresholdOfAll(judged, s) ==
    LET before == OfKey(SubSeq(judged.batch, 1, judged.next - 1), FloodKey(s))
    IN IF before # {} THEN Latest(before) ELSE Latest(OfKey(stored, FloodKey(s)))

(* Mutant: only the batch itself is looked at.                             *)
ThresholdInBatch(judged, s) == Latest(OfKey(judged.rows, FloodKey(s)))

(* What a snapshot is held against: the last row its batch has accepted for *)
(* the key, and only if there is none the latest one stored.  (The batch    *)
(* keeps the time of a row it accepts: never older than those before it.)   *)
Threshold(judged, s) ==
    IF OfKey(judged.rows, FloodKey(s)) # {} THEN Latest(OfKey(judged.rows, FloodKey(s)))
    ELSE Latest(OfKey(stored, FloodKey(s)))

FloodLimited(judged, s) ==
    /\ Interval > 0
    /\ Threshold(judged, s) # Nil
    /\ s.ts - Threshold(judged, s) < Interval

(* The next snapshot of a batch.                                           *)
Judge(r) ==
    /\ Open(r)
    /\ judging[r].next <= Len(judging[r].batch)
    /\ LET s == judging[r].batch[judging[r].next]
       IN judging' = [judging EXCEPT ![r].next = @ + 1,
                                     ![r].rows = IF FloodLimited(judging[r], s) THEN @
                                                 ELSE Append(@, s)]
    /\ UNCHANGED <<now, queue, waiting, stored, answered, overlapped, polls, mishaps>>

(* The rows are added and the request commits.  The collector takes the     *)
(* batch off its queue when the answer reaches it.                         *)
Judged(r) == Open(r) /\ judging[r].next > Len(judging[r].batch)

Commit(r) ==
    /\ Judged(r)
    /\ stored' = stored \o judging[r].rows
    /\ answered' = answered \union {judging[r].batch[i] : i \in DOMAIN judging[r].batch}
    /\ judging' = [judging EXCEPT ![r] = Nil]
    /\ \/ /\ queue' = IF waiting = r THEN Tail(queue) ELSE queue
          /\ mishaps' = mishaps
       \/ /\ waiting = r
          /\ mishaps < MaxMishaps
          /\ mishaps' = mishaps + 1
          /\ queue' = queue
    /\ waiting' = IF waiting = r THEN Nil ELSE waiting
    /\ UNCHANGED <<now, overlapped, polls>>

(* The request fails, or its server dies: nothing is stored.               *)
Fail(r) ==
    /\ Open(r)
    /\ mishaps < MaxMishaps
    /\ mishaps' = mishaps + 1
    /\ judging' = [judging EXCEPT ![r] = Nil]
    /\ waiting' = IF waiting = r THEN Nil ELSE waiting
    /\ UNCHANGED <<now, queue, stored, answered, overlapped, polls>>

(* The collector's client times out; the server goes on.                   *)
TimeOut ==
    /\ waiting # Nil
    /\ mishaps < MaxMishaps
    /\ mishaps' = mishaps + 1
    /\ waiting' = Nil
    /\ UNCHANGED <<now, queue, judging, stored, answered, overlapped, polls>>

Tick ==
    /\ now < MaxTime
    /\ now' = now + 1
    /\ UNCHANGED <<queue, waiting, judging, stored, answered, overlapped, polls, mishaps>>

LimitsNext ==
    \/ Tick
    \/ \E p \in {w[1] : w \in Windows}, account \in Accounts \union {Nil} :
          \E answer \in [WindowsOf(p) -> Readings \union {Nil}] : Poll(p, answer, account)
    \/ \E r \in Posts : Send(r) \/ Judge(r) \/ Commit(r) \/ Fail(r)
    \/ \E r \in Posts, batch \in GatewayBatches : GatewaySends(r, batch)
    \/ TimeOut

LimitsSpec == LimitsInit /\ [][LimitsNext]_limitsVars

-----------------------------------------------------------------------------
(* What is read of the table.  current_limits: the rows of the latest time  *)
(* of each provider and window kind, whatever account or source they are of.*)
SameWindow(i, j) == stored[i].provider = stored[j].provider /\ stored[i].kind = stored[j].kind

Current == {i \in DOMAIN stored :
               \A j \in DOMAIN stored : SameWindow(i, j) => stored[j].ts <= stored[i].ts}

Period(kind) == CASE kind = "five_hour" -> Block
                  [] kind = "seven_day" -> Week
                  [] OTHER -> Nil

(* roll_reset_forward: a reset in the past moves on by whole periods.      *)
RolledBy(resets, period, t) == resets + ((t - resets) \div period + 1) * period

(* Mutant: it moves to the last reset there has been.                      *)
RolledShort(kind, resets, t) ==
    IF resets = Nil \/ Period(kind) = Nil \/ resets > t THEN resets
    ELSE resets + ((t - resets) \div Period(kind)) * Period(kind)

RollForward(kind, resets, t) ==
    IF resets = Nil \/ Period(kind) = Nil \/ resets > t THEN resets
    ELSE RolledBy(resets, Period(kind), t)

(* Every reset that /limits/current and the live overview show of a window  *)
(* with a known period lies ahead, less than a period when it was derived,  *)
(* and whole periods after a reset the provider has reported                *)
(* (services/analytics.py roll_reset_forward).                             *)
ResetsAreAhead ==
    \A i \in Current :
        LET row == stored[i]
            shown == RollForward(row.kind, row.resets, now)
        IN row.resets # Nil /\ Period(row.kind) # Nil =>
              /\ shown > now
              /\ shown # row.resets => shown <= now + Period(row.kind)
              /\ (shown - row.resets) % Period(row.kind) = 0

(* The line through two readings of a window, and when it reaches 100; the  *)
(* part of an instant is dropped.                                          *)
Rises(first, last) == last.ts > first.ts /\ last.pct > first.pct /\ last.pct < 100

Exhausted(first, last) ==
    IF Rises(first, last)
    THEN last.ts + ((100 - last.pct) * (last.ts - first.ts)) \div (last.pct - first.pct)
    ELSE Nil

(* group_limit_snapshots and forecast_stream: a forecast for each stream    *)
(* from its first and last row in range.  Rows of one time stay in the      *)
(* table's order.                                                          *)
(* Mutant: streams are kept apart by what flood control keeps apart.       *)
WindowKey(s) == <<s.provider, s.kind, Nil, s.source>>

StreamKey(s) == <<s.provider, s.kind, s.account, s.source>>

Before(i, j) == stored[i].ts < stored[j].ts \/ (stored[i].ts = stored[j].ts /\ i < j)

FirstOf(is) == CHOOSE i \in is : \A j \in is \ {i} : Before(i, j)
LastOf(is) == CHOOSE i \in is : \A j \in is \ {i} : Before(j, i)

InRange(from, to) == {i \in DOMAIN stored : stored[i].ts \in from .. to}

Forecast(is) ==
    LET first == stored[FirstOf(is)]
        last == stored[LastOf(is)]
        at == Exhausted(first, last)
    IN [at |-> at, resets |-> last.resets,
        resetFirst |-> at # Nil /\ last.resets # Nil /\ last.resets <= at,
        confidence |-> IF Cardinality(is) < 2 \/ first.ts = last.ts THEN "unavailable"
                       ELSE "available"]

Streams(is) == {StreamKey(stored[i]) : i \in is}

Forecasts(is) == [k \in Streams(is) |-> Forecast({i \in is : StreamKey(stored[i]) = k})]

(* predict_exhaustion, of v1: the same line through all rows of a window    *)
(* kind.                                                                   *)
OfKind(kind, is) == {i \in is : stored[i].kind = kind}

Prediction(kind) ==
    LET is == OfKind(kind, InRange(now - Lookback, now))
    IN IF Cardinality(is) < 2 THEN Nil ELSE Exhausted(stored[FirstOf(is)], stored[LastOf(is)])

(* The v1 prediction never falls before the readings it is made from.       *)
PredictionFollows ==
    \A w \in Windows : Prediction(w[2]) # Nil =>
        \A i \in OfKind(w[2], InRange(now - Lookback, now)) : stored[i].ts <= Prediction(w[2])

(* A limit is forecast to be hit only when it is itself being used up:      *)
(* readings of two accounts or two sources never make a rising line between *)
(* them, and a forecast never falls before the reading it starts from       *)
(* (limit_grouping.py, limit_forecast.py; docs/architecture/limits-v2.md).  *)
ForecastsApart ==
    LET is == InRange(0, now)
    IN \A i \in is :
          LET own == {j \in is : /\ SameWindow(i, j)
                                /\ stored[j].account = stored[i].account
                                /\ stored[j].source = stored[i].source}
              forecast == Forecasts(is)[StreamKey(stored[i])]
          IN forecast.at # Nil =>
                /\ \E j, l \in own : /\ stored[j].ts < stored[l].ts
                                    /\ stored[j].pct < stored[l].pct
                /\ \A j \in own : stored[j].ts <= forecast.at
                /\ forecast.confidence = "available"

-----------------------------------------------------------------------------
(* Blocks of usage: the events in range, by the five-hour grid that the     *)
(* latest reported reset anchors, or the first event.  An event table has   *)
(* the tokens of each instant.                                             *)
EventTables == [Times -> 0 .. 1]

Used(usage, ts) == Total(usage, ts)

With(usage) == {t \in Times : usage[t] > 0}

LatestResets ==
    LET five == {i \in DOMAIN stored : stored[i].kind = "five_hour" /\ stored[i].resets # Nil}
    IN {stored[i].resets : i \in {i \in five : \A j \in five : stored[j].ts <= stored[i].ts}}

(* Mutant: the quotient is cut off towards zero.                           *)
Truncated(t, anchor) == IF t >= anchor THEN (t - anchor) \div Block
                        ELSE -((anchor - t) \div Block)

BlockOf(t, anchor) == (t - anchor) \div Block

(* The blocks of a table's events, as start and tokens.                    *)
Blocks(usage, anchor) ==
    {[start |-> anchor + n * Block,
      tokens |-> Used(usage, {t \in With(usage) : BlockOf(t, anchor) = n})] :
        n \in {BlockOf(t, anchor) : t \in With(usage)}}

(* Blocks that do not overlap, hold the events of their own five hours, and *)
(* add up to all that was used.                                            *)
Partition(usage, anchor) ==
    LET bs == Blocks(usage, anchor)
    IN /\ \A a, b \in bs : a.start = b.start => a = b
       /\ \A b \in bs : b.tokens = Used(usage, With(usage) \cap
                                          (b.start .. b.start + Block - 1))
       /\ Total([b \in bs |-> b.tokens], bs) = Used(usage, Times)

SoundAnchors == {anchor \in Times \union Resets :
    \A usage \in EventTables : With(usage) # {} => Partition(usage, anchor)}

FirstEventIsSound ==
    \A usage \in EventTables : With(usage) # {} => Partition(usage, Min(With(usage)))

(* However the anchor moves with new snapshots, the blocks shown partition  *)
(* the usage (analytics.py blocks).                                        *)
BlocksPartitionUsage ==
    IF LatestResets = {} THEN FirstEventIsSound ELSE LatestResets \subseteq SoundAnchors

-----------------------------------------------------------------------------
LimitsTypeOK ==
    /\ now \in Times
    /\ waiting \in Posts \union {Nil}
    /\ \A r \in Posts : Open(r) => judging[r].next \in 1 .. Len(judging[r].batch) + 1
    /\ polls \in 0 .. MaxPolls /\ mishaps \in 0 .. MaxMishaps

(* Flood control never keeps the newest away: when a batch was answered     *)
(* for, what is current of each of its windows is less than the interval    *)
(* older than the snapshot it reported, though snapshots are dropped        *)
(* silently, in whatever order and overlap batches come                    *)
(* (ingest_v2_meta.py _flood_limited, analytics.py current_limits).        *)
ShownIsFresh ==
    \A s \in answered : \E i \in Current :
        /\ stored[i].provider = s.provider /\ stored[i].kind = s.kind
        /\ \/ stored[i].ts >= s.ts
           \/ Interval > 0 /\ s.ts - stored[i].ts < Interval

(* As long as no two requests overlap, at most one snapshot per source and  *)
(* window is accepted in an interval, though the collector sends batches    *)
(* again whose answer was lost (docs/architecture/limits-v2.md).           *)
OneInAnInterval ==
    ~overlapped /\ Interval > 0 =>
        \A i, j \in DOMAIN stored :
            i < j /\ FloodKey(stored[i]) = FloodKey(stored[j]) =>
                stored[j].ts - stored[i].ts >= Interval

(* Flood control drops enough, and not too much.                           *)
FloodControlHolds == ShownIsFresh /\ OneInAnInterval

(* What is derived from the snapshots for display: resets, predictions,     *)
(* forecasts and blocks.                                                   *)
ShownLimitsSound ==
    ResetsAreAhead /\ PredictionFollows /\ ForecastsApart /\ BlocksPartitionUsage

(* What the limits endpoints show follows from what was polled, although    *)
(* flood control drops most of it: both halves are above.                  *)
LimitsSound == FloodControlHolds /\ ShownLimitsSound
=============================================================================
