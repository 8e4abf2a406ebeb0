------------------------------ MODULE Client ------------------------------
(***************************************************************************)
(* The ingest clients for proxies and importers (packages/clients:         *)
(* client.py, synchronous and asynchronous, and client.ts, with one submit *)
(* policy): batching, retries, and the isolation of the reports the server *)
(* refuses by bisecting a refused batch.                                   *)
(*                                                                         *)
(* A call submits a sequence of reports in order.  A batch, and each half  *)
(* of one, is a slice of it, so the slices still to submit are given by    *)
(* "next", the first report without a verdict, and by their last reports.  *)
(* The server handles a slice in one transaction, or refuses all of it     *)
(* (api/v2/ingest.py); what an application does with a call that raised is *)
(* to make it again.                                                       *)
(***************************************************************************)
EXTENDS Integers, Sequences, FiniteSets, SequencesExt

CONSTANTS
    Reports,      \* usage events as they are sent
    Bad,          \* those the server refuses as malformed
    Size,         \* the serialized size of each
    Calls,        \* the sequences of reports a call may submit
    BatchSize,    \* batch_size
    MaxBytes,     \* max_batch_bytes
    MaxRetries,   \* max_retries
    MaxCalls      \* bound on the calls of the application

ASSUME ClientAssumption ==
    /\ Bad \subseteq Reports
    /\ Size \in [Reports -> Nat \ {0}]
    /\ Calls \subseteq Seq(Reports)
    /\ BatchSize \in Nat \ {0}
    /\ MaxBytes \in Nat
    /\ MaxRetries \in Nat
    /\ MaxCalls \in Nat

VARIABLES
    phase,        \* of the current call: idle, running, returned or raised
    events,       \* what it submits
    next,         \* the first report without a verdict
    ends,         \* the last reports of the slices to submit, the next one first
    posts,        \* how often the slice has been posted
    poison,       \* result.poison_events
    calls,        \* the calls made
    stored,       \* the reports of the slices the server has committed
    late          \* slices the client gave up on and the server may still handle

clientVars == <<phase, events, next, ends, posts, poison, calls, stored, late>>

(* 429 and 5xx; 400 and 422; 401; 403, 413, ...; no answer at all.         *)
Statuses == {"ok", "busy", "poison", "auth", "other", "none"}

-----------------------------------------------------------------------------
ClientInit ==
    /\ phase = "idle"
    /\ events = <<>>
    /\ next = 1
    /\ ends = <<>>
    /\ posts = 0
    /\ poison = <<>>
    /\ calls = 0
    /\ stored = {}
    /\ late = {}

Slice(lo, hi) == {events[i] : i \in lo .. hi}
Current       == SubSeq(events, next, ends[1])   \* the slice that is posted

(* ingest(): a new result.                                                 *)
Call(reports) ==
    /\ phase # "running"
    /\ calls < MaxCalls
    /\ calls' = calls + 1
    /\ phase' = "running"
    /\ events' = reports
    /\ next' = 1
    /\ ends' = <<>>
    /\ posts' = 0
    /\ poison' = <<>>
    /\ UNCHANGED <<stored, late>>

Bytes(lo, hi) == FoldLeft(LAMBDA sum, r : sum + Size[r], 0, SubSeq(events, lo, hi))

(* _iter_batches: as many reports as fit, one at least.                    *)
Batch(hi) ==
    /\ hi # next => hi - next < BatchSize /\ Bytes(next, hi) <= MaxBytes
    /\ hi # Len(events) => hi + 1 - next >= BatchSize \/ Bytes(next, hi + 1) > MaxBytes

TakeBatch ==
    /\ phase = "running"
    /\ ends = <<>>
    /\ next <= Len(events)
    /\ \E hi \in next .. Len(events) : Batch(hi) /\ ends' = <<hi>>
    /\ UNCHANGED <<phase, events, next, posts, poison, calls, stored, late>>

(* What the server may answer to the slice, and whether it has committed   *)
(* it by then: a gateway may answer 5xx, or nothing may come, although it  *)
(* has, or although it will.                                               *)
Answers(status, commits) ==
    /\ commits => Slice(next, ends[1]) \intersect Bad = {}
    /\ status = "ok" => commits
    /\ status = "poison" => Slice(next, ends[1]) \intersect Bad # {} /\ ~ commits
    /\ status \in {"auth", "other"} => ~ commits

Server(status, commits) ==
    /\ stored' = IF commits THEN stored \union Slice(next, ends[1]) ELSE stored
    /\ late' = IF /\ status \in {"busy", "none"}
                  /\ ~ commits
                  /\ Slice(next, ends[1]) \intersect Bad = {}
               THEN late \union {Current}
               ELSE late

(* Mutant: the second half starts a report late. *)
SettledPastNext(newEnds, newPoison, newNext) ==
    /\ next' = IF Len(newEnds) > Len(ends) THEN newNext + 1 ELSE newNext
    /\ ends' = newEnds
    /\ poison' = newPoison
    /\ posts' = 0
    /\ UNCHANGED phase

Settled(newEnds, newPoison, newNext) ==
    /\ next' = newNext
    /\ ends' = newEnds
    /\ poison' = newPoison
    /\ posts' = 0
    /\ UNCHANGED phase

(* Mutant: nobody counts the retries. *)
RetryForEver ==
    UNCHANGED <<phase, next, ends, poison, posts>>

(* 429 or 5xx: the slice is posted again, and after the last retry the     *)
(* call raises.                                                            *)
Retry ==
    /\ posts' = posts + 1
    /\ phase' = IF posts = MaxRetries THEN "raised" ELSE "running"
    /\ UNCHANGED <<next, ends, poison>>

(* A refused slice is bisected down to the report that is refused alone,   *)
(* which is set aside.                                                     *)
Isolate ==
    IF next = ends[1]
    THEN Settled(Tail(ends), Append(poison, events[next]), next + 1)
    ELSE Settled(<<next + (ends[1] - next + 1) \div 2 - 1>> \o ends, poison, next)

(* _submit, _post and _classify: one POST and its answer.                  *)
Post(status, commits) ==
    /\ phase = "running"
    /\ ends # <<>>
    /\ Answers(status, commits)
    /\ Server(status, commits)
    /\ CASE status = "ok"     -> Settled(Tail(ends), poison, ends[1] + 1)
         [] status = "poison" -> Isolate
         [] status = "busy"   -> Retry
         [] OTHER             -> /\ phase' = "raised"
                                 /\ UNCHANGED <<next, ends, posts, poison>>
    /\ UNCHANGED <<events, calls>>

Return ==
    /\ phase = "running"
    /\ ends = <<>>
    /\ next > Len(events)
    /\ phase' = "returned"
    /\ UNCHANGED <<events, next, ends, posts, poison, calls, stored, late>>

(* The server handles a slice whose sender has gone on.                    *)
HandleLate(slice) ==
    /\ slice \in late
    /\ late' = late \ {slice}
    /\ stored' = stored \union Range(slice)
    /\ UNCHANGED <<phase, events, next, ends, posts, poison, calls>>

ClientStep ==
    \/ TakeBatch
    \/ \E status \in Statuses, commits \in BOOLEAN : Post(status, commits)
    \/ Return

ClientNext ==
    \/ \E reports \in Calls : Call(reports)
    \/ ClientStep
    \/ \E slice \in late : HandleLate(slice)

ClientSpec == ClientInit /\ [][ClientNext]_clientVars

-----------------------------------------------------------------------------
(* Properties.                                                             *)

(* The slices follow one another up to the end of a batch, within the call.*)
ClientTypeOK ==
    /\ phase \in {"idle", "running", "returned", "raised"}
    /\ events \in Seq(Reports)
    /\ next \in 1 .. Len(events) + 1
    /\ ends \in Seq(1 .. Len(events))
    /\ posts \in 0 .. MaxRetries + 1
    /\ poison \in Seq(Bad)
    /\ calls \in 0 .. MaxCalls
    /\ stored \subseteq Reports
    /\ late \subseteq Seq(Reports)

(* One refused report never blocks the rest (packages/clients/README.md,   *)
(* "one malformed event never blocks the rest"): what the call has a       *)
(* verdict on is stored unless it is bad, bad reports are set aside, each  *)
(* once and nothing else, and a call that returned has a verdict on        *)
(* everything, whatever was retried, answered late or bisected.            *)
PoisonIsolated ==
    /\ Slice(1, next - 1) \ Bad \subseteq stored
    /\ Range(poison) = Slice(1, next - 1) \intersect Bad
    /\ Len(poison) = Cardinality({i \in 1 .. next - 1 : events[i] \in Bad})
    /\ phase = "returned" => next = Len(events) + 1

=============================================================================
