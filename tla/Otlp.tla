------------------------------- MODULE Otlp -------------------------------
(***************************************************************************)
(* The OTLP trace receiver (api/v2/otel.py, otel/receiver.py, convert.py,  *)
(* semconv.py): an export of spans is parsed, the GenAI spans among them   *)
(* become final attempt events, and the batch takes the way of v2 ingest   *)
(* through the privacy gate of the default policy into the ledger.         *)
(*                                                                         *)
(* The exporter sends an export again until it is answered or it gives up, *)
(* so a request may be handled late, several times and in any order; one   *)
(* request is handled in one transaction (Ledger has what overlaps do),    *)
(* which commits behind the answer: the session is the one of api/deps.py  *)
(* and nothing commits it earlier, as v2 ingest does.                      *)
(***************************************************************************)
EXTENDS Integers, Sequences, FiniteSets

CONSTANTS
    Exports,        \* what exporters send: sequences of spans
    SystemId,       \* the provider id of each gen_ai.system, by strip and lower
    ContentAttrs,   \* the content attributes of the pinned convention
    ContentKeys,    \* the keys the privacy gate takes for content
    WellFormedIds,  \* ids that conform to W3C trace context
    Unknown,        \* the model of a span that names none
    MaxSends,       \* bound on the requests
    Absent            \* an absent field

(* A span: [id, start, finish, system, request, response, tokens, code,    *)
(* error, others, compound]; tokens is a number, or Absent when the        *)
(* attribute is not there or is none, others are the keys no rule maps, and *)
(* compound those of them whose value is an array, a list of keys or bytes. *)
Spans == UNION {{x[i] : i \in DOMAIN x} : x \in Exports}

ErrorCode == "STATUS_CODE_ERROR"

ASSUME OtlpAssumption ==
    /\ MaxSends \in Nat
    /\ \A x \in Exports : x \in Seq(Spans)
    /\ ContentAttrs \subseteq ContentKeys
    /\ \A s \in Spans : s.system = Absent \/ s.system \in DOMAIN SystemId

VARIABLES
    wire,           \* the requests in transit: how often each export is
    sends,          \* how many were sent
    imported,       \* usage_events_v2: the rows of spans, by provider and id
    malformed,      \* ids noted as trace_context_malformed
    outcomes,       \* history: how each export was handled
    firsts          \* history: the span each row was first reported by

otlpVars == <<wire, sends, imported, malformed, outcomes, firsts>>

-----------------------------------------------------------------------------
(* receiver.py: a span without an id or a start refuses the whole export.  *)

Parses(x) == \A i \in DOMAIN x : x[i].id # Absent /\ x[i].start # Absent

(* _attributes: a value that is no scalar is dropped with its key.         *)
Scalars(span) == span.others \ span.compound

(* Mutant: content attributes are left to the gate. *)
LeftoversUnstripped(span) == Scalars(span)

(* convert.py: content attributes go before anything else is looked at.    *)
Leftovers(span) == Scalars(span) \ ContentAttrs

IsGenAi(span) == span.system # Absent

CountOf(span) == IF span.tokens = Absent THEN 0 ELSE span.tokens

Model(span) ==
    IF span.response # Absent THEN span.response
    ELSE IF span.request # Absent THEN span.request ELSE Unknown

Errored(span) == span.code = ErrorCode \/ span.error

LatencyOf(span) ==
    IF span.finish = Absent THEN Absent
    ELSE IF span.finish < span.start THEN 0 ELSE span.finish - span.start

EventOf(span) ==
    [provider |-> SystemId[span.system], id |-> span.id, model |-> Model(span),
     tokens |-> CountOf(span), success |-> ~ Errored(span),
     started |-> span.start, completed |-> span.finish, latency |-> LatencyOf(span),
     extra |-> Leftovers(span)]

ASSUME PresentAssumption == \A s \in Spans : IsGenAi(s) => Absent \notin {s, EventOf(s)}

(* spans_to_events: where the spans of an export are that become events,   *)
(* which keep their order.                                                 *)
EventsOf(x) == {i \in DOMAIN x : IsGenAi(x[i])}

(* The model of an event refuses negative counts: an answer of 500.        *)
ValidSpans(x) == \A i \in EventsOf(x) : CountOf(x[i]) >= 0

(* The gate of v2 ingest in its default mode.                              *)
PassesGate(x) == \A i \in EventsOf(x) : Leftovers(x[i]) \cap ContentKeys = {}

KeyOf(span) == <<SystemId[span.system], span.id>>
RowKeys     == {KeyOf(span) : span \in {s \in Spans : IsGenAi(s) /\ s.id # Absent}}

(* The first report of a key in a batch, which the ones after it either    *)
(* repeat or conflict with: both are finals of sequence 1.                 *)
FirstIn(x, k) ==
    x[CHOOSE i \in EventsOf(x) :
        KeyOf(x[i]) = k /\ \A j \in EventsOf(x) : j < i => KeyOf(x[j]) # k]

KeysIn(x) == {KeyOf(x[i]) : i \in EventsOf(x)}

(* Mutant: a later report of a span takes the place of an earlier one. *)
SpansStoredLast(x) ==
    [k \in RowKeys |-> IF k \in KeysIn(x) THEN EventOf(FirstIn(x, k)) ELSE imported[k]]

SpansStored(x) ==
    [k \in RowKeys |-> IF imported[k] = Absent /\ k \in KeysIn(x) THEN EventOf(FirstIn(x, k))
                       ELSE imported[k]]

-----------------------------------------------------------------------------
OtlpInit ==
    /\ wire = [x \in Exports |-> 0]
    /\ sends = 0
    /\ imported = [k \in RowKeys |-> Absent]
    /\ malformed = {}
    /\ outcomes = [x \in Exports |-> {}]
    /\ firsts = [k \in RowKeys |-> Absent]

(* The first time, or again after an answer that was lost.                 *)
SendExport(x) ==
    /\ sends < MaxSends
    /\ sends' = sends + 1
    /\ wire' = [wire EXCEPT ![x] = @ + 1]
    /\ UNCHANGED <<imported, malformed, outcomes, firsts>>

Refuse(x, outcome) ==
    /\ wire[x] > 0
    /\ wire' = [wire EXCEPT ![x] = @ - 1]
    /\ outcomes' = [outcomes EXCEPT ![x] = @ \union {outcome}]
    /\ UNCHANGED <<sends, imported, malformed, firsts>>

RefuseMalformed(x) == ~ Parses(x) /\ Refuse(x, "malformed")
FailInvalid(x)     == Parses(x) /\ ~ ValidSpans(x) /\ Refuse(x, "invalid")
RefuseContent(x)   == Parses(x) /\ ValidSpans(x) /\ ~ PassesGate(x) /\ Refuse(x, "content")

(* receive_traces, and the commit.                                         *)
StoreExport(x) ==
    /\ wire[x] > 0
    /\ Parses(x) /\ ValidSpans(x) /\ PassesGate(x)
    /\ wire' = [wire EXCEPT ![x] = @ - 1]
    /\ imported' = SpansStored(x)
    /\ malformed' = malformed \union {k[2] : k \in {y \in KeysIn(x) : y[2] \notin WellFormedIds}}
    /\ firsts' = [k \in RowKeys |-> IF firsts[k] = Absent /\ k \in KeysIn(x)
                                    THEN FirstIn(x, k) ELSE firsts[k]]
    /\ outcomes' = [outcomes EXCEPT ![x] = @ \union {"stored"}]
    /\ UNCHANGED sends

(* The database fails before the answer, or behind an answer of 200.       *)
FailExport(x) ==
    /\ Parses(x) /\ ValidSpans(x) /\ PassesGate(x)
    /\ \E outcome \in {"failed", "undone"} : Refuse(x, outcome)

OtlpNext ==
    \E x \in Exports :
        \/ SendExport(x)
        \/ RefuseMalformed(x)
        \/ FailInvalid(x)
        \/ RefuseContent(x)
        \/ StoreExport(x)
        \/ FailExport(x)

OtlpSpec == OtlpInit /\ [][OtlpNext]_otlpVars

-----------------------------------------------------------------------------
(* Properties.                                                             *)

(* An export is stored as a whole or not at all, however often and in      *)
(* whatever order it is handled: every GenAI span of one that was answered *)
(* 200 and not rolled back behind its answer has its row, which tells what *)
(* the first report of the span told, and a row comes from such an export  *)
(* (api/v2/otel.py:48-58).                                                 *)
WholeExports ==
    /\ \A x \in Exports : "stored" \in outcomes[x] => \A k \in KeysIn(x) : imported[k] # Absent
    /\ \A k \in RowKeys : imported[k] # Absent =>
          /\ imported[k] = EventOf(firsts[k])
          /\ \E x \in Exports : "stored" \in outcomes[x] /\ k \in KeysIn(x)
          /\ k[2] \in WellFormedIds \union malformed

(* No key that looks like content is stored; of the other keys that no     *)
(* rule maps a row has those with a scalar value, and only those: arrays,  *)
(* lists of keys and bytes are lost, although otel-mapping.md:35-37 has    *)
(* every such attribute retained (receiver.py:38-40).  A span that carries *)
(* the content attributes of the convention is stored without them and     *)
(* never refused for them, by the gate behind (otel-mapping.md:39-47).     *)
ScalarsKept ==
    /\ \A k \in RowKeys : imported[k] # Absent =>
          imported[k].extra = {key \in firsts[k].others \ ContentKeys :
                                  key \notin firsts[k].compound}
    /\ \A x \in Exports : "content" \in outcomes[x] =>
          \E i \in EventsOf(x) :
             ((x[i].others \cap ContentKeys) \ ContentAttrs) \ x[i].compound # {}

(* What an exporter may rely on.                                           *)
ExportsFaithful == WholeExports /\ ScalarsKept
=============================================================================
