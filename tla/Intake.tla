------------------------------ MODULE Intake ------------------------------
(***************************************************************************)
(* What a v2 request passes before it touches usage: the query bucket of   *)
(* the middleware (app.py, api/security.py), its token and scopes          *)
(* (api/auth.py, services/tokens.py, scopes.py), the ingest bucket, the    *)
(* checks of the batch and of the token's sources (api/v2/ingest.py,       *)
(* services/rate_limit.py), and the privacy gate (services/privacy.py).    *)
(*                                                                         *)
(* A request answers or goes on at each await: it arrives, is              *)
(* authenticated, which commits a transaction of its own, and is handled   *)
(* with the scopes and sources its token had then.                         *)
(***************************************************************************)
EXTENDS Integers, Sequences, FiniteSetsExt

CONSTANTS
    Labels,         \* labels of tokens; a label stands for its secret
    Bootstrap,      \* the token of the configuration
    Mints,          \* tokens an admin may ask for: [scopes, sources], or Nil
    Workloads,      \* what a deployment may see: its calls, how many arrive at
                    \* most, the seconds that pass, and whether it restarts
    Slots,          \* requests that may be in progress at one time
    ContentLike,    \* keys that look like content
    Policies,       \* privacy policies a deployment may configure
    MaxBytes, MaxEvents,    \* ingest_max_bytes, ingest_max_events
    Capacity, Refill,       \* of a bucket, in the units below
    Price,          \* what a request costs
    MaxClock,       \* bound on the seconds of any
    Nil

AllScopes == {"ingest:events", "ingest:limits", "ingest:aggregates", "query:read",
              "admin:tokens", "admin:corrections", "admin:pricing", "admin:retention"}

(* The scope an endpoint requires.                                         *)
Needed == [ingest |-> "ingest:events", validate |-> "ingest:events",
           query |-> "query:read", mint |-> "admin:tokens", revoke |-> "admin:tokens"]

IngestKinds == {"ingest", "validate"}
Classes     == {"ingest", "query"}
Callers     == Labels \union {Bootstrap}

(* validate_scopes, create_token: the row a request to mint leaves.        *)
RowOf(mint) ==
    [scopes  |-> IF mint.scopes = Nil THEN AllScopes ELSE mint.scopes,
     sources |-> mint.sources, revoked |-> FALSE]

(* The rows a token may have.                                              *)
RowsOfTokens ==
    [scopes : {RowOf(m).scopes : m \in Mints}, sources : {m.sources : m \in Mints},
     revoked : BOOLEAN]

ASSUME IntakeAssumption ==
    /\ Bootstrap \notin Labels
    /\ Nil \notin RowsOfTokens
    /\ \A p \in Policies : p.mode \in {"reject", "strip"}
    /\ {Capacity, Refill, Price, MaxClock} \subseteq Nat \ {0}
    /\ \A w \in Workloads : w.seconds \in 0 .. MaxClock
                            /\ w.restarts \in BOOLEAN
                            /\ \A call \in w.calls :
                                 /\ call.kind \in DOMAIN Needed
                                 /\ \A i \in DOMAIN call.body.events :
                                      {"source", "extra", "tools"}
                                        \subseteq DOMAIN call.body.events[i]

VARIABLES
    workload,       \* the requests of this deployment
    tokenRows,      \* api_tokens: the row of each label, or Nil
    policy,         \* the privacy policy of the running server
    clock,          \* its monotonic clock, in seconds
    buckets,        \* the state of the two limiters, by key
    progress,       \* the request in each slot, or Nil
    stored,         \* usage: each event with the request that brought it
    told,           \* history: what the server in its present configuration
                    \* answered to validate and to ingest, by request body
    charged,        \* history: requests each bucket let through, from each second on
    advised         \* history: when a denied caller was told to come back

intakeVars == <<workload, tokenRows, policy, clock, buckets, progress, stored, told,
                charged, advised>>

-----------------------------------------------------------------------------
(* The token buckets: one per class of traffic and key.                    *)

MinOf(a, b) == IF a <= b THEN a ELSE b
MaxOf(a, b) == IF a >= b THEN a ELSE b

Accrued(class, key) ==
    MinOf(Capacity, buckets[class][key].tokens
                      + (clock - buckets[class][key].last) * Refill)

Allowed(class, key) == Accrued(class, key) >= Price

(* The Retry-After header: whole seconds, at least one.                    *)
RetryAfter(class, key) ==
    MaxOf(1, (Price - Accrued(class, key) + Refill - 1) \div Refill)

(* Mutant: a denied request moves the time of the bucket but not its tokens. *)
LevelTimeOnly(class, key) ==
    IF Allowed(class, key) THEN Accrued(class, key) - Price ELSE buckets[class][key].tokens

Level(class, key) ==
    IF Allowed(class, key) THEN Accrued(class, key) - Price ELSE Accrued(class, key)

(* RateLimiter.check.                                                      *)
Check(class, key) ==
    /\ buckets' = [buckets EXCEPT ![class][key] = [tokens |-> Level(class, key), last |-> clock]]
    /\ IF Allowed(class, key)
       THEN /\ charged' = [charged EXCEPT ![class][key] =
                  [t \in 0 .. MaxClock |-> charged[class][key][t] + IF t <= clock THEN 1 ELSE 0]]
            /\ advised' = [advised EXCEPT ![class][key] = Nil]
       ELSE /\ advised' = [advised EXCEPT ![class][key] = clock + RetryAfter(class, key)]
            /\ UNCHANGED charged

Unchecked == UNCHANGED <<buckets, charged, advised>>

NewBuckets == [class \in Classes |-> [key \in Callers |-> [tokens |-> Capacity, last |-> 0]]]

-----------------------------------------------------------------------------
(* The privacy gate.  The extra map of an event is the set of the paths of *)
(* its keys; its dimensions and tool histogram are what the limits read.   *)

IsContent(path) == \E i \in DOMAIN path : path[i] \in ContentLike

(* Mutant: only the last key of a path is looked at. *)
CleanedLeaves(extra) == {path \in extra : path[Len(path)] \notin ContentLike}

(* _scan_content_keys: a key that looks like content goes with all below.  *)
Cleaned(extra) == {path \in extra : ~ IsContent(path)}

Depth(event) == Max({Len(path) + 1 : path \in event.extra} \union {2})

Issues(event) ==
    UNION {
      IF event.bytes > policy.maxBytes THEN {"event_too_large"} ELSE {},
      IF Depth(event) > policy.maxDepth THEN {"event_too_deep"} ELSE {},
      IF \E path \in event.extra : path[1] \notin policy.namespaces \union {event.provider}
        THEN {"extra_namespace_not_allowed"} ELSE {},
      IF policy.mode = "reject" /\ Cleaned(event.extra) # event.extra
        THEN {"content_key"} ELSE {},
      IF ~ event.dimensions \subseteq policy.dimensions THEN {"dimension_not_allowed"} ELSE {},
      IF event.tools # Nil /\ ~ policy.tools THEN {"tool_names_disabled"} ELSE {},
      IF event.tools # Nil /\ policy.tools /\ event.tools < 0
        THEN {"tool_count_negative"} ELSE {}}

Sanitized(event) ==
    IF policy.mode = "strip" THEN [event EXCEPT !.extra = Cleaned(@)] ELSE event

-----------------------------------------------------------------------------
(* Tokens and principals.                                                  *)

Mintable(label, mint) ==
    /\ mint.scopes = Nil \/ mint.scopes \subseteq AllScopes
    /\ tokenRows[label] = Nil

(* An empty list of sources is no restriction.                             *)
PrincipalOf(who) ==
    IF who = Bootstrap THEN [label |-> who, scopes |-> AllScopes, sources |-> Nil]
    ELSE [label   |-> who,
          scopes  |-> tokenRows[who].scopes,
          sources |-> IF tokenRows[who].sources = {} THEN Nil ELSE tokenRows[who].sources]

(* Mutant: a revoked row still authenticates. *)
KnownOrRevoked(who) == who = Bootstrap \/ tokenRows[who] # Nil

Known(who) == who = Bootstrap \/ (tokenRows[who] # Nil /\ ~ tokenRows[who].revoked)

-----------------------------------------------------------------------------
IntakeInit ==
    /\ workload \in Workloads
    /\ tokenRows = [label \in Labels |-> Nil]
    /\ policy \in Policies
    /\ clock = 0
    /\ buckets = NewBuckets
    /\ progress = [s \in Slots |-> Nil]
    /\ stored = {}
    /\ told = [call \in workload.calls |-> Nil]
    /\ charged = [class \in Classes |-> [key \in Callers |-> [t \in 0 .. MaxClock |-> 0]]]
    /\ advised = [class \in Classes |-> [key \in Callers |-> Nil]]

Arrived == MapThenSumSet(LAMBDA key : charged["query"][key][0] + charged["ingest"][key][0],
                         Callers)

(* The middleware: ingest traffic has its bucket further on.               *)
Arrive(s, who, call) ==
    /\ progress[s] = Nil
    /\ Arrived + Cardinality({x \in Slots : progress[x] # Nil}) < workload.most
    /\ IF call.kind \in IngestKinds THEN Unchecked ELSE Check("query", who)
    /\ progress' = [progress EXCEPT ![s] =
          IF call.kind \notin IngestKinds /\ ~ Allowed("query", who) THEN Nil     \* 429
          ELSE [who |-> who, call |-> call, principal |-> Nil,
                late |-> who # Bootstrap /\ tokenRows[who] # Nil /\ tokenRows[who].revoked]]
    /\ UNCHANGED <<workload, tokenRows, policy, clock, stored, told>>

(* require_token, require_scopes and, for ingest, ingest_rate_guard.       *)
Authenticate(s) ==
    LET r == progress[s]
        mayCall == Known(r.who) /\ Needed[r.call.kind] \in PrincipalOf(r.who).scopes
        guarded == mayCall /\ r.call.kind \in IngestKinds
    IN  /\ r # Nil
        /\ r.principal = Nil
        /\ IF guarded THEN Check("ingest", r.who) ELSE Unchecked
        /\ progress' = [progress EXCEPT ![s] =
              IF ~ mayCall \/ (guarded /\ ~ Allowed("ingest", r.who))      \* 401, 403, 429
              THEN Nil ELSE [r EXCEPT !.principal = PrincipalOf(r.who)]]
        /\ UNCHANGED <<workload, tokenRows, policy, clock, stored, told>>

Ready(s, kind) ==
    /\ progress[s] # Nil
    /\ progress[s].principal # Nil
    /\ progress[s].call.kind = kind

Answered(s) ==
    /\ progress' = [progress EXCEPT ![s] = Nil]
    /\ UNCHANGED <<workload, policy, clock, buckets, charged, advised>>

-----------------------------------------------------------------------------
(* The endpoints.                                                          *)

(* _load_body, _validate_envelope, _check_event_count.                     *)
WellFormed(body) == body.json /\ body.bytes <= MaxBytes /\ Len(body.events) <= MaxEvents

SchemaErrors(body) == \E i \in DOMAIN body.events : ~ body.events[i].schema

(* Mutant: the source of the first event stands for the batch. *)
FirstSourceAllowed(principal, body) ==
    principal.sources = Nil \/ body.events[1].source \in principal.sources

SourcesAllowed(principal, body) ==
    principal.sources = Nil
      \/ \A i \in DOMAIN body.events : body.events[i].source \in principal.sources

PrivacyIssues(body) == UNION {Issues(body.events[i]) : i \in DOMAIN body.events}

Tell(call, verdict) == told' = [told EXCEPT ![call] = verdict]

(* The outcome of an ingest request, in the order of its checks.           *)
IngestVerdict(principal, call) ==
    LET body == call.body
    IN  CASE ~ WellFormed(body) -> "malformed"                          \* 400, 413, 422
          [] call.correction /\ "admin:corrections" \notin principal.scopes -> "forbidden"
          [] SchemaErrors(body) -> "invalid"                            \* 422
          [] ~ SourcesAllowed(principal, body) -> "forbidden"           \* 403
          [] PrivacyIssues(body) # {} -> "invalid"                      \* 422
          [] OTHER -> "stored"

Ingest(s) ==
    LET r == progress[s]
        verdict == IngestVerdict(r.principal, r.call)
    IN  /\ Ready(s, "ingest")
        /\ stored' = IF verdict # "stored" THEN stored
                     ELSE stored \union
                       {[who |-> r.who, correction |-> r.call.correction, late |-> r.late,
                         event |-> Sanitized(r.call.body.events[i]), tools |-> policy.tools] :
                            i \in DOMAIN r.call.body.events}
        /\ Tell(r.call, verdict)
        /\ Answered(s)
        /\ UNCHANGED tokenRows

(* Mutant: only the schema is checked. *)
SchemaVerdict(body) ==
    CASE ~ WellFormed(body) -> "malformed"
      [] SchemaErrors(body) -> "invalid"
      [] OTHER -> "valid"

ValidateVerdict(body) ==
    CASE ~ WellFormed(body) -> "malformed"
      [] SchemaErrors(body) \/ PrivacyIssues(body) # {} -> "invalid"
      [] OTHER -> "valid"

Validate(s) ==
    /\ Ready(s, "validate")
    /\ Tell(progress[s].call, ValidateVerdict(progress[s].call.body))
    /\ Answered(s)
    /\ UNCHANGED <<tokenRows, stored>>

Query(s) ==
    /\ Ready(s, "query")
    /\ Answered(s)
    /\ UNCHANGED <<tokenRows, stored, told>>

(* 201, or 400 and 409.                                                    *)
MintToken(s, label, mint) ==
    /\ Ready(s, "mint")
    /\ tokenRows' = IF Mintable(label, mint)
                    THEN [tokenRows EXCEPT ![label] = RowOf(mint)] ELSE tokenRows
    /\ Answered(s)
    /\ UNCHANGED <<stored, told>>

(* 204, or 404.                                                            *)
RevokeToken(s, label) ==
    /\ Ready(s, "revoke")
    /\ tokenRows' = IF tokenRows[label] = Nil THEN tokenRows
                    ELSE [tokenRows EXCEPT ![label].revoked = TRUE]
    /\ Answered(s)
    /\ UNCHANGED <<stored, told>>

(* The database fails the request.                                         *)
CallFails(s) ==
    /\ progress[s] # Nil
    /\ Answered(s)
    /\ UNCHANGED <<tokenRows, stored, told>>

(* The server restarts, with any policy: what it had in memory is gone.    *)
Restart(p) ==
    /\ workload.restarts
    /\ policy' = p
    /\ clock' = 0
    /\ buckets' = NewBuckets
    /\ progress' = [s \in Slots |-> Nil]
    /\ told' = [call \in workload.calls |-> Nil]
    /\ charged' = [class \in Classes |-> [key \in Callers |-> [t \in 0 .. MaxClock |-> 0]]]
    /\ advised' = [class \in Classes |-> [key \in Callers |-> Nil]]
    /\ UNCHANGED <<workload, tokenRows, stored>>

Second ==
    /\ clock < workload.seconds
    /\ clock' = clock + 1
    /\ UNCHANGED <<workload, tokenRows, policy, buckets, progress, stored, told, charged, advised>>

IntakeNext ==
    \/ \E s \in Slots, who \in Callers, call \in workload.calls : Arrive(s, who, call)
    \/ \E s \in Slots : Authenticate(s)
    \/ \E s \in Slots : Ingest(s)
    \/ \E s \in Slots : Validate(s)
    \/ \E s \in Slots : Query(s)
    \/ \E s \in Slots, label \in Labels, mint \in Mints : MintToken(s, label, mint)
    \/ \E s \in Slots, label \in Labels : RevokeToken(s, label)
    \/ \E s \in Slots : CallFails(s)
    \/ \E p \in Policies : Restart(p)
    \/ Second

IntakeSpec == IntakeInit /\ [][IntakeNext]_intakeVars

-----------------------------------------------------------------------------
(* Properties.                                                             *)

(* The token and the policy an event was stored under allowed it, however  *)
(* tokens are minted and revoked while its request is in progress and      *)
(* whatever the policy was before: no request that arrived after the       *)
(* revocation, no correction without its scope (api/v2/ingest.py:246), no  *)
(* source off the token's list (:186), no key that looks like content      *)
(* (privacy.py:3-8) and no tool names the server does not take (:19).      *)
AdmittedOnly ==
    \A x \in stored :
        /\ x.who # Bootstrap =>
            LET row == tokenRows[x.who]
            IN  /\ row # Nil
                /\ ~ x.late
                /\ "ingest:events" \in row.scopes
                /\ x.correction => "admin:corrections" \in row.scopes
                /\ row.sources \notin {Nil, {}} => x.event.source \in row.sources
        /\ \A path \in x.event.extra : ~ IsContent(path)
        /\ x.event.tools # Nil => x.tools

(* A client that asks /ingest/validate first is told the truth: while the  *)
(* configuration stands, a batch that was called valid is never refused as *)
(* invalid or malformed, and one that was not is never stored              *)
(* (api/v2/ingest.py:308-340, a second path through the same checks).      *)
PreflightAgrees ==
    \A v, i \in workload.calls :
        v.kind = "validate" /\ i.kind = "ingest" /\ v.body = i.body
          /\ told[v] # Nil /\ told[i] # Nil =>
            /\ told[v] = "valid" => told[i] \in {"stored", "forbidden"}
            /\ told[v] # "valid" => told[i] # "stored"

(* What an operator and a client rely on: nothing is stored that was not   *)
(* allowed (auth.py:114), and validate says beforehand what ingest will.   *)
GatesHold == AdmittedOnly /\ PreflightAgrees

(* A bucket is exactly what its own traffic leaves of it: over any stretch *)
(* of seconds it lets through no more than its capacity and what it was    *)
(* refilled with, it is never emptier than that, so ingest never uses up   *)
(* what queries are due (rate_limit.py:3-9), and a caller that comes back  *)
(* when Retry-After told it to, and not with other requests before, is let *)
(* through (:40-44).                                                       *)
BucketsExact ==
    \A class \in Classes, key \in Callers :
        /\ Accrued(class, key) =
             Min({Capacity + (clock - t) * Refill - Price * charged[class][key][t] :
                    t \in 0 .. clock})
        /\ Accrued(class, key) >= 0
        /\ advised[class][key] # Nil /\ clock >= advised[class][key] =>
             Allowed(class, key)
=============================================================================
