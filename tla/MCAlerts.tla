----------------------------- MODULE MCAlerts -----------------------------
(***************************************************************************)
(* An instance for TLC of two modules that judge what reaches the server:  *)
(* the alert loop, and the gates of a v2 request.  A behaviour takes the    *)
(* steps of one of them.                                                   *)
(***************************************************************************)
EXTENDS Alerts, Intake

CONSTANTS
    s1, s2,
    writer,                 \* the label of a token
    laptop, gateway,        \* sources of events
    acme, prompt, region    \* keys of the extra map; acme is a provider

VARIABLE part               \* the module that takes steps

partVars == <<vars, intakeVars, part>>

Deployed(kinds, sources, apis, passes, edits, quiet, fails, until, follows) ==
    [kinds |-> kinds, sources |-> sources, apis |-> apis, passes |-> passes,
     edits |-> edits, quiet |-> quiet, failures |-> fails, until |-> until, follows |-> follows]

(* Sources that go stale apart; a source whose rule is edited; two rules    *)
(* and a pass that fails; two passes at one time.                          *)
TwoStale  == Deployed({"stale_source"}, {s1, s2}, {"v1"}, {Loop}, FALSE, {}, 0, 3,
                      <<"stale_source", s1>>)
OneDrifts == Deployed({"schema_drift"}, {s1}, {"v2"}, {Loop}, TRUE, {}, 0, 2,
                      <<"schema_drift", s1>>)
TwoRules  == Deployed({"load", "stale_source"}, {s1}, {"v1"}, {Loop}, FALSE, {3},
                      1, 4, <<"stale_source", s1>>)
TwoPasses == Deployed({"load"}, {}, {"limits"}, {Loop, Manual}, TRUE, {3}, 1, 4,
                      <<"load", Self>>)

SomeDeployments == {TwoStale, OneDrifts, TwoRules, TwoPasses}

(* Intake: an event with content below a harmless key, one with tool names, *)
(* one of another source and one the schema refuses.                       *)
Plain == [source |-> laptop, schema |-> TRUE, provider |-> acme, bytes |-> 1,
          extra |-> {}, dimensions |-> {}, tools |-> Nil]
Nested == [Plain EXCEPT !.extra = {<<acme>>, <<acme, prompt>>, <<acme, prompt, region>>}]
Tooled == [Plain EXCEPT !.tools = 1]
Elsewhere == [Plain EXCEPT !.source = gateway]
Broken == [Plain EXCEPT !.schema = FALSE]

CallOf(kind, batch, correction) ==
    [kind |-> kind, correction |-> correction,
     body |-> [json |-> TRUE, bytes |-> Len(batch), events |-> batch]]

Both(batch) == {CallOf("ingest", batch, FALSE), CallOf("validate", batch, FALSE)}
Other(kinds) == {CallOf(kind, <<>>, FALSE) : kind \in kinds}

(* A token is minted and revoked while it is used; batches are asked about *)
(* before they are sent; and queries and ingest share a caller.            *)
Load(calls, most, seconds, restarts) ==
    [calls |-> calls, most |-> most, seconds |-> seconds, restarts |-> restarts]

SomeWorkloads ==
    {Load({CallOf("ingest", <<Plain, Elsewhere>>, FALSE), CallOf("ingest", <<Plain>>, TRUE)}
            \union Other({"mint", "revoke"}), 3, 0, FALSE),
     Load(Both(<<Nested>>) \union Both(<<Plain, Broken>>), 2, 0, TRUE),
     Load(Both(<<Tooled>>) \union Both(<<Plain, Plain, Plain>>), 2, 0, TRUE),
     Load({CallOf("ingest", <<Plain>>, FALSE)} \union Other({"query"}), 3, 2, TRUE)}

Strict == [mode |-> "reject", namespaces |-> {}, dimensions |-> {}, tools |-> FALSE,
           maxBytes |-> 1, maxDepth |-> 8]
Lenient == [Strict EXCEPT !.mode = "strip", !.tools = TRUE]

SomePolicies == {Strict, Lenient}

SomeMints ==
    {[scopes |-> {"ingest:events"}, sources |-> {laptop}],
     [scopes |-> Nil, sources |-> {}],
     [scopes |-> {"query:read", "read:everything"}, sources |-> Nil]}

-----------------------------------------------------------------------------
PartInit ==
    /\ Init /\ IntakeInit
    /\ part \in {"alerts", "intake"}
    /\ part # "alerts" => deployment = TwoStale
    /\ part # "intake" => policy = Strict /\ workload = CHOOSE w \in Workloads : TRUE

AlertStep  == part = "alerts" /\ Next /\ UNCHANGED <<intakeVars, part>>
IntakeStep == part = "intake" /\ IntakeNext /\ UNCHANGED <<vars, part>>

PartNext == AlertStep \/ IntakeStep
PartSpec == PartInit /\ [][PartNext]_partVars /\ Fairness
=============================================================================
