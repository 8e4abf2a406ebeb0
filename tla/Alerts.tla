------------------------------ MODULE Alerts ------------------------------
(***************************************************************************)
(* The alert engine over the sources of Sources (services/alerting/        *)
(* engine.py, rules.py, app.py, api/alerts.py).                            *)
(*                                                                         *)
(* There is one rule of each kind a deployment has.  "load" stands for the *)
(* kinds with a single finding (limit_pct, burn_rate, failure_rate, ...),  *)
(* whose condition is a value the environment changes; stale_source and    *)
(* schema_drift have one finding per source.                               *)
(*                                                                         *)
(* A pass of the engine is one transaction over the rules as they were     *)
(* when it began.  It sends each notice when it finds the reason for it,   *)
(* and commits states and alert_events at its end; between its steps       *)
(* requests commit, and it may fail.  The loop runs one pass after the     *)
(* other, and POST /evaluate another one beside it.                        *)
(***************************************************************************)
EXTENDS Sources

CONSTANTS
    Loop, Manual, \* the passes that may be open at one time
    Cooldown,     \* cooldown_seconds
    StaleAfter,   \* the staleness a source is warned about from
    DriftAfter,   \* the rejections a source is warned about from
    Deployments   \* one is chosen for good: [kinds, sources, apis, passes, edits,
                  \* quiet, failures, until, follows]: quiet are the quiet hours of its
                  \* rules, failures and until bounds on the passes that fail and on
                  \* the clock, follows the rule and subject EventuallyNoticed is about

Passes  == {Loop, Manual}
Grouped == {"stale_source", "schema_drift"}
Kinds   == Grouped \union {"load"}

Self     == "self"               \* the one subject of a "load" rule
Subjects == Sources \union {Self}

SubjectsOf(kind) == IF kind = "load" THEN {Self} ELSE Sources

(* A rule row; entities is its JSON column, without the keys at None.      *)
EntityStates == [state : {"firing", "normal"}, at : Times]
RuleRows == [enabled : BOOLEAN, scope : SUBSET Sources, state : {"firing", "normal"},
             entities : [Sources -> EntityStates \union {None}]]

(* A notice, and its row in alert_events.                                  *)
Notices == [what : {"fire", "resolved"}, at : Times]

ASSUME AlertsAssumption ==
    /\ Named = Sources
    /\ Self \notin Sources
    /\ None \notin Kinds /\ None \notin EntityStates /\ None \notin Notices
    /\ Cooldown \in Nat /\ StaleAfter \in Nat \ {0} /\ DriftAfter \in Nat \ {0}
    /\ \A d \in Deployments :
          /\ d.kinds \subseteq Kinds /\ d.sources \subseteq Sources
          /\ d.apis \subseteq Apis /\ d.passes \subseteq Passes /\ d.edits \in BOOLEAN
          /\ d.quiet \subseteq Times /\ d.failures \in Nat /\ d.until \in Times
          /\ d.follows[1] \in d.kinds /\ d.follows[2] \in SubjectsOf(d.follows[1])

VARIABLES
    deployment,
    load,       \* the condition of the "load" rule holds
    rules,      \* alert_rules: the row of each kind
    events,     \* alert_events: the last of each rule and subject, or None
    pass,       \* the open passes
    failures    \* the passes that failed

alertVars == <<deployment, load, rules, events, pass, failures>>
vars      == <<sourceVars, alertVars>>

-----------------------------------------------------------------------------
(* Rules.                                                                  *)

FreshRule(sources) == [enabled |-> TRUE, scope |-> sources, state |-> "normal",
              entities |-> [s \in Sources |-> None]]

NoEvents == [k \in Kinds |-> [x \in Subjects |-> None]]

Init ==
    /\ SourcesInit
    /\ deployment \in Deployments
    /\ load = FALSE
    /\ rules = [k \in Kinds |-> FreshRule(deployment.sources)]
    /\ events = NoEvents
    /\ pass = [p \in Passes |-> None]
    /\ failures = 0

Quiet(time) == time \in deployment.quiet

Alive(s) == rows[s] # <<>> /\ ~ rows[s][1].revoked

(* evaluate_stale_sources: since the last error-free batch, or since it    *)
(* was first seen.                                                         *)
IsStale(s, time) ==
    LET row == rows[s][1]
        last == IF row.ingested = Never THEN row.firstSeen ELSE row.ingested
    IN  time - last >= StaleAfter

(* evaluate_schema_drift: the only supported schema version is 2.          *)
HasDrifted(s) == rows[s][1].version \notin {0, 2} \/ rows[s][1].errors >= DriftAfter

Affected(kind, s, time) ==
    /\ Alive(s)
    /\ IF kind = "stale_source" THEN IsStale(s, time) ELSE HasDrifted(s)

Findings(kind, scope, time) == {s \in scope : Affected(kind, s, time)}

-----------------------------------------------------------------------------
(* A pass.                                                                 *)

Open(p) == pass[p] # None

(* The enabled rules, and of them those out of their quiet hours.          *)
BeginPass(p) ==
    /\ p \in deployment.passes
    /\ ~ Open(p)
    /\ pass' = [pass EXCEPT ![p] =
          [at |-> now, read |-> rules, mine |-> rules, told |-> NoEvents,
           kind |-> None, active |-> {},
           todo |-> {k \in deployment.kinds : rules[k].enabled /\ ~ Quiet(now)}]]
    /\ UNCHANGED <<sourceVars, deployment, load, rules, events, failures>>

Between(p) == Open(p) /\ pass[p].kind = None

Notice(what, p) == [what |-> what, at |-> pass[p].at]

(* Of all its events, recoveries included.                                 *)
InCooldown(p) ==
    LET last == events["load"][Self]
    IN  last # None /\ pass[p].at - last.at < Cooldown

(* Mutant: what has fired never recovers. *)
RunSingleSticky(p) ==
    LET row     == pass[p].mine["load"]
        firing  == row.state = "firing"
        Outcome(state, told) ==
            pass' = [pass EXCEPT
                ![p].todo = @ \ {"load"},
                ![p].mine["load"].state = state,
                ![p].told["load"][Self] = told]
    IN  /\ Between(p)
        /\ "load" \in pass[p].todo
        /\ \/ /\ load
              /\ ~ firing \/ ~ InCooldown(p)
              /\ Outcome("firing", Notice("fire", p))
           \/ /\ load => firing /\ InCooldown(p)
              /\ Outcome(row.state, None)
        /\ UNCHANGED <<sourceVars, deployment, load, rules, events, failures>>

(* A rule with one finding: the condition is evaluated, the notice is sent *)
(* and recorded.                                                           *)
RunSingle(p) ==
    LET row     == pass[p].mine["load"]
        firing  == row.state = "firing"
        Outcome(state, told) ==
            pass' = [pass EXCEPT
                ![p].todo = @ \ {"load"},
                ![p].mine["load"].state = state,
                ![p].told["load"][Self] = told]
    IN  /\ Between(p)
        /\ "load" \in pass[p].todo
        /\ \/ /\ load
              /\ ~ firing \/ ~ InCooldown(p)
              /\ Outcome("firing", Notice("fire", p))
           \/ /\ load /\ firing /\ InCooldown(p)
              /\ Outcome("firing", None)
           \/ /\ ~ load /\ firing
              /\ Outcome("normal", Notice("resolved", p))
           \/ /\ ~ load /\ ~ firing
              /\ Outcome("normal", None)
        /\ UNCHANGED <<sourceVars, deployment, load, rules, events, failures>>

IsFiring(entity) == entity # None /\ entity.state = "firing"

(* Mutant: no cooldown per source. *)
NoEntityCooldown(entity, time) == FALSE

EntityInCooldown(entity, time) == time - entity.at < Cooldown

(* Mutant: only the sources that are notified count as found. *)
FireDueOnly(p, kind) ==
    LET row    == pass[p].mine[kind]
        due    == {s \in Findings(kind, row.scope, pass[p].at) :
                      ~ (/\ IsFiring(row.entities[s])
                         /\ EntityInCooldown(row.entities[s], pass[p].at))}
    IN  /\ Between(p)
        /\ kind \in pass[p].todo \intersect Grouped
        /\ pass' = [pass EXCEPT
              ![p].kind = kind,
              ![p].active = due,
              ![p].mine[kind].entities = [s \in Sources |->
                  IF s \in due THEN [state |-> "firing", at |-> pass[p].at] ELSE @[s]],
              ![p].told[kind] = [x \in Subjects |->
                  IF x \in due THEN Notice("fire", p) ELSE @[x]]]
        /\ UNCHANGED <<sourceVars, deployment, load, rules, events, failures>>

(* A rule with a finding per source: the sources are evaluated; those that *)
(* do not fire yet, or again after their cooldown, are notified ...        *)
Fire(p, kind) ==
    LET row    == pass[p].mine[kind]
        active == Findings(kind, row.scope, pass[p].at)
        due    == {s \in active : ~ (/\ IsFiring(row.entities[s])
                                     /\ EntityInCooldown(row.entities[s], pass[p].at))}
    IN  /\ Between(p)
        /\ kind \in pass[p].todo \intersect Grouped
        /\ pass' = [pass EXCEPT
              ![p].kind = kind,
              ![p].active = active,
              ![p].mine[kind].entities = [s \in Sources |->
                  IF s \in due THEN [state |-> "firing", at |-> pass[p].at] ELSE @[s]],
              ![p].told[kind] = [x \in Subjects |->
                  IF x \in due THEN Notice("fire", p) ELSE @[x]]]
        /\ UNCHANGED <<sourceVars, deployment, load, rules, events, failures>>

(* Mutant: a recovery is not recorded. *)
RecoverSilently(p) ==
    LET t         == pass[p]
        kind      == t.kind
        row       == t.mine[kind]
        gone      == {s \in Sources : IsFiring(row.entities[s]) /\ s \notin t.active}
        recovered == {s \in gone : Alive(s)}
    IN  /\ Open(p)
        /\ kind # None
        /\ pass' = [pass EXCEPT ![p] = [t EXCEPT
              !.kind = None,
              !.active = {},
              !.todo = t.todo \ {kind},
              !.mine[kind] = [row EXCEPT
                  !.state = IF t.active = {} THEN "normal" ELSE "firing",
                  !.entities = [s \in Sources |->
                      IF s \in recovered THEN [row.entities[s] EXCEPT !.state = "normal"]
                      ELSE IF s \in gone THEN None ELSE row.entities[s]]]]]
        /\ UNCHANGED <<sourceVars, deployment, load, rules, events, failures>>

(* ... then the firing ones that were not found have recovered, or are     *)
(* revoked and forgotten.                                                  *)
Recover(p) ==
    LET t         == pass[p]
        kind      == t.kind
        row       == t.mine[kind]
        gone      == {s \in Sources : IsFiring(row.entities[s]) /\ s \notin t.active}
        recovered == {s \in gone : Alive(s)}
    IN  /\ Open(p)
        /\ kind # None
        /\ pass' = [pass EXCEPT ![p] = [t EXCEPT
              !.kind = None,
              !.active = {},
              !.todo = t.todo \ {kind},
              !.mine[kind] = [row EXCEPT
                  !.state = IF t.active = {} THEN "normal" ELSE "firing",
                  !.entities = [s \in Sources |->
                      IF s \in recovered THEN [row.entities[s] EXCEPT !.state = "normal"]
                      ELSE IF s \in gone THEN None ELSE row.entities[s]]],
              !.told[kind] = [x \in Subjects |->
                  IF x \in recovered THEN Notice("resolved", p) ELSE t.told[kind][x]]]]
        /\ UNCHANGED <<sourceVars, deployment, load, rules, events, failures>>

Column(read, mine, stored) == IF mine # read THEN mine ELSE stored

(* The commit: the columns of the rules the pass changed, over whatever is *)
(* there by now, and its events.                                           *)
CommitPass(p) ==
    LET t == pass[p]
        Merged(k) == [rules[k] EXCEPT
            !.state = Column(t.read[k].state, t.mine[k].state, @),
            !.entities = Column(t.read[k].entities, t.mine[k].entities, @)]
    IN  /\ Between(p)
        /\ t.todo = {}
        /\ rules' = [k \in Kinds |-> Merged(k)]
        /\ events' = [k \in Kinds |-> [x \in Subjects |->
              IF t.told[k][x] # None THEN t.told[k][x] ELSE events[k][x]]]
        /\ pass' = [pass EXCEPT ![p] = None]
        /\ UNCHANGED <<sourceVars, deployment, load, failures>>

(* An evaluator raises, the database fails, the server stops: the whole    *)
(* pass is rolled back, and what it has sent stays sent.                   *)
FailPass(p) ==
    /\ Open(p)
    /\ failures < deployment.failures
    /\ failures' = failures + 1
    /\ pass' = [pass EXCEPT ![p] = None]
    /\ UNCHANGED <<sourceVars, deployment, load, rules, events>>

-----------------------------------------------------------------------------
(* What goes on beside the passes.                                         *)

LoadChanges ==
    /\ "load" \in deployment.kinds
    /\ load' = ~ load
    /\ UNCHANGED <<sourceVars, deployment, rules, events, pass, failures>>

(* PUT /alerts/{id}: every field of the rule but its firing state.         *)
UpdateRule(kind, enabled, scope) ==
    /\ deployment.edits
    /\ kind \in deployment.kinds
    /\ rules' = [rules EXCEPT ![kind].enabled = enabled, ![kind].scope = scope]
    /\ UNCHANGED <<sourceVars, deployment, load, events, pass, failures>>

SourceStep ==
    /\ \/ \E r \in Requests, s \in deployment.sources, api \in deployment.apis,
               errors \in 0 .. MaxErrors :
            Resolve(r, s, api, errors)
       \/ \E r \in Requests : CommitIngest(r) \/ IngestFails(r)
       \/ \E s \in deployment.sources : Revoke(s, 1)
       \/ now < deployment.until /\ Tick
    /\ UNCHANGED alertVars

PassStep(p) ==
    \/ RunSingle(p)
    \/ \E kind \in Grouped : Fire(p, kind)
    \/ Recover(p)
    \/ CommitPass(p)

Next ==
    \/ SourceStep
    \/ \E p \in Passes : BeginPass(p) \/ PassStep(p) \/ FailPass(p)
    \/ LoadChanges
    \/ \E kind \in Kinds, enabled \in BOOLEAN, scope \in SUBSET deployment.sources :
          UpdateRule(kind, enabled, scope)

Spec == Init /\ [][Next]_vars

(* The loop runs for as long as the server does; of a requested pass       *)
(* nothing is asked.                                                       *)
Fairness == WF_vars(BeginPass(Loop) \/ PassStep(Loop))

FairSpec == Spec /\ Fairness

-----------------------------------------------------------------------------
(* Properties.                                                             *)

TypeOK ==
    /\ SourcesTypeOK
    /\ deployment \in Deployments
    /\ load \in BOOLEAN
    /\ rules \in [Kinds -> RuleRows]
    /\ failures \in 0 .. deployment.failures
    /\ \A p \in Passes : Open(p) =>
          /\ pass[p].mine \in [Kinds -> RuleRows]
          /\ pass[p].todo \subseteq Kinds

Alone == deployment.passes = {Loop}

Firing(kind, x) ==
    IF x = Self THEN rules[kind].state = "firing" ELSE IsFiring(rules[kind].entities[x])

LastTold(kind, x) == IF events[kind][x] = None THEN "resolved" ELSE events[kind][x].what

(* The history an operator reads agrees with the state the engine goes on  *)
(* from: what fires was recorded as fired last, and what was recorded as   *)
(* fired last does fire, unless it was revoked (engine.py, "so the history *)
(* is complete").                                                          *)
StateMatchesHistory ==
    Alone => \A k \in deployment.kinds :
        \A x \in SubjectsOf(k) :
            IF Firing(k, x) THEN LastTold(k, x) = "fire"
            ELSE LastTold(k, x) = "fire" => x # Self /\ ~ Alive(x)

(* While a subject fires it is not notified again within the cooldown      *)
(* (docs/alerting.md, "a source re-fires only after its own cooldown"),    *)
(* whatever fails, is edited or is revoked in between.                     *)
CooldownHeld ==
    [][Alone => \A k \in Kinds, x \in Subjects :
          LET old == events[k][x]
              new == events'[k][x]
          IN  old # None /\ old # new /\ old.what = "fire" /\ new.what = "fire" =>
                  new.at - old.at >= Cooldown]_vars

(* "Source is ingesting again" is said only of a source that is not stale, *)
(* as long as nobody edits the rule's scope (engine.py:202-205).           *)
RecoveryIsReal ==
    [][~ deployment.edits => \A p \in Passes, s \in Sources :
          LET what == "stale_source"
          IN  Open(p) /\ Open(p)' /\ pass[p].told[what][s] # pass'[p].told[what][s]
                  /\ pass'[p].told[what][s].what = "resolved"
              => ~ IsStale(s, pass[p].at)]_vars

(* What is announced is new, or real.                                      *)
NoticesHold == CooldownHeld /\ RecoveryIsReal

Watched(k) == k \in deployment.kinds /\ rules[k].enabled /\ ~ Quiet(now)

Condition(k, x) ==
    IF x = Self THEN load ELSE x \in rules[k].scope /\ Affected(k, x, now)

(* A condition that lasts fires at last, and one that has cleared does not *)
(* fire for ever, whatever passes fail or overlap (docs/alerting.md:3-5).  *)
EventuallyNoticed ==
    LET k == deployment.follows[1]
        x == deployment.follows[2]
    IN  (Watched(k) /\ Condition(k, x) # Firing(k, x))
            ~> (Watched(k) => Condition(k, x) = Firing(k, x))
=============================================================================
