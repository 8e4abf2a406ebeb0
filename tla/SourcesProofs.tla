--------------------------- MODULE SourcesProofs ---------------------------
(***************************************************************************)
(* Proofs about Sources, for every set of sources and requests, and about  *)
(* Alerts, for every set of deployments, whatever else their rules, edits, *)
(* quiet hours and failures are.                                           *)
(***************************************************************************)
EXTENDS Alerts, TLAPS

(* A request that will update a row has found one, which is never deleted. *)
FoundExists ==
    \A r \in Requests :
        request[r] # None /\ ~ request[r].insert => rows[request[r].source] # <<>>

(* The unique constraint: a source with an instance id has one row.        *)
NamedOnce == \A s \in Named : Len(rows[s]) <= 1

SourcesInv == SourcesTypeOK /\ FoundExists /\ NamedOnce

-----------------------------------------------------------------------------
(* What a batch does to a row keeps the row's type and its revocation.     *)
LEMMA HealthType ==
    ASSUME now \in Times, NEW row \in Rows, NEW api \in Apis,
           NEW errors \in 0 .. MaxErrors
    PROVE  /\ Health(row, api, errors) \in Rows
           /\ Health(row, api, errors).revoked = row.revoked
  <1> DEFINE counted == IF WindowLapsed(row) THEN errors ELSE AddErrors(row.errors, errors)
  <1>1. counted \in 0 .. MaxErrors
    BY SourcesAssumption DEF AddErrors, Rows
  <1> HIDE DEF counted
  <1>2. CASE api = "limits"
    BY <1>2 DEF Health
  <1>3. CASE api # "limits"
    <2> DEFINE version  == IF api = "v1" THEN 1 ELSE 2
               ingested == IF errors = 0 THEN now ELSE row.ingested
               window   == IF WindowLapsed(row) THEN now ELSE row.window
    <2>1. /\ version \in 0 .. 2
          /\ ingested \in Times \union {Never}
          /\ window \in Times \union {Never}
      BY DEF Rows
    <2>2. Health(row, api, errors) =
              [row EXCEPT !.version = version, !.ingested = ingested,
                          !.errors = counted, !.window = window]
      BY <1>3 DEF Health, counted
    <2> HIDE DEF version, ingested, window
    <2> QED BY <2>1, <2>2, <1>1 DEF Rows
  <1> QED BY <1>2, <1>3

LEMMA UpdatedType ==
    ASSUME NEW row \in Rows, NEW read \in Rows, NEW new \in Rows
    PROVE  /\ Updated(row, read, new) \in Rows
           /\ new.revoked = read.revoked => Updated(row, read, new).revoked = row.revoked
  BY DEF Updated, Rows

LEMMA NewRowType == now \in Times => NewRow \in Rows
  BY SourcesAssumption DEF NewRow, Rows, Times, Never

-----------------------------------------------------------------------------
LEMMA SourcesInitInv == SourcesInit => SourcesInv
  BY SourcesAssumption
     DEF SourcesInit, SourcesInv, SourcesTypeOK, FoundExists, NamedOnce, Times

LEMMA ResolveInv ==
    ASSUME SourcesInv, NEW r \in Requests, NEW s \in Sources, NEW api \in Apis,
           NEW errors \in 0 .. MaxErrors, Resolve(r, s, api, errors)
    PROVE  SourcesInv'
  <1> USE DEF SourcesInv
  <1>1. SourcesTypeOK'
    <2>1. IF rows[s] = <<>> THEN NewRow \in Rows ELSE rows[s][1] \in Rows
      BY NewRowType DEF SourcesTypeOK
    <2> QED BY <2>1 DEF Resolve, SourcesTypeOK, Lookups
  <1>2. FoundExists'
    BY DEF Resolve, FoundExists, SourcesTypeOK
  <1>3. NamedOnce'
    BY DEF Resolve, NamedOnce
  <1> QED BY <1>1, <1>2, <1>3

(* A commit keeps what the rows are, and every revocation.                 *)
LEMMA CommitInv ==
    ASSUME SourcesInv, NEW r \in Requests, CommitIngest(r)
    PROVE  /\ SourcesInv'
           /\ \A s \in Sources : \A i \in DOMAIN rows[s] :
                 rows[s][i].revoked => rows'[s][i].revoked
  <1> DEFINE t   == request[r]
             new == Health(t.found, t.api, t.errors)
  <1>1. t \in Lookups
    BY DEF SourcesInv, SourcesTypeOK, CommitIngest
  <1>2. new \in Rows /\ new.revoked = t.found.revoked
    BY <1>1, HealthType DEF SourcesInv, SourcesTypeOK, Lookups
  <1>3. /\ now' = now
        /\ request' = [request EXCEPT ![r] = None]
    BY DEF CommitIngest
  <1> HIDE DEF new
  <1>4. CASE ~ t.insert
    <2>1. rows[t.source] # <<>> /\ rows[t.source] \in Seq(Rows)
      BY <1>1, <1>4 DEF SourcesInv, FoundExists, SourcesTypeOK, Lookups, CommitIngest
    <2>2. 1 \in DOMAIN rows[t.source] /\ rows[t.source][1] \in Rows
      BY <2>1
    <2> DEFINE row == Updated(rows[t.source][1], t.found, new)
    <2>3. row \in Rows /\ (rows[t.source][1].revoked => row.revoked)
      BY <1>1, <1>2, <2>2, UpdatedType DEF Lookups
    <2>4. rows' = [rows EXCEPT ![t.source][1] = row]
      BY <1>4 DEF CommitIngest, new
    <2> HIDE DEF row
    <2>5. /\ [rows[t.source] EXCEPT ![1] = row] \in Seq(Rows)
          /\ Len([rows[t.source] EXCEPT ![1] = row]) = Len(rows[t.source])
      BY <2>1, <2>2, <2>3
    <2>6. /\ rows' \in [Sources -> Seq(Rows)]
          /\ \A s \in Sources : Len(rows'[s]) = Len(rows[s])
      BY <1>1, <2>4, <2>5 DEF SourcesInv, SourcesTypeOK, Lookups
    <2>7. \A s \in Sources : rows[s] # <<>> => rows'[s] # <<>>
      BY <2>6, <2>5, <2>4, <2>1, <2>2 DEF SourcesInv, SourcesTypeOK
    <2>8. SourcesInv'
      BY <1>3, <2>6, <2>7, SourcesAssumption
         DEF SourcesInv, SourcesTypeOK, FoundExists, NamedOnce, Lookups
    <2> QED BY <2>3, <2>4, <2>8 DEF SourcesInv, SourcesTypeOK
  <1>5. CASE t.insert /\ t.source \in Named /\ rows[t.source] # <<>>
    <2>1. rows' = rows
      BY <1>5 DEF CommitIngest
    <2> QED BY <1>3, <2>1 DEF SourcesInv, SourcesTypeOK, FoundExists, NamedOnce, Lookups
  <1>6. CASE t.insert /\ ~ (t.source \in Named /\ rows[t.source] # <<>>)
    <2>1. rows' = [rows EXCEPT ![t.source] = Append(@, new)]
      BY <1>6 DEF CommitIngest, new
    <2>2. rows' \in [Sources -> Seq(Rows)]
      BY <1>1, <1>2, <2>1 DEF SourcesInv, SourcesTypeOK, Lookups
    <2>3. \A s \in Sources : rows[s] # <<>> => rows'[s] # <<>>
      BY <1>1, <1>2, <2>1 DEF SourcesInv, SourcesTypeOK, Lookups
    <2>4. NamedOnce'
      BY <1>1, <1>2, <1>6, <2>1, SourcesAssumption
         DEF SourcesInv, SourcesTypeOK, NamedOnce, Lookups
    <2>5. SourcesInv'
      BY <1>3, <2>2, <2>3, <2>4 DEF SourcesInv, SourcesTypeOK, FoundExists, Lookups
    <2>6. ASSUME NEW s \in Sources, NEW i \in DOMAIN rows[s]
          PROVE  rows'[s][i] = rows[s][i]
      BY <1>1, <1>2, <2>1 DEF SourcesInv, SourcesTypeOK, Lookups
    <2> QED BY <2>5, <2>6
  <1> QED BY <1>4, <1>5, <1>6

LEMMA RevokeInv ==
    ASSUME SourcesInv, NEW s \in Sources, NEW i \in 1 .. 2, Revoke(s, i)
    PROVE  /\ SourcesInv'
           /\ \A q \in Sources : \A j \in DOMAIN rows[q] :
                 rows[q][j].revoked => rows'[q][j].revoked
  <1>1. rows[s] \in Seq(Rows) /\ i \in DOMAIN rows[s] /\ rows[s][i] \in Rows
    BY DEF SourcesInv, SourcesTypeOK, Revoke
  <1> DEFINE row == [rows[s][i] EXCEPT !.revoked = TRUE]
             own == [rows[s] EXCEPT ![i] = row]
  <1>2. row \in Rows /\ row.revoked
    BY <1>1 DEF Rows
  <1>3. rows' = [rows EXCEPT ![s] = own]
    BY DEF Revoke
  <1> HIDE DEF row
  <1>4. own \in Seq(Rows) /\ Len(own) = Len(rows[s]) /\ own # <<>>
    BY <1>1, <1>2
  <1>5. \A j \in DOMAIN rows[s] : rows[s][j].revoked => own[j].revoked
    BY <1>1, <1>2
  <1> HIDE DEF own
  <1>6. SourcesInv'
    BY <1>3, <1>4, SourcesAssumption
       DEF SourcesInv, SourcesTypeOK, FoundExists, NamedOnce, Lookups, Revoke
  <1> QED BY <1>3, <1>5, <1>6 DEF SourcesInv, SourcesTypeOK

LEMMA SourcesNextInv ==
    ASSUME SourcesInv, [SourcesNext]_sourceVars
    PROVE  /\ SourcesInv'
           /\ \A s \in Sources : \A i \in DOMAIN rows[s] :
                 rows[s][i].revoked => rows'[s][i].revoked
  <1>1. ASSUME NEW r \in Requests, NEW s \in Sources, NEW api \in Apis,
               NEW errors \in 0 .. MaxErrors, Resolve(r, s, api, errors)
        PROVE  SourcesInv' /\ rows' = rows
    BY <1>1, ResolveInv DEF Resolve
  <1>2. ASSUME NEW r \in Requests, IngestFails(r)
        PROVE  SourcesInv' /\ rows' = rows
    BY <1>2 DEF IngestFails, SourcesInv, SourcesTypeOK, FoundExists, NamedOnce, Lookups
  <1>3. CASE Tick
    BY <1>3, SourcesAssumption
       DEF Tick, SourcesInv, SourcesTypeOK, FoundExists, NamedOnce, Times
  <1>4. CASE UNCHANGED sourceVars
    BY <1>4 DEF sourceVars, SourcesInv, SourcesTypeOK, FoundExists, NamedOnce
  <1> QED BY <1>1, <1>2, <1>3, <1>4, CommitInv, RevokeInv DEF SourcesNext

-----------------------------------------------------------------------------
(* In every reachable state the registry is well typed, requests in        *)
(* progress included (services/sources.py).                                *)
THEOREM RegistryTyped == SourcesSpec => []SourcesTypeOK
  <1>1. SourcesInv => SourcesTypeOK
    BY DEF SourcesInv
  <1> QED BY <1>1, SourcesInitInv, SourcesNextInv, PTL DEF SourcesSpec

(* However ingest requests overlap, a source that has an instance id has   *)
(* one row: the unique key of table sources refuses the second insert.     *)
THEOREM NamedSourcesOnce == SourcesSpec => []NamedOnce
  <1>1. SourcesInv => NamedOnce
    BY DEF SourcesInv
  <1> QED BY <1>1, SourcesInitInv, SourcesNextInv, PTL DEF SourcesSpec

(* No request in progress takes a revocation back when it writes the row   *)
(* it read before (services/sources.py:147-185, api/v2/sources.py:139).    *)
THEOREM RevocationsStick == SourcesSpec => RevocationSticks
  <1>1. SourcesInv /\ [SourcesNext]_sourceVars =>
            [\A s \in Sources : \A i \in DOMAIN rows[s] :
                rows[s][i].revoked => rows'[s][i].revoked]_sourceVars
    BY SourcesNextInv
  <1> QED BY <1>1, SourcesInitInv, SourcesNextInv, PTL DEF SourcesSpec, RevocationSticks

-----------------------------------------------------------------------------
(***************************************************************************)
(* The alert engine.  What it says of the committed rules and history must *)
(* hold of the state an open pass will commit, so the invariant is stated  *)
(* of both: Agrees relates a rule row to the last notice of a subject, be  *)
(* they those of the database or those of the pass.                        *)
(***************************************************************************)

Tellings == [Kinds -> [Subjects -> Notices \union {None}]]

(* A pass that is open.                                                    *)
PassTyped(p) ==
    /\ DOMAIN pass[p] = {"at", "read", "mine", "told", "kind", "active", "todo"}
    /\ pass[p].at \in Times /\ pass[p].at <= now
    /\ pass[p].read \in [Kinds -> RuleRows]
    /\ pass[p].mine \in [Kinds -> RuleRows]
    /\ pass[p].told \in Tellings
    /\ pass[p].kind \in Grouped \union {None}
    /\ pass[p].active \subseteq Sources
    /\ pass[p].todo \subseteq Kinds

AlertsTyped ==
    /\ SourcesInv
    /\ deployment \in Deployments
    /\ load \in BOOLEAN
    /\ rules \in [Kinds -> RuleRows]
    /\ events \in Tellings
    /\ DOMAIN pass = Passes
    /\ \A p \in Passes : Open(p) => PassTyped(p) /\ p \in deployment.passes

(* A source that fires has been seen, and is one of the deployment's.      *)
Known(row) ==
    /\ row.scope \subseteq deployment.sources
    /\ \A s \in Sources :
          IsFiring(row.entities[s]) => rows[s] # <<>> /\ s \in deployment.sources

EachKnown ==
    /\ \A k \in Kinds : Known(rules[k])
    /\ \A p \in Passes : Open(p) =>
          \A k \in Kinds : Known(pass[p].read[k]) /\ Known(pass[p].mine[k])

(* A rule row agrees with the last notice of a subject, or None.           *)
Fired(event) == event # None /\ event.what = "fire"

Agrees(x, row, event) ==
    IF x = Self THEN row.state = "firing" <=> Fired(event)
    ELSE IF IsFiring(row.entities[x])
         THEN Fired(event) /\ event.at = row.entities[x].at
         ELSE Fired(event) => rows[x] # <<>> /\ rows[x][1].revoked

(* What the history will say last of a subject when pass p commits.        *)
EventBy(p, k, x) == IF pass[p].told[k][x] # None THEN pass[p].told[k][x] ELSE events[k][x]

SameState(a, b) == a.state = b.state /\ a.entities = b.entities

(* The only pass: what it read is as it was; of the rules it has not come  *)
(* to it has changed and told nothing; and what it tells is due.           *)
PassAgrees(p) ==
    /\ \A k \in Kinds : SameState(pass[p].read[k], rules[k])
    /\ \A k \in pass[p].todo : k # pass[p].kind =>
          /\ SameState(pass[p].mine[k], rules[k])
          /\ \A x \in Subjects : pass[p].told[k][x] = None
    /\ \A k \in Kinds : \A x \in SubjectsOf(k) : Agrees(x, pass[p].mine[k], EventBy(p, k, x))
    /\ \A k \in Kinds : \A x \in Subjects :
          Fired(pass[p].told[k][x]) /\ Fired(events[k][x]) =>
              pass[p].told[k][x].at - events[k][x].at >= Cooldown
    /\ \A k \in Kinds : \A x \in Subjects \ SubjectsOf(k) : pass[p].told[k][x] = None

HistoryAgrees ==
    Alone => /\ \A k \in Kinds : \A x \in SubjectsOf(k) : Agrees(x, rules[k], events[k][x])
             /\ \A p \in Passes : Open(p) => PassAgrees(p)

(* The sources a pass will declare recovered are not stale.                *)
PassJust(p) ==
    /\ \A k \in Kinds : pass[p].mine[k].scope = deployment.sources
    /\ pass[p].kind = "stale_source" =>
          \A s \in Sources \ pass[p].active :
              IsFiring(pass[p].mine["stale_source"].entities[s]) /\ Alive(s)
                  => ~ IsStale(s, pass[p].at)

RecoveryJust ==
    ~ deployment.edits =>
        /\ \A k \in Kinds : rules[k].scope = deployment.sources
        /\ \A p \in Passes : Open(p) => PassJust(p)

AlertsInv == AlertsTyped /\ EachKnown /\ HistoryAgrees /\ RecoveryJust

-----------------------------------------------------------------------------
LEMMA AlertFacts ==
    /\ Self \notin Sources /\ "load" \in Kinds /\ Grouped \subseteq Kinds /\ Self \in Subjects
    /\ Kinds = Grouped \union {"load"} /\ "load" \notin Grouped /\ Sources \subseteq Subjects
    /\ SubjectsOf("load") = {Self} /\ \A k \in Grouped : SubjectsOf(k) = Sources
    /\ None \notin Kinds /\ None \notin EntityStates /\ None \notin Notices
    /\ \A d \in Deployments :
          d.sources \subseteq Sources /\ d.apis \subseteq Apis /\ d.kinds \subseteq Kinds
    /\ Cooldown \in Nat /\ StaleAfter \in Nat \ {0} /\ Named = Sources
    /\ Times \subseteq Nat
  BY AlertsAssumption DEF Kinds, Grouped, Subjects, SubjectsOf, Times

(* Once a source has a row, its first row stays, and stays revoked; its    *)
(* health only moves to the present.                                       *)
RowAged(s) ==
    rows[s] # <<>> =>
        /\ rows'[s] # <<>>
        /\ rows'[s][1].firstSeen = rows[s][1].firstSeen
        /\ rows'[s][1].ingested \in {rows[s][1].ingested, now}
        /\ rows[s][1].revoked => rows'[s][1].revoked

LEMMA UpdatedAges ==
    ASSUME now \in Times, NEW row \in Rows, NEW found \in Rows, NEW api \in Apis,
           NEW errors \in 0 .. MaxErrors
    PROVE  LET new == Updated(row, found, Health(found, api, errors))
           IN  new.firstSeen = row.firstSeen /\ new.ingested \in {row.ingested, now}
  <1> DEFINE health == Health(found, api, errors)
  <1>1. health.firstSeen = found.firstSeen /\ health.ingested \in {found.ingested, now}
    BY DEF Health, Rows
  <1>2. health \in Rows
    BY HealthType
  <1> HIDE DEF health
  <1>3. Updated(row, found, health).firstSeen = row.firstSeen
        /\ Updated(row, found, health).ingested \in {row.ingested, now}
    BY <1>1, <1>2 DEF Updated, Rows
  <1> QED BY <1>3 DEF health

LEMMA SourcesAge ==
    ASSUME SourcesInv, SourcesNext, Named = Sources
    PROVE  /\ \A s \in Sources : RowAged(s)
           /\ now' \in Times /\ now \in Times /\ now' >= now
  <1>0. SourcesInv' /\ now \in Times /\ now' \in Times
    BY SourcesNextInv DEF SourcesInv, SourcesTypeOK
  <1>1. now' >= now
    <2>1. now' = now \/ now' = now + 1
      BY DEF SourcesNext, Resolve, CommitIngest, IngestFails, Revoke, Tick
    <2> QED BY <1>0, <2>1 DEF Times
  <1>2. ASSUME NEW s \in Sources, rows[s] # <<>> PROVE RowAged(s)
    <2>1. rows[s] \in Seq(Rows) /\ 1 \in DOMAIN rows[s] /\ rows[s][1] \in Rows
      BY <1>2 DEF SourcesInv, SourcesTypeOK
    <2>2. rows[s][1].revoked => rows'[s][1].revoked
      BY <2>1, SourcesNextInv
    <2>3. CASE rows'[s] = rows[s]
      BY <1>2, <2>3 DEF RowAged
    <2>4. ASSUME NEW r \in Requests, CommitIngest(r), rows'[s] # rows[s]
          PROVE  RowAged(s)
      <3> DEFINE t == request[r]
                 row == Updated(rows[s][1], t.found, Health(t.found, t.api, t.errors))
      <3>1. t \in Lookups
        BY <2>4 DEF SourcesInv, SourcesTypeOK, CommitIngest
      <3>2. ~ t.insert /\ t.source = s /\ rows' = [rows EXCEPT ![s][1] = row]
        BY <1>2, <2>4, <3>1, SourcesAssumption
           DEF CommitIngest, Lookups, SourcesInv, SourcesTypeOK
      <3>3. row.firstSeen = rows[s][1].firstSeen /\ row.ingested \in {rows[s][1].ingested, now}
        BY <1>0, <2>1, <3>1, UpdatedAges DEF Lookups
      <3> HIDE DEF row, t
      <3>4. rows'[s] = [rows[s] EXCEPT ![1] = row]
        BY <3>2 DEF SourcesInv, SourcesTypeOK
      <3>5. rows'[s][1] = row /\ rows'[s] # <<>>
        BY <2>1, <3>4
      <3> QED BY <2>2, <3>3, <3>5 DEF RowAged
    <2>5. ASSUME NEW q \in Sources, NEW i \in 1 .. 2, Revoke(q, i), rows'[s] # rows[s]
          PROVE  RowAged(s)
      <3>1. q = s /\ rows'[s] = [rows[s] EXCEPT ![i].revoked = TRUE] /\ i \in DOMAIN rows[s]
        BY <2>5 DEF Revoke, SourcesInv, SourcesTypeOK
      <3>2. /\ rows'[s] # <<>>
            /\ rows'[s][1].firstSeen = rows[s][1].firstSeen
            /\ rows'[s][1].ingested = rows[s][1].ingested
        BY <2>1, <3>1 DEF Rows
      <3> QED BY <2>2, <3>2 DEF RowAged
    <2>6. ASSUME rows' = rows PROVE rows'[s] = rows[s]
      BY <2>6
    <2> QED BY <2>3, <2>4, <2>5, <2>6 DEF SourcesNext, Resolve, IngestFails, Tick
  <1> QED BY <1>0, <1>1, <1>2 DEF RowAged

LEMMA SourceSteps ==
    ASSUME AlertsTyped, SourceStep
    PROVE  SourcesNext /\ UNCHANGED alertVars
  <1>1. deployment.sources \subseteq Sources /\ deployment.apis \subseteq Apis
    BY AlertFacts DEF AlertsTyped
  <1> QED BY <1>1 DEF SourceStep, SourcesNext

-----------------------------------------------------------------------------
(* What a step of pass p leaves: the pass with some of its parts changed.  *)
PassBecomes(p, mine, told, kind, active, todo) ==
    /\ DOMAIN pass' = Passes
    /\ \A q \in Passes \ {p} : pass'[q] = pass[q]
    /\ DOMAIN pass'[p] = DOMAIN pass[p]
    /\ pass'[p].at = pass[p].at /\ pass'[p].read = pass[p].read
    /\ pass'[p].mine = mine /\ pass'[p].told = told /\ pass'[p].kind = kind
    /\ pass'[p].active = active /\ pass'[p].todo = todo

LEMMA PassUpdated ==
    ASSUME NEW p \in Passes, PassTyped(p), now' = now,
           NEW mine \in [Kinds -> RuleRows], NEW told \in Tellings,
           NEW kind \in Grouped \union {None}, NEW active \in SUBSET Sources,
           NEW todo \in SUBSET Kinds, PassBecomes(p, mine, told, kind, active, todo)
    PROVE  PassTyped(p)'
  BY DEF PassBecomes, PassTyped

LEMMA NoticeType ==
    ASSUME NEW p, pass[p].at \in Times
    PROVE  /\ \A what \in {"fire", "resolved"} : Notice(what, p) \in Notices
           /\ \A what : Notice(what, p).what = what /\ Notice(what, p).at = pass[p].at
           /\ \A what \in {"fire", "resolved"} : Notice(what, p) # None
  BY AlertFacts DEF Notice, Notices

LEMMA SingleFacts ==
    ASSUME AlertsTyped, NEW p \in Passes, RunSingle(p)
    PROVE  /\ UNCHANGED <<sourceVars, deployment, load, rules, events, failures>>
           /\ Open(p) /\ PassTyped(p) /\ pass[p].kind = None /\ "load" \in pass[p].todo
           /\ \E state \in {"firing", "normal"}, told \in Notices \union {None} :
                LET row == pass[p].mine["load"]
                IN  /\ PassBecomes(p,
                          [pass[p].mine EXCEPT !["load"].state = state],
                          [pass[p].told EXCEPT !["load"][Self] = told],
                          None, pass[p].active, pass[p].todo \ {"load"})
                    /\ \/ /\ row.state = "firing" => ~ InCooldown(p)
                          /\ state = "firing" /\ told = Notice("fire", p)
                       \/ row.state = "firing" /\ state = "firing" /\ told = None
                       \/ row.state = "firing" /\ state = "normal" /\ told = Notice("resolved", p)
                       \/ row.state # "firing" /\ state = "normal" /\ told = None
  <1>1. /\ UNCHANGED <<sourceVars, deployment, load, rules, events, failures>>
        /\ Open(p) /\ pass[p].kind = None /\ "load" \in pass[p].todo
        /\ PassTyped(p) /\ DOMAIN pass = Passes
    BY DEF RunSingle, Between, AlertsTyped
  <1> DEFINE row == pass[p].mine["load"]
             Outcome(state, told) == pass' = [pass EXCEPT
                ![p].todo = @ \ {"load"},
                ![p].mine["load"].state = state,
                ![p].told["load"][Self] = told]
  <1>2. \/ (row.state # "firing" \/ ~ InCooldown(p)) /\ Outcome("firing", Notice("fire", p))
        \/ row.state = "firing" /\ Outcome("firing", None)
        \/ row.state = "firing" /\ Outcome("normal", Notice("resolved", p))
        \/ row.state # "firing" /\ Outcome("normal", None)
    BY DEF RunSingle
  <1>3. ASSUME NEW state, NEW told, Outcome(state, told)
        PROVE  PassBecomes(p, [pass[p].mine EXCEPT !["load"].state = state],
                           [pass[p].told EXCEPT !["load"][Self] = told],
                           None, pass[p].active, pass[p].todo \ {"load"})
    <2> DEFINE r == [pass[p] EXCEPT !.todo = @ \ {"load"}, !.mine["load"].state = state,
                                    !.told["load"][Self] = told]
               mine == [pass[p].mine EXCEPT !["load"].state = state]
               news == [pass[p].told EXCEPT !["load"][Self] = told]
    <2>1. pass' = [pass EXCEPT ![p] = r]
      BY <1>3
    <2>2. r = [pass[p] EXCEPT !.todo = @ \ {"load"}, !.mine = mine, !.told = news]
      OBVIOUS
    <2> HIDE DEF r, mine, news
    <2>3. /\ DOMAIN r = DOMAIN pass[p] /\ r.at = pass[p].at /\ r.read = pass[p].read
          /\ r.mine = mine /\ r.told = news /\ r.kind = pass[p].kind
          /\ r.active = pass[p].active /\ r.todo = pass[p].todo \ {"load"}
      BY <1>1, <2>2 DEF PassTyped
    <2>4. DOMAIN pass' = Passes /\ pass'[p] = r /\ \A q \in Passes \ {p} : pass'[q] = pass[q]
      BY <1>1, <2>1
    <2> QED BY <1>1, <2>3, <2>4 DEF PassBecomes, mine, news
  <1>4. Notice("fire", p) \in Notices /\ Notice("resolved", p) \in Notices
    BY <1>1, NoticeType DEF PassTyped
  <1> HIDE DEF Outcome
  <1> QED BY <1>1, <1>2, <1>3, <1>4

(* The sources a grouped rule finds, those it notifies, and those that no  *)
(* longer count when the notices are out.                                  *)
FoundBy(p, kind) == Findings(kind, pass[p].mine[kind].scope, pass[p].at)

DueBy(p, kind) ==
    {s \in FoundBy(p, kind) :
        ~ (/\ IsFiring(pass[p].mine[kind].entities[s])
           /\ EntityInCooldown(pass[p].mine[kind].entities[s], pass[p].at))}

GoneBy(p, kind) ==
    {s \in Sources : IsFiring(pass[p].mine[kind].entities[s]) /\ s \notin pass[p].active}

LEMMA RuleFacts ==
    ASSUME NEW row \in RuleRows
    PROVE  /\ row.scope \in SUBSET Sources
           /\ row.entities \in [Sources -> EntityStates \union {None}]
           /\ row.state \in {"firing", "normal"}
           /\ \A state \in {"firing", "normal"} : [row EXCEPT !.state = state] \in RuleRows
           /\ \A f \in [Sources -> EntityStates \union {None}] :
                 [row EXCEPT !.entities = f] \in RuleRows
           /\ \A state \in {"firing", "normal"}, f \in [Sources -> EntityStates \union {None}] :
                 LET new == [row EXCEPT !.state = state, !.entities = f]
                 IN  new \in RuleRows /\ new.scope = row.scope /\ new.entities = f
  BY DEF RuleRows

FireOutcome(p, kind, mine, told) ==
    /\ PassBecomes(p, mine, told, kind, FoundBy(p, kind), pass[p].todo)
    /\ \A k \in Kinds \ {kind} : mine[k] = pass[p].mine[k] /\ told[k] = pass[p].told[k]
    /\ mine[kind].state = pass[p].mine[kind].state
    /\ mine[kind].scope = pass[p].mine[kind].scope
    /\ \A s \in Sources : mine[kind].entities[s] =
          IF s \in DueBy(p, kind) THEN [state |-> "firing", at |-> pass[p].at]
          ELSE pass[p].mine[kind].entities[s]
    /\ \A x \in Subjects : told[kind][x] =
          IF x \in DueBy(p, kind) THEN Notice("fire", p) ELSE pass[p].told[kind][x]

RecoverOutcome(p, kind, mine, told) ==
    /\ PassBecomes(p, mine, told, None, {}, pass[p].todo \ {kind})
    /\ \A k \in Kinds \ {kind} : mine[k] = pass[p].mine[k] /\ told[k] = pass[p].told[k]
    /\ mine[kind].scope = pass[p].mine[kind].scope
    /\ \A s \in Sources :
          /\ s \in GoneBy(p, kind) /\ Alive(s) =>
                mine[kind].entities[s] # None /\ mine[kind].entities[s].state = "normal"
          /\ s \in GoneBy(p, kind) /\ ~ Alive(s) => mine[kind].entities[s] = None
          /\ s \notin GoneBy(p, kind) =>
                mine[kind].entities[s] = pass[p].mine[kind].entities[s]
    /\ \A x \in Subjects : told[kind][x] =
          IF x \in GoneBy(p, kind) /\ Alive(x) THEN Notice("resolved", p)
          ELSE pass[p].told[kind][x]

LEMMA FireFacts ==
    ASSUME AlertsTyped, NEW p \in Passes, NEW kind \in Grouped, Fire(p, kind)
    PROVE  /\ UNCHANGED <<sourceVars, deployment, load, rules, events, failures>>
           /\ Open(p) /\ PassTyped(p) /\ pass[p].kind = None /\ kind \in pass[p].todo
           /\ FoundBy(p, kind) \subseteq Sources
           /\ \E mine \in [Kinds -> RuleRows], told \in Tellings : FireOutcome(p, kind, mine, told)
  <1>1. /\ UNCHANGED <<sourceVars, deployment, load, rules, events, failures>>
        /\ Open(p) /\ pass[p].kind = None /\ kind \in pass[p].todo
        /\ PassTyped(p) /\ DOMAIN pass = Passes /\ kind \in Kinds
    BY AlertFacts DEF Fire, Between, AlertsTyped
  <1> DEFINE t == pass[p]
             ents == [s \in Sources |->
                  IF s \in DueBy(p, kind) THEN [state |-> "firing", at |-> t.at]
                  ELSE t.mine[kind].entities[s]]
             news == [x \in Subjects |->
                  IF x \in DueBy(p, kind) THEN Notice("fire", p) ELSE t.told[kind][x]]
             mine == [t.mine EXCEPT ![kind].entities = ents]
             told == [t.told EXCEPT ![kind] = news]
             r == [t EXCEPT !.kind = kind, !.active = FoundBy(p, kind), !.mine = mine, !.told = told]
  <1>2. pass' = [pass EXCEPT ![p] = r]
    BY DEF Fire, DueBy, FoundBy
  <1>3. /\ t.mine \in [Kinds -> RuleRows] /\ t.told \in Tellings /\ t.mine[kind] \in RuleRows
        /\ t.at \in Times /\ FoundBy(p, kind) \subseteq Sources
    BY <1>1, RuleFacts DEF PassTyped, FoundBy, Findings
  <1>4. ents \in [Sources -> EntityStates \union {None}] /\ news \in [Subjects -> Notices \union {None}]
    <2>1. [state |-> "firing", at |-> t.at] \in EntityStates /\ Notice("fire", p) \in Notices
      BY <1>3, NoticeType DEF EntityStates
    <2>2. t.mine[kind].entities \in [Sources -> EntityStates \union {None}]
          /\ t.told[kind] \in [Subjects -> Notices \union {None}]
      BY <1>1, <1>3, RuleFacts DEF Tellings
    <2> QED BY <2>1, <2>2
  <1>5. \A s \in Sources : ents[s] = IF s \in DueBy(p, kind) THEN [state |-> "firing", at |-> t.at]
                                     ELSE t.mine[kind].entities[s]
    OBVIOUS
  <1>6. \A x \in Subjects : news[x] = IF x \in DueBy(p, kind) THEN Notice("fire", p)
                                      ELSE t.told[kind][x]
    OBVIOUS
  <1> HIDE DEF ents, news
  <1>7. mine[kind] = [t.mine[kind] EXCEPT !.entities = ents] /\ told[kind] = news
        /\ \A k \in Kinds \ {kind} : mine[k] = t.mine[k] /\ told[k] = t.told[k]
    BY <1>1, <1>3 DEF Tellings
  <1>8. mine \in [Kinds -> RuleRows] /\ told \in Tellings
    BY <1>1, <1>3, <1>4, <1>7, RuleFacts DEF Tellings
  <1>9. /\ mine[kind].state = t.mine[kind].state /\ mine[kind].scope = t.mine[kind].scope
        /\ mine[kind].entities = ents
    BY <1>3, <1>7 DEF RuleRows
  <1> HIDE DEF mine, told
  <1>10. /\ DOMAIN r = DOMAIN t /\ r.at = t.at /\ r.read = t.read /\ r.mine = mine
         /\ r.told = told /\ r.kind = kind /\ r.active = FoundBy(p, kind) /\ r.todo = t.todo
    BY <1>1 DEF PassTyped
  <1> HIDE DEF r
  <1>11. DOMAIN pass' = Passes /\ pass'[p] = r /\ \A q \in Passes \ {p} : pass'[q] = pass[q]
    BY <1>1, <1>2
  <1>12. PassBecomes(p, mine, told, kind, FoundBy(p, kind), t.todo)
    BY <1>10, <1>11 DEF PassBecomes
  <1>13. /\ \A s \in Sources : mine[kind].entities[s] =
               IF s \in DueBy(p, kind) THEN [state |-> "firing", at |-> t.at]
               ELSE t.mine[kind].entities[s]
         /\ \A x \in Subjects : told[kind][x] =
               IF x \in DueBy(p, kind) THEN Notice("fire", p) ELSE t.told[kind][x]
    BY <1>5, <1>6, <1>7, <1>9
  <1>14. FireOutcome(p, kind, mine, told)
    BY <1>7, <1>9, <1>12, <1>13 DEF FireOutcome
  <1> QED BY <1>1, <1>3, <1>8, <1>14

LEMMA RecoverFacts ==
    ASSUME AlertsTyped, NEW p \in Passes, Recover(p)
    PROVE  /\ UNCHANGED <<sourceVars, deployment, load, rules, events, failures>>
           /\ Open(p) /\ PassTyped(p) /\ pass[p].kind \in Grouped
           /\ \E mine \in [Kinds -> RuleRows], told \in Tellings :
                 RecoverOutcome(p, pass[p].kind, mine, told)
  <1> DEFINE t == pass[p]
             kind == t.kind
             row == t.mine[kind]
             gone == GoneBy(p, kind)
             recovered == {s \in gone : Alive(s)}
             state == IF t.active = {} THEN "normal" ELSE "firing"
             ents == [s \in Sources |->
                  IF s \in recovered THEN [row.entities[s] EXCEPT !.state = "normal"]
                  ELSE IF s \in gone THEN None ELSE row.entities[s]]
             news == [x \in Subjects |->
                  IF x \in recovered THEN Notice("resolved", p) ELSE t.told[kind][x]]
             changed == [row EXCEPT !.state = state, !.entities = ents]
             mine == [t.mine EXCEPT ![kind] = changed]
             told == [t.told EXCEPT ![kind] = news]
             r == [t EXCEPT !.kind = None, !.active = {}, !.todo = @ \ {kind},
                            !.mine = mine, !.told = told]
  <1>1. /\ UNCHANGED <<sourceVars, deployment, load, rules, events, failures>>
        /\ Open(p) /\ kind \in Grouped /\ kind \in Kinds
        /\ PassTyped(p) /\ DOMAIN pass = Passes
    BY AlertFacts DEF Recover, AlertsTyped, PassTyped
  <1>2. pass' = [pass EXCEPT ![p] = r]
    <2> DEFINE step == [t EXCEPT !.kind = None, !.active = {}, !.todo = @ \ {kind},
                                 !.mine[kind] = changed, !.told[kind] = news]
    <2>1. pass' = [pass EXCEPT ![p] = step]
      BY Zenon DEF Recover, GoneBy
    <2> HIDE DEF changed, news, kind
    <2>2. step = r
      OBVIOUS
    <2> HIDE DEF r, step
    <2> QED BY <2>1, <2>2
  <1>3. /\ t.mine \in [Kinds -> RuleRows] /\ t.told \in Tellings /\ row \in RuleRows
        /\ t.at \in Times /\ gone \subseteq Sources
        /\ row.entities \in [Sources -> EntityStates \union {None}]
    BY <1>1, RuleFacts DEF PassTyped, GoneBy
  <1>4. ASSUME NEW s \in gone
        PROVE  /\ [row.entities[s] EXCEPT !.state = "normal"] \in EntityStates
               /\ [row.entities[s] EXCEPT !.state = "normal"].state = "normal"
    <2>1. row.entities[s] \in EntityStates
      BY <1>3 DEF GoneBy, IsFiring
    <2> QED BY <2>1 DEF EntityStates
  <1>5. ASSUME NEW s \in Sources
        PROVE  /\ s \in gone /\ Alive(s) => ents[s] \in EntityStates /\ ents[s].state = "normal"
               /\ s \in gone /\ ~ Alive(s) => ents[s] = None
               /\ s \notin gone => ents[s] = row.entities[s]
    BY <1>4
  <1>6. \A x \in Subjects : news[x] = IF x \in gone /\ Alive(x) THEN Notice("resolved", p)
                                      ELSE t.told[kind][x]
    OBVIOUS
  <1>7. ents \in [Sources -> EntityStates \union {None}] /\ news \in [Subjects -> Notices \union {None}]
    <2>1. ents \in [Sources -> EntityStates \union {None}]
      <3>1. \A s \in Sources : ents[s] \in EntityStates \union {None}
        <4> HIDE DEF ents, gone, row
        <4> QED BY <1>3, <1>5
      <3> QED BY <3>1
    <2>2. Notice("resolved", p) \in Notices /\ t.told[kind] \in [Subjects -> Notices \union {None}]
      BY <1>1, <1>3, NoticeType DEF Tellings
    <2> QED BY <2>1, <2>2
  <1> HIDE DEF ents, news, gone
  <1>8. state \in {"firing", "normal"}
    OBVIOUS
  <1> HIDE DEF state
  <1>9. changed \in RuleRows /\ changed.scope = row.scope /\ changed.entities = ents
    <2> HIDE DEF row
    <2> QED BY <1>3, <1>7, <1>8 DEF RuleRows
  <1> HIDE DEF changed
  <1>10. /\ mine \in [Kinds -> RuleRows] /\ told \in Tellings
         /\ mine[kind] = changed /\ told[kind] = news
         /\ \A k \in Kinds \ {kind} : mine[k] = t.mine[k] /\ told[k] = t.told[k]
    <2> HIDE DEF kind
    <2> QED BY <1>1, <1>3, <1>7, <1>9 DEF Tellings
  <1> HIDE DEF mine, told
  <1>11. mine[kind].scope = row.scope /\ mine[kind].entities = ents
    BY <1>9, <1>10
  <1>12. /\ DOMAIN r = DOMAIN t /\ r.at = t.at /\ r.read = t.read /\ r.mine = mine
         /\ r.told = told /\ r.kind = None /\ r.active = {} /\ r.todo = t.todo \ {kind}
    BY <1>1 DEF PassTyped
  <1> HIDE DEF r
  <1>13. DOMAIN pass' = Passes /\ pass'[p] = r /\ \A q \in Passes \ {p} : pass'[q] = pass[q]
    BY <1>1, <1>2
  <1>14. PassBecomes(p, mine, told, None, {}, t.todo \ {kind})
    BY <1>12, <1>13 DEF PassBecomes
  <1>15. \A s \in Sources :
            /\ s \in gone /\ Alive(s) => ents[s] # None /\ ents[s].state = "normal"
            /\ s \in gone /\ ~ Alive(s) => ents[s] = None
            /\ s \notin gone => ents[s] = row.entities[s]
    BY <1>5, AlertFacts
  <1>16. RecoverOutcome(p, kind, mine, told)
    BY <1>6, <1>10, <1>11, <1>14, <1>15 DEF RecoverOutcome, gone
  <1> QED BY <1>1, <1>10, <1>16

-----------------------------------------------------------------------------
LEMMA OnlyPass ==
    ASSUME AlertsTyped, Alone, NEW p \in Passes, NEW q \in Passes, Open(p), Open(q)
    PROVE  p = q
  BY DEF AlertsTyped, Alone

(* A step of one pass, which changes nothing but that pass.                *)
LEMMA PassStepKeeps ==
    ASSUME AlertsInv, UNCHANGED <<sourceVars, deployment, load, rules, events>>,
           NEW p \in Passes, p \in deployment.passes, DOMAIN pass' = Passes,
           \A q \in Passes \ {p} : pass'[q] = pass[q],
           Open(p)' => /\ PassTyped(p)'
                       /\ \A k \in Kinds : Known(pass'[p].read[k]) /\ Known(pass'[p].mine[k])
                       /\ Alone => PassAgrees(p)'
                       /\ ~ deployment.edits => PassJust(p)'
    PROVE  AlertsInv'
  <1>1. AlertsTyped'
    <2>1. SourcesInv'
      BY SourcesNextInv DEF AlertsInv, AlertsTyped
    <2>2. ASSUME NEW q \in Passes, Open(q)' PROVE PassTyped(q)' /\ q \in deployment'.passes
      <3>1. CASE q = p
        BY <2>2, <3>1
      <3>2. CASE q # p
        BY <2>2, <3>2 DEF AlertsInv, AlertsTyped, Open, PassTyped, sourceVars
      <3> QED BY <3>1, <3>2
    <2> QED BY <2>1, <2>2 DEF AlertsInv, AlertsTyped
  <1>2. EachKnown'
    <2>1. \A row : Known(row)' <=> Known(row)
      BY DEF Known, IsFiring, sourceVars
    <2>2. ASSUME NEW q \in Passes, Open(q)', NEW k \in Kinds
          PROVE  Known(pass'[q].read[k]) /\ Known(pass'[q].mine[k])
      <3>1. CASE q = p
        BY <2>2, <3>1
      <3>2. CASE q # p
        BY <2>2, <3>2 DEF AlertsInv, EachKnown, Open
      <3> QED BY <3>1, <3>2
    <2> QED BY <2>1, <2>2 DEF AlertsInv, EachKnown
  <1>3. HistoryAgrees'
    <2> SUFFICES ASSUME Alone'
                 PROVE  /\ \A k \in Kinds : \A x \in SubjectsOf(k) : Agrees(x, rules[k], events[k][x])'
                        /\ \A q \in Passes : Open(q)' => PassAgrees(q)'
      BY DEF HistoryAgrees
    <2>1. Alone
      BY DEF Alone
    <2>2. \A k \in Kinds : \A x \in SubjectsOf(k) : Agrees(x, rules[k], events[k][x])'
      BY <2>1 DEF AlertsInv, HistoryAgrees, Agrees, sourceVars
    <2>3. ASSUME NEW q \in Passes, Open(q)' PROVE PassAgrees(q)'
      <3>1. q = p
        BY <1>1, <2>1, <2>3 DEF AlertsTyped, Alone
      <3> QED BY <2>1, <2>3, <3>1
    <2> QED BY <2>2, <2>3
  <1>4. RecoveryJust'
    <2> SUFFICES ASSUME ~ deployment.edits
                 PROVE  /\ \A k \in Kinds : rules[k].scope = deployment.sources
                        /\ \A q \in Passes : Open(q)' => PassJust(q)'
      BY DEF RecoveryJust
    <2>1. ASSUME NEW q \in Passes, Open(q)' PROVE PassJust(q)'
      <3>1. CASE q = p
        BY <2>1, <3>1
      <3>2. CASE q # p
        BY <2>1, <3>2 DEF AlertsInv, RecoveryJust, PassJust, Open, Alive, IsStale, sourceVars
      <3> QED BY <3>1, <3>2
    <2> QED BY <2>1 DEF AlertsInv, RecoveryJust
  <1> QED BY <1>1, <1>2, <1>3, <1>4 DEF AlertsInv

LEMMA BeginKeeps ==
    ASSUME AlertsInv, NEW p \in Passes, BeginPass(p)
    PROVE  AlertsInv'
  <1> DEFINE t == [at |-> now, read |-> rules, mine |-> rules, told |-> NoEvents,
                   kind |-> None, active |-> {},
                   todo |-> {k \in deployment.kinds : rules[k].enabled /\ ~ Quiet(now)}]
  <1>1. /\ UNCHANGED <<sourceVars, deployment, load, rules, events>>
        /\ p \in deployment.passes /\ DOMAIN pass' = Passes /\ pass'[p] = t
        /\ \A q \in Passes \ {p} : pass'[q] = pass[q]
    BY DEF BeginPass, AlertsInv, AlertsTyped
  <1>2. /\ DOMAIN t = {"at", "read", "mine", "told", "kind", "active", "todo"}
        /\ t.at = now /\ t.read = rules /\ t.mine = rules /\ t.told = NoEvents
        /\ t.kind = None /\ t.active = {} /\ t.todo \subseteq deployment.kinds
    OBVIOUS
  <1> HIDE DEF t
  <1>3. PassTyped(p)'
    <2>1. NoEvents \in Tellings /\ now \in Times /\ deployment.kinds \subseteq Kinds
          /\ rules \in [Kinds -> RuleRows] /\ now' = now
      BY <1>1, AlertFacts
         DEF NoEvents, Tellings, AlertsInv, AlertsTyped, SourcesInv, SourcesTypeOK, sourceVars
    <2> QED BY <1>1, <1>2, <2>1, AlertFacts DEF PassTyped
  <1>4. \A k \in Kinds : Known(pass'[p].read[k]) /\ Known(pass'[p].mine[k])
    BY <1>1, <1>2 DEF AlertsInv, EachKnown
  <1>5. ASSUME Alone PROVE PassAgrees(p)'
    <2>1. \A k \in Kinds, x \in Subjects : t.told[k][x] = None
      BY <1>2 DEF NoEvents
    <2>2. \A k \in Kinds : \A x \in SubjectsOf(k) : x \in Subjects
      BY DEF SubjectsOf, Subjects
    <2>3. \A k \in Kinds : \A x \in SubjectsOf(k) : Agrees(x, rules[k], events[k][x])
      BY <1>5 DEF AlertsInv, HistoryAgrees
    <2>4. /\ \A k \in Kinds : SameState(pass'[p].read[k], rules[k])
          /\ \A k \in Kinds : SameState(pass'[p].mine[k], rules[k])
          /\ pass'[p].todo \subseteq Kinds
      BY <1>1, <1>2, AlertFacts DEF SameState, AlertsInv, AlertsTyped
    <2>5. \A k \in Kinds, x \in Subjects : pass'[p].told[k][x] = None /\ ~ Fired(pass'[p].told[k][x])
      BY <1>1, <2>1 DEF Fired
    <2>6. \A k \in Kinds : \A x \in SubjectsOf(k) : Agrees(x, pass[p].mine[k], EventBy(p, k, x))'
      BY <1>1, <1>2, <2>2, <2>3, <2>5 DEF EventBy, Agrees, sourceVars
    <2> QED BY <1>1, <2>4, <2>5, <2>6 DEF PassAgrees
  <1>6. ASSUME ~ deployment.edits PROVE PassJust(p)'
    BY <1>1, <1>2, <1>6, AlertFacts DEF AlertsInv, RecoveryJust, PassJust, Grouped
  <1> QED BY <1>1, <1>3, <1>4, <1>5, <1>6, PassStepKeeps

LEMMA FailKeeps ==
    ASSUME AlertsInv, NEW p \in Passes, FailPass(p)
    PROVE  AlertsInv'
  <1>1. /\ UNCHANGED <<sourceVars, deployment, load, rules, events>>
        /\ p \in deployment.passes /\ DOMAIN pass' = Passes /\ ~ Open(p)'
        /\ \A q \in Passes \ {p} : pass'[q] = pass[q]
    BY DEF FailPass, AlertsInv, AlertsTyped, Open
  <1> QED BY <1>1, PassStepKeeps

LEMMA SingleKeeps ==
    ASSUME AlertsInv, NEW p \in Passes, RunSingle(p)
    PROVE  AlertsInv'
  <1> DEFINE row == pass[p].mine["load"]
  <1>1. /\ UNCHANGED <<sourceVars, deployment, load, rules, events>>
        /\ Open(p) /\ PassTyped(p) /\ pass[p].kind = None /\ "load" \in pass[p].todo
        /\ p \in deployment.passes
    BY SingleFacts DEF AlertsInv, AlertsTyped
  <1>2. PICK state \in {"firing", "normal"} : \E told \in Notices \union {None} :
          /\ PassBecomes(p,
                [pass[p].mine EXCEPT !["load"].state = state],
                [pass[p].told EXCEPT !["load"][Self] = told],
                None, pass[p].active, pass[p].todo \ {"load"})
          /\ \/ /\ row.state = "firing" => ~ InCooldown(p)
                /\ state = "firing" /\ told = Notice("fire", p)
             \/ row.state = "firing" /\ state = "firing" /\ told = None
             \/ row.state = "firing" /\ state = "normal" /\ told = Notice("resolved", p)
             \/ row.state # "firing" /\ state = "normal" /\ told = None
    BY SingleFacts DEF AlertsInv
  <1>3. PICK told \in Notices \union {None} :
          /\ PassBecomes(p,
                [pass[p].mine EXCEPT !["load"].state = state],
                [pass[p].told EXCEPT !["load"][Self] = told],
                None, pass[p].active, pass[p].todo \ {"load"})
          /\ \/ /\ row.state = "firing" => ~ InCooldown(p)
                /\ state = "firing" /\ told = Notice("fire", p)
             \/ row.state = "firing" /\ state = "firing" /\ told = None
             \/ row.state = "firing" /\ state = "normal" /\ told = Notice("resolved", p)
             \/ row.state # "firing" /\ state = "normal" /\ told = None
    BY <1>2
  <1> DEFINE mine == [pass[p].mine EXCEPT !["load"].state = state]
             news == [pass[p].told EXCEPT !["load"][Self] = told]
  <1>4. /\ row \in RuleRows /\ "load" \in Kinds /\ Self \in Subjects
        /\ pass[p].mine \in [Kinds -> RuleRows] /\ pass[p].told \in Tellings
    BY <1>1, AlertFacts DEF PassTyped
  <1>5. /\ mine["load"] = [row EXCEPT !.state = state]
        /\ mine["load"] \in RuleRows /\ mine["load"].state = state
        /\ mine["load"].scope = row.scope /\ mine["load"].entities = row.entities
        /\ \A k \in Kinds \ {"load"} : mine[k] = pass[p].mine[k]
    <2>1. mine["load"] = [row EXCEPT !.state = state]
          /\ \A k \in Kinds \ {"load"} : mine[k] = pass[p].mine[k]
      BY <1>4
    <2> HIDE DEF row, mine
    <2> QED BY <1>4, <2>1 DEF RuleRows
  <1>6. /\ news["load"][Self] = told
        /\ \A x \in Subjects \ {Self} : news["load"][x] = pass[p].told["load"][x]
        /\ \A k \in Kinds \ {"load"} : news[k] = pass[p].told[k]
    BY <1>4 DEF Tellings
  <1>7. mine \in [Kinds -> RuleRows] /\ news \in Tellings
    BY <1>4, <1>5, <1>6 DEF Tellings
  <1>8. PassBecomes(p, mine, news, None, pass[p].active, pass[p].todo \ {"load"})
    BY <1>3
  <1> HIDE DEF mine, news
  <1>9. /\ DOMAIN pass' = Passes /\ \A q \in Passes \ {p} : pass'[q] = pass[q]
        /\ pass'[p].mine = mine /\ pass'[p].told = news /\ pass'[p].kind = None
        /\ pass'[p].todo = pass[p].todo \ {"load"} /\ pass'[p].read = pass[p].read
    BY <1>8 DEF PassBecomes
  <1>10. PassTyped(p)'
    <2>1. pass[p].active \in SUBSET Sources /\ pass[p].todo \ {"load"} \in SUBSET Kinds
          /\ now' = now
      BY <1>1 DEF PassTyped, sourceVars
    <2> QED BY <1>1, <1>7, <1>8, <2>1, PassUpdated
  <1>11. \A k \in Kinds : Known(pass'[p].read[k]) /\ Known(pass'[p].mine[k])
    <2>1. \A k \in Kinds : Known(pass[p].read[k]) /\ Known(pass[p].mine[k])
      BY <1>1 DEF AlertsInv, EachKnown
    <2>2. Known(mine["load"])
      BY <1>4, <1>5, <2>1 DEF Known
    <2> QED BY <1>5, <1>9, <2>1, <2>2
  <1>12. ASSUME Alone PROVE PassAgrees(p)'
    <2>1. PassAgrees(p) /\ \A k \in Kinds : \A x \in SubjectsOf(k) : Agrees(x, rules[k], events[k][x])
      BY <1>1, <1>12 DEF AlertsInv, HistoryAgrees
    <2>2. "load" # None /\ SubjectsOf("load") = {Self} /\ pass[p].todo \subseteq Kinds
          /\ \A k \in pass[p].todo : k # None
      BY <1>1, AlertFacts DEF PassTyped
    <2>3. /\ row.state = rules["load"].state
          /\ pass[p].told["load"][Self] = None
          /\ rules["load"].state = "firing" <=> Fired(events["load"][Self])
      BY <1>1, <1>4, <2>1, <2>2 DEF PassAgrees, SameState, Agrees
    <2>4. /\ Notice("fire", p).what = "fire" /\ Notice("fire", p).at = pass[p].at
          /\ Notice("resolved", p).what = "resolved" /\ Notice("fire", p) # None
          /\ Notice("resolved", p) # None
      BY <1>1, NoticeType DEF PassTyped
    <2> HIDE DEF row
    <2>5. /\ Fired(told) => told.at = pass[p].at /\ (row.state = "firing" => ~ InCooldown(p))
          /\ state = "firing" <=>
                (IF told # None THEN Fired(told) ELSE row.state = "firing")
      BY <1>3, <2>4 DEF Fired
    <2>6. \A k \in Kinds : SameState(pass'[p].read[k], rules'[k])
      BY <1>1, <1>9, <2>1 DEF PassAgrees
    <2>7. \A k \in pass'[p].todo : k # pass'[p].kind =>
             /\ SameState(pass'[p].mine[k], rules'[k])
             /\ \A x \in Subjects : pass'[p].told[k][x] = None
      BY <1>1, <1>5, <1>6, <1>9, <2>1, <2>2 DEF PassAgrees
    <2>8. \A k \in Kinds : \A x \in SubjectsOf(k) : Agrees(x, pass[p].mine[k], EventBy(p, k, x))'
      <3>1. ASSUME NEW k \in Kinds, NEW x \in SubjectsOf(k), k # "load"
            PROVE  Agrees(x, pass[p].mine[k], EventBy(p, k, x))'
        <4>1. Agrees(x, pass[p].mine[k], EventBy(p, k, x))
          BY <2>1 DEF PassAgrees
        <4> QED BY <1>1, <1>5, <1>6, <1>9, <3>1, <4>1 DEF Agrees, EventBy, sourceVars
      <3>2. Agrees(Self, pass[p].mine["load"], EventBy(p, "load", Self))'
        BY <1>1, <1>5, <1>6, <1>9, <2>3, <2>5 DEF Agrees, EventBy
      <3> QED BY <2>2, <3>1, <3>2
    <2>9. \A k \in Kinds : \A x \in Subjects :
             Fired(pass'[p].told[k][x]) /\ Fired(events'[k][x]) =>
                 pass'[p].told[k][x].at - events'[k][x].at >= Cooldown
      <3>1. Fired(told) /\ Fired(events["load"][Self]) =>
               told.at - events["load"][Self].at >= Cooldown
        <4>1. events \in Tellings /\ Fired(events["load"][Self]) => events["load"][Self].at \in Nat
          <5> SUFFICES ASSUME events \in Tellings, Fired(events["load"][Self])
                       PROVE  events["load"][Self].at \in Nat
            OBVIOUS
          <5>1. events["load"][Self] \in Notices
            BY <1>4 DEF Tellings, Fired
          <5> QED BY <5>1, AlertFacts DEF Notices
        <4>2. pass[p].at \in Nat /\ Cooldown \in Nat /\ events \in Tellings
          BY <1>1, AlertFacts DEF PassTyped, AlertsInv, AlertsTyped
        <4> QED BY <2>3, <2>5, <4>1, <4>2 DEF InCooldown, Fired
      <3> QED BY <1>1, <1>4, <1>6, <1>9, <2>1, <3>1 DEF PassAgrees
    <2>10. \A k \in Kinds : \A x \in Subjects \ SubjectsOf(k) : pass'[p].told[k][x] = None
      BY <1>6, <1>9, <2>1, <2>2 DEF PassAgrees
    <2> QED BY <2>6, <2>7, <2>8, <2>9, <2>10 DEF PassAgrees, SubjectsOf
  <1>13. ASSUME ~ deployment.edits PROVE PassJust(p)'
    <2>1. \A k \in Kinds : pass[p].mine[k].scope = deployment.sources
      BY <1>1, <1>13 DEF AlertsInv, RecoveryJust, PassJust
    <2>2. \A k \in Kinds : pass'[p].mine[k].scope = deployment'.sources
      BY <1>1, <1>4, <1>5, <1>9, <2>1
    <2>3. pass'[p].kind # "stale_source"
      BY <1>9, AlertFacts DEF Grouped
    <2> QED BY <2>2, <2>3 DEF PassJust
  <1> QED BY <1>1, <1>9, <1>10, <1>11, <1>12, <1>13, PassStepKeeps

LEMMA FireKeeps ==
    ASSUME AlertsInv, NEW p \in Passes, NEW kind \in Grouped, Fire(p, kind)
    PROVE  AlertsInv'
  <1> DEFINE row == pass[p].mine[kind]
             due == DueBy(p, kind)
             found == FoundBy(p, kind)
  <1>1. /\ UNCHANGED <<sourceVars, deployment, load, rules, events>>
        /\ Open(p) /\ PassTyped(p) /\ pass[p].kind = None /\ kind \in pass[p].todo
        /\ found \subseteq Sources /\ p \in deployment.passes
        /\ kind \in Kinds /\ SubjectsOf(kind) = Sources /\ pass[p].todo \subseteq Kinds
        /\ \A k \in Kinds : k # None
    BY FireFacts, AlertFacts DEF AlertsInv, AlertsTyped, PassTyped
  <1>2. PICK mine \in [Kinds -> RuleRows] : \E told \in Tellings :
           FireOutcome(p, kind, mine, told)
    BY FireFacts DEF AlertsInv
  <1>3. PICK told \in Tellings : FireOutcome(p, kind, mine, told)
    BY <1>2
  <1>4. /\ due \subseteq found
        /\ \A s \in found : Alive(s) /\ s \in row.scope
        /\ \A s \in due : IsFiring(row.entities[s]) =>
              ~ EntityInCooldown(row.entities[s], pass[p].at)
    BY DEF DueBy, FoundBy, Findings, Affected
  <1>5. /\ DOMAIN pass' = Passes /\ \A q \in Passes \ {p} : pass'[q] = pass[q]
        /\ pass'[p].mine = mine /\ pass'[p].told = told /\ pass'[p].kind = kind
        /\ pass'[p].todo = pass[p].todo /\ pass'[p].read = pass[p].read
        /\ pass'[p].active = found /\ pass'[p].at = pass[p].at
        /\ PassBecomes(p, mine, told, kind, found, pass[p].todo)
    BY <1>3 DEF FireOutcome, PassBecomes
  <1>6. /\ \A k \in Kinds \ {kind} : mine[k] = pass[p].mine[k] /\ told[k] = pass[p].told[k]
        /\ mine[kind].state = row.state /\ mine[kind].scope = row.scope
        /\ \A s \in due : mine[kind].entities[s] = [state |-> "firing", at |-> pass[p].at]
        /\ \A s \in Sources \ due : mine[kind].entities[s] = row.entities[s]
        /\ \A x \in due : told[kind][x] = Notice("fire", p)
        /\ \A x \in Subjects \ due : told[kind][x] = pass[p].told[kind][x]
    BY <1>1, <1>3, <1>4, AlertFacts DEF FireOutcome
  <1> HIDE DEF due, found
  <1>7. PassTyped(p)'
    <2>1. found \in SUBSET Sources /\ pass[p].todo \in SUBSET Kinds /\ now' = now
      BY <1>1 DEF sourceVars
    <2> QED BY <1>1, <1>5, <2>1, PassUpdated
  <1>8. \A k \in Kinds : Known(pass[p].read[k]) /\ Known(pass[p].mine[k])
    BY <1>1 DEF AlertsInv, EachKnown
  <1>9. \A k \in Kinds : Known(pass'[p].read[k]) /\ Known(pass'[p].mine[k])
    <2>1. \A s \in due : rows[s] # <<>> /\ s \in deployment.sources
      BY <1>1, <1>4, <1>8 DEF Known, Alive
    <2>2. Known(mine[kind])
      <3>1. ASSUME NEW s \in Sources, IsFiring(mine[kind].entities[s])
            PROVE  rows[s] # <<>> /\ s \in deployment.sources
        BY <1>1, <1>6, <1>8, <2>1, <3>1 DEF Known
      <3> QED BY <1>1, <1>6, <1>8, <3>1 DEF Known
    <2> QED BY <1>5, <1>6, <1>8, <2>2
  <1>10. ASSUME Alone PROVE PassAgrees(p)'
    <2>1. PassAgrees(p) /\ \A k \in Kinds : \A x \in SubjectsOf(k) : Agrees(x, rules[k], events[k][x])
      BY <1>1, <1>10 DEF AlertsInv, HistoryAgrees
    <2>2. SameState(row, rules[kind]) /\ \A x \in Subjects : pass[p].told[kind][x] = None
      BY <1>1, <2>1 DEF PassAgrees
    <2>3. Notice("fire", p).what = "fire" /\ Notice("fire", p).at = pass[p].at
          /\ Notice("fire", p) # None
      BY <1>1, NoticeType DEF PassTyped
    <2>4. \A k \in Kinds : SameState(pass'[p].read[k], rules'[k])
      BY <1>1, <1>5, <2>1 DEF PassAgrees
    <2>5. \A k \in pass'[p].todo : k # pass'[p].kind =>
             /\ SameState(pass'[p].mine[k], rules'[k])
             /\ \A x \in Subjects : pass'[p].told[k][x] = None
      BY <1>1, <1>5, <1>6, <2>1 DEF PassAgrees
    <2>6. \A k \in Kinds : \A x \in SubjectsOf(k) : Agrees(x, pass[p].mine[k], EventBy(p, k, x))'
      <3>1. ASSUME NEW k \in Kinds, NEW x \in SubjectsOf(k), k # kind
            PROVE  Agrees(x, pass[p].mine[k], EventBy(p, k, x))'
        <4>1. Agrees(x, pass[p].mine[k], EventBy(p, k, x))
          BY <2>1 DEF PassAgrees
        <4> QED BY <1>1, <1>5, <1>6, <3>1, <4>1 DEF Agrees, EventBy, sourceVars
      <3>2. ASSUME NEW x \in due PROVE Agrees(x, pass[p].mine[kind], EventBy(p, kind, x))'
        <4>1. x \in Sources /\ x # Self
          BY <1>1, <1>4, AlertFacts
        <4>2. IsFiring(mine[kind].entities[x]) /\ mine[kind].entities[x].at = pass[p].at
          BY <1>6, AlertFacts, <1>1 DEF IsFiring, EntityStates, PassTyped
        <4> QED BY <1>5, <1>6, <2>3, <4>1, <4>2 DEF Agrees, EventBy, Fired
      <3>3. ASSUME NEW x \in Sources \ due
            PROVE  Agrees(x, pass[p].mine[kind], EventBy(p, kind, x))'
        <4>1. Agrees(x, pass[p].mine[kind], EventBy(p, kind, x)) /\ x # Self /\ x \in Subjects
          BY <1>1, <2>1, AlertFacts DEF PassAgrees
        <4> QED BY <1>1, <1>5, <1>6, <4>1 DEF Agrees, EventBy, sourceVars
      <3> QED BY <1>1, <3>1, <3>2, <3>3
    <2>7. \A k \in Kinds : \A x \in Subjects :
             Fired(pass'[p].told[k][x]) /\ Fired(events'[k][x]) =>
                 pass'[p].told[k][x].at - events'[k][x].at >= Cooldown
      <3>1. ASSUME NEW x \in due, Fired(events[kind][x])
            PROVE  pass[p].at - events[kind][x].at >= Cooldown
        <4>1. x \in Sources /\ x # Self /\ Agrees(x, rules[kind], events[kind][x])
              /\ row.entities = rules[kind].entities /\ Alive(x)
          BY <1>1, <1>4, <2>1, <2>2, AlertFacts DEF SameState
        <4>2. IsFiring(row.entities[x]) /\ events[kind][x].at = row.entities[x].at
          BY <3>1, <4>1 DEF Agrees, Alive
        <4>3. ~ (pass[p].at - events[kind][x].at < Cooldown)
          BY <1>4, <4>2 DEF EntityInCooldown
        <4>4. events[kind][x] \in Notices
          BY <1>1, <3>1, <4>1, AlertFacts DEF AlertsInv, AlertsTyped, Tellings, Fired
        <4>5. events[kind][x].at \in Nat /\ pass[p].at \in Nat /\ Cooldown \in Nat
          BY <1>1, <4>4, AlertFacts DEF Notices, PassTyped
        <4> QED BY <4>3, <4>5
      <3>2. \A x \in Subjects \ due : ~ Fired(told[kind][x])
        BY <1>6, <2>2 DEF Fired
      <3>3. \A x \in due : told[kind][x].at = pass[p].at
        BY <1>6, <2>3
      <3> QED BY <1>1, <1>5, <1>6, <2>1, <3>1, <3>2, <3>3 DEF PassAgrees
    <2>8. \A k \in Kinds : \A x \in Subjects \ SubjectsOf(k) : pass'[p].told[k][x] = None
      BY <1>1, <1>4, <1>5, <1>6, <2>1 DEF PassAgrees
    <2> QED BY <2>4, <2>5, <2>6, <2>7, <2>8 DEF PassAgrees, SubjectsOf
  <1>11. ASSUME ~ deployment.edits PROVE PassJust(p)'
    <2>1. \A k \in Kinds : pass[p].mine[k].scope = deployment.sources
      BY <1>1, <1>11 DEF AlertsInv, RecoveryJust, PassJust
    <2>2. \A k \in Kinds : pass'[p].mine[k].scope = deployment'.sources
      BY <1>1, <1>5, <1>6, <2>1
    <2>3. ASSUME kind = "stale_source", NEW s \in Sources \ found,
                 IsFiring(mine["stale_source"].entities[s]), Alive(s)
          PROVE  ~ IsStale(s, pass[p].at)
      <3>1. IsFiring(row.entities[s]) /\ s \in row.scope
        BY <1>1, <1>4, <1>6, <1>8, <2>1, <2>3 DEF Known
      <3> QED BY <2>3, <3>1 DEF FoundBy, Findings, Affected, found
    <2> QED BY <1>1, <1>5, <2>2, <2>3 DEF PassJust, Alive, IsStale, sourceVars
  <1> QED BY <1>1, <1>5, <1>7, <1>9, <1>10, <1>11, PassStepKeeps

LEMMA RecoverKeeps ==
    ASSUME AlertsInv, NEW p \in Passes, Recover(p)
    PROVE  AlertsInv'
  <1>0. PICK kind \in Grouped : kind = pass[p].kind
    BY RecoverFacts DEF AlertsInv
  <1> DEFINE row == pass[p].mine[kind]
             gone == GoneBy(p, kind)
  <1>1. /\ UNCHANGED <<sourceVars, deployment, load, rules, events>>
        /\ Open(p) /\ PassTyped(p) /\ kind \in Grouped /\ p \in deployment.passes
        /\ kind \in Kinds /\ SubjectsOf(kind) = Sources /\ pass[p].todo \subseteq Kinds
        /\ \A k \in Kinds : k # None
    BY <1>0, RecoverFacts, AlertFacts DEF AlertsInv, AlertsTyped, PassTyped
  <1>2. PICK mine \in [Kinds -> RuleRows] : \E told \in Tellings :
           RecoverOutcome(p, kind, mine, told)
    BY <1>0, RecoverFacts DEF AlertsInv
  <1>3. PICK told \in Tellings : RecoverOutcome(p, kind, mine, told)
    BY <1>2
  <1>4. gone \subseteq Sources /\ \A s \in gone : IsFiring(row.entities[s]) /\ s \notin pass[p].active
    BY DEF GoneBy
  <1>5. /\ DOMAIN pass' = Passes /\ \A q \in Passes \ {p} : pass'[q] = pass[q]
        /\ pass'[p].mine = mine /\ pass'[p].told = told /\ pass'[p].kind = None
        /\ pass'[p].todo = pass[p].todo \ {kind} /\ pass'[p].read = pass[p].read
        /\ PassBecomes(p, mine, told, None, {}, pass[p].todo \ {kind})
    BY <1>3 DEF RecoverOutcome, PassBecomes
  <1>6. /\ \A k \in Kinds \ {kind} : mine[k] = pass[p].mine[k] /\ told[k] = pass[p].told[k]
        /\ mine[kind].scope = row.scope
        /\ \A s \in Sources : IsFiring(mine[kind].entities[s]) =>
              s \notin gone /\ mine[kind].entities[s] = row.entities[s]
        /\ \A s \in Sources \ gone : mine[kind].entities[s] = row.entities[s]
        /\ \A x \in Subjects : told[kind][x] =
              IF x \in gone /\ Alive(x) THEN Notice("resolved", p) ELSE pass[p].told[kind][x]
    BY <1>3 DEF RecoverOutcome, IsFiring
  <1> HIDE DEF gone
  <1>7. PassTyped(p)'
    <2>1. pass[p].todo \ {kind} \in SUBSET Kinds /\ now' = now /\ {} \in SUBSET Sources
      BY <1>1 DEF sourceVars
    <2> QED BY <1>1, <1>5, <2>1, PassUpdated
  <1>8. \A k \in Kinds : Known(pass[p].read[k]) /\ Known(pass[p].mine[k])
    BY <1>1 DEF AlertsInv, EachKnown
  <1>9. \A k \in Kinds : Known(pass'[p].read[k]) /\ Known(pass'[p].mine[k])
    <2>1. Known(mine[kind])
      BY <1>1, <1>6, <1>8 DEF Known
    <2> QED BY <1>5, <1>6, <1>8, <2>1
  <1>10. ASSUME Alone PROVE PassAgrees(p)'
    <2>1. PassAgrees(p) /\ \A k \in Kinds : \A x \in SubjectsOf(k) : Agrees(x, rules[k], events[k][x])
      BY <1>1, <1>10 DEF AlertsInv, HistoryAgrees
    <2>2. Notice("resolved", p).what = "resolved" /\ Notice("resolved", p) # None
      BY <1>1, NoticeType DEF PassTyped
    <2>3. \A k \in Kinds : SameState(pass'[p].read[k], rules'[k])
      BY <1>1, <1>5, <2>1 DEF PassAgrees
    <2>4. \A k \in pass'[p].todo : k # pass'[p].kind =>
             /\ SameState(pass'[p].mine[k], rules'[k])
             /\ \A x \in Subjects : pass'[p].told[k][x] = None
      BY <1>0, <1>1, <1>5, <1>6, <2>1 DEF PassAgrees
    <2>5. \A k \in Kinds : \A x \in SubjectsOf(k) : Agrees(x, pass[p].mine[k], EventBy(p, k, x))'
      <3>1. ASSUME NEW k \in Kinds, NEW x \in SubjectsOf(k), k # kind
            PROVE  Agrees(x, pass[p].mine[k], EventBy(p, k, x))'
        <4>1. Agrees(x, pass[p].mine[k], EventBy(p, k, x))
          BY <2>1 DEF PassAgrees
        <4> QED BY <1>1, <1>5, <1>6, <3>1, <4>1 DEF Agrees, EventBy, sourceVars
      <3>2. ASSUME NEW x \in Sources
            PROVE  Agrees(x, pass[p].mine[kind], EventBy(p, kind, x))'
        <4>1. Agrees(x, row, EventBy(p, kind, x)) /\ x # Self /\ x \in Subjects
          BY <1>1, <2>1, <3>2, AlertFacts DEF PassAgrees
        <4>2. CASE x \notin gone
          BY <1>1, <1>5, <1>6, <3>2, <4>1, <4>2 DEF Agrees, EventBy, sourceVars
        <4>3. CASE x \in gone /\ Alive(x)
          <5>1. ~ Fired(EventBy(p, kind, x)')
            BY <1>5, <1>6, <2>2, <4>1, <4>3 DEF EventBy, Fired
          <5>2. ~ IsFiring(mine[kind].entities[x])
            BY <1>6, <3>2, <4>3
          <5> QED BY <1>5, <4>1, <5>1, <5>2 DEF Agrees
        <4>4. CASE x \in gone /\ ~ Alive(x)
          <5>1. rows[x] # <<>> /\ rows[x][1].revoked
            BY <1>1, <1>4, <1>8, <3>2, <4>4 DEF Known, Alive
          <5>2. ~ IsFiring(mine[kind].entities[x])
            BY <1>6, <3>2, <4>4
          <5> QED BY <1>1, <1>5, <4>1, <5>1, <5>2 DEF Agrees, sourceVars
        <4> QED BY <4>2, <4>3, <4>4
      <3> QED BY <1>1, <3>1, <3>2
    <2>6. \A k \in Kinds : \A x \in Subjects :
             Fired(pass'[p].told[k][x]) /\ Fired(events'[k][x]) =>
                 pass'[p].told[k][x].at - events'[k][x].at >= Cooldown
      <3>1. \A x \in Subjects : Fired(told[kind][x]) => told[kind][x] = pass[p].told[kind][x]
        BY <1>6, <2>2 DEF Fired
      <3> QED BY <1>1, <1>5, <1>6, <2>1, <3>1 DEF PassAgrees
    <2>7. \A k \in Kinds : \A x \in Subjects \ SubjectsOf(k) : pass'[p].told[k][x] = None
      BY <1>1, <1>4, <1>5, <1>6, <2>1 DEF PassAgrees
    <2> QED BY <2>3, <2>4, <2>5, <2>6, <2>7 DEF PassAgrees, SubjectsOf
  <1>11. ASSUME ~ deployment.edits PROVE PassJust(p)'
    <2>1. \A k \in Kinds : pass[p].mine[k].scope = deployment.sources
      BY <1>1, <1>11 DEF AlertsInv, RecoveryJust, PassJust
    <2>2. \A k \in Kinds : pass'[p].mine[k].scope = deployment'.sources
      BY <1>1, <1>5, <1>6, <2>1
    <2>3. pass'[p].kind # "stale_source"
      BY <1>5, AlertFacts DEF Grouped
    <2> QED BY <2>2, <2>3 DEF PassJust
  <1> QED BY <1>1, <1>5, <1>7, <1>9, <1>10, <1>11, PassStepKeeps

(* The commit: what a lone pass read is what the rules still say, so what  *)
(* it leaves is what it meant to.                                          *)
LEMMA CommitKeeps ==
    ASSUME AlertsInv, NEW p \in Passes, CommitPass(p)
    PROVE  /\ AlertsInv'
           /\ Alone => \A k \in Kinds, x \in Subjects :
                 Fired(events[k][x]) /\ Fired(events'[k][x]) =>
                     \/ events'[k][x] = events[k][x]
                     \/ events'[k][x].at - events[k][x].at >= Cooldown
  <1> DEFINE t == pass[p]
  <1>1. /\ UNCHANGED <<sourceVars, deployment, load>>
        /\ Open(p) /\ PassTyped(p) /\ p \in deployment.passes
        /\ DOMAIN pass' = Passes /\ ~ Open(p)' /\ \A q \in Passes \ {p} : pass'[q] = pass[q]
    BY DEF CommitPass, Between, AlertsInv, AlertsTyped, Open
  <1>2. \A k \in Kinds : rules[k] \in RuleRows /\ t.mine[k] \in RuleRows /\ t.read[k] \in RuleRows
    BY <1>1 DEF AlertsInv, AlertsTyped, PassTyped
  <1>3. ASSUME NEW k \in Kinds
        PROVE  /\ rules'[k] \in RuleRows /\ rules'[k].scope = rules[k].scope
               /\ rules'[k].entities \in {rules[k].entities, t.mine[k].entities}
               /\ SameState(t.read[k], rules[k]) => SameState(rules'[k], t.mine[k])
    <2> DEFINE state == Column(t.read[k].state, t.mine[k].state, rules[k].state)
               ents == Column(t.read[k].entities, t.mine[k].entities, rules[k].entities)
    <2>1. rules'[k] = [rules[k] EXCEPT !.state = state, !.entities = ents]
      BY DEF CommitPass
    <2>2. /\ state \in {"firing", "normal"} /\ ents \in {rules[k].entities, t.mine[k].entities}
          /\ ents \in [Sources -> EntityStates \union {None}]
          /\ SameState(t.read[k], rules[k]) => state = t.mine[k].state /\ ents = t.mine[k].entities
      BY <1>2, RuleFacts DEF Column, SameState
    <2> HIDE DEF state, ents
    <2>3. /\ rules'[k] \in RuleRows /\ rules'[k].scope = rules[k].scope
          /\ rules'[k].state = state /\ rules'[k].entities = ents
      BY <1>2, <2>1, <2>2 DEF RuleRows
    <2> QED BY <2>2, <2>3 DEF SameState
  <1>4. \A k \in Kinds : \A x \in Subjects : events'[k][x] = EventBy(p, k, x)
    BY DEF CommitPass, EventBy
  <1>5. AlertsTyped'
    <2>1. SourcesInv'
      BY <1>1, SourcesNextInv DEF AlertsInv, AlertsTyped
    <2>2. ASSUME NEW q \in Passes, Open(q)' PROVE PassTyped(q)' /\ q \in deployment'.passes
      BY <1>1, <2>2 DEF AlertsInv, AlertsTyped, Open, PassTyped, sourceVars
    <2>3. rules' \in [Kinds -> RuleRows]
      BY <1>3 DEF CommitPass
    <2>4. events' \in Tellings
      <3>1. \A k \in Kinds : \A x \in Subjects : EventBy(p, k, x) \in Notices \union {None}
        BY <1>1 DEF EventBy, PassTyped, Tellings, AlertsInv, AlertsTyped
      <3>2. events' = [k \in Kinds |-> [x \in Subjects |-> EventBy(p, k, x)]]
        BY DEF CommitPass, EventBy
      <3> QED BY <3>1, <3>2 DEF Tellings
    <2> QED BY <1>1, <2>1, <2>2, <2>3, <2>4 DEF AlertsInv, AlertsTyped
  <1>6. EachKnown'
    <2>1. \A k \in Kinds : Known(rules[k]) /\ Known(t.mine[k])
      BY <1>1 DEF AlertsInv, EachKnown
    <2>2. \A k \in Kinds : Known(rules[k])'
      BY <1>1, <1>3, <2>1 DEF Known, sourceVars
    <2>3. \A q \in Passes : Open(q)' =>
             \A k \in Kinds : Known(pass[q].read[k])' /\ Known(pass[q].mine[k])'
      BY <1>1 DEF AlertsInv, EachKnown, Known, Open, sourceVars
    <2> QED BY <2>2, <2>3 DEF EachKnown
  <1>7. ASSUME Alone
        PROVE  /\ PassAgrees(p)
               /\ \A q \in Passes : ~ Open(q)'
    BY <1>1, <1>7 DEF AlertsInv, AlertsTyped, HistoryAgrees, Alone, Open
  <1>8. HistoryAgrees'
    <2> SUFFICES ASSUME Alone
                 PROVE  \A k \in Kinds : \A x \in SubjectsOf(k) : Agrees(x, rules[k], events[k][x])'
      BY <1>1, <1>7 DEF HistoryAgrees, Alone
    <2> SUFFICES ASSUME NEW k \in Kinds, NEW x \in SubjectsOf(k)
                 PROVE  Agrees(x, rules[k], events[k][x])'
      OBVIOUS
    <2>1. Agrees(x, t.mine[k], EventBy(p, k, x)) /\ SameState(rules'[k], t.mine[k]) /\ x \in Subjects
      BY <1>3, <1>7 DEF PassAgrees, SubjectsOf, Subjects
    <2>2. events'[k][x] = EventBy(p, k, x)
      BY <1>4, <2>1
    <2> QED BY <1>1, <2>1, <2>2 DEF Agrees, SameState, sourceVars
  <1>9. RecoveryJust'
    BY <1>1, <1>3 DEF AlertsInv, RecoveryJust, PassJust, Open, Alive, IsStale, sourceVars
  <1>10. ASSUME Alone, NEW k \in Kinds, NEW x \in Subjects,
                Fired(events[k][x]), Fired(events'[k][x])
         PROVE  \/ events'[k][x] = events[k][x]
                \/ events'[k][x].at - events[k][x].at >= Cooldown
    BY <1>4, <1>7, <1>10 DEF PassAgrees, EventBy
  <1> QED BY <1>5, <1>6, <1>8, <1>9, <1>10 DEF AlertsInv

-----------------------------------------------------------------------------
(* What goes on beside the passes.                                         *)
LEMMA SourceStepKeeps ==
    ASSUME AlertsInv, SourceStep
    PROVE  AlertsInv'
  <1>1. /\ UNCHANGED <<deployment, load, rules, events, pass>>
        /\ \A s \in Sources : RowAged(s)
        /\ now' \in Times /\ now \in Times /\ now' >= now /\ Times \subseteq Nat
        /\ SourcesInv'
    BY SourceSteps, SourcesAge, SourcesNextInv, AlertFacts DEF AlertsInv, AlertsTyped, alertVars
  <1>2. AlertsTyped'
    <2>1. ASSUME NEW p \in Passes, Open(p)' PROVE PassTyped(p)' /\ p \in deployment'.passes
      <3>1. PassTyped(p) /\ p \in deployment.passes
        BY <1>1, <2>1 DEF AlertsInv, AlertsTyped, Open
      <3>2. pass[p].at <= now'
        <4>1. now \in Nat /\ now' \in Nat /\ now' >= now
          BY <1>1
        <4>2. pass[p].at \in Nat /\ pass[p].at <= now
          BY <3>1, AlertFacts DEF PassTyped
        <4> QED BY <4>1, <4>2
      <3> QED BY <1>1, <3>1, <3>2 DEF PassTyped
    <2> QED BY <1>1, <2>1 DEF AlertsInv, AlertsTyped
  <1>3. EachKnown'
    <2>1. \A row : Known(row) => Known(row)'
      BY <1>1 DEF Known, IsFiring, RowAged
    <2> QED BY <1>1, <2>1 DEF AlertsInv, EachKnown, Open
  <1>4. HistoryAgrees'
    <2>1. ASSUME NEW row, NEW event, NEW k \in Kinds, NEW x \in SubjectsOf(k), Agrees(x, row, event)
          PROVE  Agrees(x, row, event)'
      <3>1. x = Self \/ x \in Sources
        BY DEF SubjectsOf
      <3>2. CASE x = Self
        BY <2>1, <3>2 DEF Agrees
      <3>3. CASE x # Self /\ x \in Sources
        BY <1>1, <2>1, <3>3 DEF Agrees, RowAged
      <3> QED BY <3>1, <3>2, <3>3
    <2>2. ASSUME NEW p \in Passes, PassAgrees(p)
          PROVE  PassAgrees(p)'
      <3>1. \A k \in Kinds : \A x \in SubjectsOf(k) : Agrees(x, pass[p].mine[k], EventBy(p, k, x))'
        BY <1>1, <2>1, <2>2 DEF PassAgrees, EventBy
      <3> QED BY <1>1, <2>2, <3>1 DEF PassAgrees, SubjectsOf
    <2>3. Alone => \A k \in Kinds : \A x \in SubjectsOf(k) : Agrees(x, rules[k], events[k][x])'
      BY <1>1, <2>1 DEF AlertsInv, HistoryAgrees
    <2> QED BY <1>1, <2>2, <2>3 DEF AlertsInv, HistoryAgrees, Alone, Open
  <1>5. RecoveryJust'
    <2> SUFFICES ASSUME ~ deployment.edits, NEW p \in Passes, Open(p)
                 PROVE  PassJust(p)'
      BY <1>1 DEF AlertsInv, RecoveryJust, Open
    <2>1. PassJust(p) /\ PassTyped(p)
      BY DEF AlertsInv, AlertsTyped, RecoveryJust
    <2>2. ASSUME pass[p].kind = "stale_source", NEW s \in Sources \ pass[p].active,
                 IsFiring(pass[p].mine["stale_source"].entities[s]), Alive(s)'
          PROVE  ~ IsStale(s, pass[p].at)'
      <3>1. rows[s] # <<>> /\ rows[s] \in Seq(Rows)
        BY <2>2, AlertFacts DEF AlertsInv, AlertsTyped, EachKnown, Known, Grouped,
                                SourcesInv, SourcesTypeOK
      <3>2. ~ IsStale(s, pass[p].at) /\ RowAged(s)
        BY <1>1, <2>1, <2>2, <3>1 DEF PassJust, Alive, RowAged
      <3>3. /\ rows[s][1].firstSeen \in Nat /\ rows[s][1].ingested \in Nat /\ pass[p].at \in Nat
            /\ now \in Nat /\ now # Never /\ pass[p].at <= now /\ StaleAfter \in Nat \ {0}
        <4>1. rows[s][1] \in Rows
          BY <3>1
        <4>2. rows[s][1].firstSeen \in Nat /\ rows[s][1].ingested \in Nat
          <5>1. rows[s][1].firstSeen \in Times /\ rows[s][1].ingested \in Times \union {Never}
            BY <4>1 DEF Rows
          <5>2. Times \union {Never} \subseteq Nat
            BY SourcesAssumption DEF Never, Times
          <5> HIDE DEF Never
          <5> QED BY <5>1, <5>2
        <4>3. now # Never
          BY <1>1, SourcesAssumption DEF Times, Never
        <4> QED BY <1>1, <2>1, <4>2, <4>3, AlertFacts DEF PassTyped
      <3> QED BY <1>1, <3>1, <3>2, <3>3 DEF IsStale, RowAged
    <2> QED BY <1>1, <2>1, <2>2 DEF PassJust
  <1> QED BY <1>2, <1>3, <1>4, <1>5 DEF AlertsInv

(* The condition, edits of a rule and stuttering.                          *)
LEMMA UpdateKeeps ==
    ASSUME AlertsInv, NEW kind \in Kinds, NEW enabled \in BOOLEAN,
           NEW scope \in SUBSET deployment.sources, UpdateRule(kind, enabled, scope)
    PROVE  AlertsInv'
  <1> DEFINE row == rules[kind]
  <1>1. /\ UNCHANGED <<sourceVars, deployment, load, events, pass>>
        /\ deployment.edits /\ kind \in Kinds
        /\ scope \subseteq Sources
    BY AlertFacts DEF UpdateRule, AlertsInv, AlertsTyped
  <1>2. /\ rules' \in [Kinds -> RuleRows]
        /\ \A k \in Kinds : SameState(rules'[k], rules[k])
        /\ \A k \in Kinds : rules'[k].scope = (IF k = kind THEN scope ELSE rules[k].scope)
    <2> DEFINE new == [row EXCEPT !.enabled = enabled, !.scope = scope]
    <2>1. row \in RuleRows
      BY DEF AlertsInv, AlertsTyped
    <2>2. rules' = [rules EXCEPT ![kind] = new]
      BY DEF UpdateRule
    <2>3. new \in RuleRows /\ new.state = row.state /\ new.entities = row.entities
          /\ new.scope = scope
      <3> HIDE DEF row
      <3> QED BY <1>1, <2>1 DEF RuleRows
    <2> HIDE DEF new
    <2> QED BY <2>2, <2>3 DEF AlertsInv, AlertsTyped, SameState
  <1>3. AlertsTyped'
    <2>1. SourcesInv'
      BY <1>1, SourcesNextInv DEF AlertsInv, AlertsTyped
    <2> QED BY <1>1, <1>2, <2>1 DEF AlertsInv, AlertsTyped, Open, PassTyped, sourceVars
  <1>4. EachKnown'
    <2>1. \A k \in Kinds : Known(rules[k])'
      BY <1>1, <1>2 DEF AlertsInv, EachKnown, Known, SameState, sourceVars
    <2> QED BY <1>1, <2>1 DEF AlertsInv, EachKnown, Known, Open, sourceVars
  <1>5. HistoryAgrees'
    <2> SUFFICES ASSUME Alone
                 PROVE  /\ \A k \in Kinds : \A x \in SubjectsOf(k) : Agrees(x, rules[k], events[k][x])'
                        /\ \A p \in Passes : Open(p)' => PassAgrees(p)'
      BY <1>1 DEF HistoryAgrees, Alone
    <2>1. \A k \in Kinds : \A x \in SubjectsOf(k) : Agrees(x, rules[k], events[k][x])'
      BY <1>1, <1>2 DEF AlertsInv, HistoryAgrees, Agrees, SameState, sourceVars
    <2>2. ASSUME NEW p \in Passes, Open(p)' PROVE PassAgrees(p)'
      <3>1. PassAgrees(p) /\ PassTyped(p)
        BY <1>1, <2>2 DEF AlertsInv, AlertsTyped, HistoryAgrees, Open
      <3>2. \A k \in Kinds : SameState(pass'[p].read[k], rules'[k])
        BY <1>1, <1>2, <3>1 DEF PassAgrees, SameState
      <3>3. \A k \in pass'[p].todo : k # pass'[p].kind =>
               /\ SameState(pass'[p].mine[k], rules'[k])
               /\ \A x \in Subjects : pass'[p].told[k][x] = None
        BY <1>1, <1>2, <3>1 DEF PassAgrees, SameState, PassTyped
      <3>4. \A k \in Kinds : \A x \in SubjectsOf(k) : Agrees(x, pass[p].mine[k], EventBy(p, k, x))'
        BY <1>1, <3>1 DEF PassAgrees, Agrees, EventBy, sourceVars
      <3> QED BY <1>1, <3>1, <3>2, <3>3, <3>4 DEF PassAgrees, SubjectsOf
    <2> QED BY <2>1, <2>2
  <1>6. RecoveryJust'
    BY <1>1 DEF RecoveryJust
  <1> QED BY <1>3, <1>4, <1>5, <1>6 DEF AlertsInv

LEMMA IdleKeeps ==
    ASSUME AlertsInv, UNCHANGED <<sourceVars, deployment, rules, events, pass>>, load' \in BOOLEAN
    PROVE  AlertsInv'
  <1>1. AlertsTyped'
    <2>1. SourcesInv'
      BY SourcesNextInv DEF AlertsInv, AlertsTyped
    <2> QED BY <2>1 DEF AlertsInv, AlertsTyped, Open, PassTyped, sourceVars
  <1>2. EachKnown'
    BY DEF AlertsInv, EachKnown, Known, Open, sourceVars
  <1>3. HistoryAgrees'
    BY DEF AlertsInv, HistoryAgrees, Agrees, PassAgrees, EventBy, Alone, Open, SubjectsOf, sourceVars
  <1>4. RecoveryJust'
    BY DEF AlertsInv, RecoveryJust, PassJust, Open, Alive, IsStale, sourceVars
  <1> QED BY <1>1, <1>2, <1>3, <1>4 DEF AlertsInv

LEMMA AlertsNextInv ==
    ASSUME AlertsInv, [Next]_vars
    PROVE  AlertsInv'
  <1>1. ASSUME NEW p \in Passes, PassStep(p) PROVE AlertsInv'
    BY <1>1, SingleKeeps, FireKeeps, RecoverKeeps, CommitKeeps DEF PassStep
  <1>2. ASSUME NEW p \in Passes, BeginPass(p) \/ FailPass(p) PROVE AlertsInv'
    BY <1>2, BeginKeeps, FailKeeps
  <1>3. CASE LoadChanges
    BY <1>3, IdleKeeps DEF LoadChanges
  <1>4. CASE UNCHANGED vars
    BY <1>4, IdleKeeps DEF vars, alertVars, AlertsInv, AlertsTyped
  <1> QED BY <1>1, <1>2, <1>3, <1>4, SourceStepKeeps, UpdateKeeps DEF Next

LEMMA AlertsInitInv == Init => AlertsInv
  <1> SUFFICES ASSUME Init PROVE AlertsInv
    OBVIOUS
  <1>1. deployment.sources \subseteq Sources /\ deployment \in Deployments /\ SourcesInv
    BY AlertFacts, SourcesInitInv DEF Init
  <1>2. ASSUME NEW k \in Kinds
        PROVE  /\ rules[k] \in RuleRows /\ rules[k].scope = deployment.sources
               /\ rules[k].state = "normal" /\ \A s \in Sources : rules[k].entities[s] = None
               /\ \A x \in Subjects : events[k][x] = None
    BY <1>1 DEF Init, FreshRule, RuleRows, NoEvents
  <1>3. \A p \in Passes : ~ Open(p)
    BY DEF Init, Open
  <1>4. AlertsTyped
    <2>1. events \in Tellings
      BY DEF Init, NoEvents, Tellings
    <2>2. rules \in [Kinds -> RuleRows]
      BY <1>2 DEF Init
    <2> QED BY <1>1, <1>3, <2>1, <2>2 DEF Init, AlertsTyped
  <1>5. EachKnown
    BY <1>2, <1>3 DEF EachKnown, Known, IsFiring
  <1>6. HistoryAgrees
    <2>1. \A k \in Kinds : \A x \in SubjectsOf(k) : x \in Subjects /\ (x = Self \/ x \in Sources)
      BY DEF SubjectsOf, Subjects
    <2> QED BY <1>2, <1>3, <2>1 DEF HistoryAgrees, Agrees, Fired, IsFiring
  <1>7. RecoveryJust
    BY <1>2, <1>3 DEF RecoveryJust
  <1> QED BY <1>4, <1>5, <1>6, <1>7 DEF AlertsInv

(* Of a server whose only passes are the loop's, the history agrees with   *)
(* the state in every reachable state, whatever passes fail and whatever   *)
(* is edited, revoked or ingested between their steps (engine.py).         *)
THEOREM HistoryIsTrue == Spec => []StateMatchesHistory
  <1>1. ASSUME AlertsInv PROVE StateMatchesHistory
    <2> SUFFICES ASSUME Alone, NEW k \in deployment.kinds, NEW x \in SubjectsOf(k)
                 PROVE  IF Firing(k, x) THEN LastTold(k, x) = "fire"
                        ELSE LastTold(k, x) = "fire" => x # Self /\ ~ Alive(x)
      BY DEF StateMatchesHistory
    <2>1. k \in Kinds /\ Agrees(x, rules[k], events[k][x])
      BY <1>1, AlertFacts DEF AlertsInv, AlertsTyped, HistoryAgrees
    <2> QED BY <2>1 DEF Agrees, Firing, LastTold, Fired, Alive
  <1>2. AlertsInv /\ [Next]_vars => AlertsInv'
    BY AlertsNextInv
  <1> QED BY <1>1, <1>2, AlertsInitInv, PTL DEF Spec

(* No step announces a subject that fires again within its cooldown, nor   *)
(* says of a stale source that it is ingesting again (engine.py).          *)
THEOREM NoticesAreJust == Spec => NoticesHold
  <1> DEFINE Spaced == Alone => \A k \in Kinds, x \in Subjects :
                 LET old == events[k][x]
                     new == events'[k][x]
                 IN  old # None /\ old # new /\ old.what = "fire" /\ new.what = "fire" =>
                         new.at - old.at >= Cooldown
             Real == ~ deployment.edits => \A p \in Passes, s \in Sources :
                 LET what == "stale_source"
                 IN  Open(p) /\ Open(p)' /\ pass[p].told[what][s] # pass'[p].told[what][s]
                         /\ pass'[p].told[what][s].what = "resolved"
                     => ~ IsStale(s, pass[p].at)
  <1>1. ASSUME AlertsInv, [Next]_vars PROVE Spaced
    <2>1. ASSUME events' = events PROVE Spaced
      BY <2>1
    <2>2. ASSUME NEW p \in Passes, CommitPass(p) PROVE Spaced
      <3> SUFFICES ASSUME Alone, NEW k \in Kinds, NEW x \in Subjects,
                          events[k][x] # None, events[k][x] # events'[k][x],
                          events[k][x].what = "fire", events'[k][x].what = "fire"
                   PROVE  events'[k][x].at - events[k][x].at >= Cooldown
        OBVIOUS
      <3>1. events'[k][x] # None
        BY <2>2 DEF CommitPass
      <3> QED BY <1>1, <2>2, <3>1, CommitKeeps DEF Fired
    <2>3. \/ events' = events
          \/ \E p \in Passes : CommitPass(p)
      <3>1. ASSUME NEW p \in Passes, PassStep(p) PROVE events' = events \/ CommitPass(p)
        BY <3>1 DEF PassStep, RunSingle, Fire, Recover
      <3>2. ASSUME NEW p \in Passes, BeginPass(p) \/ FailPass(p) PROVE events' = events
        BY <3>2 DEF BeginPass, FailPass
      <3>3. CASE SourceStep \/ LoadChanges \/ UNCHANGED vars
        BY <3>3 DEF SourceStep, LoadChanges, vars, alertVars
      <3>4. CASE \E kind \in Kinds, enabled \in BOOLEAN, scope \in SUBSET deployment.sources :
                    UpdateRule(kind, enabled, scope)
        BY <3>4 DEF UpdateRule
      <3> QED BY <1>1, <3>1, <3>2, <3>3, <3>4 DEF Next
    <2> HIDE DEF Spaced
    <2> QED BY <2>1, <2>2, <2>3
  <1>2. ASSUME AlertsInv, [Next]_vars PROVE Real
    <2> SUFFICES ASSUME ~ deployment.edits, NEW p \in Passes, NEW s \in Sources,
                        Open(p), Open(p)',
                        pass[p].told["stale_source"][s] # pass'[p].told["stale_source"][s],
                        pass'[p].told["stale_source"][s].what = "resolved"
                 PROVE  ~ IsStale(s, pass[p].at)
      OBVIOUS
    <2>1. "stale_source" \in Grouped /\ "stale_source" \in Kinds /\ s \in Subjects
          /\ "stale_source" # "load" /\ DOMAIN pass = Passes /\ PassTyped(p)
      BY <1>2, AlertFacts DEF Grouped, AlertsInv, AlertsTyped
    <2>2. ASSUME NEW q \in Passes, BeginPass(q) \/ CommitPass(q) \/ FailPass(q) PROVE FALSE
      BY <2>1, <2>2 DEF BeginPass, CommitPass, FailPass, Between, Open
    <2>3. ASSUME NEW q \in Passes, RunSingle(q) PROVE FALSE
      <3>1. PICK mine, told : PassBecomes(q, mine, [pass[q].told EXCEPT !["load"][Self] = told],
                                          None, pass[q].active, pass[q].todo \ {"load"})
        BY <1>2, <2>3, SingleFacts DEF AlertsInv
      <3>2. pass'[q].told["stale_source"] = pass[q].told["stale_source"]
        BY <1>2, <2>1, <2>3, <3>1, SingleFacts DEF PassBecomes, PassTyped, Tellings, AlertsInv
      <3>3. q = p
        BY <3>1 DEF PassBecomes
      <3> QED BY <3>2, <3>3
    <2>4. ASSUME NEW q \in Passes, NEW kind \in Grouped, Fire(q, kind) PROVE FALSE
      <3>1. PICK mine, told : FireOutcome(q, kind, mine, told)
        BY <1>2, <2>4, FireFacts DEF AlertsInv
      <3>2. q = p /\ pass'[p].told = told
        BY <3>1 DEF FireOutcome, PassBecomes
      <3>3. kind = "stale_source" /\ s \in DueBy(p, kind)
        BY <2>1, <3>1, <3>2 DEF FireOutcome
      <3>4. told["stale_source"][s].what = "fire"
        BY <2>1, <3>1, <3>2, <3>3, NoticeType DEF FireOutcome, PassTyped
      <3> QED BY <3>2, <3>4
    <2>5. ASSUME NEW q \in Passes, Recover(q) PROVE ~ IsStale(s, pass[p].at)
      <3>1. PICK mine, told : RecoverOutcome(q, pass[q].kind, mine, told)
        BY <1>2, <2>5, RecoverFacts DEF AlertsInv
      <3>2. q = p /\ pass'[p].told = told
        BY <3>1 DEF RecoverOutcome, PassBecomes
      <3>3. pass[p].kind = "stale_source" /\ s \in GoneBy(p, "stale_source") /\ Alive(s)
        BY <2>1, <3>1, <3>2 DEF RecoverOutcome
      <3> QED BY <1>2, <3>3 DEF AlertsInv, RecoveryJust, PassJust, GoneBy
    <2>6. ASSUME pass' = pass PROVE FALSE
      BY <2>6
    <2>7. \/ pass' = pass
          \/ \E q \in Passes : \/ BeginPass(q) \/ CommitPass(q) \/ FailPass(q)
                              \/ RunSingle(q) \/ Recover(q)
                              \/ \E kind \in Grouped : Fire(q, kind)
      BY <1>2 DEF Next, PassStep, SourceStep, LoadChanges, UpdateRule, vars, alertVars
    <2> QED BY <2>2, <2>3, <2>4, <2>5, <2>6, <2>7
  <1>3. AlertsInv /\ [Next]_vars => [Spaced]_vars /\ [Real]_vars
    BY <1>1, <1>2
  <1>4. AlertsInv /\ [Next]_vars => AlertsInv'
    BY AlertsNextInv
  <1>5. Init => AlertsInv
    BY AlertsInitInv
  <1>6. Spec => [][Spaced]_vars /\ [][Real]_vars
    <2> HIDE DEF Spaced, Real
    <2> QED BY <1>3, <1>4, <1>5, PTL DEF Spec
  <1> QED BY <1>6 DEF NoticesHold, CooldownHeld, RecoveryIsReal
=============================================================================
