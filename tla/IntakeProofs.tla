---------------------------- MODULE IntakeProofs ----------------------------
(***************************************************************************)
(* Proofs about what the server admits, notices and tells.  Intake, for    *)
(* every set of tokens, mints, policies and calls, and any number of       *)
(* requests in progress; Stream, for every set of connections and tokens,  *)
(* every cap and every queue size; Observed, for every set of providers,   *)
(* batches and policies, every window, and any number of requests.         *)
(***************************************************************************)
EXTENDS Intake, Stream, Observed, SumLemmas, FiniteSetTheorems, TLAPS

(* The principals that come of the rows.                                   *)
Principals ==
    [label : Callers, scopes : {AllScopes} \union {RowOf(m).scopes : m \in Mints},
     sources : {Nil} \union {m.sources : m \in Mints}]

Calls == UNION {w.calls : w \in Workloads}

InProgress ==
    [who : Callers, call : Calls, principal : {Nil} \union Principals, late : BOOLEAN]

IntakeTypeOK ==
    /\ workload \in Workloads
    /\ tokenRows \in [Labels -> {Nil} \union RowsOfTokens]
    /\ policy \in Policies
    /\ progress \in [Slots -> {Nil} \union InProgress]
    /\ DOMAIN told = workload.calls
    /\ \A s \in Slots : progress[s] # Nil => progress[s].call \in workload.calls
    /\ \A x \in stored : x.who \in Callers

-----------------------------------------------------------------------------
(* The strengthening of AdmittedOnly.                                      *)

(* A principal is what the row of its token was when the request was       *)
(* authenticated; of the row only the revocation changes, so that it is    *)
(* what the row says now.  A request that arrived after the revocation is  *)
(* not authenticated.                                                      *)
Speaks(r) ==
    r.who # Bootstrap =>
        /\ r.late => tokenRows[r.who] # Nil /\ tokenRows[r.who].revoked
        /\ r.principal # Nil =>
              /\ ~ r.late
              /\ tokenRows[r.who] # Nil
              /\ r.principal.scopes = tokenRows[r.who].scopes
              /\ r.principal.sources = Nil
                    => tokenRows[r.who].sources \in {Nil, {}}
              /\ r.principal.sources # Nil
                    => r.principal.sources = tokenRows[r.who].sources
              /\ Needed[r.call.kind] \in tokenRows[r.who].scopes

PrincipalsHold == \A s \in Slots : progress[s] # Nil => Speaks(progress[s])

-----------------------------------------------------------------------------
(* The strengthening of PreflightAgrees.                                   *)

(* A body that no check of its own stops.                                  *)
Clean(body) == WellFormed(body) /\ ~ SchemaErrors(body) /\ PrivacyIssues(body) = {}

(* What a call may be told under the policy.                               *)
Truthful(call, verdict) ==
    /\ call.kind = "validate" => (verdict = "valid" <=> Clean(call.body))
    /\ call.kind = "ingest" =>
          /\ verdict \in {"malformed", "forbidden", "invalid", "stored"}
          /\ verdict = "stored" => Clean(call.body)
          /\ verdict \in {"malformed", "invalid"} => ~ Clean(call.body)

ToldTruly == \A call \in workload.calls : told[call] # Nil => Truthful(call, told[call])

-----------------------------------------------------------------------------
(* Lemmas about rows and principals.                                       *)

LEMMA RowFacts ==
    /\ Nil \notin RowsOfTokens
    /\ \A m \in Mints : RowOf(m) \in RowsOfTokens /\ ~ RowOf(m).revoked
    /\ \A row \in RowsOfTokens :
          /\ row.scopes \in {AllScopes} \union {RowOf(m).scopes : m \in Mints}
          /\ row.sources \in {m.sources : m \in Mints}
          /\ row.revoked \in BOOLEAN
          /\ [row EXCEPT !.revoked = TRUE] \in RowsOfTokens
          /\ [row EXCEPT !.revoked = TRUE].scopes = row.scopes
          /\ [row EXCEPT !.revoked = TRUE].sources = row.sources
          /\ [row EXCEPT !.revoked = TRUE].revoked
  <1>1. \A m \in Mints : RowOf(m) \in RowsOfTokens /\ ~ RowOf(m).revoked
    BY DEF RowsOfTokens, RowOf
  <1>2. ASSUME NEW row \in RowsOfTokens
        PROVE  /\ row.scopes \in {AllScopes} \union {RowOf(m).scopes : m \in Mints}
               /\ row.sources \in {m.sources : m \in Mints}
               /\ row.revoked \in BOOLEAN
               /\ [row EXCEPT !.revoked = TRUE] \in RowsOfTokens
               /\ [row EXCEPT !.revoked = TRUE].scopes = row.scopes
               /\ [row EXCEPT !.revoked = TRUE].sources = row.sources
               /\ [row EXCEPT !.revoked = TRUE].revoked
    BY DEF RowsOfTokens
  <1> QED BY <1>1, <1>2, IntakeAssumption

LEMMA PrincipalFacts ==
    ASSUME IntakeTypeOK, NEW who \in Callers, Known(who)
    PROVE  /\ PrincipalOf(who) \in Principals
           /\ who # Bootstrap =>
                 /\ who \in Labels /\ tokenRows[who] \in RowsOfTokens /\ ~ tokenRows[who].revoked
                 /\ PrincipalOf(who).scopes = tokenRows[who].scopes
                 /\ PrincipalOf(who).sources = IF tokenRows[who].sources = {} THEN Nil
                                               ELSE tokenRows[who].sources
  <1>1. CASE who = Bootstrap
    BY <1>1 DEF PrincipalOf, Principals
  <1>2. CASE who # Bootstrap
    <2>1. who \in Labels /\ tokenRows[who] \in RowsOfTokens /\ ~ tokenRows[who].revoked
      BY <1>2 DEF Known, IntakeTypeOK, Callers
    <2> QED BY <1>2, <2>1, RowFacts DEF PrincipalOf, Principals
  <1> QED BY <1>1, <1>2

-----------------------------------------------------------------------------
LEMMA InitTyped == IntakeInit => IntakeTypeOK /\ PrincipalsHold /\ AdmittedOnly /\ ToldTruly
  BY DEF IntakeInit, IntakeTypeOK, PrincipalsHold, AdmittedOnly, ToldTruly

(* Types.                                                                  *)
LEMMA IntakeTypeKept == IntakeTypeOK /\ [IntakeNext]_intakeVars => IntakeTypeOK'
  <1> SUFFICES ASSUME IntakeTypeOK, [IntakeNext]_intakeVars PROVE IntakeTypeOK'
    OBVIOUS
  <1> USE DEF IntakeTypeOK
  <1>1. ASSUME NEW s \in Slots, NEW who \in Callers, NEW call \in workload.calls,
               Arrive(s, who, call)
        PROVE  IntakeTypeOK'
    <2>1. call \in Calls
      BY DEF Calls
    <2>2. who # Bootstrap /\ tokenRows[who] # Nil => tokenRows[who].revoked \in BOOLEAN
      BY RowFacts DEF Callers
    <2>3. (who # Bootstrap /\ tokenRows[who] # Nil /\ tokenRows[who].revoked) \in BOOLEAN
      OBVIOUS
    <2>4. [who |-> who, call |-> call, principal |-> Nil,
           late |-> who # Bootstrap /\ tokenRows[who] # Nil /\ tokenRows[who].revoked]
             \in InProgress
      BY <2>1, <2>3 DEF InProgress
    <2> QED BY <1>1, <2>4 DEF Arrive
  <1>2. ASSUME NEW s \in Slots, Authenticate(s) PROVE IntakeTypeOK'
    <2> DEFINE r == progress[s]
    <2>1. r \in InProgress /\ r.who \in Callers
      BY <1>2 DEF Authenticate, InProgress
    <2>2. \/ progress' = [progress EXCEPT ![s] = Nil]
          \/ /\ Known(r.who)
             /\ progress' = [progress EXCEPT ![s] = [r EXCEPT !.principal = PrincipalOf(r.who)]]
      BY <1>2 DEF Authenticate
    <2>3. ASSUME Known(r.who)
          PROVE  /\ [r EXCEPT !.principal = PrincipalOf(r.who)] \in InProgress
                 /\ [r EXCEPT !.principal = PrincipalOf(r.who)].call = r.call
      BY <2>1, <2>3, PrincipalFacts DEF InProgress
    <2>4. UNCHANGED <<workload, tokenRows, policy, told, stored>>
      BY <1>2 DEF Authenticate
    <2>5. CASE progress' = [progress EXCEPT ![s] = Nil]
      BY <2>4, <2>5
    <2>6. CASE Known(r.who)
                 /\ progress' = [progress EXCEPT ![s] = [r EXCEPT !.principal = PrincipalOf(r.who)]]
      <3>1. r.call \in workload.calls
        BY <1>2 DEF Authenticate
      <3> HIDE DEF r
      <3> QED BY <2>3, <2>4, <2>6, <3>1
    <2> QED BY <2>2, <2>5, <2>6
  <1>3. ASSUME NEW s \in Slots, Ingest(s) PROVE IntakeTypeOK'
    <2>1. progress[s] # Nil /\ progress[s].who \in Callers
      BY <1>3 DEF Ingest, Ready, InProgress
    <2>2. \A x \in stored' : x.who \in Callers
      BY <1>3, <2>1 DEF Ingest
    <2> QED BY <1>3, <2>2 DEF Ingest, Answered, Tell
  <1>10. ASSUME NEW s \in Slots, Validate(s) PROVE IntakeTypeOK'
    BY <1>10 DEF Validate, Answered, Tell
  <1>4. ASSUME NEW s \in Slots, Query(s) \/ CallFails(s) PROVE IntakeTypeOK'
    BY <1>4 DEF Query, CallFails, Answered
  <1>5. ASSUME NEW s \in Slots, NEW label \in Labels, NEW mint \in Mints,
               MintToken(s, label, mint)
        PROVE  IntakeTypeOK'
    <2>1. RowOf(mint) \in RowsOfTokens
      BY RowFacts
    <2>2. tokenRows' \in [Labels -> {Nil} \union RowsOfTokens]
      BY <1>5, <2>1 DEF MintToken
    <2> QED BY <1>5, <2>2 DEF MintToken, Answered
  <1>6. ASSUME NEW s \in Slots, NEW label \in Labels, RevokeToken(s, label) PROVE IntakeTypeOK'
    <2>1. tokenRows' \in [Labels -> {Nil} \union RowsOfTokens]
      <3>1. CASE tokenRows[label] = Nil
        BY <1>6, <3>1 DEF RevokeToken
      <3>2. CASE tokenRows[label] # Nil
        <4>1. tokenRows' = [tokenRows EXCEPT ![label] = [@ EXCEPT !.revoked = TRUE]]
          BY <1>6, <3>2 DEF RevokeToken
        <4>2. [tokenRows[label] EXCEPT !.revoked = TRUE] \in RowsOfTokens
          BY <3>2, RowFacts
        <4> QED BY <4>1, <4>2
      <3> QED BY <3>1, <3>2
    <2> QED BY <1>6, <2>1 DEF RevokeToken, Answered
  <1>7. ASSUME NEW p \in Policies, Restart(p) PROVE IntakeTypeOK'
    BY <1>7 DEF Restart
  <1>8. CASE Second
    BY <1>8 DEF Second
  <1>9. CASE UNCHANGED intakeVars
    BY <1>9 DEF intakeVars
  <1> QED BY <1>1, <1>2, <1>3, <1>4, <1>5, <1>6, <1>7, <1>8, <1>9, <1>10
        DEF IntakeNext

(* The gates are passed by requests of calls, mints and policies that      *)
(* exist, whatever is minted, revoked or restarted.                        *)
THEOREM IntakeTyped == IntakeSpec => []IntakeTypeOK
  <1>1. IntakeInit => IntakeTypeOK
    BY InitTyped
  <1> QED BY <1>1, IntakeTypeKept, PTL DEF IntakeSpec

-----------------------------------------------------------------------------
(* AdmittedOnly.                                                           *)

(* Of a row nothing changes but that it is revoked.                        *)
RowsStand ==
    \A who \in Callers : who # Bootstrap /\ tokenRows[who] # Nil =>
        /\ tokenRows'[who] # Nil
        /\ tokenRows'[who].scopes = tokenRows[who].scopes
        /\ tokenRows'[who].sources = tokenRows[who].sources
        /\ tokenRows[who].revoked => tokenRows'[who].revoked

LEMMA StepRowsStand == IntakeTypeOK /\ [IntakeNext]_intakeVars => RowsStand
  <1> SUFFICES ASSUME IntakeTypeOK, [IntakeNext]_intakeVars PROVE RowsStand
    OBVIOUS
  <1>1. ASSUME UNCHANGED tokenRows PROVE RowsStand
    BY <1>1 DEF RowsStand
  <1>2. ASSUME NEW s \in Slots, NEW label \in Labels, NEW mint \in Mints,
               MintToken(s, label, mint)
        PROVE  RowsStand
    BY <1>2 DEF MintToken, Mintable, RowsStand, Callers, IntakeTypeOK
  <1>3. ASSUME NEW s \in Slots, NEW label \in Labels, RevokeToken(s, label) PROVE RowsStand
    <2>1. CASE tokenRows[label] = Nil
      BY <1>1, <1>3, <2>1 DEF RevokeToken
    <2>2. CASE tokenRows[label] # Nil
      <3>1. tokenRows' = [tokenRows EXCEPT ![label] = [@ EXCEPT !.revoked = TRUE]]
        BY <1>3, <2>2 DEF RevokeToken
      <3>2. tokenRows[label] \in RowsOfTokens
        BY <2>2 DEF IntakeTypeOK
      <3>3. /\ tokenRows'[label] \in RowsOfTokens
            /\ tokenRows'[label].scopes = tokenRows[label].scopes
            /\ tokenRows'[label].sources = tokenRows[label].sources
            /\ tokenRows'[label].revoked
        BY <3>1, <3>2, RowFacts DEF IntakeTypeOK
      <3>4. \A who \in Labels \ {label} : tokenRows'[who] = tokenRows[who]
        BY <3>1 DEF IntakeTypeOK
      <3> QED BY <3>3, <3>4, RowFacts DEF RowsStand, Callers
    <2> QED BY <2>1, <2>2
  <1>4. ASSUME NEW s \in Slots, Authenticate(s) \/ Ingest(s) \/ Validate(s) \/ Query(s)
                                \/ CallFails(s)
        PROVE  RowsStand
    BY <1>1, <1>4 DEF Authenticate, Ingest, Validate, Query, CallFails
  <1>5. ASSUME NEW s \in Slots, NEW who \in Callers, NEW call \in workload.calls,
               Arrive(s, who, call)
        PROVE  RowsStand
    BY <1>1, <1>5 DEF Arrive
  <1>6. ASSUME NEW p \in Policies, Restart(p) PROVE RowsStand
    BY <1>1, <1>6 DEF Restart
  <1>7. CASE Second \/ UNCHANGED intakeVars
    BY <1>1, <1>7 DEF Second, intakeVars
  <1> QED BY <1>2, <1>3, <1>4, <1>5, <1>6, <1>7 DEF IntakeNext

LEMMA SpeaksOn ==
    ASSUME RowsStand, NEW r \in InProgress, Speaks(r)
    PROVE  Speaks(r)'
  BY DEF Speaks, RowsStand, InProgress

LEMMA PrincipalsStillHold == IntakeTypeOK /\ PrincipalsHold /\ [IntakeNext]_intakeVars => PrincipalsHold'
  <1> SUFFICES ASSUME IntakeTypeOK, PrincipalsHold, [IntakeNext]_intakeVars, NEW q \in Slots,
                      progress'[q] # Nil
               PROVE  Speaks(progress[q])'
    BY DEF PrincipalsHold
  <1>r. RowsStand
    BY StepRowsStand
  <1>1. ASSUME progress'[q] = progress[q] PROVE Speaks(progress[q])'
    <2>1. progress[q] \in InProgress /\ Speaks(progress[q])
      BY <1>1 DEF IntakeTypeOK, PrincipalsHold
    <2> QED BY <1>1, <1>r, <2>1, SpeaksOn DEF Speaks
  <1>2. ASSUME NEW s \in Slots, NEW who \in Callers, NEW call \in workload.calls,
               Arrive(s, who, call)
        PROVE  Speaks(progress[q])'
    <2>1. CASE q = s
      <3> DEFINE barred == who # Bootstrap /\ tokenRows[who] # Nil /\ tokenRows[who].revoked
                 r == [who |-> who, call |-> call, principal |-> Nil, late |-> barred]
      <3>1. progress'[q] = r
        BY <1>2, <2>1 DEF Arrive, IntakeTypeOK
      <3>2. r.who = who /\ r.principal = Nil /\ r.late = barred
        <4> HIDE DEF barred
        <4> QED OBVIOUS
      <3>4. barred => tokenRows[who] # Nil /\ tokenRows[who].revoked
        OBVIOUS
      <3> HIDE DEF barred, r
      <3>3. UNCHANGED tokenRows
        BY <1>2 DEF Arrive
      <3> QED BY <3>1, <3>2, <3>3, <3>4 DEF Speaks
    <2>2. CASE q # s
      <3>1. progress'[q] = progress[q]
        BY <1>2, <2>2 DEF Arrive, IntakeTypeOK
      <3> QED BY <1>1, <3>1
    <2> QED BY <2>1, <2>2
  <1>3. ASSUME NEW s \in Slots, Authenticate(s) PROVE Speaks(progress[q])'
    <2>1. CASE q = s
      <3> DEFINE r == progress[s]
      <3>1. r \in InProgress /\ r.who \in Callers /\ Speaks(r) /\ UNCHANGED tokenRows
        BY <1>3 DEF Authenticate, IntakeTypeOK, PrincipalsHold, InProgress
      <3>2. /\ Known(r.who) /\ Needed[r.call.kind] \in PrincipalOf(r.who).scopes
            /\ progress'[q] = [r EXCEPT !.principal = PrincipalOf(r.who)]
        BY <1>3, <2>1 DEF Authenticate, IntakeTypeOK
      <3>3. r.who # Bootstrap =>
              /\ tokenRows[r.who] \in RowsOfTokens /\ ~ tokenRows[r.who].revoked
              /\ PrincipalOf(r.who).scopes = tokenRows[r.who].scopes
              /\ PrincipalOf(r.who).sources = IF tokenRows[r.who].sources = {} THEN Nil
                                              ELSE tokenRows[r.who].sources
        BY <3>1, <3>2, PrincipalFacts
      <3>4. /\ progress'[q].who = r.who /\ progress'[q].late = r.late
            /\ progress'[q].call = r.call /\ progress'[q].principal = PrincipalOf(r.who)
        BY <3>1, <3>2 DEF InProgress
      <3> HIDE DEF r
      <3> QED BY <3>1, <3>2, <3>3, <3>4, RowFacts DEF Speaks
    <2>2. CASE q # s
      <3>1. progress'[q] = progress[q]
        BY <1>3, <2>2 DEF Authenticate, IntakeTypeOK
      <3> QED BY <1>1, <3>1
    <2> QED BY <2>1, <2>2
  <1>4. ASSUME NEW s \in Slots, Answered(s) PROVE Speaks(progress[q])'
    <2>1. progress'[q] = progress[q]
      BY <1>4 DEF Answered, IntakeTypeOK
    <2> QED BY <1>1, <2>1
  <1>5. ASSUME NEW s \in Slots, Ingest(s) \/ Validate(s) \/ Query(s) \/ CallFails(s)
        PROVE  Speaks(progress[q])'
    BY <1>4, <1>5 DEF Ingest, Validate, Query, CallFails
  <1>6. ASSUME NEW s \in Slots, NEW label \in Labels,
               RevokeToken(s, label) \/ \E mint \in Mints : MintToken(s, label, mint)
        PROVE  Speaks(progress[q])'
    BY <1>4, <1>6 DEF RevokeToken, MintToken
  <1>7. ASSUME NEW p \in Policies, Restart(p) PROVE FALSE
    BY <1>7 DEF Restart
  <1>8. CASE Second \/ UNCHANGED intakeVars
    BY <1>1, <1>8 DEF Second, intakeVars
  <1> QED BY <1>2, <1>3, <1>5, <1>6, <1>7, <1>8 DEF IntakeNext

(* What the handler stores passed all of its checks.                       *)
LEMMA StoredPassed ==
    ASSUME NEW principal, NEW call, IngestVerdict(principal, call) = "stored"
    PROVE  /\ Clean(call.body)
           /\ call.correction => "admin:corrections" \in principal.scopes
           /\ SourcesAllowed(principal, call.body)
  BY DEF IngestVerdict, Clean

(* An event without issues has no content left when it is stored, and tool *)
(* names only where the server takes them.                                 *)
LEMMA SanitizedEvent ==
    ASSUME policy \in Policies, NEW event, {"source", "extra", "tools"} \subseteq DOMAIN event,
           Issues(event) = {}
    PROVE  /\ Sanitized(event).source = event.source
           /\ \A path \in Sanitized(event).extra : ~ IsContent(path)
           /\ Sanitized(event).tools # Nil => policy.tools
  <1>1. policy.mode = "reject" => Cleaned(event.extra) = event.extra
    BY DEF Issues
  <1>2. event.tools # Nil => policy.tools
    BY DEF Issues
  <1>3. CASE policy.mode = "strip"
    <2>1. Sanitized(event) = [event EXCEPT !.extra = Cleaned(event.extra)]
      BY <1>3 DEF Sanitized
    <2>2. /\ Sanitized(event).source = event.source /\ Sanitized(event).tools = event.tools
          /\ Sanitized(event).extra = Cleaned(event.extra)
      BY <2>1
    <2> QED BY <1>2, <2>2 DEF Cleaned
  <1>4. CASE policy.mode = "reject"
    BY <1>1, <1>2, <1>4 DEF Sanitized, Cleaned
  <1> QED BY <1>3, <1>4, IntakeAssumption

LEMMA AdmittedStep ==
    IntakeTypeOK /\ PrincipalsHold /\ AdmittedOnly /\ [IntakeNext]_intakeVars => AdmittedOnly'
  <1> SUFFICES ASSUME IntakeTypeOK, PrincipalsHold, AdmittedOnly, [IntakeNext]_intakeVars
               PROVE  AdmittedOnly'
    OBVIOUS
  <1> DEFINE Right(x) ==
               /\ x.who # Bootstrap =>
                    /\ tokenRows'[x.who] # Nil
                    /\ ~ x.late
                    /\ "ingest:events" \in tokenRows'[x.who].scopes
                    /\ x.correction => "admin:corrections" \in tokenRows'[x.who].scopes
                    /\ tokenRows'[x.who].sources \notin {Nil, {}} =>
                         x.event.source \in tokenRows'[x.who].sources
               /\ \A path \in x.event.extra : ~ IsContent(path)
               /\ x.event.tools # Nil => x.tools
  <1>1. SUFFICES \A x \in stored' : Right(x)
    BY DEF AdmittedOnly
  <1>r. RowsStand
    BY StepRowsStand
  <1>2. ASSUME NEW x \in stored PROVE Right(x)
    BY <1>r DEF AdmittedOnly, RowsStand, IntakeTypeOK
  <1>3. ASSUME NEW s \in Slots, Ingest(s) PROVE \A x \in stored' : Right(x)
    <2> DEFINE r == progress[s]
               verdict == IngestVerdict(r.principal, r.call)
    <2>1. r # Nil /\ r.principal # Nil /\ r.call.kind = "ingest" /\ r \in InProgress
      BY <1>3 DEF Ingest, Ready, IntakeTypeOK
    <2>2. r.who \in Callers /\ Speaks(r) /\ r.call \in workload.calls
      BY <1>3, <2>1 DEF IntakeTypeOK, PrincipalsHold, InProgress
    <2>3. UNCHANGED tokenRows
      BY <1>3 DEF Ingest
    <2>4. CASE verdict # "stored"
      BY <1>2, <1>3, <2>4 DEF Ingest
    <2>5. CASE verdict = "stored"
      <3>1. ASSUME NEW i \in DOMAIN r.call.body.events
            PROVE  Right([who |-> r.who, correction |-> r.call.correction, late |-> r.late,
                          event |-> Sanitized(r.call.body.events[i]), tools |-> policy.tools])
        <4> DEFINE event == r.call.body.events[i]
                   x == [who |-> r.who, correction |-> r.call.correction, late |-> r.late,
                         event |-> Sanitized(event), tools |-> policy.tools]
        <4>1. /\ Clean(r.call.body)
              /\ r.call.correction => "admin:corrections" \in r.principal.scopes
              /\ SourcesAllowed(r.principal, r.call.body)
          BY <2>5, StoredPassed
        <4>2. Issues(event) = {}
          BY <4>1 DEF Clean, PrivacyIssues
        <4>3. {"source", "extra", "tools"} \subseteq DOMAIN event
          BY <2>2, IntakeAssumption DEF IntakeTypeOK
        <4>4. /\ Sanitized(event).source = event.source
              /\ \A path \in Sanitized(event).extra : ~ IsContent(path)
              /\ Sanitized(event).tools # Nil => policy.tools
          BY <4>2, <4>3, SanitizedEvent DEF IntakeTypeOK
        <4>5. r.principal.sources = Nil \/ event.source \in r.principal.sources
          BY <4>1 DEF SourcesAllowed
        <4>6. Needed["ingest"] = "ingest:events"
          BY DEF Needed
        <4>7. /\ x.who = r.who /\ x.correction = r.call.correction /\ x.late = r.late
              /\ x.event = Sanitized(event) /\ x.tools = policy.tools
          OBVIOUS
        <4>8. r.who # Bootstrap =>
                /\ ~ r.late
                /\ tokenRows[r.who] # Nil
                /\ "ingest:events" \in tokenRows[r.who].scopes
                /\ r.call.correction => "admin:corrections" \in tokenRows[r.who].scopes
                /\ tokenRows[r.who].sources \notin {Nil, {}} =>
                     event.source \in tokenRows[r.who].sources
          <5> HIDE DEF event, r
          <5> QED BY <2>1, <2>2, <4>1, <4>5, <4>6 DEF Speaks
        <4> HIDE DEF event, r, x
        <4>9. Right(x)
          BY <2>3, <4>4, <4>7, <4>8
        <4> QED BY <4>9 DEF x, event
      <3>2. stored' = stored \union
                {[who |-> r.who, correction |-> r.call.correction, late |-> r.late,
                  event |-> Sanitized(r.call.body.events[i]), tools |-> policy.tools] :
                    i \in DOMAIN r.call.body.events}
        BY <1>3, <2>5 DEF Ingest
      <3> HIDE DEF r, Right
      <3> QED BY <1>2, <3>1, <3>2
    <2> QED BY <2>4, <2>5
  <1>4. ASSUME UNCHANGED stored PROVE \A x \in stored' : Right(x)
    BY <1>2, <1>4
  <1> HIDE DEF Right
  <1>5. ASSUME NEW s \in Slots, Authenticate(s) \/ Validate(s) \/ Query(s) \/ CallFails(s)
        PROVE  \A x \in stored' : Right(x)
    BY <1>4, <1>5 DEF Authenticate, Validate, Query, CallFails
  <1>6. ASSUME NEW s \in Slots, NEW label \in Labels,
               RevokeToken(s, label) \/ \E mint \in Mints : MintToken(s, label, mint)
        PROVE  \A x \in stored' : Right(x)
    BY <1>4, <1>6 DEF RevokeToken, MintToken
  <1>7. ASSUME NEW s \in Slots, NEW who \in Callers, NEW call \in workload.calls,
               Arrive(s, who, call)
        PROVE  \A x \in stored' : Right(x)
    BY <1>4, <1>7 DEF Arrive
  <1>8. ASSUME NEW p \in Policies, Restart(p) PROVE \A x \in stored' : Right(x)
    BY <1>4, <1>8 DEF Restart
  <1>9. CASE Second \/ UNCHANGED intakeVars
    BY <1>4, <1>9 DEF Second, intakeVars
  <1> QED BY <1>3, <1>5, <1>6, <1>7, <1>8, <1>9 DEF IntakeNext

-----------------------------------------------------------------------------
(* PreflightAgrees.                                                        *)

(* What a body deserves is the same while the policy is.                   *)
LEMMA SameDeserts == ASSUME UNCHANGED policy, NEW body PROVE Clean(body)' = Clean(body)
  <1>1. ASSUME NEW event PROVE Issues(event)' = Issues(event)
    BY DEF Issues, Cleaned, IsContent, Depth
  <1>2. PrivacyIssues(body)' = PrivacyIssues(body)
    BY <1>1 DEF PrivacyIssues
  <1> QED BY <1>2 DEF Clean, WellFormed, SchemaErrors

(* What the two endpoints answer.                                          *)
LEMMA IngestTellsTruly ==
    ASSUME NEW principal, NEW call
    PROVE  LET verdict == IngestVerdict(principal, call)
           IN  /\ verdict \in {"malformed", "forbidden", "invalid", "stored"}
               /\ verdict = "stored" => Clean(call.body)
               /\ verdict \in {"malformed", "invalid"} => ~ Clean(call.body)
  BY DEF IngestVerdict, Clean

LEMMA ValidateTellsTruly ==
    ASSUME NEW body
    PROVE  ValidateVerdict(body) = "valid" <=> Clean(body)
  BY DEF ValidateVerdict, Clean

LEMMA ToldTrulyKept == IntakeTypeOK /\ ToldTruly /\ [IntakeNext]_intakeVars => ToldTruly'
  <1> SUFFICES ASSUME IntakeTypeOK, ToldTruly, [IntakeNext]_intakeVars PROVE ToldTruly'
    OBVIOUS
  <1>1. ASSUME UNCHANGED <<workload, policy, told>> PROVE ToldTruly'
    BY <1>1, SameDeserts DEF ToldTruly, Truthful
  <1>2. ASSUME NEW s \in Slots, NEW verdict, UNCHANGED <<workload, policy>>,
               progress[s] # Nil, Tell(progress[s].call, verdict),
               Truthful(progress[s].call, verdict)
        PROVE  ToldTruly'
    <2> DEFINE call == progress[s].call
    <2>1. call \in workload.calls
      BY <1>2 DEF IntakeTypeOK
    <2>2. told' = [told EXCEPT ![call] = verdict] /\ DOMAIN told = workload.calls
      BY <1>2 DEF Tell, IntakeTypeOK
    <2>3. ASSUME NEW c \in workload.calls, told'[c] # Nil PROVE Truthful(c, told'[c])
      <3>1. CASE c = call
        BY <1>2, <2>2, <3>1
      <3>2. CASE c # call
        <4>1. told'[c] = told[c]
          BY <2>2, <3>2
        <4> QED BY <2>3, <4>1 DEF ToldTruly, Truthful
      <3> QED BY <3>1, <3>2
    <2> QED BY <1>2, <2>3, SameDeserts DEF ToldTruly, Truthful
  <1>3. ASSUME NEW s \in Slots, Ingest(s) PROVE ToldTruly'
    <2> DEFINE verdict == IngestVerdict(progress[s].principal, progress[s].call)
    <2>1. /\ progress[s] # Nil /\ progress[s].call.kind = "ingest"
          /\ Tell(progress[s].call, verdict) /\ UNCHANGED <<workload, policy>>
      BY <1>3 DEF Ingest, Ready, Answered
    <2>2. Truthful(progress[s].call, verdict)
      BY <2>1, IngestTellsTruly DEF Truthful
    <2> HIDE DEF verdict
    <2> QED BY <1>2, <2>1, <2>2
  <1>4. ASSUME NEW s \in Slots, Validate(s) PROVE ToldTruly'
    <2> DEFINE verdict == ValidateVerdict(progress[s].call.body)
    <2>1. /\ progress[s] # Nil /\ progress[s].call.kind = "validate"
          /\ Tell(progress[s].call, verdict) /\ UNCHANGED <<workload, policy>>
      BY <1>4 DEF Validate, Ready, Answered
    <2>2. Truthful(progress[s].call, verdict)
      BY <2>1, ValidateTellsTruly DEF Truthful
    <2> HIDE DEF verdict
    <2> QED BY <1>2, <2>1, <2>2
  <1>5. ASSUME NEW s \in Slots, Authenticate(s) \/ Query(s) \/ CallFails(s) PROVE ToldTruly'
    BY <1>1, <1>5 DEF Authenticate, Query, CallFails, Answered
  <1>6. ASSUME NEW s \in Slots, NEW label \in Labels,
               RevokeToken(s, label) \/ \E mint \in Mints : MintToken(s, label, mint)
        PROVE  ToldTruly'
    BY <1>1, <1>6 DEF RevokeToken, MintToken, Answered
  <1>7. ASSUME NEW s \in Slots, NEW who \in Callers, NEW call \in workload.calls,
               Arrive(s, who, call)
        PROVE  ToldTruly'
    BY <1>1, <1>7 DEF Arrive
  <1>8. ASSUME NEW p \in Policies, Restart(p) PROVE ToldTruly'
    <2>1. UNCHANGED workload /\ told' = [call \in workload.calls |-> Nil]
      BY <1>8 DEF Restart
    <2> QED BY <2>1 DEF ToldTruly
  <1>9. CASE Second \/ UNCHANGED intakeVars
    BY <1>1, <1>9 DEF Second, intakeVars
  <1> QED BY <1>3, <1>4, <1>5, <1>6, <1>7, <1>8, <1>9 DEF IntakeNext

LEMMA ToldTrulyAgrees == ToldTruly => PreflightAgrees
  BY DEF ToldTruly, Truthful, PreflightAgrees

-----------------------------------------------------------------------------
(* Whatever is minted, revoked and restarted while requests are in         *)
(* progress, nothing is stored that the token and the policy of its        *)
(* request did not allow (auth.py:114, api/v2/ingest.py:186, 246,          *)
(* privacy.py), and /ingest/validate tells beforehand what /ingest/events  *)
(* will do (api/v2/ingest.py:308-340).                                     *)
THEOREM GatesAreKept == IntakeSpec => []GatesHold
  <1> DEFINE IInv == IntakeTypeOK /\ PrincipalsHold /\ AdmittedOnly /\ ToldTruly
  <1>1. IntakeInit => IInv
    BY InitTyped
  <1>2. IInv /\ [IntakeNext]_intakeVars => IInv'
    BY IntakeTypeKept, PrincipalsStillHold, AdmittedStep, ToldTrulyKept
  <1>3. IInv => GatesHold
    BY ToldTrulyAgrees DEF GatesHold
  <1> QED BY <1>1, <1>2, <1>3, PTL DEF IntakeSpec

-----------------------------------------------------------------------------
(* The strengthening of BucketsExact.  What the traffic from second t on   *)
(* has left of a bucket is an upper bound of its level for every t, and    *)
(* the level for the last second in which the bucket was full.             *)
Left(class, key, t) == Capacity + (clock - t) * Refill - Price * charged[class][key][t]

BucketHolds(class, key) ==
    /\ buckets[class][key].tokens \in 0 .. Capacity
    /\ buckets[class][key].last \in 0 .. clock
    /\ \A t \in 0 .. MaxClock : t > clock => charged[class][key][t] = 0
    /\ \A t \in 0 .. clock : Accrued(class, key) <= Left(class, key, t)
    /\ \E t \in 0 .. clock : Accrued(class, key) = Left(class, key, t)
    /\ advised[class][key] # Nil =>
          /\ advised[class][key] >= buckets[class][key].last
          /\ buckets[class][key].tokens
               + (advised[class][key] - buckets[class][key].last) * Refill >= Price

BucketInv ==
    /\ workload \in Workloads
    /\ clock \in 0 .. workload.seconds
    /\ buckets \in [Classes -> [Callers -> [tokens : Nat, last : Nat]]]
    /\ charged \in [Classes -> [Callers -> [0 .. MaxClock -> Nat]]]
    /\ advised \in [Classes -> [Callers -> Nat \union {Nil}]]
    /\ \A class \in Classes, key \in Callers : BucketHolds(class, key)

LEMMA BucketNumbers ==
    /\ Capacity \in Nat \ {0} /\ Refill \in Nat \ {0} /\ Price \in Nat \ {0}
    /\ MaxClock \in Nat \ {0}
    /\ \A w \in Workloads : w.seconds \in 0 .. MaxClock
  BY IntakeAssumption

LEMMA Products ==
    /\ \A a, b \in Int : a * b \in Int
    /\ \A a, b \in Int : (a + 1) * b = a * b + b
    /\ \A a, b \in Int : a * (b + 1) = a * b + a
    /\ \A a, b, c \in Nat : a <= b => a * c <= b * c
    /\ \A a \in Int, b \in Nat \ {0} : ((a + b - 1) \div b) * b >= a
  <1>1. \A a, b, c \in Nat : a <= b => a * c <= b * c
    <2> SUFFICES ASSUME NEW a \in Nat, NEW b \in Nat, NEW c \in Nat, a <= b
                 PROVE  a * c <= b * c
      OBVIOUS
    <2>1. PICK d \in Nat : b = a + d
      <3>1. b - a \in Nat /\ b = a + (b - a)
        OBVIOUS
      <3> QED BY <3>1
    <2>2. b * c = a * c + d * c /\ d * c \in Nat /\ a * c \in Nat
      BY <2>1
    <2> QED BY <2>2
  <1>2. ASSUME NEW a \in Int, NEW b \in Nat \ {0}
        PROVE  ((a + b - 1) \div b) * b >= a
    <2> DEFINE n == a + b - 1
    <2>1. n \in Int /\ n = b * (n \div b) + (n % b) /\ (n % b) \in 0 .. b - 1 /\ (n \div b) \in Int
      OBVIOUS
    <2>2. (n \div b) * b = b * (n \div b)
      BY <2>1
    <2> QED BY <2>1, <2>2
  <1> QED BY <1>1, <1>2

LEMMA BucketTypes ==
    ASSUME BucketInv, NEW class \in Classes, NEW key \in Callers
    PROVE  /\ clock \in Nat /\ clock <= MaxClock
           /\ buckets[class][key].tokens \in Nat /\ buckets[class][key].last \in Nat
           /\ buckets[class][key].tokens <= Capacity /\ buckets[class][key].last <= clock
           /\ charged[class][key] \in [0 .. MaxClock -> Nat]
           /\ advised[class][key] \in Nat \union {Nil}
           /\ Accrued(class, key) \in Nat /\ Accrued(class, key) <= Capacity
           /\ \A t \in 0 .. clock : t \in 0 .. MaxClock /\ Left(class, key, t) \in Int
           /\ BucketHolds(class, key)
  <1>1. /\ clock \in Nat /\ clock <= MaxClock /\ BucketHolds(class, key)
        /\ buckets[class][key] \in [tokens : Nat, last : Nat]
        /\ charged[class][key] \in [0 .. MaxClock -> Nat]
        /\ advised[class][key] \in Nat \union {Nil}
    BY BucketNumbers DEF BucketInv
  <1>2. /\ buckets[class][key].tokens \in Nat /\ buckets[class][key].last \in Nat
        /\ buckets[class][key].tokens <= Capacity /\ buckets[class][key].last <= clock
    BY <1>1, BucketNumbers DEF BucketHolds
  <1>3. (clock - buckets[class][key].last) * Refill \in Nat
    <2>1. clock - buckets[class][key].last \in Nat
      BY <1>1, <1>2
    <2> QED BY <2>1, BucketNumbers
  <1>4. Accrued(class, key) \in Nat /\ Accrued(class, key) <= Capacity
    BY <1>2, <1>3, BucketNumbers DEF Accrued, MinOf
  <1>5. ASSUME NEW t \in 0 .. clock PROVE t \in 0 .. MaxClock /\ Left(class, key, t) \in Int
    <2>1. t \in 0 .. MaxClock /\ charged[class][key][t] \in Nat
      BY <1>1, BucketNumbers
    <2>2. (clock - t) * Refill \in Int /\ Price * charged[class][key][t] \in Int
      <3>1. clock - t \in Int
        BY <1>1
      <3> QED BY <2>1, <3>1, Products, BucketNumbers
    <2> QED BY <2>1, <2>2, BucketNumbers DEF Left
  <1> QED BY <1>1, <1>2, <1>4, <1>5

(* A check leaves the bucket at its level and counts what it lets through. *)
LEMMA CheckedBucket ==
    ASSUME BucketInv, NEW class \in Classes, NEW key \in Callers, Check(class, key),
           UNCHANGED <<workload, clock>>
    PROVE  BucketHolds(class, key)'
  <1> DEFINE level == Level(class, key)
             one == IF Allowed(class, key) THEN 1 ELSE 0
  <1>1. /\ clock \in Nat /\ clock <= MaxClock /\ Accrued(class, key) \in Nat
        /\ Accrued(class, key) <= Capacity
        /\ charged[class][key] \in [0 .. MaxClock -> Nat]
        /\ \A t \in 0 .. clock : t \in 0 .. MaxClock /\ Left(class, key, t) \in Int
        /\ BucketHolds(class, key)
    BY BucketTypes
  <1>2. /\ level \in Nat /\ level <= Capacity
        /\ level = Accrued(class, key) - Price * one
    BY <1>1, BucketNumbers DEF Level, Allowed
  <1>3. buckets'[class][key] = [tokens |-> level, last |-> clock]
    BY DEF Check, BucketInv
  <1>4. \A t \in 0 .. MaxClock :
           charged'[class][key][t] = charged[class][key][t] + (IF t <= clock THEN one ELSE 0)
    <2> SUFFICES ASSUME NEW t \in 0 .. MaxClock
                 PROVE  charged'[class][key][t] =
                            charged[class][key][t] + (IF t <= clock THEN one ELSE 0)
      OBVIOUS
    <2>1. charged[class][key][t] \in Nat
      BY <1>1
    <2>2. CASE Allowed(class, key)
      <3>1. charged'[class][key] =
               [u \in 0 .. MaxClock |-> charged[class][key][u] + IF u <= clock THEN 1 ELSE 0]
        <4> DEFINE counts ==
               [u \in 0 .. MaxClock |-> charged[class][key][u] + IF u <= clock THEN 1 ELSE 0]
        <4>1. charged' = [charged EXCEPT ![class][key] = counts]
          BY <2>2 DEF Check
        <4> HIDE DEF counts
        <4> QED BY <4>1 DEF BucketInv, counts
      <3> QED BY <2>2, <3>1
    <2>3. CASE ~ Allowed(class, key)
      BY <2>1, <2>3 DEF Check
    <2> QED BY <2>2, <2>3
  <1> HIDE DEF level
  <1>5. Accrued(class, key)' = level
    <2>1. Accrued(class, key)' = MinOf(Capacity, level + (clock - clock) * Refill)
      BY <1>3 DEF Accrued
    <2>2. (clock - clock) * Refill = 0
      BY <1>1, BucketNumbers
    <2> QED BY <1>2, <2>1, <2>2, BucketNumbers DEF MinOf
  <1>6. ASSUME NEW t \in 0 .. clock PROVE Left(class, key, t)' = Left(class, key, t) - Price * one
    <2>1. charged[class][key][t] \in Nat /\ charged'[class][key][t] = charged[class][key][t] + one
      <3>1. t \in 0 .. MaxClock /\ t <= clock
        BY <1>1
      <3> HIDE DEF one
      <3> QED BY <1>1, <1>4, <3>1
    <2>2. Price * (charged[class][key][t] + one) = Price * charged[class][key][t] + Price * one
      <3> DEFINE n == charged[class][key][t]
      <3>1. n \in Int /\ Price \in Int
        BY <2>1, BucketNumbers
      <3> HIDE DEF n
      <3>2. Price * (n + 1) = Price * n + Price * 1 /\ Price * (n + 0) = Price * n + Price * 0
        BY <3>1, Products
      <3> QED BY <3>2 DEF n
    <2>3. (clock - t) * Refill \in Int /\ Price * charged[class][key][t] \in Int /\ Price * one \in Int
      <3>1. clock - t \in Int /\ one \in Int
        BY <1>1
      <3> HIDE DEF one
      <3> QED BY <2>1, <3>1, Products, BucketNumbers
    <2> HIDE DEF one
    <2>4. Left(class, key, t)' = Capacity + (clock - t) * Refill - Price * (charged[class][key][t] + one)
      BY <2>1 DEF Left
    <2>5. \A a, b, c, d \in Int : a + b - (c + d) = (a + b - c) - d
      OBVIOUS
    <2> QED BY <2>2, <2>3, <2>4, <2>5, BucketNumbers DEF Left
  <1>7. Price * one \in Nat
    BY BucketNumbers
  <1> HIDE DEF one
  <1>8. /\ \A t \in 0 .. clock : Accrued(class, key)' <= Left(class, key, t)'
        /\ \E t \in 0 .. clock : Accrued(class, key)' = Left(class, key, t)'
    BY SMTT(30), <1>1, <1>2, <1>5, <1>6, <1>7 DEF BucketHolds
  <1>9. advised'[class][key] # Nil =>
           /\ advised'[class][key] >= clock
           /\ level + (advised'[class][key] - clock) * Refill >= Price
    <2>1. CASE Allowed(class, key)
      BY <2>1 DEF Check, BucketInv
    <2>2. CASE ~ Allowed(class, key)
      <3> DEFINE need == (Price - Accrued(class, key) + Refill - 1) \div Refill
                 wait == MaxOf(1, need)
      <3>1. advised'[class][key] = clock + wait
        BY <2>2 DEF Check, BucketInv, RetryAfter
      <3>2. need \in Int /\ need * Refill >= Price - Accrued(class, key)
        <4> DEFINE a == Price - Accrued(class, key)
        <4>1. a \in Int
          BY <1>1, BucketNumbers
        <4> HIDE DEF a
        <4>2. (a + Refill - 1) \div Refill \in Int /\ ((a + Refill - 1) \div Refill) * Refill >= a
          BY <4>1, Products, BucketNumbers
        <4> QED BY <4>2 DEF a
      <3> HIDE DEF need
      <3>3. wait \in Nat /\ wait >= need /\ wait >= 1
        BY <3>2 DEF MaxOf
      <3> HIDE DEF wait
      <3>4. wait * Refill >= Price - Accrued(class, key)
        <4>1. CASE need \in Nat
          <5>1. need * Refill <= wait * Refill /\ need * Refill \in Int /\ wait * Refill \in Int
            BY <3>2, <3>3, <4>1, Products, BucketNumbers
          <5> QED BY <1>1, <3>2, <5>1, BucketNumbers
        <4>2. CASE need \notin Nat
          <5>1. need < 0 /\ need * Refill <= 0
            <6>1. need < 0 /\ - need \in Nat
              BY <3>2, <4>2
            <6>2. (- need) * Refill \in Nat /\ need * Refill = - ((- need) * Refill)
              BY <3>2, <6>1, BucketNumbers
            <6> QED BY <6>1, <6>2
          <5>2. need * Refill \in Int /\ wait * Refill \in Nat
            BY <3>2, <3>3, BucketNumbers
          <5> DEFINE x == need * Refill
                     y == wait * Refill
          <5>3. x \in Int /\ y \in Nat /\ x <= 0 /\ x >= Price - Accrued(class, key)
            BY <3>2, <5>1, <5>2
          <5> HIDE DEF x, y
          <5>4. y >= Price - Accrued(class, key)
            BY <1>1, <5>3, BucketNumbers
          <5> QED BY <5>4 DEF y
        <4> QED BY <4>1, <4>2
      <3>5. level = Accrued(class, key)
        BY <2>2 DEF level, Level
      <3>6. (clock + wait) - clock = wait
        BY <1>1, <3>3
      <3>7. wait * Refill \in Int
        BY <3>3, Products, BucketNumbers
      <3>8. Accrued(class, key) + wait * Refill >= Price
        <4> DEFINE y == wait * Refill
        <4> HIDE DEF y
        <4> QED BY <1>1, <3>4, <3>7, BucketNumbers DEF y
      <3> QED BY <1>1, <3>1, <3>3, <3>5, <3>6, <3>8
    <2> QED BY <2>1, <2>2
  <1>10. \A t \in 0 .. MaxClock : t > clock' => charged'[class][key][t] = 0
    <2> SUFFICES ASSUME NEW t \in 0 .. MaxClock, t > clock PROVE charged'[class][key][t] = 0
      OBVIOUS
    <2>1. charged[class][key][t] = 0 /\ ~ (t <= clock)
      BY <1>1 DEF BucketHolds
    <2> QED BY <1>4, <2>1
  <1>11. buckets'[class][key].tokens \in 0 .. Capacity /\ buckets'[class][key].last \in 0 .. clock'
    BY <1>1, <1>2, <1>3, BucketNumbers
  <1> QED BY <1>3, <1>8, <1>9, <1>10, <1>11 DEF BucketHolds

LEMMA CheckKeepsBuckets ==
    ASSUME BucketInv, NEW class \in Classes, NEW key \in Callers, Check(class, key),
           UNCHANGED <<workload, clock>>
    PROVE  BucketInv'
  <1>1. BucketHolds(class, key)'
    BY CheckedBucket
  <1>2. /\ clock \in Nat /\ clock <= MaxClock /\ Level(class, key) \in Nat
        /\ charged[class][key] \in [0 .. MaxClock -> Nat]
    BY BucketTypes, BucketNumbers DEF Level, Allowed
  <1>3. buckets' \in [Classes -> [Callers -> [tokens : Nat, last : Nat]]]
    BY <1>2 DEF Check, BucketInv
  <1>4. charged' \in [Classes -> [Callers -> [0 .. MaxClock -> Nat]]]
    <2> DEFINE counts ==
          [u \in 0 .. MaxClock |-> charged[class][key][u] + IF u <= clock THEN 1 ELSE 0]
    <2>1. counts \in [0 .. MaxClock -> Nat]
      <3>1. \A u \in 0 .. MaxClock :
               charged[class][key][u] + (IF u <= clock THEN 1 ELSE 0) \in Nat
        <4> SUFFICES ASSUME NEW u \in 0 .. MaxClock
                     PROVE  charged[class][key][u] + (IF u <= clock THEN 1 ELSE 0) \in Nat
          OBVIOUS
        <4>1. charged[class][key][u] \in Nat
          BY <1>2
        <4> QED BY <4>1
      <3> QED BY <3>1
    <2>2. charged' = [charged EXCEPT ![class][key] = counts] \/ charged' = charged
      BY DEF Check
    <2> HIDE DEF counts
    <2>3. charged[class] \in [Callers -> [0 .. MaxClock -> Nat]]
      BY DEF BucketInv
    <2>4. CASE charged' = [charged EXCEPT ![class][key] = counts]
      <3>1. [charged[class] EXCEPT ![key] = counts] \in [Callers -> [0 .. MaxClock -> Nat]]
        BY <2>1, <2>3
      <3>2. charged' = [charged EXCEPT ![class] = [charged[class] EXCEPT ![key] = counts]]
        BY <2>4
      <3> QED BY <3>1, <3>2 DEF BucketInv
    <2> QED BY <2>2, <2>4 DEF BucketInv
  <1>5. advised' \in [Classes -> [Callers -> Nat \union {Nil}]]
    <2>1. Accrued(class, key) \in Nat
      BY BucketTypes
    <2>2. RetryAfter(class, key) \in Nat
      <3>1. (Price - Accrued(class, key) + Refill - 1) \div Refill \in Int
        BY <2>1, BucketNumbers
      <3> QED BY <3>1 DEF RetryAfter, MaxOf
    <2>3. \E a \in Nat \union {Nil} : advised' = [advised EXCEPT ![class][key] = a]
      BY <1>2, <2>2 DEF Check
    <2> QED BY <2>3 DEF BucketInv
  <1>6. ASSUME NEW c \in Classes, NEW k \in Callers, ~ (c = class /\ k = key)
        PROVE  BucketHolds(c, k)'
    <2>1. /\ buckets'[c][k] = buckets[c][k] /\ charged'[c][k] = charged[c][k]
          /\ advised'[c][k] = advised[c][k]
      BY <1>6 DEF Check, BucketInv
    <2>2. BucketHolds(c, k)
      BY DEF BucketInv
    <2> QED BY <2>1, <2>2 DEF BucketHolds, Accrued, Left
  <1> QED BY <1>1, <1>3, <1>4, <1>5, <1>6 DEF BucketInv

LEMMA NewBucketsHold ==
    ASSUME workload \in Workloads, clock = 0, buckets = NewBuckets,
           charged = [class \in Classes |-> [key \in Callers |-> [t \in 0 .. MaxClock |-> 0]]],
           advised = [class \in Classes |-> [key \in Callers |-> Nil]]
    PROVE  BucketInv
  <1>1. clock \in 0 .. workload.seconds
    BY BucketNumbers
  <1>2. buckets \in [Classes -> [Callers -> [tokens : Nat, last : Nat]]]
    BY BucketNumbers DEF NewBuckets
  <1>3. ASSUME NEW class \in Classes, NEW key \in Callers
        PROVE  BucketHolds(class, key)
    <2>1. buckets[class][key] = [tokens |-> Capacity, last |-> 0]
      BY DEF NewBuckets
    <2>2. 0 * Refill = 0 /\ Price * 0 = 0 /\ (0 - 0) * Refill = 0
      BY BucketNumbers
    <2>3. Accrued(class, key) = Capacity
      BY <2>1, <2>2, BucketNumbers DEF Accrued, MinOf
    <2>4. charged[class][key][0] = 0 /\ \A t \in 0 .. clock : t = 0
      BY BucketNumbers
    <2>5. \A t \in 0 .. clock : Left(class, key, t) = Capacity
      BY <2>2, <2>4, BucketNumbers DEF Left
    <2> QED BY <2>1, <2>3, <2>5, BucketNumbers DEF BucketHolds
  <1> QED BY <1>1, <1>2, <1>3 DEF BucketInv

LEMMA NewBucketsHoldNext ==
    ASSUME workload' \in Workloads, clock' = 0, buckets' = NewBuckets,
           charged' = [class \in Classes |-> [key \in Callers |-> [t \in 0 .. MaxClock |-> 0]]],
           advised' = [class \in Classes |-> [key \in Callers |-> Nil]]
    PROVE  BucketInv'
  <1>1. clock' \in 0 .. workload'.seconds
    BY BucketNumbers
  <1>2. buckets' \in [Classes -> [Callers -> [tokens : Nat, last : Nat]]]
    BY BucketNumbers DEF NewBuckets
  <1>3. ASSUME NEW class \in Classes, NEW key \in Callers
        PROVE  BucketHolds(class, key)'
    <2>1. buckets'[class][key] = [tokens |-> Capacity, last |-> 0]
      BY DEF NewBuckets
    <2>2. 0 * Refill = 0 /\ Price * 0 = 0 /\ (0 - 0) * Refill = 0
      BY BucketNumbers
    <2>3. Accrued(class, key)' = Capacity
      BY <2>1, <2>2, BucketNumbers DEF Accrued, MinOf
    <2>4. charged'[class][key][0] = 0 /\ \A t \in 0 .. clock' : t = 0
      BY BucketNumbers
    <2>5. \A t \in 0 .. clock' : Left(class, key, t)' = Capacity
      BY <2>2, <2>4, BucketNumbers DEF Left
    <2> QED BY <2>1, <2>3, <2>5, BucketNumbers DEF BucketHolds
  <1> QED BY <1>1, <1>2, <1>3 DEF BucketInv

(* A second refills every bucket alike, up to its capacity.                *)
LEMMA SecondKeepsBuckets ==
    ASSUME BucketInv, Second
    PROVE  BucketInv'
  <1>1. /\ UNCHANGED <<workload, buckets, charged, advised>>
        /\ clock \in Nat /\ clock' = clock + 1 /\ clock' \in 0 .. workload'.seconds
        /\ clock' \in 0 .. MaxClock
    BY BucketNumbers DEF Second, BucketInv
  <1>0. PICK n \in 0 .. MaxClock : n = clock + 1
    BY <1>1
  <1>2. ASSUME NEW class \in Classes, NEW key \in Callers
        PROVE  BucketHolds(class, key)'
    <2>1. /\ buckets[class][key].tokens \in Nat /\ buckets[class][key].last \in Nat
          /\ buckets[class][key].last <= clock
          /\ charged[class][key] \in [0 .. MaxClock -> Nat]
          /\ Accrued(class, key) \in Nat /\ Accrued(class, key) <= Capacity
          /\ \A t \in 0 .. clock : Left(class, key, t) \in Int
          /\ BucketHolds(class, key)
      BY BucketTypes
    <2>2. Accrued(class, key)' = MinOf(Capacity, Accrued(class, key) + Refill)
      <3> DEFINE since == clock - buckets[class][key].last
                 more == since * Refill
                 held == buckets[class][key].tokens
      <3>1. since \in Nat /\ more \in Int /\ (since + 1) * Refill = more + Refill
        <4>1. since \in Nat
          BY <1>1, <2>1
        <4> HIDE DEF since
        <4> QED BY <4>1, Products, BucketNumbers
      <3>2. clock' - buckets'[class][key].last = since + 1 /\ buckets'[class][key].tokens = held
        <4>1. n - buckets[class][key].last = since + 1
          <5>1. n = clock + 1 /\ clock \in Nat /\ buckets[class][key].last \in Nat
            BY <1>0, <1>1, <2>1
          <5> QED BY <5>1
        <4>2. clock' = n /\ buckets' = buckets
          BY <1>0, <1>1
        <4> HIDE DEF since, more
        <4>3. clock' - buckets'[class][key].last = since + 1
          BY <4>1, <4>2
        <4>4. buckets'[class][key].tokens = held
          BY <4>2
        <4> QED BY <4>3, <4>4
      <3>3. Accrued(class, key) = MinOf(Capacity, held + more)
        BY DEF Accrued
      <3>4. Accrued(class, key)' = MinOf(Capacity, held + (more + Refill))
        BY <3>1, <3>2 DEF Accrued
      <3>5. held \in Nat
        BY <2>1
      <3> HIDE DEF more, held, since
      <3> QED BY <3>1, <3>3, <3>4, <3>5, BucketNumbers DEF MinOf
    <2>3. ASSUME NEW t \in 0 .. clock PROVE Left(class, key, t)' = Left(class, key, t) + Refill
      <3> DEFINE x == (clock - t) * Refill
                 y == Price * charged[class][key][t]
      <3>1. x \in Int /\ (clock - t + 1) * Refill = x + Refill
        <4>1. clock - t \in Int
          BY <1>1
        <4> QED BY <4>1, Products, BucketNumbers
      <3>2. y \in Int
        <4>1. t \in 0 .. MaxClock
          BY BucketTypes
        <4>2. charged[class][key][t] \in Nat
          BY <2>1, <4>1
        <4> QED BY <4>2, Products, BucketNumbers
      <3>3. clock' - t = clock - t + 1
        BY <1>1
      <3>4. Left(class, key, t)' = Capacity + (x + Refill) - y
        BY <1>1, <3>1, <3>3 DEF Left
      <3>5. Left(class, key, t) = Capacity + x - y
        BY DEF Left
      <3> HIDE DEF x, y
      <3> QED BY <3>1, <3>2, <3>4, <3>5, BucketNumbers
    <2>4. Left(class, key, n)' = Capacity
      <3>1. charged'[class][key][n] = 0
        BY <1>0, <1>1, <2>1 DEF BucketHolds
      <3>2. (n - n) * Refill = 0 /\ Price * 0 = 0
        BY <1>0, BucketNumbers
      <3>3. clock' = n
        BY <1>0, <1>1
      <3> QED BY <3>1, <3>2, <3>3, BucketNumbers DEF Left
    <2>5. \A t \in 0 .. n : Accrued(class, key)' <= Left(class, key, t)'
      <3>1. \A t \in 0 .. n : t \in 0 .. clock \/ t = n
        BY <1>0, <1>1
      <3>2. ASSUME NEW t \in 0 .. clock PROVE Accrued(class, key)' <= Left(class, key, t)'
        <4>1. Accrued(class, key) <= Left(class, key, t) /\ Left(class, key, t) \in Int
          BY <2>1 DEF BucketHolds
        <4> QED BY <2>1, <2>2, <2>3, <4>1, BucketNumbers DEF MinOf
      <3>3. Accrued(class, key)' <= Left(class, key, n)'
        BY <2>1, <2>2, <2>4, BucketNumbers DEF MinOf
      <3> QED BY <3>1, <3>2, <3>3
    <2>6. \E t \in 0 .. n : Accrued(class, key)' = Left(class, key, t)'
      <3>1. CASE Accrued(class, key) + Refill <= Capacity
        <4>1. PICK t \in 0 .. clock : Accrued(class, key) = Left(class, key, t)
          BY <2>1 DEF BucketHolds
        <4>2. Accrued(class, key)' = Accrued(class, key) + Refill
          <5>1. Accrued(class, key) \in Nat /\ Capacity \in Nat /\ Refill \in Nat
            BY <2>1, BucketNumbers
          <5>2. MinOf(Capacity, Accrued(class, key) + Refill) = Accrued(class, key) + Refill
            <6> DEFINE a == Accrued(class, key)
            <6> HIDE DEF a
            <6>1. a \in Nat /\ a + Refill <= Capacity
              BY <3>1, <5>1 DEF a
            <6>2. MinOf(Capacity, a + Refill) = a + Refill
              BY <5>1, <6>1 DEF MinOf
            <6> QED BY <6>2 DEF a
          <5> QED BY <2>2, <5>2
        <4>3. Accrued(class, key)' = Left(class, key, t)'
          BY <2>3, <4>1, <4>2
        <4>4. t \in 0 .. n
          BY <1>0, <1>1
        <4> QED BY <4>3, <4>4
      <3>2. CASE ~ (Accrued(class, key) + Refill <= Capacity)
        <4>1. Accrued(class, key)' = Left(class, key, n)' /\ n \in 0 .. n
          BY SMTT(30), <1>0, <1>1, <2>1, <2>2, <2>4, <3>2, BucketNumbers DEF MinOf
        <4> QED BY <4>1
      <3> QED BY <3>1, <3>2
    <2>7. buckets'[class][key].last \in 0 .. clock'
      BY <1>1, <2>1
    <2>8. \A t \in 0 .. MaxClock : t > clock' => charged'[class][key][t] = 0
      BY <1>1, <2>1 DEF BucketHolds
    <2> QED BY <1>0, <1>1, <2>1, <2>5, <2>6, <2>7, <2>8 DEF BucketHolds
  <1> QED BY <1>1, <1>2 DEF BucketInv

LEMMA BucketsKept ==
    ASSUME IntakeTypeOK, BucketInv, [IntakeNext]_intakeVars
    PROVE  BucketInv'
  <1>1. ASSUME Unchecked, UNCHANGED <<workload, clock>> PROVE BucketInv'
    BY <1>1 DEF Unchecked, BucketInv, BucketHolds, Accrued, Left
  <1>2. ASSUME NEW s \in Slots, NEW who \in Callers, NEW call \in workload.calls,
               Arrive(s, who, call)
        PROVE  BucketInv'
    <2>1. UNCHANGED <<workload, clock>> /\ (Unchecked \/ Check("query", who))
      BY <1>2 DEF Arrive
    <2> QED BY <1>1, <2>1, CheckKeepsBuckets DEF Classes
  <1>3. ASSUME NEW s \in Slots, Authenticate(s) PROVE BucketInv'
    <2>1. /\ UNCHANGED <<workload, clock>>
          /\ Unchecked \/ Check("ingest", progress[s].who)
      BY <1>3 DEF Authenticate
    <2>2. progress[s].who \in Callers
      BY <1>3 DEF Authenticate, IntakeTypeOK, InProgress
    <2> QED BY <1>1, <2>1, <2>2, CheckKeepsBuckets DEF Classes
  <1>4. ASSUME NEW s \in Slots, Answered(s) PROVE BucketInv'
    BY <1>1, <1>4 DEF Answered, Unchecked
  <1>5. ASSUME NEW p \in Policies, Restart(p) PROVE BucketInv'
    <2>1. /\ workload' \in Workloads /\ clock' = 0 /\ buckets' = NewBuckets
          /\ charged' = [class \in Classes |-> [key \in Callers |-> [t \in 0 .. MaxClock |-> 0]]]
          /\ advised' = [class \in Classes |-> [key \in Callers |-> Nil]]
      BY <1>5 DEF Restart, BucketInv
    <2>2. workload' = workload
      BY <1>5 DEF Restart
    <2> QED BY <2>1, NewBucketsHoldNext
  <1>6. CASE UNCHANGED intakeVars
    BY <1>1, <1>6 DEF intakeVars, Unchecked
  <1> QED BY <1>2, <1>3, <1>4, <1>5, <1>6, SecondKeepsBuckets
          DEF IntakeNext, Ingest, Validate, Query, MintToken, RevokeToken, CallFails

(* Each bucket is exactly what its own traffic leaves of it, and a caller  *)
(* that comes back as told is let through, for any workload, number of     *)
(* callers and rates, as long as a full bucket holds a request             *)
(* (rate_limit.py:38-55).                                                  *)
THEOREM BucketsAreExact == Price <= Capacity => (IntakeSpec => []BucketsExact)
  <1> SUFFICES ASSUME Price <= Capacity PROVE IntakeSpec => []BucketsExact
    OBVIOUS
  <1>1. IntakeInit => IntakeTypeOK /\ BucketInv
    BY InitTyped, NewBucketsHold DEF IntakeInit
  <1>2. IntakeTypeOK /\ BucketInv /\ [IntakeNext]_intakeVars => IntakeTypeOK' /\ BucketInv'
    BY IntakeTypeKept, BucketsKept
  <1>3. ASSUME BucketInv PROVE BucketsExact
    <2> SUFFICES ASSUME NEW class \in Classes, NEW key \in Callers
                 PROVE  /\ Accrued(class, key) =
                             Min({Capacity + (clock - t) * Refill - Price * charged[class][key][t] :
                                    t \in 0 .. clock})
                        /\ Accrued(class, key) >= 0
                        /\ advised[class][key] # Nil /\ clock >= advised[class][key] =>
                             Allowed(class, key)
      BY DEF BucketsExact
    <2>1. /\ clock \in Nat
          /\ buckets[class][key].tokens \in Nat /\ buckets[class][key].last \in Nat
          /\ buckets[class][key].last <= clock
          /\ advised[class][key] \in Nat \union {Nil}
          /\ Accrued(class, key) \in Nat
          /\ \A t \in 0 .. clock : Left(class, key, t) \in Int
          /\ BucketHolds(class, key)
      BY <1>3, BucketTypes
    <2>2. Accrued(class, key) =
             Min({Capacity + (clock - t) * Refill - Price * charged[class][key][t] :
                    t \in 0 .. clock})
      <3> DEFINE S == {Left(class, key, t) : t \in 0 .. clock}
      <3>1. Accrued(class, key) \in S /\ \A y \in S : Accrued(class, key) <= y
        BY <2>1 DEF BucketHolds
      <3>2. S \subseteq Int
        BY <2>1
      <3>3. S = {Capacity + (clock - t) * Refill - Price * charged[class][key][t] :
                    t \in 0 .. clock}
        BY DEF Left
      <3> HIDE DEF S
      <3>4. Accrued(class, key) = Min(S)
        <4>1. \A x \in S : (\A y \in S : x <= y) => x = Accrued(class, key)
          BY <2>1, <3>1, <3>2
        <4> QED BY <3>1, <4>1 DEF Min
      <3> QED BY <3>3, <3>4
    <2>3. ASSUME advised[class][key] # Nil, clock >= advised[class][key]
          PROVE  Allowed(class, key)
      <3> DEFINE told1 == advised[class][key] - buckets[class][key].last
                 now1  == clock - buckets[class][key].last
      <3>1. /\ told1 \in Nat /\ now1 \in Nat /\ told1 <= now1
            /\ buckets[class][key].tokens + told1 * Refill >= Price
        BY <2>1, <2>3 DEF BucketHolds
      <3>2. Accrued(class, key) = MinOf(Capacity, buckets[class][key].tokens + now1 * Refill)
        BY DEF Accrued
      <3> HIDE DEF told1, now1
      <3>3. told1 * Refill <= now1 * Refill /\ told1 * Refill \in Int /\ now1 * Refill \in Int
        BY <3>1, Products, BucketNumbers
      <3> DEFINE x == told1 * Refill
                 y == now1 * Refill
      <3>4. x \in Int /\ y \in Int /\ x <= y /\ buckets[class][key].tokens + x >= Price
            /\ Accrued(class, key) = MinOf(Capacity, buckets[class][key].tokens + y)
        BY <3>1, <3>2, <3>3
      <3> HIDE DEF x, y
      <3> QED BY <2>1, <3>4, BucketNumbers DEF Allowed, MinOf
    <2> QED BY <2>1, <2>2, <2>3
  <1> QED BY <1>1, <1>2, <1>3, PTL DEF IntakeSpec

-----------------------------------------------------------------------------
(* The live stream.                                                        *)
(* A handler has a message in its hands only while it sends it, and a      *)
(* client is sent nothing before it subscribes.                            *)
FeedsStartEmpty ==
    \A c \in Connections :
        /\ handler[c] = "waiting" => sending[c] = <<>>
        /\ handler[c] \in {"new", "checked", "accepting"} => Feed(c) = <<>>

StreamInv == TypeOK /\ PlacesCounted
FeedInv   == TypeOK /\ FeedsStartEmpty /\ FeedHasNoGap

-----------------------------------------------------------------------------
(* The open connections of a token are finitely many, and one that opens   *)
(* or closes makes one more or one less.                                   *)
LEMMA OpenFinite ==
    ASSUME NEW t \in Tokens
    PROVE  IsFiniteSet(Open(t)) /\ Cardinality(Open(t)) \in Nat
  <1>1. Open(t) \subseteq Connections
    BY DEF Open
  <1>2. IsFiniteSet(Open(t))
    BY <1>1, StreamAssumption, FS_Subset
  <1> QED BY <1>2, FS_CardinalityType

LEMMA TokenType ==
    ASSUME TypeOK, NEW c \in Connections
    PROVE  TokenOf[c] \in Tokens /\ count[TokenOf[c]] \in Int
  <1>1. TokenOf[c] \in Tokens
    BY StreamAssumption
  <1> QED BY <1>1 DEF TypeOK

(* Counting a place of one token keeps the counts integers.                *)
LEMMA CountType ==
    ASSUME TypeOK, NEW c \in Connections, NEW n \in {-1, 1},
           count' = [count EXCEPT ![TokenOf[c]] = @ + n]
    PROVE  /\ count' \in [Tokens -> Int]
           /\ \A t \in Tokens : count'[t] = IF t = TokenOf[c] THEN count[t] + n ELSE count[t]
  <1>1. TokenOf[c] \in Tokens /\ count[TokenOf[c]] \in Int /\ count \in [Tokens -> Int]
    BY TokenType DEF TypeOK
  <1>2. count[TokenOf[c]] + n \in Int
    BY <1>1
  <1> QED BY <1>1, <1>2

LEMMA EndedType ==
    ASSUME TypeOK, NEW c \in Connections, Ended(c)
    PROVE  /\ count' \in [Tokens -> Int]
           /\ \A t \in Tokens : count'[t] = IF t = TokenOf[c] THEN count[t] - 1 ELSE count[t]
  <1>1. count' = [count EXCEPT ![TokenOf[c]] = @ + (-1)]
    BY TokenType DEF Ended, TypeOK
  <1> QED BY <1>1, CountType DEF TypeOK

LEMMA OpenSame ==
    ASSUME TypeOK, NEW c \in Connections, NEW place,
           handler' = [handler EXCEPT ![c] = place],
           handler[c] \in Admitted <=> place \in Admitted
    PROVE  \A t \in Tokens : Open(t)' = Open(t)
  BY DEF TypeOK, Open

LEMMA OpenMore ==
    ASSUME TypeOK, NEW c \in Connections, NEW place \in Admitted,
           handler' = [handler EXCEPT ![c] = place], handler[c] \notin Admitted
    PROVE  \A t \in Tokens : Cardinality(Open(t)') =
              IF t = TokenOf[c] THEN Cardinality(Open(t)) + 1 ELSE Cardinality(Open(t))
  <1> TAKE t \in Tokens
  <1>1. Open(t)' = IF t = TokenOf[c] THEN Open(t) \union {c} ELSE Open(t)
    BY DEF TypeOK, Open
  <1>2. c \notin Open(t)
    BY DEF Open
  <1> QED BY <1>1, <1>2, OpenFinite, FS_AddElement

LEMMA OpenLess ==
    ASSUME TypeOK, NEW c \in Connections,
           handler' = [handler EXCEPT ![c] = "closed"], handler[c] \in Admitted
    PROVE  \A t \in Tokens : Cardinality(Open(t)') =
              IF t = TokenOf[c] THEN Cardinality(Open(t)) - 1 ELSE Cardinality(Open(t))
  <1> TAKE t \in Tokens
  <1>1. Open(t)' = IF t = TokenOf[c] THEN Open(t) \ {c} ELSE Open(t)
    BY DEF TypeOK, Open, Admitted
  <1>2. t = TokenOf[c] => c \in Open(t)
    BY DEF Open
  <1> QED BY <1>1, <1>2, OpenFinite, FS_RemoveElement

-----------------------------------------------------------------------------
LEMMA InitStream == Init => StreamInv /\ FeedsStartEmpty /\ FeedHasNoGap
  <1> SUFFICES ASSUME Init PROVE StreamInv /\ FeedsStartEmpty /\ FeedHasNoGap
    OBVIOUS
  <1>1. TypeOK
    BY StreamAssumption DEF Init, TypeOK, Places
  <1>2. PlacesCounted
    <2>1. ASSUME NEW t \in Tokens PROVE Open(t) = {}
      BY DEF Init, Open, Admitted
    <2> QED BY <2>1, FS_EmptySet, StreamAssumption DEF Init, PlacesCounted
  <1>3. \A c \in Connections : Feed(c) = <<>>
    BY DEF Init, Feed
  <1> QED BY <1>1, <1>2, <1>3 DEF StreamInv, FeedsStartEmpty, FeedHasNoGap, Init

-----------------------------------------------------------------------------
(* Types.                                                                  *)
LEMMA TypeKept == TypeOK /\ [Next]_vars => TypeOK'
  <1> SUFFICES ASSUME TypeOK, [Next]_vars PROVE TypeOK'
    OBVIOUS
  <1> USE DEF TypeOK, Places, Admitted
  <1>1. ASSUME NEW c \in Connections, Authorize(c) PROVE TypeOK'
    BY <1>1 DEF Authorize
  <1>2. ASSUME NEW c \in Connections, Admit(c) PROVE TypeOK'
    <2>1. count' \in [Tokens -> Int]
      BY <1>2, CountType DEF Admit
    <2> QED BY <1>2, <2>1 DEF Admit
  <1>3. ASSUME NEW c \in Connections, Subscribe(c) PROVE TypeOK'
    <2>1. count' \in [Tokens -> Int]
      BY <1>3, EndedType DEF Subscribe
    <2> QED BY <1>3, <2>1 DEF Subscribe, Ended
  <1>4. ASSUME NEW c \in Connections, Take(c) PROVE TypeOK'
    <2>1. /\ Tail(queue[c]) \in Seq(Nat) /\ Len(Tail(queue[c])) <= QueueSize
          /\ Head(queue[c]) \in Nat
      BY <1>4, StreamAssumption DEF Take
    <2> QED BY <1>4, <2>1 DEF Take
  <1>5. ASSUME NEW c \in Connections, Send(c) PROVE TypeOK'
    <2>1. c \in gone => count' \in [Tokens -> Int]
      BY <1>5, EndedType DEF Send
    <2>2. CASE c \in gone
      BY <1>5, <2>1, <2>2 DEF Send, Ended
    <2>3. CASE c \notin gone
      <3>1. received[c] \o sending[c] \in Seq(Nat)
        OBVIOUS
      <3> DEFINE sent == received[c] \o sending[c]
      <3>2. received' \in [Connections -> Seq(Nat)] /\ sending' \in [Connections -> Seq(Nat)]
        <4>1. /\ received' = [received EXCEPT ![c] = sent]
              /\ sending' = [sending EXCEPT ![c] = <<>>]
          BY <1>5, <2>3 DEF Send
        <4> HIDE DEF sent
        <4> QED BY <3>1, <4>1 DEF sent
      <3> QED BY <1>5, <2>3, <3>2 DEF Send
    <2> QED BY <2>2, <2>3
  <1>6. ASSUME NEW c \in Connections, Reauthorize(c) PROVE TypeOK'
    BY <1>6 DEF Reauthorize
  <1>7. ASSUME NEW c \in Connections, CloseRevoked(c) PROVE TypeOK'
    <2>1. count' \in [Tokens -> Int]
      BY <1>7, EndedType DEF CloseRevoked
    <2> QED BY <1>7, <2>1 DEF CloseRevoked, Ended
  <1>8. CASE Publish
    <2>1. \A c \in Connections : Len(queue[c]) < QueueSize =>
              /\ Append(queue[c], published + 1) \in Seq(Nat)
              /\ Len(Append(queue[c], published + 1)) <= QueueSize
      BY StreamAssumption
    <2> QED BY <1>8, <2>1, StreamAssumption DEF Publish
  <1>9. ASSUME NEW c \in Connections, Leave(c) PROVE TypeOK'
    BY <1>9 DEF Leave
  <1>10. ASSUME NEW t \in Tokens, Revoke(t) PROVE TypeOK'
    BY <1>10 DEF Revoke
  <1>11. CASE UNCHANGED vars
    BY <1>11 DEF vars
  <1> QED BY <1>1, <1>2, <1>3, <1>4, <1>5, <1>6, <1>7, <1>8, <1>9, <1>10, <1>11
          DEF Next, HandlerStep

-----------------------------------------------------------------------------
(* The cap.                                                                *)

(* A step of one handler within the connection's life, or outside it.      *)
LEMMA PlacesSame ==
    ASSUME StreamInv, NEW c \in Connections, NEW place, UNCHANGED count,
           handler' = [handler EXCEPT ![c] = place],
           handler[c] \in Admitted <=> place \in Admitted
    PROVE  PlacesCounted'
  BY OpenSame DEF StreamInv, PlacesCounted

(* Whichever way a connection ends, it gives its place back.               *)
LEMMA PlacesLess ==
    ASSUME StreamInv, NEW c \in Connections, Ended(c), handler[c] \in Admitted
    PROVE  PlacesCounted'
  <1>1. \A t \in Tokens : Cardinality(Open(t)') =
            IF t = TokenOf[c] THEN Cardinality(Open(t)) - 1 ELSE Cardinality(Open(t))
    BY OpenLess DEF Ended, StreamInv
  <1>2. \A t \in Tokens : count'[t] = IF t = TokenOf[c] THEN count[t] - 1 ELSE count[t]
    BY EndedType DEF StreamInv
  <1> QED BY <1>1, <1>2, OpenFinite, StreamAssumption DEF StreamInv, PlacesCounted

LEMMA PlacesKept == StreamInv /\ [Next]_vars => StreamInv'
  <1> SUFFICES ASSUME StreamInv, [Next]_vars PROVE PlacesCounted'
    BY TypeKept DEF StreamInv
  <1>1. ASSUME NEW c \in Connections, Authorize(c) PROVE PlacesCounted'
    BY <1>1, PlacesSame DEF Authorize, Admitted
  <1>2. ASSUME NEW c \in Connections, Admit(c) PROVE PlacesCounted'
    <2>1. CASE count[TokenOf[c]] >= Limit
      BY <1>2, <2>1, PlacesSame DEF Admit, Admitted
    <2>2. CASE ~ count[TokenOf[c]] >= Limit
      <3>1. /\ handler' = [handler EXCEPT ![c] = "accepting"]
            /\ count' = [count EXCEPT ![TokenOf[c]] = @ + 1]
            /\ handler[c] \notin Admitted
        BY <1>2, <2>2 DEF Admit, Admitted
      <3>2. "accepting" \in Admitted
        BY DEF Admitted
      <3>3. \A t \in Tokens : Cardinality(Open(t)') =
                IF t = TokenOf[c] THEN Cardinality(Open(t)) + 1 ELSE Cardinality(Open(t))
        BY <3>1, <3>2, OpenMore DEF StreamInv
      <3>4. \A t \in Tokens :
                count'[t] = IF t = TokenOf[c] THEN count[t] + 1 ELSE count[t]
        BY <3>1, CountType DEF StreamInv
      <3> QED BY <2>2, <3>3, <3>4, OpenFinite, TokenType, StreamAssumption
              DEF StreamInv, PlacesCounted
    <2> QED BY <2>1, <2>2
  <1>3. ASSUME NEW c \in Connections, Subscribe(c) PROVE PlacesCounted'
    <2>1. CASE Ended(c)
      BY <1>3, <2>1, PlacesLess DEF Subscribe, Admitted
    <2>2. CASE ~ Ended(c)
      BY <1>3, <2>2, PlacesSame DEF Subscribe, Admitted
    <2> QED BY <2>1, <2>2
  <1>4. ASSUME NEW c \in Connections, Take(c) PROVE PlacesCounted'
    BY <1>4, PlacesSame DEF Take, Admitted
  <1>5. ASSUME NEW c \in Connections, Send(c) PROVE PlacesCounted'
    <2>1. CASE c \in gone
      BY <1>5, <2>1, PlacesLess DEF Send, Admitted
    <2>2. CASE c \notin gone
      BY <1>5, <2>2, PlacesSame DEF Send, Admitted
    <2> QED BY <2>1, <2>2
  <1>6. ASSUME NEW c \in Connections, Reauthorize(c) PROVE PlacesCounted'
    BY <1>6, PlacesSame DEF Reauthorize, Admitted
  <1>7. ASSUME NEW c \in Connections, CloseRevoked(c) PROVE PlacesCounted'
    BY <1>7, PlacesLess DEF CloseRevoked, Admitted
  <1>8. CASE UNCHANGED <<handler, count>>
    BY <1>8 DEF StreamInv, PlacesCounted, Open
  <1>9. /\ Publish => UNCHANGED <<handler, count>>
        /\ \A c \in Connections : Leave(c) => UNCHANGED <<handler, count>>
        /\ \A t \in Tokens : Revoke(t) => UNCHANGED <<handler, count>>
        /\ UNCHANGED vars => UNCHANGED <<handler, count>>
    BY DEF Publish, Leave, Revoke, vars
  <1> QED BY <1>1, <1>2, <1>3, <1>4, <1>5, <1>6, <1>7, <1>8, <1>9 DEF Next, HandlerStep

-----------------------------------------------------------------------------
(* The feed.                                                               *)

(* What one step changes of a connection's feed.                           *)
LEMMA TakenFeed ==
    ASSUME NEW r \in Seq(Nat), NEW q \in Seq(Nat), q # <<>>
    PROVE  (r \o <<Head(q)>>) \o Tail(q) = (r \o <<>>) \o q
  OBVIOUS

LEMMA SentFeed ==
    ASSUME NEW r \in Seq(Nat), NEW s \in Seq(Nat), NEW q \in Seq(Nat)
    PROVE  ((r \o s) \o <<>>) \o q = (r \o s) \o q
  OBVIOUS

LEMMA GrownFeed ==
    ASSUME NEW r \in Seq(Nat), NEW s \in Seq(Nat), NEW q \in Seq(Nat), NEW m \in Nat
    PROVE  (r \o s) \o Append(q, m) = Append((r \o s) \o q, m)
  OBVIOUS

LEMMA FeedType == TypeOK => \A c \in Connections : Feed(c) \in Seq(Nat)
  BY DEF TypeOK, Feed

(* A step that leaves the feeds and what was published alone.              *)
LEMMA FeedsSame ==
    ASSUME FeedInv, UNCHANGED published, subscribers' \subseteq subscribers,
           \A c \in Connections : Feed(c)' = Feed(c)
    PROVE  FeedHasNoGap'
  BY DEF FeedInv, FeedHasNoGap

LEMMA FeedKept == FeedInv /\ [Next]_vars => FeedInv'
  <1> SUFFICES ASSUME FeedInv, [Next]_vars PROVE (FeedsStartEmpty /\ FeedHasNoGap)'
    BY TypeKept DEF FeedInv
  <1>1. ASSUME NEW c \in Connections, NEW place,
               handler' = [handler EXCEPT ![c] = place],
               UNCHANGED <<queue, sending, received, published>>,
               subscribers' \subseteq subscribers,
               \/ handler[c] = "new" /\ place \in {"checked", "closed"}
               \/ handler[c] = "checked" /\ place \in {"accepting", "closed"}
               \/ place \in {"ending", "closed"}
        PROVE  (FeedsStartEmpty /\ FeedHasNoGap)'
    <2>1. \A d \in Connections : Feed(d)' = Feed(d)
      BY <1>1 DEF Feed
    <2> QED BY <1>1, <2>1, FeedsSame DEF FeedInv, FeedsStartEmpty, TypeOK
  <1>2. ASSUME NEW c \in Connections, Subscribe(c), handler'[c] = "waiting"
        PROVE  (FeedsStartEmpty /\ FeedHasNoGap)'
    <2>1. \A d \in Connections : Feed(d)' = Feed(d)
      BY <1>2 DEF Feed, Subscribe, Ended
    <2>2. /\ Feed(c) = <<>> /\ sending[c] = <<>>
          /\ handler' = [handler EXCEPT ![c] = "waiting"]
          /\ subscribers' = subscribers \union {c}
      BY <1>2 DEF Subscribe, Ended, FeedInv, FeedsStartEmpty, TypeOK, Feed
    <2> QED BY <1>2, <2>1, <2>2 DEF FeedInv, FeedsStartEmpty, FeedHasNoGap, TypeOK, Subscribe
  <1>3. ASSUME NEW c \in Connections, Take(c) PROVE (FeedsStartEmpty /\ FeedHasNoGap)'
    <2>1. \A d \in Connections : Feed(d)' = Feed(d)
      <3>1. /\ received[c] \in Seq(Nat) /\ queue[c] \in Seq(Nat) /\ queue[c] # <<>>
            /\ sending[c] = <<>>
            /\ received'[c] = received[c] /\ sending'[c] = <<Head(queue[c])>>
            /\ queue'[c] = Tail(queue[c])
        BY <1>3 DEF Take, FeedInv, FeedsStartEmpty, TypeOK
      <3>2. Feed(c)' = Feed(c)
        BY <3>1, TakenFeed DEF Feed
      <3>3. ASSUME NEW d \in Connections, d # c PROVE Feed(d)' = Feed(d)
        BY <1>3, <3>3 DEF Feed, Take, FeedInv, TypeOK
      <3> QED BY <3>2, <3>3
    <2> QED BY <1>3, <2>1, FeedsSame DEF Take, FeedInv, FeedsStartEmpty, TypeOK
  <1>4. ASSUME NEW c \in Connections, Send(c), c \notin gone
        PROVE  (FeedsStartEmpty /\ FeedHasNoGap)'
    <2>1. \A d \in Connections : Feed(d)' = Feed(d)
      <3>1. /\ received[c] \in Seq(Nat) /\ sending[c] \in Seq(Nat) /\ queue[c] \in Seq(Nat)
            /\ received'[c] = received[c] \o sending[c] /\ sending'[c] = <<>>
            /\ queue'[c] = queue[c]
        BY <1>4 DEF Send, FeedInv, TypeOK
      <3>2. Feed(c)' = Feed(c)
        BY <3>1, SentFeed DEF Feed
      <3>3. ASSUME NEW d \in Connections, d # c PROVE Feed(d)' = Feed(d)
        BY <1>4, <3>3 DEF Feed, Send, FeedInv, TypeOK
      <3> QED BY <3>2, <3>3
    <2> QED BY <1>4, <2>1, FeedsSame DEF Send, FeedInv, FeedsStartEmpty, TypeOK
  <1>5. CASE Publish
    <2>1. ASSUME NEW c \in Connections
          PROVE  Feed(c)' = IF c \in subscribers /\ Len(queue[c]) < QueueSize
                            THEN Append(Feed(c), published + 1) ELSE Feed(c)
      <3>1. /\ received[c] \in Seq(Nat) /\ sending[c] \in Seq(Nat) /\ queue[c] \in Seq(Nat)
            /\ published + 1 \in Nat
            /\ received'[c] = received[c] /\ sending'[c] = sending[c]
            /\ queue'[c] = IF c \in subscribers /\ Len(queue[c]) < QueueSize
                           THEN Append(queue[c], published + 1) ELSE queue[c]
        BY <1>5, StreamAssumption DEF Publish, FeedInv, TypeOK
      <3>2. (received[c] \o sending[c]) \o Append(queue[c], published + 1)
                = Append((received[c] \o sending[c]) \o queue[c], published + 1)
        BY <3>1, GrownFeed
      <3>3. Feed(c)' = (received[c] \o sending[c]) \o queue'[c]
        BY <3>1 DEF Feed
      <3>4. Feed(c) = (received[c] \o sending[c]) \o queue[c]
        BY DEF Feed
      <3> QED BY <3>1, <3>2, <3>3, <3>4
    <2>2. /\ published' = published + 1 /\ published \in Nat
          /\ subscribers' = {c \in subscribers : Len(queue[c]) < QueueSize}
          /\ UNCHANGED <<handler, sending>>
      BY <1>5, StreamAssumption DEF Publish, FeedInv, TypeOK
    <2>3. FeedsStartEmpty'
      <3>1. \A c \in subscribers : handler[c] \notin {"new", "checked", "accepting"}
        BY DEF FeedInv, TypeOK, Admitted
      <3> QED BY <2>1, <2>2, <3>1 DEF FeedInv, FeedsStartEmpty
    <2>4. ASSUME NEW c \in Connections
          PROVE  /\ \A i \in 2 .. Len(Feed(c)') : Feed(c)'[i] = Feed(c)'[i - 1] + 1
                 /\ c \in subscribers' => Last(Feed(c)') = published'
      <3>1. Feed(c) \in Seq(Nat)
        BY FeedType DEF FeedInv
      <3>2. /\ \A i \in 2 .. Len(Feed(c)) : Feed(c)[i] = Feed(c)[i - 1] + 1
            /\ c \in subscribers /\ Feed(c) # <<>> => Feed(c)[Len(Feed(c))] = published
        BY DEF FeedInv, FeedHasNoGap, Last
      <3>3. CASE ~ (c \in subscribers /\ Len(queue[c]) < QueueSize)
        BY <2>1, <2>2, <3>2, <3>3
      <3>4. CASE c \in subscribers /\ Len(queue[c]) < QueueSize
        <4> DEFINE new == Append(Feed(c), published + 1)
        <4>1. Feed(c)' = new /\ Len(new) = Len(Feed(c)) + 1
          BY <2>1, <3>1, <3>4
        <4>2. Last(Feed(c)') = published'
          BY <2>2, <3>1, <4>1 DEF Last
        <4>3. ASSUME NEW i \in 2 .. Len(new) PROVE new[i] = new[i - 1] + 1
          <5>1. CASE i \in 2 .. Len(Feed(c))
            BY <3>1, <3>2, <5>1
          <5>2. CASE i = Len(Feed(c)) + 1
            <6>1. /\ Len(Feed(c)) \in Nat \ {0} /\ Feed(c) # <<>>
                  /\ i - 1 = Len(Feed(c))
              BY <3>1, <5>2, <4>1
            <6>2. published + 1 \in Nat
              BY StreamAssumption DEF FeedInv, TypeOK
            <6>3. new[i] = published + 1 /\ new[i - 1] = Feed(c)[Len(Feed(c))]
              <7> DEFINE s == Feed(c)
                         m == published + 1
              <7>1. s \in Seq(Nat) /\ m \in Nat /\ Len(s) \in Nat \ {0}
                BY <3>1, <6>1, <6>2
              <7> HIDE DEF s, m
              <7>2. /\ Append(s, m)[Len(s) + 1] = m
                    /\ Append(s, m)[Len(s)] = s[Len(s)]
                BY <7>1
              <7> QED BY <5>2, <6>1, <7>2 DEF s, m
            <6> QED BY <3>2, <3>4, <6>1, <6>3
          <5> QED BY <3>1, <4>1, <5>1, <5>2
        <4> QED BY <4>1, <4>2, <4>3
      <3> QED BY <3>3, <3>4
    <2> QED BY <2>3, <2>4, <2>2 DEF FeedHasNoGap, FeedInv, TypeOK
  <1>6. CASE UNCHANGED <<handler, queue, sending, received, published, subscribers>>
    BY <1>6 DEF FeedInv, FeedsStartEmpty, FeedHasNoGap, Feed
  <1>7. ASSUME NEW c \in Connections, Authorize(c) \/ HandlerStep(c) \/ Leave(c)
        PROVE  (FeedsStartEmpty /\ FeedHasNoGap)'
    <2>1. CASE Authorize(c) \/ Admit(c)
      BY <1>1, <2>1 DEF Authorize, Admit
    <2>2. CASE Subscribe(c)
      BY <1>1, <1>2, <2>2 DEF Subscribe, Ended, FeedInv, TypeOK
    <2>3. CASE Send(c)
      BY <1>1, <1>4, <2>3 DEF Send, Ended
    <2>4. CASE Reauthorize(c) \/ CloseRevoked(c)
      BY <1>1, <2>4 DEF Reauthorize, CloseRevoked, Ended
    <2>5. CASE Leave(c)
      BY <1>6, <2>5 DEF Leave
    <2> QED BY <1>3, <1>7, <2>1, <2>2, <2>3, <2>4, <2>5 DEF HandlerStep
  <1> QED BY <1>5, <1>6, <1>7 DEF Next, Revoke, vars

-----------------------------------------------------------------------------
(* Every reachable state is well typed: no queue ever exceeds its bound    *)
(* and only open connections subscribe (services/broadcast.py).            *)
THEOREM StreamTyped == Spec => []TypeOK
  <1>1. Init => TypeOK
    BY InitStream DEF StreamInv
  <1> QED BY <1>1, TypeKept, PTL DEF Spec

(* The cap of NFR-SEC-003, whatever ends a connection: the count of a      *)
(* token is the number of its open connections, and is at most Limit       *)
(* (api/stream.py:58-67, 90-93).                                           *)
THEOREM PlacesAreCounted == Spec => []PlacesCounted
  <1>1. Init => StreamInv
    BY InitStream
  <1>2. StreamInv => PlacesCounted
    BY DEF StreamInv
  <1> QED BY <1>1, <1>2, PlacesKept, PTL DEF Spec

(* A client is sent consecutive messages, up to the newest while it        *)
(* subscribes, however slow it is (services/broadcast.py:27-33).           *)
THEOREM FeedsHaveNoGap == Spec => []FeedHasNoGap
  <1>1. Init => FeedInv
    BY InitStream DEF StreamInv, FeedInv
  <1>2. FeedInv => FeedHasNoGap
    BY DEF FeedInv
  <1> QED BY <1>1, <1>2, FeedKept, PTL DEF Spec

-----------------------------------------------------------------------------
(* Observed: what a batch gives rise to, and what recording it makes of    *)
(* the data-quality records.                                               *)

SeenEvents == [provider : Spellings, model : NativeNames, at : Nat]

ObservedTables ==
    /\ rule \in Rules
    /\ providers \in [Ids -> {Absent} \union ProviderRows]
    /\ seen \in [Pairs -> {Absent} \union Nat]
    /\ quality \in Seq(Records)

LEMMA BatchFacts ==
    ASSUME NEW batch \in Batches
    PROVE  /\ batch \in Seq(SeenEvents)
           /\ \A i \in DOMAIN batch :
                 /\ batch[i] \in SeenEvents
                 /\ PairOf(batch[i]) \in Pairs
                 /\ Canonical[batch[i].provider] \in Ids
           /\ \A i, j \in DOMAIN batch : i # j => PairOf(batch[i]) # PairOf(batch[j])
  <1>1. /\ batch \in Seq(SeenEvents)
        /\ \A i, j \in DOMAIN batch : i # j => PairOf(batch[i]) # PairOf(batch[j])
    BY ObservedAssumption DEF SeenEvents
  <1>2. \A i \in DOMAIN batch : batch[i] \in SeenEvents
    BY <1>1
  <1>3. \A i \in DOMAIN batch : /\ PairOf(batch[i]) \in Pairs
                                /\ Canonical[batch[i].provider] \in Ids
    BY <1>2 DEF PairOf, Pairs, Ids, SeenEvents
  <1> QED BY <1>1, <1>2, <1>3

LEMMA NewestOfIs ==
    ASSUME NEW batch \in Batches, NEW i \in DOMAIN batch
    PROVE  NewestOf(batch, batch[i].provider) \in Nat
  <1> DEFINE s == batch[i].provider
             places == {j \in DOMAIN batch : batch[j].provider = s}
             at == [j \in DOMAIN batch |-> batch[j].at]
             times == {at[j] : j \in places}
  <1>1. batch \in Seq(SeenEvents) /\ \A j \in DOMAIN batch : batch[j].at \in Nat
    BY BatchFacts DEF SeenEvents
  <1>2. IsFiniteSet(places)
    <2>1. DOMAIN batch = 1 .. Len(batch) /\ Len(batch) \in Nat
      BY <1>1
    <2>2. places \in SUBSET (1 .. Len(batch))
      BY <2>1
    <2> HIDE DEF places
    <2> QED BY <2>1, <2>2, LastPlace
  <1>3. times = {batch[j].at : j \in places}
    OBVIOUS
  <1>4. times \subseteq Nat /\ times # {}
    BY <1>1
  <1>5. IsFiniteSet(times)
    <2> HIDE DEF at, places
    <2> QED BY <1>2, ImageIsFinite
  <1> HIDE DEF times
  <1>6. \E t \in times : \A u \in times : u <= t
    <2>1. times \subseteq Int
      BY <1>4
    <2> QED BY <1>4, <1>5, <2>1, Extremes
  <1>7. NewestOf(batch, s) = CHOOSE t \in times : \A u \in times : u <= t
    BY <1>3 DEF NewestOf
  <1> QED BY <1>4, <1>6, <1>7

(* The reports are of the first event of each unregistered spelling, and   *)
(* of each event of a new pair.                                            *)
LEMMA ReportFacts ==
    ASSUME ObservedTables, NEW batch \in Batches
    PROVE  /\ Reports(batch) \in Seq({Absent} \union Records)
           /\ \A i \in DOMAIN batch :
                 /\ seen[PairOf(batch[i])] = Absent
                      => <<"unknown_model", PairOf(batch[i])>> \in Subjects(Reports(batch))
                 /\ ~ Resolution(providers, batch[i].provider).registered
                      => <<"unknown_provider", Canonical[batch[i].provider]>>
                           \in Subjects(Reports(batch))
  <1> DEFINE n == Len(batch)
             reports == Reports(batch)
             Some == {Absent} \union Records
  <1>1. /\ n \in Nat /\ DOMAIN batch = 1 .. n
        /\ \A i \in 1 .. n : /\ batch[i] \in SeenEvents /\ batch[i].at \in Nat
                             /\ PairOf(batch[i]) \in Pairs
                             /\ Canonical[batch[i].provider] \in Ids
    BY BatchFacts DEF SeenEvents
  <1>2. ASSUME NEW i \in 1 .. n
        PROVE  /\ [subject |-> <<"unknown_provider", Canonical[batch[i].provider]>>,
                   at |-> NewestOf(batch, batch[i].provider)] \in Records
               /\ [subject |-> <<"unknown_model", PairOf(batch[i])>>, at |-> batch[i].at]
                     \in Records
    <2>1. NewestOf(batch, batch[i].provider) \in Nat
      BY <1>1, NewestOfIs
    <2> QED BY <1>1, <2>1 DEF Records
  <1>3. Absent \notin Records
    BY ObservedAssumption
  <1>4. /\ ProviderReports(batch) \in Seq(Some) /\ ModelReports(batch) \in Seq(Some)
        /\ Len(ProviderReports(batch)) = n /\ Len(ModelReports(batch)) = n
    <2>1. \A f : (DOMAIN f = 1 .. n /\ f = [i \in 1 .. n |-> f[i]] /\ \A i \in 1 .. n : f[i] \in Some)
                   => f \in Seq(Some) /\ Len(f) = n
      BY <1>1
    <2>2. /\ DOMAIN ProviderReports(batch) = 1 .. n
          /\ ProviderReports(batch) = [i \in 1 .. n |-> ProviderReports(batch)[i]]
          /\ \A i \in 1 .. n : ProviderReports(batch)[i] \in Some
      BY <1>1, <1>2 DEF ProviderReports
    <2>3. /\ DOMAIN ModelReports(batch) = 1 .. n
          /\ ModelReports(batch) = [i \in 1 .. n |-> ModelReports(batch)[i]]
          /\ \A i \in 1 .. n : ModelReports(batch)[i] \in Some
      BY <1>1, <1>2 DEF ModelReports
    <2> HIDE DEF Some
    <2> QED BY <2>1, <2>2, <2>3
  <1>5. /\ reports \in Seq(Some) /\ Len(reports) = n + n
        /\ \A i \in 1 .. n : /\ reports[i] = ProviderReports(batch)[i]
                             /\ reports[n + i] = ModelReports(batch)[i]
    BY <1>1, <1>4 DEF Reports
  <1>6. \A i \in 1 .. n : i \in DOMAIN reports /\ n + i \in DOMAIN reports
    BY <1>1, <1>5
  <1>7. ASSUME NEW i \in DOMAIN batch, seen[PairOf(batch[i])] = Absent
        PROVE  <<"unknown_model", PairOf(batch[i])>> \in Subjects(reports)
    <2>1. reports[n + i] = [subject |-> <<"unknown_model", PairOf(batch[i])>>,
                            at |-> batch[i].at]
      BY <1>1, <1>5, <1>7 DEF ModelReports
    <2>2. n + i \in Due(reports)
      BY <1>1, <1>2, <1>3, <1>6, <2>1 DEF Due
    <2> QED BY <2>1, <2>2 DEF Subjects
  <1>8. ASSUME NEW i \in DOMAIN batch, ~ Resolution(providers, batch[i].provider).registered
        PROVE  <<"unknown_provider", Canonical[batch[i].provider]>> \in Subjects(reports)
    <2> DEFINE alike == {j \in 1 .. n : batch[j].provider = batch[i].provider}
    <2>1. PICK j \in alike : \A k \in alike : j <= k
      <3>1. alike \subseteq Int /\ alike # {} /\ IsFiniteSet(alike)
        <4>1. alike \in SUBSET (1 .. n) /\ i \in alike
          BY <1>1
        <4>2. alike \subseteq Int
          OBVIOUS
        <4> HIDE DEF alike
        <4> QED BY <1>1, <4>1, <4>2, LastPlace
      <3> HIDE DEF alike
      <3> QED BY <3>1, Extremes
    <2>2. j \in 1 .. n /\ batch[j].provider = batch[i].provider /\ IsFirstOf(batch, j)
      BY <1>1, <2>1 DEF IsFirstOf
    <2>3. reports[j] = [subject |-> <<"unknown_provider", Canonical[batch[i].provider]>>,
                        at |-> NewestOf(batch, batch[i].provider)]
      BY <1>1, <1>5, <1>8, <2>2 DEF ProviderReports
    <2>4. j \in Due(reports)
      BY <1>1, <1>2, <1>3, <1>6, <2>2, <2>3 DEF Due
    <2> QED BY <2>3, <2>4 DEF Subjects
  <1> QED BY <1>5, <1>7, <1>8

(* One report recorded, or skipped.                                        *)
RecordStep(q, report, lost) ==
    IF report = Absent \/ report.subject \in lost THEN q ELSE Recorded(q, report)

Tidy(records) ==
    \A i, j \in DOMAIN records : i # j /\ records[i].subject = records[j].subject =>
        \/ records[i].at - records[j].at > Dedup
        \/ records[j].at - records[i].at > Dedup

LEMMA RecordsAre ==
    ASSUME NEW q \in Seq(Records)
    PROVE  /\ DOMAIN q = 1 .. Len(q) /\ Len(q) \in Nat
           /\ \A i \in 1 .. Len(q) : q[i] \in Records /\ q[i].at \in Nat
  <1>1. \A record \in Records : record.at \in Nat
    BY DEF Records
  <1>2. /\ DOMAIN q = 1 .. Len(q) /\ Len(q) \in Nat
        /\ \A i \in 1 .. Len(q) : q[i] \in Records
    OBVIOUS
  <1> QED BY <1>1, <1>2

LEMMA NewestIs ==
    ASSUME NEW q \in Seq(Records), NEW subject, OfSubject(q, subject) # {}
    PROVE  /\ Newest(q, subject) \in OfSubject(q, subject)
           /\ \A j \in OfSubject(q, subject) : q[j].at <= q[Newest(q, subject)].at
  <1> DEFINE S == OfSubject(q, subject)
             at == [i \in DOMAIN q |-> q[i].at]
             times == {at[i] : i \in S}
  <1>1. DOMAIN q = 1 .. Len(q) /\ Len(q) \in Nat /\ \A i \in DOMAIN q : q[i].at \in Nat
    BY RecordsAre
  <1>2. S \in SUBSET (1 .. Len(q)) /\ \A i \in S : i \in DOMAIN q /\ at[i] = q[i].at
    BY <1>1 DEF OfSubject
  <1>3. times \subseteq Int /\ times # {} /\ \A i \in S : at[i] \in times
    <2>1. S # {} /\ \A i \in S : at[i] \in Int
      BY <1>1, <1>2
    <2> HIDE DEF S, at
    <2> QED BY <2>1
  <1> HIDE DEF S, at
  <1>4. IsFiniteSet(S)
    BY <1>1, <1>2, LastPlace
  <1>5. IsFiniteSet(times)
    BY <1>4, ImageIsFinite
  <1>6. \E i \in S : \A j \in S : at[j] <= at[i]
    <2> HIDE DEF times
    <2>1. Max(times) \in times /\ \A t \in times : t <= Max(times)
      BY <1>3, <1>5, Extremes
    <2>2. PICK i \in S : at[i] = Max(times)
      BY <2>1 DEF times
    <2> QED BY <1>3, <2>1, <2>2
  <1>7. \E i \in S : \A j \in S : q[j].at <= q[i].at
    BY <1>2, <1>6
  <1> QED BY <1>7 DEF Newest, S

(* What recording one report makes of the records.                         *)
LEMMA RecordedIs ==
    ASSUME NEW q \in Seq(Records), NEW report \in Records
    PROVE  /\ Recorded(q, report) \in Seq(Records)
           /\ Len(Recorded(q, report)) >= Len(q)
           /\ \A j \in DOMAIN q : Recorded(q, report)[j].subject = q[j].subject
           /\ \A j \in DOMAIN Recorded(q, report) :
                 \/ j \in DOMAIN q /\ Recorded(q, report)[j] = q[j]
                 \/ Recorded(q, report)[j] = report
           /\ OfSubject(Recorded(q, report), report.subject) # {}
           /\ Tidy(q) /\ (\A j \in OfSubject(q, report.subject) : q[j].at <= report.at)
                => Tidy(Recorded(q, report))
  <1> DEFINE i == Newest(q, report.subject)
             S == OfSubject(q, report.subject)
             t == Recorded(q, report)
  <1>1. /\ Dedup \in Nat /\ DOMAIN q = 1 .. Len(q) /\ Len(q) \in Nat
        /\ report.at \in Nat /\ \A j \in 1 .. Len(q) : q[j] \in Records /\ q[j].at \in Nat
    <2>1. report.at \in Nat
      BY DEF Records
    <2> QED BY <2>1, RecordsAre, ObservedAssumption
  <1>2. CASE S # {} /\ report.at - q[i].at <= Dedup
    <2>1. /\ i \in DOMAIN q /\ q[i].subject = report.subject
          /\ \A j \in DOMAIN q : q[j].subject = report.subject => q[j].at <= q[i].at
      BY <1>2, NewestIs DEF OfSubject
    <2>2. t = [q EXCEPT ![i].at = report.at]
      BY <1>2 DEF Recorded
    <2> HIDE DEF i, t
    <2>3. [q[i] EXCEPT !.at = report.at] = report
      BY <1>1, <2>1 DEF Records
    <2>4. /\ t \in Seq(Records) /\ Len(t) = Len(q) /\ DOMAIN t = DOMAIN q
          /\ t[i] = report /\ \A j \in DOMAIN q : j # i => t[j] = q[j]
      <3>1. t = [q EXCEPT ![i] = report]
        BY <2>2, <2>3
      <3> QED BY <2>1, <3>1
    <2>5. OfSubject(t, report.subject) # {}
      BY <2>1, <2>4 DEF OfSubject
    <2>6. ASSUME Tidy(q), \A j \in S : q[j].at <= report.at PROVE Tidy(t)
      <3>1. q[i].at <= report.at /\ q[i].at \in Nat
        BY <1>1, <2>1, <2>6 DEF OfSubject
      <3>2. ASSUME NEW j \in DOMAIN q, j # i, q[j].subject = report.subject
            PROVE  report.at - q[j].at > Dedup
        <4>1. /\ q[j].at <= q[i].at /\ q[j].at \in Nat
              /\ \/ q[i].at - q[j].at > Dedup
                 \/ q[j].at - q[i].at > Dedup
          BY <1>1, <2>1, <2>6, <3>2 DEF Tidy
        <4> QED BY <1>1, <3>1, <4>1
      <3>3. ASSUME NEW j \in DOMAIN q, NEW k \in DOMAIN q, j # k, t[j].subject = t[k].subject
            PROVE  t[j].at - t[k].at > Dedup \/ t[k].at - t[j].at > Dedup
        <4>1. CASE j = i
          BY <2>1, <2>4, <3>2, <3>3, <4>1
        <4>2. CASE k = i
          BY <2>1, <2>4, <3>2, <3>3, <4>2
        <4>3. CASE j # i /\ k # i
          BY <2>4, <2>6, <3>3, <4>3 DEF Tidy
        <4> QED BY <4>1, <4>2, <4>3
      <3> QED BY <2>4, <3>3 DEF Tidy
    <2>7. \A j \in DOMAIN q : t[j].subject = q[j].subject
      BY <2>1, <2>4
    <2> QED BY <1>1, <2>4, <2>5, <2>6, <2>7 DEF t
  <1>3. CASE ~ (S # {} /\ report.at - q[i].at <= Dedup)
    <2>1. t = Append(q, report)
      BY <1>3 DEF Recorded
    <2> DEFINE n == Len(q) + 1
    <2>2. /\ t \in Seq(Records) /\ Len(t) = n /\ DOMAIN t = 1 .. n
          /\ t[n] = report /\ \A j \in DOMAIN q : t[j] = q[j]
          /\ \A j \in 1 .. n : j = n \/ j \in DOMAIN q
      BY <1>1, <2>1
    <2>3. OfSubject(t, report.subject) # {}
      BY <1>1, <2>2 DEF OfSubject
    <2>4. ASSUME Tidy(q), \A j \in S : q[j].at <= report.at PROVE Tidy(t)
      <3>1. ASSUME NEW j \in DOMAIN q, q[j].subject = report.subject
            PROVE  report.at - q[j].at > Dedup
        <4>1. j \in S
          BY <3>1 DEF OfSubject
        <4>2. i \in DOMAIN q /\ q[j].at <= q[i].at
          BY <4>1, NewestIs DEF OfSubject
        <4>3. q[j].at \in Nat /\ q[i].at \in Nat /\ ~ (report.at - q[i].at <= Dedup)
          BY <1>1, <1>3, <4>1, <4>2
        <4> HIDE DEF i, S, t
        <4> QED BY <1>1, <4>2, <4>3
      <3>2. ASSUME NEW j \in 1 .. n, NEW k \in 1 .. n, j # k, t[j].subject = t[k].subject
            PROVE  t[j].at - t[k].at > Dedup \/ t[k].at - t[j].at > Dedup
        <4>1. CASE j = n
          BY <2>2, <3>1, <3>2, <4>1
        <4>2. CASE k = n
          BY <2>2, <3>1, <3>2, <4>2
        <4>3. CASE j # n /\ k # n
          BY <2>2, <2>4, <3>2, <4>3 DEF Tidy
        <4> QED BY <4>1, <4>2, <4>3
      <3> QED BY <2>2, <3>2 DEF Tidy
    <2> HIDE DEF t
    <2> QED BY <1>1, <2>2, <2>3, <2>4 DEF t
  <1> QED BY <1>2, <1>3

(* The fold of record_safe, by what it makes of each set of places.        *)
Recordings(g, records, reports, lost) ==
    g = [s \in SUBSET DOMAIN reports |->
           IF s = {} THEN records
           ELSE RecordStep(g[s \ {Max(s)}], reports[Max(s)], lost)]

LEMMA RecordedByReport ==
    ASSUME NEW records \in Seq(Records), NEW reports \in Seq({Absent} \union Records), NEW lost
    PROVE  \E g : /\ Recordings(g, records, reports, lost)
                  /\ RecordedSafe(records, reports, lost) = g[DOMAIN reports]
  <1> DEFINE n == Len(reports)
             X == Seq(Records)
             f == [p \in X \X (1 .. n) |-> RecordStep(p[1], reports[p[2]], lost)]
  <1>1. DOMAIN reports = 1 .. n /\ n \in Nat
        /\ \A i \in 1 .. n : reports[i] = Absent \/ reports[i] \in Records
    OBVIOUS
  <1>2. \A q \in X, i \in 1 .. n : /\ f[<<q, i>>] = RecordStep(q, reports[i], lost)
                                   /\ RecordStep(q, reports[i], lost) \in X
    <2>1. \A q \in X, r \in Records : Recorded(q, r) \in X
      BY RecordedIs
    <2>2. \A q \in X, i \in 1 .. n : RecordStep(q, reports[i], lost) \in X
      BY <1>1, <2>1 DEF RecordStep
    <2> QED BY <2>2
  <1> HIDE DEF f, X, n
  <1>3. StepsIn(f, X, n) /\ records \in X
    BY <1>2 DEF StepsIn, X
  <1>4. PICK g : IsFold(g, f, records, 1 .. n) /\ \A s \in SUBSET (1 .. n) : g[s] \in X
    BY <1>1, <1>3, FoldExists
  <1>5. ASSUME NEW s \in SUBSET (1 .. n), s # {}
        PROVE  f[<<g[s \ {Max(s)}], Max(s)>>]
                 = RecordStep(g[s \ {Max(s)}], reports[Max(s)], lost)
    <2>1. Max(s) \in 1 .. n /\ g[s \ {Max(s)}] \in X
      BY <1>1, <1>4, <1>5, LastPlace
    <2> QED BY <1>2, <2>1
  <1>6. Recordings(g, records, reports, lost)
    BY <1>1, <1>4, <1>5 DEF IsFold, Recordings
  <1>7. Recordings(CHOOSE h : Recordings(h, records, reports, lost), records, reports, lost)
    BY <1>6
  <1>8. RecordedSafe(records, reports, lost)
          = (CHOOSE h : Recordings(h, records, reports, lost))[DOMAIN reports]
    BY DEF RecordedSafe, FoldLeft, MapThenFoldSet, Recordings, RecordStep
  <1> QED BY <1>7, <1>8

(* No report is older than a record of its subject, or than one before it. *)
InOrder(records, reports) ==
    /\ \A n \in Due(reports) : \A i \in OfSubject(records, reports[n].subject) :
          records[i].at <= reports[n].at
    /\ \A m, n \in Due(reports) : m < n /\ reports[m].subject = reports[n].subject
          => reports[m].at <= reports[n].at

(* What recording the reports at the places s may have made of the records.*)
RecordedTo(t, s, records, reports, lost) ==
    /\ t \in Seq(Records)
    /\ Len(t) >= Len(records)
    /\ \A i \in DOMAIN records : t[i].subject = records[i].subject
    /\ \A n \in s : reports[n] # Absent /\ reports[n].subject \notin lost
          => OfSubject(t, reports[n].subject) # {}
    /\ \A j \in DOMAIN t : \/ j \in DOMAIN records /\ t[j] = records[j]
                           \/ \E m \in s : m \in Due(reports) /\ t[j] = reports[m]
    /\ Tidy(records) /\ InOrder(records, reports) => Tidy(t)

(* A report that is recorded after those at the places s.                  *)
RecordedNext(t, s, records, reports, lost, m) ==
    /\ records \in Seq(Records) /\ reports \in Seq({Absent} \union Records)
    /\ m \in DOMAIN reports /\ s \subseteq DOMAIN reports /\ \A i \in s : i < m
    /\ RecordedTo(t, s, records, reports, lost)

LEMMA StepRecords ==
    ASSUME NEW t, NEW s, NEW records, NEW reports, NEW lost, NEW m,
           RecordedNext(t, s, records, reports, lost, m)
    PROVE  RecordedTo(RecordStep(t, reports[m], lost), s \union {m}, records, reports, lost)
  <1> DEFINE report == reports[m]
             new == RecordStep(t, report, lost)
  <1>1. /\ records \in Seq(Records) /\ reports \in Seq({Absent} \union Records)
        /\ m \in DOMAIN reports /\ s \subseteq DOMAIN reports /\ \A i \in s : i < m
        /\ RecordedTo(t, s, records, reports, lost)
    BY DEF RecordedNext
  <1>2. /\ t \in Seq(Records) /\ Len(t) >= Len(records)
        /\ DOMAIN t = 1 .. Len(t) /\ DOMAIN records = 1 .. Len(records)
        /\ Len(t) \in Nat /\ Len(records) \in Nat
        /\ report = Absent \/ report \in Records
    BY <1>1 DEF RecordedTo
  <1>3. CASE report = Absent \/ report.subject \in lost
    <2>1. new = t
      BY <1>3 DEF RecordStep
    <2> HIDE DEF new
    <2> QED BY <1>1, <1>3, <2>1 DEF RecordedTo, new
  <1>4. CASE ~ (report = Absent \/ report.subject \in lost)
    <2>1. new = Recorded(t, report) /\ report \in Records /\ m \in Due(reports)
      BY <1>1, <1>2, <1>4 DEF RecordStep, Due
    <2> HIDE DEF new, report
    <2>2. /\ new \in Seq(Records)
          /\ Len(new) >= Len(t)
          /\ \A j \in DOMAIN t : new[j].subject = t[j].subject
          /\ \A j \in DOMAIN new : (j \in DOMAIN t /\ new[j] = t[j]) \/ new[j] = report
          /\ OfSubject(new, report.subject) # {}
          /\ Tidy(t) /\ (\A j \in OfSubject(t, report.subject) : t[j].at <= report.at)
                => Tidy(new)
      BY <1>2, <2>1, RecordedIs
    <2>3. /\ DOMAIN new = 1 .. Len(new) /\ Len(new) \in Nat
          /\ \A j \in DOMAIN t : j \in DOMAIN new
          /\ \A j \in DOMAIN records : j \in DOMAIN t
      BY <1>2, <2>2
    <2>4. Len(new) >= Len(records)
      BY <1>2, <2>2, <2>3
    <2>5. \A i \in DOMAIN records : new[i].subject = records[i].subject
      BY <1>1, <2>2, <2>3 DEF RecordedTo
    <2>6. ASSUME NEW n \in s \union {m}, reports[n] # Absent, reports[n].subject \notin lost
          PROVE  OfSubject(new, reports[n].subject) # {}
      <3>1. CASE n = m
        BY <2>2, <3>1 DEF report
      <3>2. CASE n \in s
        <4>1. OfSubject(t, reports[n].subject) # {}
          BY <1>1, <2>6, <3>2 DEF RecordedTo
        <4>2. PICK j \in DOMAIN t : t[j].subject = reports[n].subject
          BY <4>1 DEF OfSubject
        <4> QED BY <2>2, <2>3, <4>2 DEF OfSubject
      <3> QED BY <3>1, <3>2
    <2>7. ASSUME NEW j \in DOMAIN new
          PROVE  \/ j \in DOMAIN records /\ new[j] = records[j]
                 \/ \E k \in s \union {m} : k \in Due(reports) /\ new[j] = reports[k]
      <3>1. CASE new[j] = report
        BY <2>1, <3>1 DEF report
      <3>2. CASE j \in DOMAIN t /\ new[j] = t[j]
        BY <1>1, <3>2 DEF RecordedTo
      <3> QED BY <2>2, <3>1, <3>2
    <2>8. ASSUME Tidy(records), InOrder(records, reports) PROVE Tidy(new)
      <3>1. Tidy(t)
        BY <1>1, <2>8 DEF RecordedTo
      <3>2. ASSUME NEW j \in OfSubject(t, report.subject) PROVE t[j].at <= report.at
        <4>1. j \in DOMAIN t /\ t[j].subject = report.subject
          BY DEF OfSubject
        <4>2. CASE j \in DOMAIN records /\ t[j] = records[j]
          <5>1. j \in OfSubject(records, reports[m].subject)
            BY <4>1, <4>2 DEF OfSubject, report
          <5> QED BY <2>1, <2>8, <4>2, <5>1 DEF InOrder, report
        <4>3. ASSUME NEW k \in s, k \in Due(reports), t[j] = reports[k]
              PROVE  t[j].at <= report.at
          <5>1. k < m /\ reports[k].subject = reports[m].subject
            BY <1>1, <4>1, <4>3 DEF report
          <5> QED BY <2>1, <2>8, <4>3, <5>1 DEF InOrder, report
        <4> QED BY <1>1, <4>1, <4>2, <4>3 DEF RecordedTo
      <3> QED BY <2>2, <3>1, <3>2
    <2>9. RecordedTo(new, s \union {m}, records, reports, lost)
      BY <2>2, <2>4, <2>5, <2>6, <2>7, <2>8 DEF RecordedTo
    <2> QED BY <2>9 DEF new, report
  <1> QED BY <1>3, <1>4

LEMMA RecordedSafely ==
    ASSUME NEW records \in Seq(Records), NEW reports \in Seq({Absent} \union Records), NEW lost
    PROVE  RecordedTo(RecordedSafe(records, reports, lost), DOMAIN reports,
                      records, reports, lost)
  <1> DEFINE D == DOMAIN reports
  <1>1. Len(reports) \in Nat /\ D = 1 .. Len(reports)
    OBVIOUS
  <1>2. PICK g : /\ Recordings(g, records, reports, lost)
                 /\ RecordedSafe(records, reports, lost) = g[D]
    BY RecordedByReport
  <1> DEFINE Good(s) == RecordedTo(g[s], s, records, reports, lost)
             B == {s \in SUBSET D : ~ Good(s)}
  <1> SUFFICES ASSUME B # {} PROVE FALSE
    BY <1>2
  <1>3. PICK s \in B : \A u \in B : u \subseteq s => u = s
    <2>1. B \in SUBSET SUBSET D
      OBVIOUS
    <2> HIDE DEF B
    <2> QED BY <1>1, <2>1, SmallestSet, LastPlace
  <1>4. g[s] = IF s = {} THEN records
               ELSE RecordStep(g[s \ {Max(s)}], reports[Max(s)], lost)
    BY <1>2 DEF Recordings
  <1>5. CASE s = {}
    BY <1>4, <1>5 DEF RecordedTo
  <1>6. CASE s # {}
    <2> DEFINE m == Max(s)
               rest == s \ {m}
    <2>1. m \in s /\ m \in D /\ \A i \in rest : i < m
      BY <1>1, <1>6, LastPlace
    <2>2. rest \subseteq D /\ rest # s /\ rest \subseteq s /\ rest \union {m} = s
      BY <2>1
    <2>3. g[s] = RecordStep(g[rest], reports[m], lost)
      BY <1>4, <1>6
    <2> HIDE DEF m, rest
    <2>4. Good(rest)
      BY <1>3, <2>2
    <2> DEFINE t == g[rest]
    <2>5. RecordedNext(t, rest, records, reports, lost, m)
      BY <2>1, <2>2, <2>4 DEF RecordedNext
    <2> HIDE DEF t, D, Good, B
    <2>6. RecordedTo(RecordStep(t, reports[m], lost), rest \union {m}, records, reports, lost)
      BY <2>5, StepRecords
    <2>7. Good(s)
      BY <2>2, <2>3, <2>6 DEF t, Good
    <2> QED BY <2>7 DEF B
  <1> QED BY <1>5, <1>6

-----------------------------------------------------------------------------
(* The strengthening of RegistriesKeepUp: what an open request holds, over *)
(* the registries rows and known, the records and the policy how.          *)

OnFile(rows, id) == id \in Seeds \/ IsRegistered(rows, id)

Noted(records, subject) == OfSubject(records, subject) # {}

(* What it decided still holds when it commits, whatever others committed: *)
(* nothing is taken out of the registries, and records keep their subjects.*)
Begun(r, rows, known, records, how) ==
    /\ r.batch \in Batches
    /\ r.reports \in Seq({Absent} \union Records)
    /\ r.added \in Seq(Records)
    /\ DOMAIN r.moved \subseteq DOMAIN records
    /\ \A i \in DOMAIN r.moved : /\ r.moved[i] \in Records
                                 /\ r.moved[i].subject = records[i].subject
    /\ DOMAIN r.models \subseteq Pairs
    /\ \A p \in DOMAIN r.models :
          /\ r.models[p] \in Nat
          /\ known[p] # Absent \/ <<"unknown_model", p>> \in Subjects(r.reports)
    /\ \A i \in DOMAIN r.batch :
          LET id == Canonical[r.batch[i].provider]
          IN  /\ rows[id] # Absent \/ id \in r.inserts
              /\ known[PairOf(r.batch[i])] # Absent \/ PairOf(r.batch[i]) \in DOMAIN r.models
              /\ OnFile(rows, id) \/ <<"unknown_provider", id>> \in Subjects(r.reports)
              /\ OnFile(rows, id) \/ how = "accept"
    /\ \A s \in Subjects(r.reports) : s \notin r.lost => Noted(records, s) \/ Noted(r.added, s)

(* The records as it leaves them.                                          *)
Leaves(r, records) ==
    [i \in DOMAIN records |-> IF i \in DOMAIN r.moved THEN r.moved[i] ELSE records[i]] \o r.added

(* While requests come one at a time, nothing changed since it began.      *)
Fresh(r, known, records, tardy) ==
    /\ \A i \in DOMAIN r.batch :
          IF PairOf(r.batch[i]) \in DOMAIN r.models
          THEN r.models[PairOf(r.batch[i])] >= r.batch[i].at
          ELSE known[PairOf(r.batch[i])] >= r.batch[i].at
    /\ \A p \in DOMAIN r.models : known[p] # Absent => r.models[p] >= known[p]
    /\ tardy \/ ~ InOrder(records, r.reports) \/ Tidy(Leaves(r, records))

Serial ==
    ~ crowded =>
        /\ \A v, w \in Ingests : inFlight[v] # Absent /\ inFlight[w] # Absent => v = w
        /\ \A e \in used : seen[PairOf(e)] >= e.at
        /\ late \/ Tidy(quality)
        /\ \A w \in Ingests : inFlight[w] # Absent => Fresh(inFlight[w], seen, quality, late)

ModelsNoted == \A p \in Pairs : seen[p] # Absent => HasRecord(<<"unknown_model", p>>)

ObservedInv ==
    /\ ObservedTables
    /\ used \subseteq SeenEvents
    /\ inFlight = [w \in Ingests |-> inFlight[w]]
    /\ ModelsNoted
    /\ UnknownsNoticed
    /\ RejectHolds
    /\ \A w \in Ingests : inFlight[w] # Absent
                            => Begun(inFlight[w], providers, seen, quality, rule)
    /\ Serial

LEMMA ObservedInitInv == ObservedInit => ObservedInv
  <1> SUFFICES ASSUME ObservedInit PROVE ObservedInv
    OBVIOUS
  <1>1. ObservedTables
    BY ObservedAssumption DEF ObservedInit, ObservedTables
  <1>2. Serial
    BY DEF ObservedInit, Serial, Tidy
  <1> QED BY <1>1, <1>2 DEF ObservedInit, ObservedInv, ModelsNoted, UnknownsNoticed, RejectHolds

LEMMA ObservedStutters == ObservedInv /\ UNCHANGED observedVars => ObservedInv'
  <1> SUFFICES ASSUME ObservedInv, UNCHANGED observedVars PROVE ObservedInv'
    OBVIOUS
  <1>1. ObservedTables' /\ ModelsNoted' /\ UnknownsNoticed' /\ RejectHolds'
    BY DEF ObservedInv, observedVars, ObservedTables, ModelsNoted, UnknownsNoticed, RejectHolds,
           HasRecord
  <1>2. Serial'
    BY DEF ObservedInv, observedVars, Serial
  <1> QED BY <1>1, <1>2 DEF ObservedInv, observedVars

(* A rollback, and what every step leaves that only closes requests.       *)
LEMMA RollBackKeeps ==
    ASSUME ObservedInv, NEW w \in Ingests, RollBackObserved(w)
    PROVE  ObservedInv'
  <1>1. /\ inFlight' = [inFlight EXCEPT ![w] = Absent]
        /\ UNCHANGED <<rule, crowded, providers, seen, quality, used, late, unrecorded>>
    BY DEF RollBackObserved
  <1>2. ObservedTables' /\ ModelsNoted' /\ UnknownsNoticed' /\ RejectHolds'
    BY <1>1 DEF ObservedInv, ObservedTables, ModelsNoted, UnknownsNoticed, RejectHolds, HasRecord
  <1>3. \A x \in Ingests : inFlight'[x] # Absent => inFlight'[x] = inFlight[x]
    BY <1>1 DEF ObservedInv
  <1>4. Serial'
    BY <1>1, <1>3 DEF ObservedInv, Serial
  <1>5. \A x \in Ingests : inFlight'[x] # Absent
            => Begun(inFlight'[x], providers', seen', quality', rule')
    BY <1>1, <1>3 DEF ObservedInv
  <1> QED BY <1>1, <1>2, <1>4, <1>5 DEF ObservedInv

(* The start only adds to the providers.                                   *)
LEMMA StartKeeps ==
    ASSUME ObservedInv, Start
    PROVE  ObservedInv'
  <1>1. /\ providers' = Seeded(providers)
        /\ inFlight' = [v \in Ingests |-> Absent]
        /\ UNCHANGED <<rule, crowded, seen, quality, used, late, unrecorded>>
    BY DEF Start
  <1>2. /\ providers' \in [Ids -> {Absent} \union ProviderRows]
        /\ \A id \in Ids : providers[id] # Absent
              => providers'[id] # Absent /\ providers'[id].registered = providers[id].registered
    <2>1. providers \in [Ids -> {Absent} \union ProviderRows] /\ Absent \notin ProviderRows
      BY ObservedAssumption DEF ObservedInv, ObservedTables
    <2>2. ASSUME NEW id \in Ids
          PROVE  /\ providers'[id] \in {Absent} \union ProviderRows
                 /\ providers[id] # Absent
                      => /\ providers'[id] # Absent
                         /\ providers'[id].registered = providers[id].registered
      <3>1. providers'[id] = IF id \notin Seeds THEN providers[id]
                             ELSE IF providers[id] = Absent THEN RowFor(id)
                             ELSE [providers[id] EXCEPT !.windows = TRUE]
        BY <1>1 DEF Seeded
      <3>2. RowFor(id) \in ProviderRows
        BY DEF RowFor, ProviderRows
      <3>3. providers[id] # Absent =>
               /\ [providers[id] EXCEPT !.windows = TRUE] \in ProviderRows
               /\ [providers[id] EXCEPT !.windows = TRUE].registered = providers[id].registered
        BY <2>1 DEF ProviderRows
      <3> QED BY <2>1, <3>1, <3>2, <3>3
    <2>3. DOMAIN providers' = Ids /\ providers' = [id \in Ids |-> providers'[id]]
      BY <1>1 DEF Seeded
    <2> QED BY <2>2, <2>3
  <1>3. \A e \in used : Canonical[e.provider] \in Ids
    BY DEF ObservedInv, SeenEvents, Ids
  <1>4. ObservedTables' /\ ModelsNoted'
    BY <1>1, <1>2 DEF ObservedInv, ObservedTables, ModelsNoted, HasRecord
  <1>5. UnknownsNoticed'
    BY <1>1, <1>2, <1>3 DEF ObservedInv, UnknownsNoticed, HasRecord
  <1>6. RejectHolds'
    BY <1>1, <1>2, <1>3 DEF ObservedInv, RejectHolds, UnknownsNoticed
  <1>7. Serial'
    BY <1>1 DEF ObservedInv, Serial
  <1> QED BY <1>1, <1>4, <1>5, <1>6, <1>7 DEF ObservedInv

-----------------------------------------------------------------------------
(* A commit.                                                               *)

LEMMA LeavesIs ==
    ASSUME NEW records \in Seq(Records), NEW r, r.added \in Seq(Records),
           \A i \in DOMAIN r.moved : /\ r.moved[i] \in Records
                                     /\ r.moved[i].subject = records[i].subject
    PROVE  /\ Leaves(r, records) \in Seq(Records)
           /\ DOMAIN records \subseteq DOMAIN Leaves(r, records)
           /\ \A i \in DOMAIN records : Leaves(r, records)[i].subject = records[i].subject
           /\ \A s : Noted(records, s) \/ Noted(r.added, s) => Noted(Leaves(r, records), s)
  <1> DEFINE front == [i \in DOMAIN records |->
                         IF i \in DOMAIN r.moved THEN r.moved[i] ELSE records[i]]
             n == Len(records)
             m == Len(r.added)
             new == Leaves(r, records)
  <1>1. /\ n \in Nat /\ DOMAIN records = 1 .. n /\ \A i \in 1 .. n : records[i] \in Records
        /\ m \in Nat /\ DOMAIN r.added = 1 .. m
    OBVIOUS
  <1>2. /\ DOMAIN front = 1 .. n /\ front = [i \in 1 .. n |-> front[i]]
        /\ \A i \in 1 .. n : front[i] \in Records /\ front[i].subject = records[i].subject
    BY <1>1
  <1> HIDE DEF front
  <1>3. front \in Seq(Records) /\ Len(front) = n
    BY <1>1, <1>2
  <1>4. new = front \o r.added
    BY DEF Leaves, front
  <1> HIDE DEF new
  <1>5. /\ new \in Seq(Records) /\ Len(new) = n + m /\ DOMAIN new = 1 .. n + m
        /\ \A i \in 1 .. n : new[i] = front[i]
        /\ \A i \in 1 .. m : new[n + i] = r.added[i]
    BY <1>1, <1>3, <1>4
  <1>6. \A i \in 1 .. n : i \in DOMAIN new
    BY <1>1, <1>5
  <1>7. \A i \in 1 .. m : n + i \in DOMAIN new
    BY <1>1, <1>5
  <1>8. \A i \in 1 .. n : new[i].subject = records[i].subject
    BY <1>2, <1>5
  <1>9. ASSUME NEW s, Noted(records, s) \/ Noted(r.added, s) PROVE Noted(new, s)
    <2>1. CASE Noted(records, s)
      <3>1. PICK i \in 1 .. n : records[i].subject = s
        BY <1>1, <2>1 DEF Noted, OfSubject
      <3>2. i \in DOMAIN new /\ new[i].subject = s
        BY <1>6, <1>8, <3>1
      <3> QED BY <3>2 DEF Noted, OfSubject
    <2>2. CASE Noted(r.added, s)
      <3>1. PICK i \in 1 .. m : r.added[i].subject = s
        BY <1>1, <2>2 DEF Noted, OfSubject
      <3>2. n + i \in DOMAIN new /\ new[n + i].subject = s
        BY <1>5, <1>7, <3>1
      <3> QED BY <3>2 DEF Noted, OfSubject
    <2> QED BY <1>9, <2>1, <2>2
  <1> QED BY <1>1, <1>5, <1>6, <1>8, <1>9 DEF new

(* What the steps of others leave of the tables.                           *)
Grown(rows, known, records, rows2, known2, records2) ==
    /\ \A id \in Ids : rows[id] # Absent => rows2[id] = rows[id]
    /\ \A p \in Pairs : known[p] # Absent => known2[p] # Absent
    /\ DOMAIN records \subseteq DOMAIN records2
    /\ \A i \in DOMAIN records : records2[i].subject = records[i].subject

LEMMA BegunStays ==
    ASSUME NEW r, NEW rows, NEW known, NEW records, NEW how, NEW rows2, NEW known2, NEW records2,
           Begun(r, rows, known, records, how),
           Grown(rows, known, records, rows2, known2, records2)
    PROVE  Begun(r, rows2, known2, records2, how)
  <1>1. \A i \in DOMAIN r.batch : /\ Canonical[r.batch[i].provider] \in Ids
                                  /\ PairOf(r.batch[i]) \in Pairs
    BY BatchFacts DEF Begun
  <1>2. \A id \in Ids : OnFile(rows, id) => OnFile(rows2, id)
    BY DEF Grown, OnFile, IsRegistered
  <1>3. \A s : Noted(records, s) => Noted(records2, s)
    BY DEF Grown, Noted, OfSubject
  <1>4. \A id \in Ids : rows[id] # Absent => rows2[id] # Absent
    BY DEF Grown
  <1>5. /\ DOMAIN r.moved \subseteq DOMAIN records2
        /\ \A i \in DOMAIN r.moved : /\ r.moved[i] \in Records
                                     /\ r.moved[i].subject = records2[i].subject
    BY DEF Begun, Grown
  <1>6. \A p \in DOMAIN r.models :
          /\ r.models[p] \in Nat
          /\ known2[p] # Absent \/ <<"unknown_model", p>> \in Subjects(r.reports)
    BY DEF Begun, Grown
  <1>7. ASSUME NEW i \in DOMAIN r.batch
        PROVE  LET id == Canonical[r.batch[i].provider]
               IN  /\ rows2[id] # Absent \/ id \in r.inserts
                   /\ known2[PairOf(r.batch[i])] # Absent
                        \/ PairOf(r.batch[i]) \in DOMAIN r.models
                   /\ OnFile(rows2, id) \/ <<"unknown_provider", id>> \in Subjects(r.reports)
                   /\ OnFile(rows2, id) \/ how = "accept"
    BY <1>1, <1>2, <1>4 DEF Begun, Grown
  <1>8. \A s \in Subjects(r.reports) : s \notin r.lost => Noted(records2, s) \/ Noted(r.added, s)
    BY <1>3 DEF Begun
  <1> QED BY <1>5, <1>6, <1>7, <1>8 DEF Begun

LEMMA CommitGrows ==
    ASSUME ObservedInv, NEW w \in Ingests, CommitObserved(w), NEW r, r = inFlight[w]
    PROVE  /\ Begun(r, providers, seen, quality, rule)
           /\ ObservedTables'
           /\ Grown(providers, seen, quality, providers', seen', quality')
           /\ quality' = Leaves(r, quality)
           /\ \A s : Noted(quality, s) \/ Noted(r.added, s) => Noted(quality', s)
           /\ \A id \in Ids : /\ id \in r.inserts => providers'[id] # Absent
                              /\ OnFile(providers, id) => OnFile(providers', id)
           /\ \A p \in Pairs : seen'[p] = IF p \in DOMAIN r.models THEN r.models[p] ELSE seen[p]
  <1>1. /\ r # Absent
        /\ \A id \in r.inserts : providers[id] = Absent
        /\ providers' = [id \in Ids |-> IF id \in r.inserts THEN RowFor(id) ELSE providers[id]]
        /\ seen' = [p \in Pairs |-> IF p \in DOMAIN r.models THEN r.models[p] ELSE seen[p]]
        /\ quality' = [i \in DOMAIN quality |->
                         IF i \in DOMAIN r.moved THEN r.moved[i] ELSE quality[i]] \o r.added
        /\ rule' = rule
    BY DEF CommitObserved
  <1>2. /\ providers \in [Ids -> {Absent} \union ProviderRows]
        /\ seen \in [Pairs -> {Absent} \union Nat]
        /\ quality \in Seq(Records) /\ rule \in Rules
        /\ Absent \notin Nat /\ Absent \notin ProviderRows
    BY ObservedAssumption DEF ObservedInv, ObservedTables
  <1>3. Begun(r, providers, seen, quality, rule)
    BY <1>1 DEF ObservedInv
  <1>4. \A id \in Ids : RowFor(id) \in ProviderRows
    BY DEF RowFor, ProviderRows
  <1>5. /\ providers' \in [Ids -> {Absent} \union ProviderRows]
        /\ \A id \in Ids : /\ providers[id] # Absent => providers'[id] = providers[id]
                           /\ id \in r.inserts => providers'[id] # Absent
    BY <1>1, <1>2, <1>4
  <1>6. \A id \in Ids : OnFile(providers, id) => OnFile(providers', id)
    BY <1>5 DEF OnFile, IsRegistered
  <1>7. /\ seen' \in [Pairs -> {Absent} \union Nat]
        /\ \A p \in Pairs :
              /\ seen'[p] = IF p \in DOMAIN r.models THEN r.models[p] ELSE seen[p]
              /\ seen[p] # Absent => seen'[p] # Absent
    <2>1. \A p \in DOMAIN r.models : r.models[p] \in Nat
      BY <1>3 DEF Begun
    <2> QED BY <1>1, <1>2, <2>1
  <1>8. /\ quality' = Leaves(r, quality)
        /\ r.added \in Seq(Records)
        /\ \A i \in DOMAIN r.moved : /\ r.moved[i] \in Records
                                     /\ r.moved[i].subject = quality[i].subject
    BY <1>1, <1>3 DEF Leaves, Begun
  <1>9. /\ quality' \in Seq(Records)
        /\ DOMAIN quality \subseteq DOMAIN quality'
        /\ \A i \in DOMAIN quality : quality'[i].subject = quality[i].subject
        /\ \A s : Noted(quality, s) \/ Noted(r.added, s) => Noted(quality', s)
    BY <1>2, <1>8, LeavesIs
  <1>10. ObservedTables'
    BY <1>1, <1>2, <1>5, <1>7, <1>9 DEF ObservedTables
  <1>11. Grown(providers, seen, quality, providers', seen', quality')
    BY <1>5, <1>7, <1>9 DEF Grown
  <1> QED BY <1>3, <1>5, <1>6, <1>7, <1>8, <1>9, <1>10, <1>11

(* A subject that is lost is remembered; one that is recorded has a record.*)
LEMMA CommitNotes ==
    ASSUME ObservedInv, NEW w \in Ingests, CommitObserved(w), NEW r, r = inFlight[w]
    PROVE  /\ \A s : HasRecord(s) => HasRecord(s)'
           /\ \A s \in Subjects(r.reports) : HasRecord(s)'
  <1>1. unrecorded' = (unrecorded \union {s \in r.lost : OfSubject(quality, s) = {}})
                        \ {s \in Subjects(r.reports) : s \notin r.lost}
    BY DEF CommitObserved
  <1>2. /\ \A s : Noted(quality, s) \/ Noted(r.added, s) => Noted(quality', s)
        /\ \A s \in Subjects(r.reports) : s \notin r.lost => Noted(quality, s) \/ Noted(r.added, s)
    BY CommitGrows DEF Begun
  <1>3. \A s : HasRecord(s) <=> Noted(quality, s) \/ s \in unrecorded
    BY DEF HasRecord, Noted
  <1>4. \A s : HasRecord(s)' <=> Noted(quality', s) \/ s \in unrecorded'
    BY DEF HasRecord, Noted
  <1>5. \A s \in Subjects(r.reports) : Noted(quality', s) \/ s \in unrecorded'
    BY <1>1, <1>2 DEF Noted
  <1>6. \A s : Noted(quality, s) \/ s \in unrecorded => Noted(quality', s) \/ s \in unrecorded'
    BY <1>1, <1>2
  <1> QED BY <1>3, <1>4, <1>5, <1>6

LEMMA LateIs ==
    ASSUME ObservedTables, NEW reports \in Seq({Absent} \union Records)
    PROVE  (\E n \in Due(reports) : IsLate(reports, n)) <=> ~ InOrder(quality, reports)
  <1>1. \A n \in Due(reports) : reports[n].at \in Nat
    BY DEF Due, Records
  <1>2. \A i \in DOMAIN quality : quality[i].at \in Nat
    BY RecordsAre DEF ObservedTables
  <1>3. ASSUME NEW n \in Due(reports)
        PROVE  IsLate(reports, n) <=>
                  \/ \E i \in OfSubject(quality, reports[n].subject) :
                        ~ (quality[i].at <= reports[n].at)
                  \/ \E m \in Due(reports) :
                        /\ m < n /\ reports[m].subject = reports[n].subject
                        /\ ~ (reports[m].at <= reports[n].at)
    BY <1>1, <1>2 DEF IsLate, OfSubject
  <1> QED BY <1>3 DEF InOrder

LEMMA CommitSerial ==
    ASSUME ObservedInv, NEW w \in Ingests, CommitObserved(w)
    PROVE  Serial'
  <1> SUFFICES ASSUME ~ crowded
               PROVE  /\ \A v, x \in Ingests :
                            inFlight'[v] # Absent /\ inFlight'[x] # Absent => v = x
                      /\ \A e \in used' : seen'[PairOf(e)] >= e.at
                      /\ late' \/ Tidy(quality')
                      /\ \A x \in Ingests : inFlight'[x] # Absent
                            => Fresh(inFlight'[x], seen', quality', late')
    <2>1. crowded' = crowded
      BY DEF CommitObserved
    <2> QED BY <2>1 DEF Serial, Tidy
  <1> DEFINE r == inFlight[w]
  <1>1. /\ r # Absent /\ inFlight' = [inFlight EXCEPT ![w] = Absent]
        /\ used' = used \union {r.batch[i] : i \in DOMAIN r.batch}
        /\ late' = (late \/ \E n \in Due(r.reports) : IsLate(r.reports, n))
    BY DEF CommitObserved
  <1>2. \A x \in Ingests : inFlight'[x] = Absent
    BY <1>1 DEF ObservedInv, Serial
  <1>3. /\ Fresh(r, seen, quality, late)
        /\ \A e \in used : seen[PairOf(e)] >= e.at
    BY <1>1 DEF ObservedInv, Serial
  <1>4. /\ Begun(r, providers, seen, quality, rule)
        /\ quality' = Leaves(r, quality)
        /\ \A p \in Pairs : seen'[p] = IF p \in DOMAIN r.models THEN r.models[p] ELSE seen[p]
    BY CommitGrows
  <1> HIDE DEF r
  <1>5. ASSUME NEW e \in used PROVE seen'[PairOf(e)] >= e.at
    <2>1. /\ PairOf(e) \in Pairs /\ e.at \in Nat
          /\ seen[PairOf(e)] >= e.at /\ seen[PairOf(e)] # Absent
          /\ seen[PairOf(e)] \in {Absent} \union Nat
      BY <1>3 DEF ObservedInv, ObservedTables, UnknownsNoticed, SeenEvents, PairOf, Pairs
    <2>2. PairOf(e) \in DOMAIN r.models =>
             r.models[PairOf(e)] \in Nat /\ r.models[PairOf(e)] >= seen[PairOf(e)]
      BY <1>3, <1>4, <2>1 DEF Fresh, Begun
    <2> QED BY <1>4, <2>1, <2>2
  <1>6. ASSUME NEW i \in DOMAIN r.batch PROVE seen'[PairOf(r.batch[i])] >= r.batch[i].at
    <2>1. PairOf(r.batch[i]) \in Pairs
      BY <1>4, BatchFacts DEF Begun
    <2> QED BY <1>3, <1>4, <2>1 DEF Fresh
  <1>7. late' \/ Tidy(quality')
    <2>1. r.reports \in Seq({Absent} \union Records) /\ ObservedTables
      BY <1>4 DEF Begun, ObservedInv
    <2>2. late' = (late \/ ~ InOrder(quality, r.reports))
      BY <1>1, <2>1, LateIs
    <2> QED BY <1>3, <1>4, <2>2 DEF Fresh
  <1> QED BY <1>1, <1>2, <1>5, <1>6, <1>7

LEMMA CommitKeeps ==
    ASSUME ObservedInv, NEW w \in Ingests, CommitObserved(w)
    PROVE  ObservedInv'
  <1> DEFINE r == inFlight[w]
  <1>1. /\ r # Absent /\ inFlight' = [inFlight EXCEPT ![w] = Absent]
        /\ used' = used \union {r.batch[i] : i \in DOMAIN r.batch}
        /\ rule' = rule
    BY DEF CommitObserved
  <1>2. /\ Begun(r, providers, seen, quality, rule)
        /\ ObservedTables'
        /\ Grown(providers, seen, quality, providers', seen', quality')
        /\ \A id \in Ids : /\ id \in r.inserts => providers'[id] # Absent
                           /\ OnFile(providers, id) => OnFile(providers', id)
        /\ \A p \in Pairs : seen'[p] = IF p \in DOMAIN r.models THEN r.models[p] ELSE seen[p]
    BY CommitGrows
  <1>3. /\ \A s : HasRecord(s) => HasRecord(s)'
        /\ \A s \in Subjects(r.reports) : HasRecord(s)'
    BY CommitNotes
  <1>4. \A x \in Ingests : inFlight'[x] # Absent => inFlight'[x] = inFlight[x]
    BY <1>1 DEF ObservedInv
  <1> HIDE DEF r
  <1>5. /\ \A i \in DOMAIN r.batch : /\ r.batch[i] \in SeenEvents
                                     /\ PairOf(r.batch[i]) \in Pairs
                                     /\ Canonical[r.batch[i].provider] \in Ids
        /\ \A e \in used : /\ e \in SeenEvents /\ PairOf(e) \in Pairs
                           /\ Canonical[e.provider] \in Ids
    <2>1. r.batch \in Batches
      BY <1>2 DEF Begun
    <2>2. \A e \in SeenEvents : PairOf(e) \in Pairs /\ Canonical[e.provider] \in Ids
      BY DEF SeenEvents, PairOf, Pairs, Ids
    <2> QED BY <2>1, <2>2, BatchFacts DEF ObservedInv
  <1>6. used' \subseteq SeenEvents
    BY <1>1, <1>5
  <1>7. ModelsNoted'
    <2> SUFFICES ASSUME NEW p \in Pairs, seen'[p] # Absent
                 PROVE  HasRecord(<<"unknown_model", p>>)'
      BY DEF ModelsNoted, HasRecord
    <2>1. CASE seen[p] # Absent
      BY <1>3, <2>1 DEF ObservedInv, ModelsNoted
    <2>2. CASE seen[p] = Absent
      BY <1>2, <1>3, <2>2 DEF Begun
    <2> QED BY <2>1, <2>2
  <1>8. ASSUME NEW e \in used'
        PROVE  LET id == Canonical[e.provider]
               IN  /\ id \in Ids /\ PairOf(e) \in Pairs
                   /\ providers'[id] # Absent
                   /\ seen'[PairOf(e)] # Absent
                   /\ OnFile(providers', id) \/ HasRecord(<<"unknown_provider", id>>)'
                   /\ OnFile(providers', id) \/ rule # "reject"
    <2>1. CASE e \in used
      <3> DEFINE id == Canonical[e.provider]
      <3>1. /\ id \in Ids /\ PairOf(e) \in Pairs
            /\ providers[id] # Absent /\ seen[PairOf(e)] # Absent
            /\ OnFile(providers, id) \/ HasRecord(<<"unknown_provider", id>>)
            /\ OnFile(providers, id) \/ rule # "reject"
        BY <1>5, <2>1 DEF ObservedInv, UnknownsNoticed, RejectHolds, OnFile, IsRegistered
      <3> QED BY <1>2, <1>3, <3>1 DEF Grown
    <2>2. ASSUME NEW i \in DOMAIN r.batch, e = r.batch[i]
          PROVE  LET id == Canonical[e.provider]
                 IN  /\ id \in Ids /\ PairOf(e) \in Pairs
                     /\ providers'[id] # Absent
                     /\ seen'[PairOf(e)] # Absent
                     /\ OnFile(providers', id) \/ HasRecord(<<"unknown_provider", id>>)'
                     /\ OnFile(providers', id) \/ rule # "reject"
      <3> DEFINE id == Canonical[e.provider]
      <3>1. /\ id \in Ids /\ PairOf(e) \in Pairs
            /\ providers[id] # Absent \/ id \in r.inserts
            /\ seen[PairOf(e)] # Absent \/ PairOf(e) \in DOMAIN r.models
            /\ OnFile(providers, id) \/ <<"unknown_provider", id>> \in Subjects(r.reports)
            /\ OnFile(providers, id) \/ rule = "accept"
        BY <1>2, <1>5, <2>2 DEF Begun
      <3>2. /\ PairOf(e) \in DOMAIN r.models => r.models[PairOf(e)] # Absent
            /\ providers[id] # Absent => providers'[id] # Absent
            /\ seen[PairOf(e)] # Absent => seen'[PairOf(e)] # Absent
        BY <1>2, <3>1, ObservedAssumption DEF Begun, Grown
      <3> QED BY <1>2, <1>3, <3>1, <3>2
    <2> QED BY <1>1, <2>1, <2>2
  <1>9. UnknownsNoticed'
    <2> SUFFICES ASSUME NEW e \in used'
                 PROVE  LET id == Canonical[e.provider]
                        IN  /\ providers'[id] # Absent
                            /\ seen'[PairOf(e)] # Absent
                            /\ HasRecord(<<"unknown_model", PairOf(e)>>)'
                            /\ providers'[id].registered \/ id \in Seeds
                                 \/ HasRecord(<<"unknown_provider", id>>)'
      BY DEF UnknownsNoticed, HasRecord
    <2>1. HasRecord(<<"unknown_model", PairOf(e)>>)'
      <3>1. PairOf(e) \in Pairs /\ seen'[PairOf(e)] # Absent
        BY <1>8
      <3> QED BY <1>7, <3>1 DEF ModelsNoted, HasRecord
    <2> QED BY <1>8, <2>1 DEF OnFile, IsRegistered
  <1>10. RejectHolds'
    BY <1>1, <1>8 DEF RejectHolds, OnFile, IsRegistered
  <1>11. \A x \in Ingests : inFlight'[x] # Absent
            => Begun(inFlight'[x], providers', seen', quality', rule')
    <2> SUFFICES ASSUME NEW x \in Ingests, inFlight'[x] # Absent
                 PROVE  Begun(inFlight[x], providers', seen', quality', rule)
      BY <1>1, <1>4
    <2>1. Begun(inFlight[x], providers, seen, quality, rule)
      BY <1>4 DEF ObservedInv
    <2> QED BY <1>2, <2>1, BegunStays
  <1>12. Serial'
    BY CommitSerial
  <1> QED BY <1>1, <1>2, <1>6, <1>7, <1>9, <1>10, <1>11, <1>12 DEF ObservedInv

-----------------------------------------------------------------------------
(* A begin.                                                                *)

LEMMA ObservationIs ==
    ASSUME ObservedTables, NEW batch \in Batches, NEW o, o = Observation(batch)
    PROVE  /\ \A p \in DOMAIN o : \E i \in DOMAIN batch :
                 /\ PairOf(batch[i]) = p /\ o[p] = batch[i].at
                 /\ seen[p] = Absent \/ batch[i].at > seen[p]
           /\ \A i \in DOMAIN batch : LET p == PairOf(batch[i]) IN
                 \/ p \in DOMAIN o /\ o[p] = batch[i].at
                 \/ p \notin DOMAIN o /\ seen[p] # Absent /\ ~ (batch[i].at > seen[p])
  <1> DEFINE moved == {i \in DOMAIN batch : seen[PairOf(batch[i])] = Absent
                                              \/ batch[i].at > seen[PairOf(batch[i])]}
             at(p) == batch[CHOOSE i \in moved : PairOf(batch[i]) = p].at
  <1>1. \A i, j \in DOMAIN batch : i # j => PairOf(batch[i]) # PairOf(batch[j])
    BY BatchFacts
  <1>2. o = [p \in {PairOf(batch[i]) : i \in moved} |-> at(p)]
    BY DEF Observation
  <1>3. \A i \in moved : at(PairOf(batch[i])) = batch[i].at
    <2> SUFFICES ASSUME NEW i \in moved PROVE at(PairOf(batch[i])) = batch[i].at
      OBVIOUS
    <2> DEFINE p == PairOf(batch[i])
               k == CHOOSE j \in moved : PairOf(batch[j]) = p
    <2>1. k \in moved /\ PairOf(batch[k]) = p
      OBVIOUS
    <2>2. k = i
      BY <1>1, <2>1
    <2> QED BY <2>2
  <1>4. \A i \in moved : PairOf(batch[i]) \in DOMAIN o /\ o[PairOf(batch[i])] = batch[i].at
    BY <1>2, <1>3
  <1>5. \A p \in DOMAIN o : \E i \in moved : PairOf(batch[i]) = p
    BY <1>2
  <1>6. \A i \in DOMAIN batch : i \in moved <=> PairOf(batch[i]) \in DOMAIN o
    BY <1>1, <1>4, <1>5
  <1> QED BY <1>4, <1>5, <1>6

LEMMA Joined ==
    ASSUME NEW X, NEW a \in Seq(X), NEW b \in Seq(X)
    PROVE  /\ a \o b \in Seq(X) /\ Len(a \o b) = Len(a) + Len(b)
           /\ \A i \in 1 .. Len(a) : (a \o b)[i] = a[i]
           /\ \A i \in 1 .. Len(b) : (a \o b)[Len(a) + i] = b[i]
  OBVIOUS

(* What a request changes and adds makes of the records what it decided.   *)
LEMMA LeavesDecided ==
    ASSUME NEW records \in Seq(Records), NEW t \in Seq(Records), Len(t) >= Len(records),
           NEW r,
           r.moved = [i \in {j \in DOMAIN records : t[j] # records[j]} |-> t[i]],
           r.added = SubSeq(t, Len(records) + 1, Len(t))
    PROVE  /\ r.added \in Seq(Records)
           /\ Leaves(r, records) = t
           /\ \A s : Noted(t, s) /\ (\A i \in DOMAIN records : t[i].subject = records[i].subject)
                        => Noted(records, s) \/ Noted(r.added, s)
  <1> DEFINE n == Len(records)
             m == Len(t) - n
             added == r.added
             front == [i \in DOMAIN records |->
                         IF i \in DOMAIN r.moved THEN r.moved[i] ELSE records[i]]
  <1>1. /\ n \in Nat /\ DOMAIN records = 1 .. n /\ m \in Nat /\ Len(t) = n + m
        /\ DOMAIN t = 1 .. n + m /\ \A i \in 1 .. n + m : t[i] \in Records
    OBVIOUS
  <1>2. /\ added \in Seq(Records) /\ Len(added) = m /\ DOMAIN added = 1 .. m
        /\ \A i \in 1 .. m : added[i] = t[n + i]
    <2>1. added = SubSeq(t, n + 1, n + m)
      BY <1>1
    <2> HIDE DEF added, n, m
    <2>2. added = [i \in 1 .. m |-> t[n + i]]
      BY <1>1, <2>1
    <2>3. \A i \in 1 .. m : t[n + i] \in Records
      BY <1>1
    <2> QED BY <1>1, <2>2, <2>3
  <1>3. front = [i \in 1 .. n |-> t[i]]
    BY <1>1
  <1>4. Leaves(r, records) = front \o added
    BY DEF Leaves
  <1> HIDE DEF front, added, n, m
  <1>5. front \o added = t
    <2>1. front \in Seq(Records) /\ Len(front) = n
      BY <1>1, <1>3
    <2> DEFINE whole == front \o added
    <2>2. whole \in Seq(Records) /\ Len(whole) = Len(front) + Len(added)
      BY <1>2, <2>1, Joined
    <2>3. /\ \A i \in 1 .. Len(front) : whole[i] = front[i]
          /\ \A i \in 1 .. Len(added) : whole[Len(front) + i] = added[i]
      BY <1>2, <2>1, Joined
    <2> HIDE DEF whole
    <2>4. ASSUME NEW i \in 1 .. n + m PROVE whole[i] = t[i]
      <3>1. CASE i \in 1 .. n
        BY <1>3, <2>1, <2>3, <3>1
      <3>2. CASE i \notin 1 .. n
        <4>1. i - n \in 1 .. m /\ n + (i - n) = i
          BY <1>1, <3>2
        <4> DEFINE k == i - n
        <4>2. whole[n + k] = added[k] /\ added[k] = t[n + k]
          BY <1>2, <2>1, <2>3, <4>1
        <4> QED BY <4>1, <4>2
      <3> QED BY <3>1, <3>2
    <2>5. /\ t = [i \in 1 .. n + m |-> t[i]]
          /\ whole = [i \in 1 .. n + m |-> whole[i]]
      BY <1>1, <1>2, <2>1, <2>2
    <2>6. whole = t
      BY <2>4, <2>5
    <2> QED BY <2>6 DEF whole
  <1>6. ASSUME NEW s, Noted(t, s), \A i \in DOMAIN records : t[i].subject = records[i].subject
        PROVE  Noted(records, s) \/ Noted(added, s)
    <2>1. PICK i \in 1 .. n + m : t[i].subject = s
      BY <1>1, <1>6 DEF Noted, OfSubject
    <2>2. CASE i \in 1 .. n
      BY <1>1, <1>6, <2>1, <2>2 DEF Noted, OfSubject
    <2>3. CASE i \notin 1 .. n
      <3>1. i - n \in 1 .. m /\ n + (i - n) = i
        BY <1>1, <2>3
      <3>2. i - n \in DOMAIN added /\ added[i - n].subject = s
        BY <1>2, <2>1, <3>1
      <3> QED BY <3>2 DEF Noted, OfSubject
    <2> QED BY <2>2, <2>3
  <1> QED BY <1>2, <1>4, <1>5, <1>6 DEF added

LEMMA BeginBegins ==
    ASSUME ObservedInv, NEW w \in Ingests, NEW batch \in Batches, NEW lost,
           BeginObserved(w, batch, lost), NEW r, r = inFlight'[w]
    PROVE  /\ Begun(r, providers, seen, quality, rule)
           /\ ~ crowded => Fresh(r, seen, quality, late)
  <1> DEFINE reports == Reports(batch)
             t == RecordedSafe(quality, reports, lost)
  <1>1. ObservedTables /\ quality \in Seq(Records) /\ rule \in {"accept", "reject"}
    BY ObservedAssumption DEF ObservedInv, ObservedTables
  <1>2. /\ inFlight[w] = Absent /\ Accepted(batch)
        /\ r.batch = batch /\ r.lost = lost /\ r.reports = reports
        /\ r.inserts = {Canonical[s] : s \in {v \in Senders(batch) :
                              Resolution(providers, v).insert}}
        /\ r.models = Observation(batch)
        /\ r.moved = [i \in {j \in DOMAIN quality : t[j] # quality[j]} |-> t[i]]
        /\ r.added = SubSeq(t, Len(quality) + 1, Len(t))
    BY DEF BeginObserved, ObservedInv
  <1>3. /\ reports \in Seq({Absent} \union Records)
        /\ \A i \in DOMAIN batch :
              /\ seen[PairOf(batch[i])] = Absent
                   => <<"unknown_model", PairOf(batch[i])>> \in Subjects(reports)
              /\ ~ Resolution(providers, batch[i].provider).registered
                   => <<"unknown_provider", Canonical[batch[i].provider]>> \in Subjects(reports)
    BY <1>1, ReportFacts
  <1> HIDE DEF reports
  <1>4. RecordedTo(t, DOMAIN reports, quality, reports, lost)
    BY <1>1, <1>3, RecordedSafely
  <1> HIDE DEF t
  <1>5. /\ t \in Seq(Records) /\ Len(t) >= Len(quality)
        /\ \A i \in DOMAIN quality : t[i].subject = quality[i].subject
        /\ \A n \in DOMAIN reports : reports[n] # Absent /\ reports[n].subject \notin lost
              => Noted(t, reports[n].subject)
        /\ Tidy(quality) /\ InOrder(quality, reports) => Tidy(t)
    BY <1>4 DEF RecordedTo, Noted
  <1>6. /\ r.added \in Seq(Records) /\ Leaves(r, quality) = t
        /\ \A s : Noted(t, s) => Noted(quality, s) \/ Noted(r.added, s)
    BY <1>1, <1>2, <1>5, LeavesDecided
  <1>7. /\ DOMAIN r.moved \subseteq DOMAIN quality
        /\ \A i \in DOMAIN r.moved : /\ r.moved[i] \in Records
                                     /\ r.moved[i].subject = quality[i].subject
    <2>1. \A i \in DOMAIN quality : t[i] \in Records
      BY <1>1, <1>5
    <2> QED BY <1>2, <1>5, <2>1
  <1> DEFINE o == r.models
  <1>8. /\ \A p \in DOMAIN o : \E i \in DOMAIN batch :
              /\ PairOf(batch[i]) = p /\ o[p] = batch[i].at
              /\ seen[p] = Absent \/ batch[i].at > seen[p]
        /\ \A i \in DOMAIN batch : LET p == PairOf(batch[i]) IN
              \/ p \in DOMAIN o /\ o[p] = batch[i].at
              \/ p \notin DOMAIN o /\ seen[p] # Absent /\ ~ (batch[i].at > seen[p])
    BY <1>1, <1>2, ObservationIs
  <1> HIDE DEF o
  <1>9. \A i \in DOMAIN batch : /\ batch[i].at \in Nat /\ batch[i].provider \in Senders(batch)
                                /\ PairOf(batch[i]) \in Pairs
                                /\ Canonical[batch[i].provider] \in Ids
    BY BatchFacts DEF SeenEvents, Senders
  <1>10. \A p \in Pairs : seen[p] = Absent \/ seen[p] \in Nat
    BY <1>1 DEF ObservedTables
  <1>11. /\ DOMAIN o \subseteq Pairs
         /\ \A p \in DOMAIN o :
               /\ o[p] \in Nat
               /\ seen[p] # Absent \/ <<"unknown_model", p>> \in Subjects(reports)
               /\ seen[p] # Absent => o[p] >= seen[p]
    <2>1. ASSUME NEW p \in DOMAIN o
          PROVE  /\ p \in Pairs /\ o[p] \in Nat
                 /\ seen[p] # Absent \/ <<"unknown_model", p>> \in Subjects(reports)
                 /\ seen[p] # Absent => o[p] >= seen[p]
      <3>1. PICK i \in DOMAIN batch : /\ PairOf(batch[i]) = p /\ o[p] = batch[i].at
                                      /\ seen[p] = Absent \/ batch[i].at > seen[p]
        BY <1>8
      <3>2. p \in Pairs /\ o[p] \in Nat
        BY <1>9, <3>1
      <3>3. seen[p] # Absent \/ <<"unknown_model", p>> \in Subjects(reports)
        BY <1>3, <3>1
      <3>4. seen[p] # Absent => o[p] >= seen[p]
        BY <1>9, <1>10, <3>1, <3>2
      <3> QED BY <3>2, <3>3, <3>4
    <2> QED BY <2>1
  <1>12. ASSUME NEW i \in DOMAIN batch
         PROVE  LET id == Canonical[batch[i].provider]
                IN  /\ providers[id] # Absent \/ id \in r.inserts
                    /\ seen[PairOf(batch[i])] # Absent \/ PairOf(batch[i]) \in DOMAIN o
                    /\ OnFile(providers, id) \/ <<"unknown_provider", id>> \in Subjects(reports)
                    /\ OnFile(providers, id) \/ rule = "accept"
    <2> DEFINE v == batch[i].provider
               id == Canonical[v]
    <2>1. /\ Resolution(providers, v).insert = (providers[id] = Absent)
          /\ Resolution(providers, v).registered = OnFile(providers, id)
          /\ Resolution(providers, v).accepted = (OnFile(providers, id) \/ rule = "accept")
      BY DEF Resolution, OnFile
    <2>2. v \in Senders(batch) /\ Resolution(providers, v).accepted
      BY <1>2, <1>9 DEF Accepted
    <2>3. providers[id] # Absent \/ id \in r.inserts
      BY <1>2, <2>1, <2>2
    <2> QED BY <1>3, <1>8, <2>1, <2>2, <2>3
  <1>13. \A s \in Subjects(reports) : s \notin lost => Noted(quality, s) \/ Noted(r.added, s)
    BY <1>5, <1>6 DEF Subjects, Due
  <1>14. Begun(r, providers, seen, quality, rule)
    BY <1>2, <1>3, <1>6, <1>7, <1>11, <1>12, <1>13 DEF Begun, o
  <1>15. ASSUME ~ crowded PROVE Fresh(r, seen, quality, late)
    <2>1. late \/ Tidy(quality)
      BY <1>15 DEF ObservedInv, Serial
    <2>2. ASSUME NEW i \in DOMAIN batch
          PROVE  IF PairOf(batch[i]) \in DOMAIN o
                 THEN o[PairOf(batch[i])] >= batch[i].at
                 ELSE seen[PairOf(batch[i])] >= batch[i].at
      BY <1>8, <1>9, <1>10
    <2> QED BY <1>2, <1>5, <1>6, <1>11, <2>1, <2>2 DEF Fresh, o
  <1> QED BY <1>14, <1>15

LEMMA BeginKeeps ==
    ASSUME ObservedInv, NEW w \in Ingests, NEW batch \in Batches, NEW lost,
           BeginObserved(w, batch, lost)
    PROVE  ObservedInv'
  <1>1. /\ inFlight[w] = Absent
        /\ crowded \/ \A x \in Ingests : inFlight[x] = Absent
        /\ UNCHANGED <<rule, crowded, providers, seen, quality, used, late, unrecorded>>
        /\ inFlight' = [inFlight EXCEPT ![w] = inFlight'[w]]
    BY DEF BeginObserved, ObservedInv
  <1>2. ObservedTables' /\ ModelsNoted' /\ UnknownsNoticed' /\ RejectHolds'
    BY <1>1 DEF ObservedInv, ObservedTables, ModelsNoted, UnknownsNoticed, RejectHolds, HasRecord
  <1>3. /\ Begun(inFlight'[w], providers, seen, quality, rule)
        /\ ~ crowded => Fresh(inFlight'[w], seen, quality, late)
    BY BeginBegins
  <1>4. \A x \in Ingests : x # w => inFlight'[x] = inFlight[x]
    BY <1>1 DEF ObservedInv
  <1>5. \A x \in Ingests : inFlight'[x] # Absent
            => Begun(inFlight'[x], providers', seen', quality', rule')
    BY <1>1, <1>3, <1>4 DEF ObservedInv
  <1>6. Serial'
    BY <1>1, <1>3, <1>4 DEF ObservedInv, Serial
  <1>7. inFlight' = [x \in Ingests |-> inFlight'[x]]
    BY <1>1 DEF ObservedInv
  <1> QED BY <1>1, <1>2, <1>5, <1>6, <1>7 DEF ObservedInv

LEMMA ObservedStep == ObservedInv /\ [ObservedNext]_observedVars => ObservedInv'
  <1> SUFFICES ASSUME ObservedInv, [ObservedNext]_observedVars PROVE ObservedInv'
    OBVIOUS
  <1>1. CASE Start
    BY <1>1, StartKeeps
  <1>2. ASSUME NEW w \in Ingests, NEW batch \in Batches, NEW lost, BeginObserved(w, batch, lost)
        PROVE  ObservedInv'
    BY <1>2, BeginKeeps
  <1>3. ASSUME NEW w \in Ingests, CommitObserved(w) PROVE ObservedInv'
    BY <1>3, CommitKeeps
  <1>4. ASSUME NEW w \in Ingests, RollBackObserved(w) PROVE ObservedInv'
    BY <1>4, RollBackKeeps
  <1>5. CASE UNCHANGED observedVars
    BY <1>5, ObservedStutters
  <1> QED BY <1>1, <1>2, <1>3, <1>4, <1>5 DEF ObservedNext

(* The registries and the data-quality sink miss nothing that v1 ingest    *)
(* stored, keep to the reject policy, and are tidy while requests come one *)
(* at a time (services/registries.py, data_quality.py, ingest.py:231-279). *)
THEOREM RegistriesAreKept == ObservedSpec => []RegistriesKeepUp
  <1>1. ObservedInv => RegistriesKeepUp
    BY DEF ObservedInv, RegistriesKeepUp, SerialIsTidy, Serial, Tidy
  <1> QED BY <1>1, ObservedInitInv, ObservedStep, PTL DEF ObservedSpec
=============================================================================
