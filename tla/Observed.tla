----------------------------- MODULE Observed -----------------------------
(***************************************************************************)
(* What v1 ingest notices about its events: the provider registry with its *)
(* seeds and its policy for unknown providers, the model registry, and the *)
(* data-quality records of what was unknown (services/registries.py,       *)
(* services/data_quality.py, services/ingest.py, core normalization.py).   *)
(*                                                                         *)
(* A request reads the registries, decides, and writes what it decided     *)
(* when it commits; two requests that insert one row cannot both commit.   *)
(***************************************************************************)
EXTENDS Integers, Sequences, FiniteSets, SequencesExt

CONSTANTS
    Spellings,      \* provider strings as clients send them
    Canonical,      \* the id each spelling normalizes to
    Seeds,          \* ids of the built-in providers
    NativeNames,    \* models of events
    Batches,        \* what a request may bring: sequences of
                    \* [provider, model, at], one per pair, at its newest time
    Dedup,          \* data_quality_dedup_window_seconds
    Rules,          \* registry_unknown_provider_policy: some of accept, reject
    Found,          \* registries a new release may find: rows of the providers
    Ingests,        \* requests that may be in progress at one time
    MaxBatches,     \* bound on the requests that commit
    Absent          \* no row, no request

Ids   == {Canonical[s] : s \in Spellings} \union Seeds
Pairs == Spellings \X NativeNames

(* The rows of the registry and of data_quality_events.                    *)
ProviderRows == [registered : BOOLEAN, windows : BOOLEAN]
Records ==
    [subject : ({"unknown_provider"} \X Ids) \union ({"unknown_model"} \X Pairs), at : Nat]

PairOf(event) == <<event.provider, event.model>>

ASSUME ObservedAssumption ==
    /\ Dedup \in Nat
    /\ Rules \subseteq {"accept", "reject"}
    /\ Batches \subseteq Seq([provider : Spellings, model : NativeNames, at : Nat])
    /\ \A b \in Batches : \A i, j \in DOMAIN b : i # j => PairOf(b[i]) # PairOf(b[j])
    /\ Found \subseteq [Ids -> {Absent} \union ProviderRows]
    /\ Absent \notin Nat \union ProviderRows \union Records

VARIABLES
    rule,           \* the policy of the deployment
    crowded,        \* whether requests overlap
    providers,      \* the providers table: whether a row is registered and
                    \* whether it has windows
    seen,           \* the models table: last_seen of each pair, or Absent
    quality,        \* data_quality_events; nothing resolves one
    inFlight,       \* what each open request will write
    used,           \* the events that were stored
    late,           \* history: a report was older than its subject's record
    unrecorded      \* history: subjects whose every recording failed

observedVars == <<rule, crowded, providers, seen, quality, inFlight, used, late, unrecorded>>

-----------------------------------------------------------------------------
(* The data-quality sink: a record in the window moves to the new time.    *)

OfSubject(records, subject) == {i \in DOMAIN records : records[i].subject = subject}

Newest(records, subject) ==
    CHOOSE i \in OfSubject(records, subject) :
        \A j \in OfSubject(records, subject) : records[j].at <= records[i].at

(* Mutant: a burst is not collapsed. *)
RecordedAnew(records, report) == Append(records, report)

Recorded(records, report) ==
    LET i == Newest(records, report.subject)
    IN  IF OfSubject(records, report.subject) # {} /\ report.at - records[i].at <= Dedup
        THEN [records EXCEPT ![i].at = report.at]
        ELSE Append(records, report)

(* record_safe: those in lost fail, in a savepoint of their own.           *)
RecordedSafe(records, reports, lost) ==
    FoldLeft(LAMBDA q, report : IF report = Absent \/ report.subject \in lost THEN q
                                ELSE Recorded(q, report),
             records, reports)

-----------------------------------------------------------------------------
(* The registries.                                                         *)

IsRegistered(rows, id) == rows[id] # Absent /\ rows[id].registered

Resolution(rows, spelling) ==
    LET id == Canonical[spelling]
        ok == IsRegistered(rows, id) \/ id \in Seeds
    IN  [id |-> id, accepted |-> ok \/ rule = "accept", registered |-> ok,
         insert |-> rows[id] = Absent]

RowFor(id) == [registered |-> id \in Seeds, windows |-> id \in Seeds]

Senders(batch) == {batch[i].provider : i \in DOMAIN batch}

Accepted(batch) == \A s \in Senders(batch) : Resolution(providers, s).accepted

IsFirstOf(batch, i) == \A j \in 1 .. i - 1 : batch[j].provider # batch[i].provider

NewestOf(batch, spelling) ==
    LET times == {batch[i].at : i \in {j \in DOMAIN batch : batch[j].provider = spelling}}
    IN  CHOOSE t \in times : \A u \in times : u <= t

(* Of each event, what it gives rise to: one report per unregistered       *)
(* spelling, then one per new pair.                                        *)
ProviderReports(batch) ==
    [i \in DOMAIN batch |->
        IF IsFirstOf(batch, i) /\ ~ Resolution(providers, batch[i].provider).registered
        THEN [subject |-> <<"unknown_provider", Canonical[batch[i].provider]>>,
              at |-> NewestOf(batch, batch[i].provider)]
        ELSE Absent]

(* Mutant: a new model of a registered provider is not reported. *)
UnregisteredModelReports(batch) ==
    [i \in DOMAIN batch |->
        IF /\ seen[PairOf(batch[i])] = Absent
           /\ ~ Resolution(providers, batch[i].provider).registered
        THEN [subject |-> <<"unknown_model", PairOf(batch[i])>>, at |-> batch[i].at]
        ELSE Absent]

ModelReports(batch) ==
    [i \in DOMAIN batch |->
        IF seen[PairOf(batch[i])] = Absent
        THEN [subject |-> <<"unknown_model", PairOf(batch[i])>>, at |-> batch[i].at]
        ELSE Absent]

Reports(batch) == ProviderReports(batch) \o ModelReports(batch)

Due(reports) == {i \in DOMAIN reports : reports[i] # Absent}

Subjects(reports) == {reports[i].subject : i \in Due(reports)}

(* ModelRegistryService.observe: last_seen only moves forward.             *)
Observation(batch) ==
    LET moved == {i \in DOMAIN batch : seen[PairOf(batch[i])] = Absent
                                         \/ batch[i].at > seen[PairOf(batch[i])]}
    IN  [p \in {PairOf(batch[i]) : i \in moved} |->
           batch[CHOOSE i \in moved : PairOf(batch[i]) = p].at]

-----------------------------------------------------------------------------
(* The start of a release seeds the providers: rows that are missing, and  *)
(* the windows of rows that have none.                                     *)
Seeded(rows) ==
    [id \in Ids |-> IF id \notin Seeds THEN rows[id]
                    ELSE IF rows[id] = Absent THEN RowFor(id)
                    ELSE [rows[id] EXCEPT !.windows = TRUE]]

ObservedInit ==
    /\ rule \in Rules
    /\ crowded \in BOOLEAN
    /\ providers \in Found
    /\ seen = [p \in Pairs |-> Absent]
    /\ quality = <<>>
    /\ inFlight = [w \in Ingests |-> Absent]
    /\ used = {}
    /\ late = FALSE
    /\ unrecorded = {}

(* It runs before requests are served.                                     *)
Start ==
    /\ providers' = Seeded(providers)
    /\ inFlight' = [w \in Ingests |-> Absent]
    /\ UNCHANGED <<rule, crowded, seen, quality, used, late, unrecorded>>

Serving == Seeded(providers) = providers

(* _apply_registry_policy.                                                 *)
BeginObserved(w, batch, lost) ==
    LET reports == Reports(batch)
        after   == RecordedSafe(quality, reports, lost)
    IN  /\ Serving
        /\ inFlight[w] = Absent
        /\ crowded \/ \A x \in Ingests : inFlight[x] = Absent
        /\ Accepted(batch)
        /\ lost \subseteq Subjects(reports)
        /\ inFlight' = [inFlight EXCEPT ![w] =
             [batch |-> batch, lost |-> lost, reports |-> reports,
              inserts |-> {Canonical[s] : s \in {t \in Senders(batch) :
                              Resolution(providers, t).insert}},
              models |-> Observation(batch),
              newModels |-> {PairOf(batch[i]) : i \in {j \in DOMAIN batch :
                                seen[PairOf(batch[j])] = Absent}},
              moved |-> [i \in {j \in DOMAIN quality : after[j] # quality[j]} |-> after[i]],
              added |-> SubSeq(after, Len(quality) + 1, Len(after))]]
        /\ UNCHANGED <<rule, crowded, providers, seen, quality, used, late, unrecorded>>

(* A report that is older than a record of its subject, or than a report   *)
(* before it.                                                              *)
IsLate(reports, n) ==
    \/ \E i \in OfSubject(quality, reports[n].subject) : reports[n].at < quality[i].at
    \/ \E m \in Due(reports) : /\ m < n
                               /\ reports[m].subject = reports[n].subject
                               /\ reports[n].at < reports[m].at

CommitObserved(w) ==
    LET r == inFlight[w]
        kept == {s \in Subjects(r.reports) : s \notin r.lost}
    IN  /\ r # Absent
        /\ \A id \in r.inserts : providers[id] = Absent
        /\ \A p \in r.newModels : seen[p] = Absent
        /\ providers' = [id \in Ids |-> IF id \in r.inserts THEN RowFor(id) ELSE providers[id]]
        /\ seen' = [p \in Pairs |-> IF p \in DOMAIN r.models THEN r.models[p] ELSE seen[p]]
        /\ quality' = [i \in DOMAIN quality |->
                         IF i \in DOMAIN r.moved THEN r.moved[i] ELSE quality[i]] \o r.added
        /\ used' = used \union {r.batch[i] : i \in DOMAIN r.batch}
        /\ late' = (late \/ \E n \in Due(r.reports) : IsLate(r.reports, n))
        /\ unrecorded' = (unrecorded \union {s \in r.lost : OfSubject(quality, s) = {}}) \ kept
        /\ inFlight' = [inFlight EXCEPT ![w] = Absent]
        /\ UNCHANGED <<rule, crowded>>

(* A row another request inserted first, or the database.                  *)
RollBackObserved(w) ==
    /\ inFlight[w] # Absent
    /\ inFlight' = [inFlight EXCEPT ![w] = Absent]
    /\ UNCHANGED <<rule, crowded, providers, seen, quality, used, late, unrecorded>>

ObservedNext ==
    \/ Start
    \/ \E w \in Ingests, batch \in Batches :
          /\ Cardinality(used) < MaxBatches
          /\ \E lost \in SUBSET Subjects(Reports(batch)) : BeginObserved(w, batch, lost)
    \/ \E w \in Ingests : CommitObserved(w)
    \/ \E w \in Ingests : RollBackObserved(w)

ObservedSpec == ObservedInit /\ [][ObservedNext]_observedVars

-----------------------------------------------------------------------------
(* Properties.                                                             *)

HasRecord(subject) == OfSubject(quality, subject) # {} \/ subject \in unrecorded

(* Nothing unknown is stored unnoticed: the provider and the model of a    *)
(* stored event have their rows, and a model that was new, or a provider   *)
(* that is not registered, has its data-quality record unless recording it *)
(* failed every time, though requests overlap and a failed recording must  *)
(* not fail its batch (ingest.py:231-279, data_quality.py:3-7).            *)
UnknownsNoticed ==
    \A e \in used :
        LET id == Canonical[e.provider]
        IN  /\ providers[id] # Absent
            /\ seen[PairOf(e)] # Absent
            /\ HasRecord(<<"unknown_model", PairOf(e)>>)
            /\ providers[id].registered \/ id \in Seeds
                 \/ HasRecord(<<"unknown_provider", id>>)

(* Under the reject policy no event of a provider nobody registered.       *)
RejectHolds ==
    rule = "reject" =>
        \A e \in used : Canonical[e.provider] \in Seeds
                          \/ providers[Canonical[e.provider]].registered

(* While requests come one at a time, last_seen is the newest event of its *)
(* pair; and while their reports come in order, the records of one subject *)
(* are farther apart than the window ("at most one open record",           *)
(* data_quality.py:9-12).  Late reports break the second: see the README.  *)
SerialIsTidy ==
    ~ crowded =>
        /\ \A e \in used : seen[PairOf(e)] >= e.at
        /\ late \/ \A i, j \in DOMAIN quality :
              i # j /\ quality[i].subject = quality[j].subject =>
                  \/ quality[i].at - quality[j].at > Dedup
                  \/ quality[j].at - quality[i].at > Dedup

(* What the registries and the sink promise of v1 ingest together.         *)
RegistriesKeepUp == UnknownsNoticed /\ RejectHolds /\ SerialIsTidy
=============================================================================
