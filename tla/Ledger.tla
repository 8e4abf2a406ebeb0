------------------------------- MODULE Ledger -------------------------------
(***************************************************************************)
(* The usage ledger under concurrent ingest requests.                      *)
(*                                                                         *)
(* RevisionEngine.apply (services/revisions.py) runs once per event of a   *)
(* batch, inside the transaction of the request that carries the batch:    *)
(* it reads the active row, decides with resolve(), and writes.  A request *)
(* is served by one of the Sessions; requests interleave at every database *)
(* call.  The database is PostgreSQL at READ COMMITTED: a read sees the    *)
(* last committed row, or the transaction's own write; a flushed write     *)
(* holds the row's lock until the transaction ends; a second insert of one *)
(* primary key fails.  An UPDATE sets only the columns that changed since  *)
(* the read (Updated in Revisions).                                        *)
(*                                                                         *)
(* Clients retry: any batch may arrive any number of times, in any order,  *)
(* and a request may be cut off at any point (Rollback).                   *)
(***************************************************************************)
EXTENDS Revisions, Sequences

CONSTANTS
    Ids,        \* the (provider, event_id) keys
    Sessions,   \* requests the server can have in progress at once
    UnitSets,   \* billable-unit payloads an event may carry
    NoUnits,    \* an event, or a ledger row, without billable units
    Batches     \* the batches the clients send

Events == [id : Ids, row : Rows, units : UnitSets \cup {NoUnits}]

BatchType == [mode : Modes, correction : BOOLEAN, events : Seq(Events)]

(* What reaches the engine through the v1 endpoint: every event final at   *)
(* sequence 0 without units (_v1_to_v2), each id once (_dedupe_keep_max).  *)
LegacyShape(b) ==
    /\ ~ b.correction
    /\ \A i \in DOMAIN b.events :
          /\ b.events[i].row.finality = "final"
          /\ b.events[i].row.sequence = 0
          /\ b.events[i].units = NoUnits
          /\ \A j \in DOMAIN b.events :
                b.events[i].id = b.events[j].id => i = j

ASSUME LedgerAssumption ==
    /\ Batches \subseteq BatchType
    /\ \A b \in Batches : b.mode = "keep_max" => LegacyShape(b)
    /\ NoUnits \notin UnitSets

VARIABLES
    (***********************************************************************)
    (* The database                                                        *)
    (***********************************************************************)
    ledger,     \* usage_events_v2: id -> active row, or NoRow
    units,      \* billable_units: id -> the stored units
    revisions,  \* usage_event_revisions, as a set of archived states
    conflicts,  \* data_quality_events: ids with an open sequence_conflict
    (***********************************************************************)
    (* The requests in progress                                            *)
    (***********************************************************************)
    phase,      \* session -> where its handler is
    batch,      \* session -> the batch it serves
    pos,        \* session -> the event being processed
    read,       \* session -> the row loaded for the event, or NoRow
    draft,      \* session -> id -> the row as it left it, where it wrote
    dirty,      \* session -> ids it wrote, hence row locks it holds
    newUnits,   \* session -> units it stored, by id
    archived,   \* session -> revisions it added
    flagged,    \* session -> conflicts it recorded
    (***********************************************************************)
    (* Observation only: what committed requests reported                  *)
    (***********************************************************************)
    reported    \* id -> set of reports [row, units, mode]

database == <<ledger, units, revisions, conflicts>>
pending  == <<read, draft, dirty, newUnits, archived, flagged>>
vars     == <<database, phase, batch, pos, pending, reported>>

Phases    == {"idle", "resolve", "write"}
ArchivedStates == [id : Ids, row : Rows, reason : Reasons]
Reports   == [row : Rows, units : UnitSets \cup {NoUnits}, mode : Modes]
NoBatch   == [mode |-> "revision", correction |-> FALSE, events |-> << >>]

TypeOK ==
    /\ ledger \in [Ids -> Rows \cup {NoRow}]
    /\ units \in [Ids -> UnitSets \cup {NoUnits}]
    /\ revisions \subseteq ArchivedStates
    /\ conflicts \subseteq Ids
    /\ phase \in [Sessions -> Phases]
    /\ batch \in [Sessions -> Batches \cup {NoBatch}]
    /\ pos \in [Sessions -> Nat \ {0}]
    /\ read \in [Sessions -> Rows \cup {NoRow}]
    /\ draft \in [Sessions -> [Ids -> Rows \cup {NoRow}]]
    /\ dirty \in [Sessions -> SUBSET Ids]
    /\ newUnits \in [Sessions -> [Ids -> UnitSets \cup {NoUnits}]]
    /\ archived \in [Sessions -> SUBSET ArchivedStates]
    /\ flagged \in [Sessions -> SUBSET Ids]
    /\ reported \in [Ids -> SUBSET Reports]

Init ==
    /\ ledger = [id \in Ids |-> NoRow]
    /\ units = [id \in Ids |-> NoUnits]
    /\ revisions = {}
    /\ conflicts = {}
    /\ phase = [s \in Sessions |-> "idle"]
    /\ batch = [s \in Sessions |-> NoBatch]
    /\ pos = [s \in Sessions |-> 1]
    /\ read = [s \in Sessions |-> NoRow]
    /\ draft = [s \in Sessions |-> [id \in Ids |-> NoRow]]
    /\ dirty = [s \in Sessions |-> {}]
    /\ newUnits = [s \in Sessions |-> [id \in Ids |-> NoUnits]]
    /\ archived = [s \in Sessions |-> {}]
    /\ flagged = [s \in Sessions |-> {}]
    /\ reported = [id \in Ids |-> {}]

----------------------------------------------------------------------------
Remaining(s) == pos[s] <= Len(batch[s].events)
Event(s)     == batch[s].events[pos[s]]

(* The row a SELECT of the session returns: its own write, else the        *)
(* committed row.  (The session keeps no clean row between events: its     *)
(* identity map is weak and apply() drops its reference.)                  *)
Visible(s, id) == IF id \in dirty[s] THEN draft[s][id] ELSE ledger[id]

(* What resolve() answers for the current event over an active row.        *)
Verdict(s, existing) == Resolve(Event(s).row, existing,
                                batch[s].mode, batch[s].correction)

(* The end of a request: its session is free and holds nothing. *)
EndRequest(s) ==
    /\ phase' = [phase EXCEPT ![s] = "idle"]
    /\ batch' = [batch EXCEPT ![s] = NoBatch]
    /\ pos' = [pos EXCEPT ![s] = 1]
    /\ read' = [read EXCEPT ![s] = NoRow]
    /\ draft' = [draft EXCEPT ![s] = [id \in Ids |-> NoRow]]
    /\ dirty' = [dirty EXCEPT ![s] = {}]
    /\ newUnits' = [newUnits EXCEPT ![s] = [id \in Ids |-> NoUnits]]
    /\ archived' = [archived EXCEPT ![s] = {}]
    /\ flagged' = [flagged EXCEPT ![s] = {}]

(* A request arrives and its transaction starts. *)
Begin(s) ==
    /\ phase[s] = "idle"
    /\ \E b \in Batches : batch' = [batch EXCEPT ![s] = b]
    /\ phase' = [phase EXCEPT ![s] = "resolve"]
    /\ UNCHANGED <<database, pos, pending, reported>>

(* apply(), first half: load the row, decide.  Without a write the event   *)
(* is done; a conflict is recorded on the way (record_safe, collapsed to   *)
(* one open record per event id).                                          *)
ResolveEvent(s) ==
    LET id      == Event(s).id
        verdict == Verdict(s, Visible(s, id))
    IN
    /\ phase[s] = "resolve"
    /\ Remaining(s)
    /\ \/ /\ verdict.write
          /\ phase' = [phase EXCEPT ![s] = "write"]
          /\ read' = [read EXCEPT ![s] = Visible(s, id)]
          /\ UNCHANGED <<pos, flagged>>
       \/ /\ ~ verdict.write
          /\ pos' = [pos EXCEPT ![s] = @ + 1]
          /\ flagged' = IF verdict.conflict
                        THEN [flagged EXCEPT ![s] = @ \cup {id}]
                        ELSE flagged
          /\ UNCHANGED <<phase, read>>
    /\ UNCHANGED <<database, batch, draft, dirty, newUnits, archived, reported>>

(* Mutants: the prior state is not archived; it is archived whether or not *)
(* the decision asks for it.                                               *)
NothingArchived(s, id) == {}
AlwaysArchived(s, id) ==
    IF read[s] = NoRow THEN {}
    ELSE {[id |-> id, row |-> read[s], reason |-> Verdict(s, read[s]).reason]}

(* _archive: the state that was read, when the decision has a reason.      *)
ToArchive(s, id) ==
    IF Verdict(s, read[s]).reason = NoReason THEN {}
    ELSE {[id |-> id, row |-> read[s], reason |-> Verdict(s, read[s]).reason]}

(* The archived row travels as JSON, and _jsonable_row renders only its    *)
(* datetimes: a row whose money column holds a decimal cannot be written.  *)
ArchiveBreaks(s, id) == \E x \in ToArchive(s, id) : x.row.money # "none"

(* Mutant: units are written only when the event carries some. *)
UnitsOnlyAdded(s) ==
    IF Event(s).units = NoUnits THEN units[Event(s).id] ELSE Event(s).units

(* _replace_billable_units: the stored units become the event's. *)
UnitsAfter(s) == Event(s).units

(* The row is free to write: no other transaction wrote it and is open. *)
LockFree(s, id) == \A o \in Sessions \ {s} : id \notin dirty[o]

(* An INSERT meets a row another transaction committed meanwhile. *)
DuplicateKey(s, id) == read[s] = NoRow /\ Visible(s, id) # NoRow

(* The row the write leaves: the event's, inserted or merged into what the *)
(* row has become since the read.                                          *)
Written(s, id) ==
    IF read[s] = NoRow THEN Stored(Event(s).row)
    ELSE Updated(Visible(s, id), read[s], Event(s).row)

(* apply(), second half: archive, write the row, replace the units.  The   *)
(* flush waits for the row lock.                                           *)
WriteEvent(s) ==
    LET id == Event(s).id IN
    /\ phase[s] = "write"
    /\ LockFree(s, id)
    /\ ~ DuplicateKey(s, id)
    /\ ~ ArchiveBreaks(s, id)
    /\ archived' = [archived EXCEPT ![s] = @ \cup ToArchive(s, id)]
    /\ draft' = [draft EXCEPT ![s][id] = Written(s, id)]
    /\ read' = [read EXCEPT ![s] = NoRow]
    /\ dirty' = [dirty EXCEPT ![s] = @ \cup {id}]
    /\ newUnits' = [newUnits EXCEPT ![s][id] = UnitsAfter(s)]
    /\ phase' = [phase EXCEPT ![s] = "resolve"]
    /\ pos' = [pos EXCEPT ![s] = @ + 1]
    /\ UNCHANGED <<database, batch, flagged, reported>>

(* The insert fails on the primary key: the request ends with an error.    *)
InsertFails(s) ==
    /\ phase[s] = "write"
    /\ LockFree(s, Event(s).id)
    /\ DuplicateKey(s, Event(s).id)
    /\ EndRequest(s)
    /\ UNCHANGED <<database, reported>>

(* The archive cannot be written: the request ends with an error. *)
ArchiveFails(s) ==
    /\ phase[s] = "write"
    /\ ArchiveBreaks(s, Event(s).id)
    /\ EndRequest(s)
    /\ UNCHANGED <<database, reported>>

ReportsOf(s, id) ==
    {[row |-> e.row, units |-> e.units, mode |-> batch[s].mode] :
        e \in {batch[s].events[i] : i \in {j \in DOMAIN batch[s].events :
                                             batch[s].events[j].id = id}}}

(* Every event is processed: the transaction commits. *)
Commit(s) ==
    /\ phase[s] = "resolve"
    /\ ~ Remaining(s)
    /\ ledger' = [id \in Ids |-> Visible(s, id)]
    /\ units' = [id \in Ids |-> IF id \in dirty[s] THEN newUnits[s][id]
                                ELSE units[id]]
    /\ revisions' = revisions \cup archived[s]
    /\ conflicts' = conflicts \cup flagged[s]
    /\ reported' = [id \in Ids |-> reported[id] \cup ReportsOf(s, id)]
    /\ EndRequest(s)

(* The client disconnects, the database fails or the server stops. *)
Rollback(s) ==
    /\ phase[s] # "idle"
    /\ EndRequest(s)
    /\ UNCHANGED <<database, reported>>

Next ==
    \E s \in Sessions :
        \/ Begin(s)
        \/ ResolveEvent(s)
        \/ WriteEvent(s)
        \/ InsertFails(s)
        \/ ArchiveFails(s)
        \/ Commit(s)
        \/ Rollback(s)

Spec == Init /\ [][Next]_vars

----------------------------------------------------------------------------
(* What holds whatever the requests do to each other.                      *)

(* A row is being written by one transaction at most: the row lock of the  *)
(* flushed UPDATE or INSERT keeps every other writer of the id waiting.    *)
OneWriterPerRow ==
    \A s, o \in Sessions : s # o => dirty[s] \cap dirty[o] = {}

(* FR-EVENT-008: once an event is final in the ledger it never becomes a   *)
(* snapshot again, even when a request that read the row before it was     *)
(* final writes its snapshot after it.                                     *)
FinalStaysFinal ==
    [][\A id \in Ids :
         (ledger[id] # NoRow /\ ledger[id].finality = "final")
            => ledger'[id] # NoRow /\ ledger'[id].finality = "final"]_vars

(* FR-IDEMP-007/008: a sequence_conflict is recorded for an event only     *)
(* when two of its reports really disagree, never for retransmissions of   *)
(* one report.                                                             *)
ConflictMeansDisagreement ==
    \A id \in conflicts :
        \E r1, r2 \in reported[id] : r1.row # r2.row

----------------------------------------------------------------------------
(* What holds when requests do not overlap on an id.                       *)

IsFinal(row) == row.finality = "final"

(* A session may replace a final: its batch is an authorized correction,   *)
(* or v1 traffic.                                                          *)
MayReplaceFinal(s) == batch[s].correction \/ batch[s].mode = "keep_max"

(* FR-IDEMP-003/004/005: a row in the ledger is replaced only by a newer   *)
(* state of its event; a final only by a correction or by v1 traffic; and  *)
(* it is never removed.                                                    *)
SupersedesInOrder ==
    [][\A id \in Ids :
         ledger[id] # NoRow =>
            /\ ledger'[id] # NoRow
            /\ ledger'[id] # ledger[id] =>
                  IF IsFinal(ledger[id])
                  THEN /\ IsFinal(ledger'[id])
                       /\ \E s \in Sessions : id \in dirty[s] /\ MayReplaceFinal(s)
                  ELSE Outranks(ledger'[id], ledger[id])]_vars

(* FR-IDEMP-002/004: retries and late arrivals never hide progress: no     *)
(* state a v2 client reported, in a request that was answered, is newer    *)
(* than the active row of its event.                                       *)
NothingNewerIgnored ==
    \A id \in Ids : \A r \in reported[id] :
        r.mode = "revision" =>
            ledger[id] # NoRow /\ ~ Outranks(r.row, ledger[id])

ArchivedRows(id) == {a.row : a \in {x \in revisions : x.id = id}}

(* FR-IDEMP-005/006: a final that a v2 client reported does not disappear  *)
(* without a trace: it is the active row, or archived, or its event is     *)
(* flagged with a conflict, or v1 traffic shares the event id.             *)
FinalsAccountedFor ==
    \A id \in Ids : \A r \in reported[id] :
        r.mode = "revision" /\ IsFinal(r.row) =>
            \/ Stored(r.row) \in {ledger[id]} \cup ArchivedRows(id)
            \/ id \in conflicts
            \/ \E q \in reported[id] : q.mode = "keep_max"

(* FR-IDEMP-006: the revisions are a full audit trail: every row that a v2 *)
(* write replaces is archived by the same commit.                          *)
ArchiveComplete ==
    [][\A id \in Ids :
         (/\ ledger[id] # NoRow
          /\ ledger'[id] # ledger[id]
          /\ \E s \in Sessions : id \in dirty[s] /\ batch[s].mode = "revision")
            => ledger[id] \in ArchivedRows(id)']_vars

(* FR-IDEMP-012: an event only v1 clients report keeps the largest output  *)
(* any of them reported.                                                   *)
KeepMaxHolds ==
    \A id \in Ids :
        (reported[id] # {} /\ \A r \in reported[id] : r.mode = "keep_max")
            => /\ ledger[id] # NoRow
               /\ \A r \in reported[id] : r.row.output <= ledger[id].output
               /\ \E r \in reported[id] : r.row.output = ledger[id].output

(* No report is lost: a final leaves a trace, and a v1 maximum stands.     *)
ReportsAccountedFor == FinalsAccountedFor /\ KeepMaxHolds

(* The billable units of an event are those of the report that is its      *)
(* active row, never those of one that was superseded or ignored: cost is  *)
(* computed from both.                                                     *)
UnitsFollowRow ==
    \A id \in Ids :
        ledger[id] # NoRow =>
            \E r \in reported[id] :
                Stored(r.row) = ledger[id] /\ r.units = units[id]

(* What the server answered for is accounted for, units and all.           *)
ReportsKept == ReportsAccountedFor /\ UnitsFollowRow
=============================================================================
