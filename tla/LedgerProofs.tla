---------------------------- MODULE LedgerProofs ----------------------------
(***************************************************************************)
(* Proofs about Ledger, for every set of ids, sessions and batches.        *)
(*                                                                         *)
(* The induction is over LedgerInv: the types, what a busy session holds,  *)
(* that a row one session wrote is locked against the others, and that a   *)
(* draft written over a final row is final.                                *)
(***************************************************************************)
EXTENDS Ledger, TLAPS

(* A free session holds nothing; a busy one serves a batch that was sent,  *)
(* and one about to write has decided to, for an event of its batch.       *)
SessionsConsistent ==
    \A s \in Sessions :
        /\ phase[s] = "idle" => dirty[s] = {} /\ pos[s] = 1
        /\ phase[s] # "idle" => batch[s] \in Batches
        /\ phase[s] = "write" => Remaining(s) /\ Verdict(s, read[s]).write

(* What a session wrote, or read in order to overwrite it, is a row.       *)
RowsExist ==
    \A s \in Sessions :
        /\ \A id \in dirty[s] : draft[s][id] # NoRow
        /\ phase[s] = "write" /\ read[s] # NoRow
              => Visible(s, Event(s).id) # NoRow

(* A final row stays final in the draft of the session that overwrites it. *)
DraftsKeepFinals ==
    \A s \in Sessions : \A id \in dirty[s] :
        (ledger[id] # NoRow /\ ledger[id].finality = "final")
            => draft[s][id].finality = "final"

LedgerInv == TypeOK /\ SessionsConsistent /\ RowsExist
             /\ OneWriterPerRow /\ DraftsKeepFinals

----------------------------------------------------------------------------
(* resolve() answers every input with one decision. *)
LEMMA ResolveType ==
    ASSUME NEW incoming \in Rows, NEW existing \in Rows \cup {NoRow},
           NEW mode \in Modes, NEW correction \in BOOLEAN
    PROVE  Resolve(incoming, existing, mode, correction) \in Decisions
  BY DEF Resolve, ResolveKeepMax, ResolveOverFinal, ResolveOverSnapshot,
         Accept, Supersede, Overwrite, Correct, Reject, Ignore, Decision,
         Decisions, Outcomes, Reasons

(* A column keeps its type when a row is read back or merged. *)
LEMMA RowType ==
    /\ \A row \in Rows : Stored(row) \in Rows
    /\ \A current, seen, new \in Rows : Updated(current, seen, new) \in Rows
  BY DEF Rows, Stored, StoredMoney, Updated, Column, MoneyTexts

(* What an event of a busy session is. *)
LEMMA EventType ==
    ASSUME TypeOK, NEW s \in Sessions, batch[s] \in Batches, Remaining(s)
    PROVE  /\ Event(s) \in Events
           /\ Event(s).id \in Ids
           /\ Event(s).row \in Rows
           /\ Event(s).units \in UnitSets \cup {NoUnits}
           /\ batch[s].mode \in Modes
           /\ batch[s].correction \in BOOLEAN
           /\ batch[s].mode = "keep_max" => Event(s).row.finality = "final"
  <1>1. batch[s] \in BatchType
    BY LedgerAssumption
  <1>2. batch[s].events \in Seq(Events)
    BY <1>1 DEF BatchType
  <1>3. pos[s] \in 1 .. Len(batch[s].events)
    <2>1. Len(batch[s].events) \in Nat
      BY <1>2
    <2>2. pos[s] \in Nat \ {0}
      BY DEF TypeOK
    <2> QED BY <2>1, <2>2 DEF Remaining
  <1>4. Event(s) \in Events
    BY <1>2, <1>3 DEF Event
  <1>5. batch[s].mode = "keep_max" => Event(s).row.finality = "final"
    <2>1. batch[s].mode = "keep_max" => LegacyShape(batch[s])
      BY LedgerAssumption
    <2>2. pos[s] \in DOMAIN batch[s].events
      BY <1>2, <1>3
    <2> QED BY <2>1, <2>2 DEF LegacyShape, Event
  <1> QED BY <1>1, <1>4, <1>5 DEF Events, BatchType

(* A write over a final row is a write of a final. *)
LEMMA WriteOverFinal ==
    ASSUME NEW incoming \in Rows, NEW existing \in Rows,
           NEW mode \in Modes, NEW correction \in BOOLEAN,
           mode = "keep_max" => incoming.finality = "final",
           existing.finality = "final",
           Resolve(incoming, existing, mode, correction).write
    PROVE  incoming.finality = "final"
  BY NoRowAssumption
     DEF Resolve, ResolveOverFinal, Ignore, Reject, Decision, Modes

----------------------------------------------------------------------------
LEMMA InitInv == Init => LedgerInv
  <1> SUFFICES ASSUME Init PROVE LedgerInv
    OBVIOUS
  <1>1. TypeOK
    BY DEF Init, TypeOK, Phases
  <1>2. SessionsConsistent /\ RowsExist /\ OneWriterPerRow /\ DraftsKeepFinals
    BY DEF Init, SessionsConsistent, RowsExist, OneWriterPerRow, DraftsKeepFinals
  <1> QED BY <1>1, <1>2 DEF LedgerInv

(* Ending a request frees its session and disturbs no other. *)
LEMMA EndRequestInv ==
    ASSUME LedgerInv, NEW s \in Sessions, EndRequest(s),
           UNCHANGED <<database, reported>>
    PROVE  LedgerInv'
  <1> USE DEF LedgerInv, EndRequest, database
  <1>1. TypeOK'
    BY DEF TypeOK, Phases
  <1>2. SessionsConsistent'
    BY DEF SessionsConsistent, TypeOK, Remaining, Verdict, Event
  <1>3. RowsExist'
    BY DEF RowsExist, TypeOK, Visible, Event
  <1>4. OneWriterPerRow'
    BY DEF OneWriterPerRow, TypeOK
  <1>5. DraftsKeepFinals'
    BY DEF DraftsKeepFinals, TypeOK
  <1> QED BY <1>1, <1>2, <1>3, <1>4, <1>5

LEMMA BeginInv ==
    ASSUME LedgerInv, NEW s \in Sessions, Begin(s)
    PROVE  LedgerInv'
  <1> USE DEF LedgerInv, Begin, database, pending
  <1>1. TypeOK'
    BY DEF TypeOK, Phases
  <1>2. SessionsConsistent'
    BY DEF SessionsConsistent, TypeOK, Remaining, Verdict, Event
  <1>3. RowsExist'
    BY DEF RowsExist, TypeOK, Visible, Event
  <1>4. OneWriterPerRow' /\ DraftsKeepFinals'
    BY DEF OneWriterPerRow, DraftsKeepFinals
  <1> QED BY <1>1, <1>2, <1>3, <1>4

LEMMA ResolveEventInv ==
    ASSUME LedgerInv, NEW s \in Sessions, ResolveEvent(s)
    PROVE  LedgerInv'
  <1> DEFINE id == Event(s).id
             verdict == Verdict(s, Visible(s, id))
  <1> USE DEF LedgerInv, database
  <1>1. phase[s] = "resolve" /\ Remaining(s) /\ batch[s] \in Batches
    BY DEF ResolveEvent, SessionsConsistent
  <1>2. id \in Ids
    BY <1>1, EventType
  <1>3. Visible(s, id) \in Rows \cup {NoRow}
    BY <1>2 DEF Visible, TypeOK
  <1>4. UNCHANGED <<ledger, units, revisions, conflicts, batch, draft, dirty,
                    newUnits, archived, reported>>
    BY DEF ResolveEvent
  <1>5. OneWriterPerRow' /\ DraftsKeepFinals'
    BY <1>4 DEF OneWriterPerRow, DraftsKeepFinals
  <1>6. CASE /\ verdict.write
             /\ phase' = [phase EXCEPT ![s] = "write"]
             /\ read' = [read EXCEPT ![s] = Visible(s, id)]
             /\ UNCHANGED <<pos, flagged>>
    <2>1. TypeOK'
      BY <1>3, <1>4, <1>6 DEF TypeOK, Phases
    <2>2. SessionsConsistent'
      BY <1>1, <1>4, <1>6 DEF SessionsConsistent, TypeOK, Remaining, Verdict, Event
    <2>3. RowsExist'
      BY <1>1, <1>4, <1>6 DEF RowsExist, TypeOK, Visible, Event
    <2> QED BY <1>5, <2>1, <2>2, <2>3
  <1>7. CASE /\ ~ verdict.write
             /\ pos' = [pos EXCEPT ![s] = @ + 1]
             /\ flagged' = IF verdict.conflict
                           THEN [flagged EXCEPT ![s] = @ \cup {id}]
                           ELSE flagged
             /\ UNCHANGED <<phase, read>>
    <2>1. flagged' \in [Sessions -> SUBSET Ids]
      BY <1>2, <1>7 DEF TypeOK
    <2>2. pos' \in [Sessions -> Nat \ {0}]
      BY <1>7 DEF TypeOK
    <2>3. TypeOK'
      BY <1>4, <1>7, <2>1, <2>2 DEF TypeOK
    <2>4. SessionsConsistent'
      BY <1>1, <1>4, <1>7 DEF SessionsConsistent, TypeOK, Remaining, Verdict, Event
    <2>5. RowsExist'
      BY <1>1, <1>4, <1>7 DEF RowsExist, TypeOK, Visible, Event
    <2> QED BY <1>5, <2>3, <2>4, <2>5
  <1> QED BY <1>6, <1>7 DEF ResolveEvent

(* The facts about a write that the invariants need. *)
LEMMA WriteFacts ==
    ASSUME LedgerInv, NEW s \in Sessions, WriteEvent(s)
    PROVE  /\ batch[s] \in Batches /\ Remaining(s)
           /\ Event(s).id \in Ids
           /\ Written(s, Event(s).id) \in Rows
           /\ ToArchive(s, Event(s).id) \subseteq ArchivedStates
           /\ UnitsAfter(s) \in UnitSets \cup {NoUnits}
           /\ (/\ ledger[Event(s).id] # NoRow
               /\ ledger[Event(s).id].finality = "final")
                 => Written(s, Event(s).id).finality = "final"
  <1> DEFINE id == Event(s).id
  <1> USE DEF LedgerInv
  <1>1. phase[s] = "write" /\ batch[s] \in Batches /\ Remaining(s)
        /\ Verdict(s, read[s]).write
    BY DEF WriteEvent, SessionsConsistent
  <1>2. /\ id \in Ids /\ Event(s).row \in Rows
        /\ Event(s).units \in UnitSets \cup {NoUnits}
        /\ batch[s].mode \in Modes /\ batch[s].correction \in BOOLEAN
        /\ batch[s].mode = "keep_max" => Event(s).row.finality = "final"
    BY <1>1, EventType
  <1>3. read[s] \in Rows \cup {NoRow}
    BY DEF TypeOK
  <1>4. Visible(s, id) \in Rows \cup {NoRow}
    BY <1>2 DEF Visible, TypeOK
  <1>5. read[s] # NoRow => Visible(s, id) \in Rows
    BY <1>1, <1>4 DEF RowsExist
  <1>6. Written(s, id) \in Rows
    BY <1>2, <1>3, <1>5, RowType DEF Written
  <1>7. ToArchive(s, id) \subseteq ArchivedStates
    <2>1. Verdict(s, read[s]) \in Decisions
      BY <1>2, <1>3, ResolveType DEF Verdict
    <2>2. Verdict(s, read[s]).reason # NoReason => read[s] # NoRow
      BY DEF Verdict, Resolve, Accept, Decision
    <2> QED BY <1>2, <1>3, <2>1, <2>2 DEF ToArchive, ArchivedStates, Decisions
  <1>8. ASSUME ledger[id] # NoRow, ledger[id].finality = "final"
        PROVE  Written(s, id).finality = "final"
    <2>1. Visible(s, id) # NoRow /\ Visible(s, id).finality = "final"
      BY <1>8 DEF Visible, DraftsKeepFinals, RowsExist
    <2>2. read[s] \in Rows
      BY <1>3, <2>1 DEF WriteEvent, DuplicateKey
    <2>3. Written(s, id) = Updated(Visible(s, id), read[s], Event(s).row)
      BY <2>2, NoRowAssumption DEF Written
    <2>4. CASE Event(s).row.finality = read[s].finality
      BY <2>1, <2>3, <2>4 DEF Updated, Column
    <2>5. CASE Event(s).row.finality # read[s].finality
      <3>1. read[s].finality = "final" => Event(s).row.finality = "final"
        BY <1>1, <1>2, <2>2, WriteOverFinal DEF Verdict
      <3>2. read[s].finality \in Finalities /\ Event(s).row.finality \in Finalities
        BY <1>2, <2>2 DEF Rows
      <3>3. Event(s).row.finality = "final"
        BY <2>5, <3>1, <3>2 DEF Finalities
      <3> QED BY <2>3, <2>5, <3>3 DEF Updated, Column
    <2> QED BY <2>4, <2>5
  <1> QED BY <1>1, <1>2, <1>6, <1>7, <1>8 DEF UnitsAfter

LEMMA WriteEventInv ==
    ASSUME LedgerInv, NEW s \in Sessions, WriteEvent(s)
    PROVE  LedgerInv'
  <1> DEFINE id == Event(s).id
  <1> USE DEF LedgerInv, database
  <1>1. /\ batch[s] \in Batches /\ Remaining(s) /\ id \in Ids
        /\ Written(s, id) \in Rows
        /\ ToArchive(s, id) \subseteq ArchivedStates
        /\ UnitsAfter(s) \in UnitSets \cup {NoUnits}
        /\ (ledger[id] # NoRow /\ ledger[id].finality = "final")
              => Written(s, id).finality = "final"
    BY WriteFacts
  <1>2. /\ phase[s] = "write" /\ LockFree(s, id)
        /\ archived' = [archived EXCEPT ![s] = @ \cup ToArchive(s, id)]
        /\ draft' = [draft EXCEPT ![s][id] = Written(s, id)]
        /\ read' = [read EXCEPT ![s] = NoRow]
        /\ dirty' = [dirty EXCEPT ![s] = @ \cup {id}]
        /\ newUnits' = [newUnits EXCEPT ![s][id] = UnitsAfter(s)]
        /\ phase' = [phase EXCEPT ![s] = "resolve"]
        /\ pos' = [pos EXCEPT ![s] = @ + 1]
        /\ UNCHANGED <<ledger, units, revisions, conflicts, batch, flagged, reported>>
    BY DEF WriteEvent
  <1>3. TypeOK'
    <2>1. /\ phase' \in [Sessions -> Phases]
          /\ pos' \in [Sessions -> Nat \ {0}]
          /\ read' \in [Sessions -> Rows \cup {NoRow}]
      BY <1>2 DEF TypeOK, Phases
    <2>2. /\ draft' \in [Sessions -> [Ids -> Rows \cup {NoRow}]]
          /\ dirty' \in [Sessions -> SUBSET Ids]
      BY <1>1, <1>2 DEF TypeOK
    <2>3. /\ newUnits' \in [Sessions -> [Ids -> UnitSets \cup {NoUnits}]]
          /\ archived' \in [Sessions -> SUBSET ArchivedStates]
      BY <1>1, <1>2 DEF TypeOK
    <2> QED BY <1>2, <2>1, <2>2, <2>3 DEF TypeOK
  <1>4. SessionsConsistent'
    BY <1>1, <1>2 DEF SessionsConsistent, TypeOK, Remaining, Verdict, Event
  <1>5. RowsExist'
    <2> SUFFICES ASSUME NEW o \in Sessions
                 PROVE  /\ \A x \in dirty'[o] : draft'[o][x] # NoRow
                        /\ phase'[o] = "write" /\ read'[o] # NoRow
                              => Visible(o, Event(o).id)' # NoRow
      BY DEF RowsExist
    <2>1. CASE o = s
      BY <1>1, <1>2, <2>1, NoRowAssumption DEF RowsExist, TypeOK
    <2>2. CASE o # s
      BY <1>1, <1>2, <2>2 DEF RowsExist, TypeOK, Visible, Event
    <2> QED BY <2>1, <2>2
  <1>6. OneWriterPerRow'
    BY <1>1, <1>2 DEF OneWriterPerRow, LockFree, TypeOK
  <1>7. DraftsKeepFinals'
    BY <1>1, <1>2 DEF DraftsKeepFinals, TypeOK
  <1> QED BY <1>3, <1>4, <1>5, <1>6, <1>7

LEMMA CommitInv ==
    ASSUME LedgerInv, NEW s \in Sessions, Commit(s)
    PROVE  LedgerInv'
  <1> USE DEF LedgerInv
  <1>1. /\ phase[s] = "resolve" /\ batch[s] \in Batches
        /\ ledger' = [id \in Ids |-> Visible(s, id)]
        /\ units' = [id \in Ids |-> IF id \in dirty[s] THEN newUnits[s][id]
                                    ELSE units[id]]
        /\ revisions' = revisions \cup archived[s]
        /\ conflicts' = conflicts \cup flagged[s]
        /\ reported' = [id \in Ids |-> reported[id] \cup ReportsOf(s, id)]
        /\ EndRequest(s)
    BY DEF Commit, SessionsConsistent
  <1>2. \A id \in Ids : ledger'[id] \in Rows \cup {NoRow}
    BY <1>1 DEF Visible, TypeOK
  <1>3. \A id \in Ids : ReportsOf(s, id) \subseteq Reports
    <2>1. batch[s] \in BatchType
      BY <1>1, LedgerAssumption
    <2>2. \A i \in DOMAIN batch[s].events : batch[s].events[i] \in Events
      BY <2>1 DEF BatchType
    <2> QED BY <2>1, <2>2 DEF ReportsOf, Reports, Events, BatchType
  <1>4. TypeOK'
    <2>1. ledger' \in [Ids -> Rows \cup {NoRow}]
      BY <1>1, <1>2
    <2>2. units' \in [Ids -> UnitSets \cup {NoUnits}]
      BY <1>1 DEF TypeOK
    <2>3. revisions' \subseteq ArchivedStates /\ conflicts' \subseteq Ids
      BY <1>1 DEF TypeOK
    <2>4. reported' \in [Ids -> SUBSET Reports]
      BY <1>1, <1>3 DEF TypeOK
    <2>5. /\ phase' \in [Sessions -> Phases]
          /\ batch' \in [Sessions -> Batches \cup {NoBatch}]
          /\ pos' \in [Sessions -> Nat \ {0}]
          /\ read' \in [Sessions -> Rows \cup {NoRow}]
          /\ draft' \in [Sessions -> [Ids -> Rows \cup {NoRow}]]
          /\ dirty' \in [Sessions -> SUBSET Ids]
          /\ newUnits' \in [Sessions -> [Ids -> UnitSets \cup {NoUnits}]]
          /\ archived' \in [Sessions -> SUBSET ArchivedStates]
          /\ flagged' \in [Sessions -> SUBSET Ids]
      BY <1>1 DEF EndRequest, TypeOK, Phases
    <2> QED BY <2>1, <2>2, <2>3, <2>4, <2>5 DEF TypeOK
  <1>5. SessionsConsistent'
    BY <1>1 DEF EndRequest, SessionsConsistent, TypeOK, Remaining, Verdict, Event
  <1>6. OneWriterPerRow'
    BY <1>1 DEF EndRequest, OneWriterPerRow, TypeOK
  <1>7. \A id \in Ids : ledger[id] # NoRow => ledger'[id] # NoRow
    BY <1>1 DEF Visible, RowsExist
  <1>8. RowsExist'
    <2> SUFFICES ASSUME NEW o \in Sessions, o # s
                 PROVE  /\ \A x \in dirty'[o] : draft'[o][x] # NoRow
                        /\ phase'[o] = "write" /\ read'[o] # NoRow
                              => Visible(o, Event(o).id)' # NoRow
      BY <1>1 DEF RowsExist, EndRequest, TypeOK
    <2>1. /\ dirty'[o] = dirty[o] /\ draft'[o] = draft[o] /\ read'[o] = read[o]
          /\ phase'[o] = phase[o] /\ pos'[o] = pos[o] /\ batch'[o] = batch[o]
      BY <1>1 DEF EndRequest, TypeOK
    <2>2. ASSUME phase[o] = "write", read[o] # NoRow
          PROVE  Visible(o, Event(o).id)' # NoRow
      <3>1. Event(o)' = Event(o)
        BY <2>1 DEF Event
      <3>2. Event(o).id \in Ids
        BY <2>2, EventType DEF SessionsConsistent
      <3>3. Visible(o, Event(o).id) # NoRow
        BY <2>2 DEF RowsExist
      <3>4. CASE Event(o).id \in dirty[o]
        BY <2>1, <3>1, <3>3, <3>4 DEF Visible
      <3>5. CASE Event(o).id \notin dirty[o]
        BY <1>7, <2>1, <3>1, <3>2, <3>3, <3>5 DEF Visible
      <3> QED BY <3>4, <3>5
    <2> QED BY <2>1, <2>2 DEF RowsExist
  <1>9. DraftsKeepFinals'
    <2> SUFFICES ASSUME NEW o \in Sessions, NEW id \in dirty'[o],
                        ledger'[id] # NoRow, ledger'[id].finality = "final"
                 PROVE  draft'[o][id].finality = "final"
      BY DEF DraftsKeepFinals
    <2>1. o # s
      BY <1>1 DEF EndRequest, TypeOK
    <2>2. dirty'[o] = dirty[o] /\ draft'[o] = draft[o]
      BY <1>1, <2>1 DEF EndRequest, TypeOK
    <2>3. id \in Ids /\ id \notin dirty[s]
      BY <2>1, <2>2 DEF OneWriterPerRow, TypeOK
    <2>4. ledger'[id] = ledger[id]
      BY <1>1, <2>3 DEF Visible
    <2> QED BY <2>2, <2>4 DEF DraftsKeepFinals
  <1> QED BY <1>4, <1>5, <1>6, <1>8, <1>9

LEMMA NextInv == LedgerInv /\ [Next]_vars => LedgerInv'
  <1> SUFFICES ASSUME LedgerInv, [Next]_vars PROVE LedgerInv'
    OBVIOUS
  <1>1. ASSUME NEW s \in Sessions, Begin(s) PROVE LedgerInv'
    BY <1>1, BeginInv
  <1>2. ASSUME NEW s \in Sessions, ResolveEvent(s) PROVE LedgerInv'
    BY <1>2, ResolveEventInv
  <1>3. ASSUME NEW s \in Sessions, WriteEvent(s) PROVE LedgerInv'
    BY <1>3, WriteEventInv
  <1>4. ASSUME NEW s \in Sessions, InsertFails(s) \/ ArchiveFails(s)
         PROVE LedgerInv'
    BY <1>4, EndRequestInv DEF InsertFails, ArchiveFails
  <1>5. ASSUME NEW s \in Sessions, Commit(s) PROVE LedgerInv'
    BY <1>5, CommitInv
  <1>6. ASSUME NEW s \in Sessions, Rollback(s) PROVE LedgerInv'
    BY <1>6, EndRequestInv DEF Rollback
  <1>7. CASE UNCHANGED vars
    BY <1>7 DEF vars, database, pending, LedgerInv, TypeOK, SessionsConsistent,
                RowsExist, OneWriterPerRow, DraftsKeepFinals, Remaining,
                Verdict, Event, Visible
  <1> QED BY <1>1, <1>2, <1>3, <1>4, <1>5, <1>6, <1>7 DEF Next

(* The inductive invariant holds of every reachable state. *)
LEMMA LedgerInvariant == Spec => []LedgerInv
  BY InitInv, NextInv, PTL DEF Spec

----------------------------------------------------------------------------
(* The ledger, the archive and the requests in progress keep their types   *)
(* whatever batches arrive and however the sessions interleave.            *)
THEOREM TypeCorrect == Spec => []TypeOK
  <1>1. LedgerInv => TypeOK
    BY DEF LedgerInv
  <1> QED BY <1>1, LedgerInvariant, PTL

(* However many requests run at once, at most one of them holds an         *)
(* uncommitted write of a row (RevisionEngine.apply and the row lock).     *)
THEOREM WritersExclude == Spec => []OneWriterPerRow
  <1>1. LedgerInv => OneWriterPerRow
    BY DEF LedgerInv
  <1> QED BY <1>1, LedgerInvariant, PTL

(* FR-EVENT-008 for any number of overlapping requests: a final row never  *)
(* becomes a snapshot, because resolve() refuses the snapshots that saw    *)
(* the final, and the UPDATE of one that did not leaves the column alone.  *)
THEOREM FinalityIsKept == Spec => FinalStaysFinal
  <1> DEFINE Keeps == \A id \in Ids :
               (ledger[id] # NoRow /\ ledger[id].finality = "final")
                  => ledger'[id] # NoRow /\ ledger'[id].finality = "final"
  <1>1. LedgerInv /\ [Next]_vars => [Keeps]_vars
    <2> SUFFICES ASSUME LedgerInv, Next, NEW id \in Ids,
                        ledger[id] # NoRow, ledger[id].finality = "final"
                 PROVE  ledger'[id] # NoRow /\ ledger'[id].finality = "final"
      BY DEF vars
    <2>1. ASSUME NEW s \in Sessions, Commit(s)
          PROVE  ledger'[id] # NoRow /\ ledger'[id].finality = "final"
      <3>1. ledger'[id] = Visible(s, id)
        BY <2>1 DEF Commit
      <3>2. CASE id \in dirty[s]
        BY <3>1, <3>2 DEF Visible, LedgerInv, RowsExist, DraftsKeepFinals
      <3>3. CASE id \notin dirty[s]
        BY <3>1, <3>3 DEF Visible
      <3> QED BY <3>2, <3>3
    <2>2. ASSUME NEW s \in Sessions,
                 \/ Begin(s) \/ ResolveEvent(s) \/ WriteEvent(s)
                 \/ InsertFails(s) \/ ArchiveFails(s) \/ Rollback(s)
          PROVE  ledger' = ledger
      BY <2>2 DEF Begin, ResolveEvent, WriteEvent, InsertFails, ArchiveFails,
             Rollback, database
    <2> QED BY <2>1, <2>2 DEF Next
  <1> QED BY <1>1, LedgerInvariant, PTL DEF Spec, FinalStaysFinal

-----------------------------------------------------------------------------
(***************************************************************************)
(* The order in which states of an event replace each other, when requests *)
(* are served one at a time: with two sessions the statement is false      *)
(* (MCLedgerRace).                                                         *)
(*                                                                         *)
(* The induction adds three facts to LedgerInv: a session that is about to *)
(* write has read the row as it still is; what it has drafted so far is    *)
(* newer than the committed row; and no event it has processed is newer    *)
(* than the row the session would commit.                                  *)
(***************************************************************************)

(* Requests do not overlap. *)
OneSession == \A s, o \in Sessions : s = o

(* `new' may replace `old' in a batch of session s. *)
Newer(s, new, old) ==
    IF IsFinal(old) THEN IsFinal(new) /\ MayReplaceFinal(s)
    ELSE Outranks(new, old)

ReadIsCurrent ==
    \A s \in Sessions :
        phase[s] = "write" => read[s] = Visible(s, Event(s).id)

DraftsInOrder ==
    \A s \in Sessions : \A id \in dirty[s] :
        ledger[id] # NoRow /\ draft[s][id] # ledger[id]
            => Newer(s, draft[s][id], ledger[id])

(* `row' has been taken into account by the row `active'. *)
Covered(row, active) == active # NoRow /\ ~ Outranks(row, active)

ProcessedCovered ==
    \A s \in Sessions : \A i \in DOMAIN batch[s].events :
        batch[s].mode = "revision" /\ i < pos[s]
            => Covered(batch[s].events[i].row,
                       Visible(s, batch[s].events[i].id))

OrderInv == LedgerInv /\ ReadIsCurrent /\ DraftsInOrder
            /\ ProcessedCovered /\ NothingNewerIgnored

----------------------------------------------------------------------------
(* Being newer composes, within one batch. *)
LEMMA NewerTransitive ==
    ASSUME NEW s, NEW x \in Rows, NEW y \in Rows, NEW z \in Rows,
           Newer(s, x, y), Newer(s, y, z)
    PROVE  Newer(s, x, z)
  BY DEF Newer, Outranks, IsFinal, Rows, Finalities

(* A newer row covers what the older one covered. *)
LEMMA NewerCovers ==
    ASSUME NEW s, NEW row \in Rows, NEW x \in Rows, NEW y \in Rows,
           Newer(s, x, y), ~ Outranks(row, y)
    PROVE  ~ Outranks(row, x)
  BY DEF Newer, Outranks, IsFinal, Rows, Finalities

(* A row written over the row that was read has the event's finality and   *)
(* sequence.                                                               *)
LEMMA UpdatedRank ==
    ASSUME NEW row \in Rows, NEW seen \in Rows
    PROVE  /\ Updated(seen, seen, row).finality = row.finality
           /\ Updated(seen, seen, row).sequence = row.sequence
           /\ Stored(row).finality = row.finality
           /\ Stored(row).sequence = row.sequence
  BY DEF Updated, Column, Stored, Rows

(* resolve() writes only what is newer, and drops only what is not. *)
LEMMA ResolveInOrder ==
    ASSUME NEW row \in Rows, NEW existing \in Rows,
           NEW mode \in Modes, NEW correction \in BOOLEAN,
           mode = "keep_max" => row.finality = "final"
    PROVE  /\ Resolve(row, existing, mode, correction).write =>
                 IF existing.finality = "final"
                 THEN row.finality = "final" /\ (correction \/ mode = "keep_max")
                 ELSE Outranks(row, existing)
           /\ ~ Resolve(row, existing, mode, correction).write
                 => (mode = "revision" => ~ Outranks(row, existing))
  <1>1. existing # NoRow
    BY NoRowAssumption
  <1>2. row.finality \in Finalities /\ existing.finality \in Finalities
        /\ row.sequence \in Nat /\ existing.sequence \in Nat
    BY DEF Rows
  <1>3. CASE mode = "keep_max"
    BY <1>1, <1>2, <1>3
       DEF Resolve, ResolveKeepMax, Outranks, Finalities, Overwrite, Ignore, Decision
  <1>4. CASE mode = "revision"
    <2>1. CASE row = existing
      BY <1>1, <1>2, <1>4, <2>1
         DEF Resolve, SameFingerprint, Ignore, Decision, Outranks, Finalities
    <2>2. CASE row # existing /\ existing.finality = "final"
      BY <1>1, <1>2, <1>4, <2>2
         DEF Resolve, SameFingerprint, ResolveOverFinal, Ignore, Correct, Reject,
             Decision, Outranks
    <2>3. CASE row # existing /\ existing.finality # "final"
      BY <1>1, <1>2, <1>4, <2>3
         DEF Resolve, SameFingerprint, ResolveOverSnapshot, Ignore, Supersede,
             Reject, Decision, Outranks, Finalities
    <2> QED BY <2>1, <2>2, <2>3
  <1> QED BY <1>3, <1>4 DEF Modes

(* An unknown event is always written. *)
LEMMA UnknownIsWritten ==
    ASSUME NEW row, NEW mode, NEW correction
    PROVE  Resolve(row, NoRow, mode, correction).write
  BY DEF Resolve, Accept, Decision

----------------------------------------------------------------------------
(* Every action but the session's own steps leaves a lone session's facts  *)
(* alone; ending a request discards its draft.                             *)
LEMMA OrderEndRequest ==
    ASSUME OneSession, OrderInv, NEW s \in Sessions, EndRequest(s),
           UNCHANGED <<database, reported>>
    PROVE  OrderInv'
  <1> USE DEF OrderInv
  <1>1. LedgerInv'
    BY EndRequestInv
  <1>2. /\ \A o \in Sessions : o = s
        /\ phase'[s] = "idle" /\ dirty'[s] = {} /\ batch'[s] = NoBatch
    BY DEF OneSession, EndRequest, LedgerInv, TypeOK
  <1>3. ReadIsCurrent' /\ DraftsInOrder'
    BY <1>2 DEF ReadIsCurrent, DraftsInOrder
  <1>4. ProcessedCovered'
    BY <1>2 DEF ProcessedCovered, NoBatch
  <1>5. NothingNewerIgnored'
    BY DEF NothingNewerIgnored, database
  <1> QED BY <1>1, <1>3, <1>4, <1>5

LEMMA OrderBegin ==
    ASSUME OneSession, OrderInv, NEW s \in Sessions, Begin(s)
    PROVE  OrderInv'
  <1> USE DEF OrderInv
  <1>1. LedgerInv'
    BY BeginInv
  <1>2. /\ phase[s] = "idle" /\ phase' = [phase EXCEPT ![s] = "resolve"]
        /\ batch'[s] \in Batches
        /\ UNCHANGED <<ledger, units, revisions, conflicts, pos, read, draft,
                       dirty, newUnits, archived, flagged, reported>>
    BY DEF Begin, database, pending, LedgerInv, TypeOK
  <1>3. \A o \in Sessions : o = s
    BY DEF OneSession
  <1>4. dirty[s] = {}
    BY <1>2 DEF LedgerInv, SessionsConsistent
  <1>5. ReadIsCurrent' /\ DraftsInOrder'
    BY <1>2, <1>3, <1>4 DEF ReadIsCurrent, DraftsInOrder, LedgerInv, TypeOK
  <1>6. ProcessedCovered'
    <2>1. pos[s] = 1
      BY <1>2 DEF LedgerInv, SessionsConsistent
    <2>2. batch'[s].events \in Seq(Events)
      BY <1>2, LedgerAssumption DEF BatchType
    <2> QED BY <1>2, <1>3, <2>1, <2>2 DEF ProcessedCovered
  <1>7. NothingNewerIgnored'
    BY <1>2 DEF NothingNewerIgnored
  <1> QED BY <1>1, <1>5, <1>6, <1>7

(* The row of an event, and what the session would commit for its id. *)
LEMMA OrderTypes ==
    ASSUME LedgerInv, NEW s \in Sessions, batch[s] \in Batches
    PROVE  /\ batch[s].events \in Seq(Events)
           /\ \A i \in DOMAIN batch[s].events :
                 /\ batch[s].events[i].id \in Ids
                 /\ batch[s].events[i].row \in Rows
           /\ \A id \in Ids : Visible(s, id) \in Rows \cup {NoRow}
           /\ pos[s] \in Nat \ {0}
  <1>1. batch[s] \in BatchType
    BY LedgerAssumption
  <1>2. batch[s].events \in Seq(Events)
    BY <1>1 DEF BatchType
  <1>3. \A i \in DOMAIN batch[s].events : batch[s].events[i] \in Events
    BY <1>2
  <1> QED BY <1>2, <1>3 DEF Events, LedgerInv, TypeOK, Visible

LEMMA OrderResolveEvent ==
    ASSUME OneSession, OrderInv, NEW s \in Sessions, ResolveEvent(s)
    PROVE  OrderInv'
  <1> DEFINE id == Event(s).id
             verdict == Verdict(s, Visible(s, id))
  <1> USE DEF OrderInv
  <1>1. LedgerInv'
    BY ResolveEventInv
  <1>2. phase[s] = "resolve" /\ batch[s] \in Batches /\ Remaining(s)
    BY DEF ResolveEvent, LedgerInv, SessionsConsistent
  <1>3. \A o \in Sessions : o = s
    BY DEF OneSession
  <1>4. UNCHANGED <<ledger, units, revisions, conflicts, batch, draft, dirty,
                    newUnits, archived, reported>>
    BY DEF ResolveEvent, database
  <1>5. /\ id \in Ids /\ Event(s).row \in Rows
        /\ batch[s].mode \in Modes /\ batch[s].correction \in BOOLEAN
        /\ batch[s].mode = "keep_max" => Event(s).row.finality = "final"
    BY <1>2, EventType DEF LedgerInv
  <1>6. /\ Visible(s, id) \in Rows \cup {NoRow}
        /\ pos[s] \in Nat \ {0} /\ batch[s].events \in Seq(Events)
    BY <1>2, <1>5, OrderTypes
  <1>7. \A x : Visible(s, x)' = Visible(s, x)
    BY <1>4 DEF Visible
  <1>8. DraftsInOrder' /\ NothingNewerIgnored'
    BY <1>4 DEF DraftsInOrder, NothingNewerIgnored, Newer, MayReplaceFinal
  <1>9. ReadIsCurrent' /\ ProcessedCovered'
    <2>1. CASE /\ verdict.write
               /\ phase' = [phase EXCEPT ![s] = "write"]
               /\ read' = [read EXCEPT ![s] = Visible(s, id)]
               /\ UNCHANGED <<pos, flagged>>
      <3>1. Event(s)' = Event(s) /\ read'[s] = Visible(s, id)
        BY <1>4, <2>1 DEF Event, LedgerInv, TypeOK
      <3>2. ReadIsCurrent'
        BY <1>3, <1>7, <3>1 DEF ReadIsCurrent
      <3>3. ProcessedCovered'
        BY <1>3, <1>4, <1>7, <2>1 DEF ProcessedCovered, Covered
      <3> QED BY <3>2, <3>3
    <2>2. CASE /\ ~ verdict.write
               /\ pos' = [pos EXCEPT ![s] = @ + 1]
               /\ UNCHANGED <<phase, read>>
      <3>1. ReadIsCurrent'
        BY <1>2, <1>3, <2>2 DEF ReadIsCurrent
      <3>2. Visible(s, id) # NoRow
        BY <2>2, UnknownIsWritten DEF Verdict
      <3>3. batch[s].mode = "revision" => Covered(Event(s).row, Visible(s, id))
        BY <1>5, <1>6, <2>2, <3>2, ResolveInOrder DEF Verdict, Covered
      <3>4. pos'[s] = pos[s] + 1
        BY <2>2 DEF LedgerInv, TypeOK
      <3>5. ASSUME NEW i \in DOMAIN batch[s].events,
                   batch[s].mode = "revision", i < pos[s] + 1
            PROVE  Covered(batch[s].events[i].row,
                           Visible(s, batch[s].events[i].id))
        <4>1. CASE i < pos[s]
          BY <3>5, <4>1 DEF ProcessedCovered
        <4>2. CASE i = pos[s]
          BY <3>3, <3>5, <4>2 DEF Event
        <4> QED BY <1>6, <3>5, <4>1, <4>2
      <3>6. ProcessedCovered'
        BY <1>3, <1>4, <1>7, <3>4, <3>5 DEF ProcessedCovered
      <3> QED BY <3>1, <3>6
    <2> QED BY <2>1, <2>2 DEF ResolveEvent
  <1> QED BY <1>1, <1>8, <1>9

LEMMA OrderWriteEvent ==
    ASSUME OneSession, OrderInv, NEW s \in Sessions, WriteEvent(s)
    PROVE  OrderInv'
  <1> USE DEF OrderInv
  <1>e. PICK id \in Ids : id = Event(s).id
    BY WriteFacts
  <1> DEFINE active == Visible(s, id)
             written == Written(s, id)
             After(x) == IF x = id THEN written ELSE Visible(s, x)
  <1>1. LedgerInv'
    BY WriteEventInv
  <1>2. /\ phase[s] = "write" /\ batch[s] \in Batches /\ Remaining(s)
        /\ Verdict(s, read[s]).write
    BY DEF WriteEvent, LedgerInv, SessionsConsistent
  <1>3. \A o \in Sessions : o = s
    BY DEF OneSession
  <1>4. /\ Event(s).row \in Rows
        /\ batch[s].mode \in Modes /\ batch[s].correction \in BOOLEAN
        /\ batch[s].mode = "keep_max" => Event(s).row.finality = "final"
    BY <1>2, EventType DEF LedgerInv
  <1>5. read[s] = active /\ active \in Rows \cup {NoRow}
    BY <1>2, <1>e, OrderTypes DEF ReadIsCurrent
  <1>6. written \in Rows
    BY <1>e, WriteFacts
  <1>7. /\ draft' = [draft EXCEPT ![s][id] = written]
        /\ dirty' = [dirty EXCEPT ![s] = @ \cup {id}]
        /\ phase' = [phase EXCEPT ![s] = "resolve"]
        /\ pos' = [pos EXCEPT ![s] = @ + 1]
        /\ UNCHANGED <<ledger, units, revisions, conflicts, batch, flagged, reported>>
    BY <1>e DEF WriteEvent, database
  <1>8. /\ dirty'[s] = dirty[s] \cup {id}
        /\ draft'[s][id] = written
        /\ \A x \in Ids \ {id} : draft'[s][x] = draft[s][x]
        /\ pos'[s] = pos[s] + 1 /\ phase'[s] = "resolve"
    BY <1>4, <1>7 DEF LedgerInv, TypeOK
  <1>9. \A x \in Ids : Visible(s, x)' = After(x)
    BY <1>7, <1>8 DEF Visible
  (* The written row has the rank of the event. *)
  <1>10. /\ written.finality = Event(s).row.finality
         /\ written.sequence = Event(s).row.sequence
    BY <1>4, <1>5, UpdatedRank DEF Written
  <1>11. active # NoRow => Newer(s, written, active)
    BY <1>2, <1>4, <1>5, <1>10, ResolveInOrder
       DEF Verdict, Newer, IsFinal, MayReplaceFinal, Outranks
  <1>12. ReadIsCurrent'
    BY <1>3, <1>8 DEF ReadIsCurrent
  <1>13. DraftsInOrder'
    <2> SUFFICES ASSUME NEW x \in dirty'[s], ledger[x] # NoRow,
                        draft'[s][x] # ledger[x]
                 PROVE  Newer(s, draft'[s][x], ledger[x])
      BY <1>3, <1>7 DEF DraftsInOrder, Newer, MayReplaceFinal
    <2>1. x \in Ids /\ ledger[x] \in Rows
      BY <1>4, <1>8 DEF LedgerInv, TypeOK
    <2>2. CASE x # id
      BY <1>8, <2>1, <2>2 DEF DraftsInOrder
    <2>3. CASE x = id
      <3>1. active # NoRow
        BY <2>3 DEF Visible, LedgerInv, RowsExist
      <3>2. Newer(s, written, active)
        BY <1>11, <3>1
      <3>3. CASE active = ledger[id]
        BY <1>8, <2>3, <3>2, <3>3
      <3>4. CASE active # ledger[id]
        <4>1. Newer(s, active, ledger[id])
          BY <2>3, <3>4 DEF Visible, DraftsInOrder
        <4> QED BY <1>5, <1>6, <1>8, <2>1, <2>3, <3>1, <3>2, <4>1, NewerTransitive
      <3> QED BY <3>3, <3>4
    <2> QED BY <2>2, <2>3
  <1>14. ProcessedCovered'
    <2>1. ASSUME NEW i \in DOMAIN batch[s].events,
                 batch[s].mode = "revision", i < pos[s] + 1
          PROVE  Covered(batch[s].events[i].row, After(batch[s].events[i].id))
      <3>1. /\ batch[s].events[i].id \in Ids /\ batch[s].events[i].row \in Rows
            /\ pos[s] \in Nat \ {0} /\ batch[s].events \in Seq(Events)
        BY <1>2, OrderTypes
      <3>2. written # NoRow
        BY <1>6, NoRowAssumption
      <3>3. CASE i = pos[s]
        <4>1. batch[s].events[i].row = Event(s).row /\ batch[s].events[i].id = id
          BY <1>e, <3>3 DEF Event
        <4>2. ~ Outranks(Event(s).row, written)
          BY <1>4, <1>6, <1>10 DEF Outranks, Rows
        <4> QED BY <3>2, <4>1, <4>2 DEF Covered
      <3>4. CASE i < pos[s] /\ batch[s].events[i].id # id
        BY <2>1, <3>4 DEF ProcessedCovered
      <3>5. CASE i < pos[s] /\ batch[s].events[i].id = id
        <4>1. active # NoRow /\ ~ Outranks(batch[s].events[i].row, active)
          BY <2>1, <3>5 DEF ProcessedCovered, Covered
        <4> QED BY <1>5, <1>6, <1>11, <3>1, <3>2, <3>5, <4>1, NewerCovers DEF Covered
      <3> QED BY <2>1, <3>1, <3>3, <3>4, <3>5
    <2>2. \A i \in DOMAIN batch[s].events : batch[s].events[i].id \in Ids
      BY <1>2, OrderTypes
    <2>3. batch'[s] = batch[s] /\ pos'[s] = pos[s] + 1
      BY <1>7, <1>8
    <2>4. ASSUME NEW i \in DOMAIN batch'[s].events,
                 batch'[s].mode = "revision", i < pos'[s]
          PROVE  Covered(batch'[s].events[i].row, Visible(s, batch[s].events[i].id)')
      <3>1. Covered(batch[s].events[i].row, After(batch[s].events[i].id))
        BY <2>1, <2>3, <2>4
      <3>2. Visible(s, batch[s].events[i].id)' = After(batch[s].events[i].id)
        <4>1. PICK x \in Ids : x = batch[s].events[i].id
          BY <2>2, <2>3, <2>4
        <4>2. batch'[s].events[i].id = x
          BY <2>3, <4>1
        <4> QED BY <1>9, <4>1, <4>2 DEF Visible
      <3> QED BY <2>3, <3>1, <3>2
    <2> QED BY <1>3, <2>4 DEF ProcessedCovered, Covered
  <1>15. NothingNewerIgnored'
    BY <1>7 DEF NothingNewerIgnored
  <1> QED BY <1>1, <1>12, <1>13, <1>14, <1>15

LEMMA OrderCommit ==
    ASSUME OneSession, OrderInv, NEW s \in Sessions, Commit(s)
    PROVE  OrderInv'
  <1> USE DEF OrderInv
  <1>1. LedgerInv'
    BY CommitInv
  <1>2. /\ phase[s] = "resolve" /\ ~ Remaining(s) /\ batch[s] \in Batches
        /\ ledger' = [id \in Ids |-> Visible(s, id)]
        /\ reported' = [id \in Ids |-> reported[id] \cup ReportsOf(s, id)]
        /\ EndRequest(s)
    BY DEF Commit, LedgerInv, SessionsConsistent
  <1>3. /\ \A o \in Sessions : o = s
        /\ phase'[s] = "idle" /\ dirty'[s] = {} /\ batch'[s] = NoBatch
    BY <1>2 DEF OneSession, EndRequest, LedgerInv, TypeOK
  <1>4. ReadIsCurrent' /\ DraftsInOrder' /\ ProcessedCovered'
    BY <1>3 DEF ReadIsCurrent, DraftsInOrder, ProcessedCovered, NoBatch
  <1>5. NothingNewerIgnored'
    <2> SUFFICES ASSUME NEW id \in Ids, NEW r \in reported'[id], r.mode = "revision"
                 PROVE  Covered(r.row, ledger'[id])
      BY DEF NothingNewerIgnored, Covered
    <2>1. ledger'[id] = Visible(s, id) /\ Visible(s, id) \in Rows \cup {NoRow}
      BY <1>2, OrderTypes
    <2>2. CASE r \in reported[id]
      <3>1. ledger[id] # NoRow /\ ~ Outranks(r.row, ledger[id]) /\ ledger[id] \in Rows
        BY <2>2 DEF NothingNewerIgnored, LedgerInv, TypeOK
      <3>2. r.row \in Rows
        BY <2>2 DEF LedgerInv, TypeOK, Reports
      <3>3. CASE Visible(s, id) = ledger[id]
        BY <2>1, <3>1, <3>3 DEF Covered
      <3>4. CASE Visible(s, id) # ledger[id]
        <4>1. Visible(s, id) # NoRow /\ Newer(s, Visible(s, id), ledger[id])
          BY <3>1, <3>4 DEF Visible, DraftsInOrder, LedgerInv, RowsExist
        <4> QED BY <2>1, <3>1, <3>2, <4>1, NewerCovers DEF Covered
      <3> QED BY <3>3, <3>4
    <2>3. CASE r \in ReportsOf(s, id)
      <3>1. PICK i \in DOMAIN batch[s].events :
               /\ batch[s].events[i].id = id
               /\ r = [row |-> batch[s].events[i].row,
                       units |-> batch[s].events[i].units,
                       mode |-> batch[s].mode]
        BY <2>3 DEF ReportsOf
      <3>2. i < pos[s]
        BY <1>2, <3>1, OrderTypes DEF Remaining
      <3> QED BY <2>1, <3>1, <3>2 DEF ProcessedCovered
    <2> QED BY <1>2, <2>2, <2>3
  <1> QED BY <1>1, <1>4, <1>5

LEMMA OrderInvariant == OneSession => (Spec => []OrderInv)
  <1> SUFFICES ASSUME OneSession PROVE Spec => []OrderInv
    OBVIOUS
  <1>1. Init => OrderInv
    <2> SUFFICES ASSUME Init PROVE OrderInv
      OBVIOUS
    <2>1. LedgerInv
      BY InitInv
    <2>2. ReadIsCurrent /\ DraftsInOrder /\ ProcessedCovered /\ NothingNewerIgnored
      BY DEF Init, ReadIsCurrent, DraftsInOrder, ProcessedCovered,
             NothingNewerIgnored, NoBatch
    <2> QED BY <2>1, <2>2 DEF OrderInv
  <1>2. OrderInv /\ [Next]_vars => OrderInv'
    <2> SUFFICES ASSUME OrderInv, [Next]_vars PROVE OrderInv'
      OBVIOUS
    <2>1. ASSUME NEW s \in Sessions, Begin(s) PROVE OrderInv'
      BY <2>1, OrderBegin
    <2>2. ASSUME NEW s \in Sessions, ResolveEvent(s) PROVE OrderInv'
      BY <2>2, OrderResolveEvent
    <2>3. ASSUME NEW s \in Sessions, WriteEvent(s) PROVE OrderInv'
      BY <2>3, OrderWriteEvent
    <2>4. ASSUME NEW s \in Sessions,
                InsertFails(s) \/ ArchiveFails(s) \/ Rollback(s)
         PROVE OrderInv'
      BY <2>4, OrderEndRequest DEF InsertFails, ArchiveFails, Rollback
    <2>5. ASSUME NEW s \in Sessions, Commit(s) PROVE OrderInv'
      BY <2>5, OrderCommit
    <2>6. CASE UNCHANGED vars
      <3>1. LedgerInv'
        BY <2>6, NextInv DEF OrderInv
      <3>2. (ReadIsCurrent /\ DraftsInOrder /\ ProcessedCovered)'
        BY <2>6 DEF OrderInv, vars, database, pending, ReadIsCurrent, DraftsInOrder,
                    ProcessedCovered, Visible, Event, Newer, MayReplaceFinal
      <3>3. NothingNewerIgnored'
        BY <2>6 DEF OrderInv, vars, database, NothingNewerIgnored
      <3> QED BY <3>1, <3>2, <3>3 DEF OrderInv
    <2> QED BY <2>1, <2>2, <2>3, <2>4, <2>5, <2>6 DEF Next
  <1> QED BY <1>1, <1>2, PTL DEF Spec

----------------------------------------------------------------------------
(* FR-IDEMP-002/004: without overlapping requests, whatever batches are    *)
(* sent, retried, reordered and cut off, no reported state of an event is  *)
(* newer than its active row.                                              *)
THEOREM NewestIsActive == OneSession => (Spec => []NothingNewerIgnored)
  <1>1. OrderInv => NothingNewerIgnored
    BY DEF OrderInv
  <1> QED BY <1>1, OrderInvariant, PTL

(* FR-IDEMP-003/004/005: without overlapping requests every replacement    *)
(* follows the order of finality and sequence, and a final is replaced     *)
(* only by a correction or by v1 traffic.                                  *)
THEOREM ReplacementsInOrder == OneSession => (Spec => SupersedesInOrder)
  <1> SUFFICES ASSUME OneSession PROVE Spec => SupersedesInOrder
    OBVIOUS
  <1> DEFINE InOrder == \A id \in Ids :
               ledger[id] # NoRow =>
                 /\ ledger'[id] # NoRow
                 /\ ledger'[id] # ledger[id] =>
                      IF IsFinal(ledger[id])
                      THEN /\ IsFinal(ledger'[id])
                           /\ \E s \in Sessions : id \in dirty[s] /\ MayReplaceFinal(s)
                      ELSE Outranks(ledger'[id], ledger[id])
  <1>1. OrderInv /\ [Next]_vars => [InOrder]_vars
    <2> SUFFICES ASSUME OrderInv, Next, NEW id \in Ids, ledger[id] # NoRow
                 PROVE  /\ ledger'[id] # NoRow
                        /\ ledger'[id] # ledger[id] =>
                             \E s \in Sessions :
                                id \in dirty[s] /\ Newer(s, ledger'[id], ledger[id])
      BY DEF vars, Newer
    <2>1. ASSUME NEW s \in Sessions, Commit(s)
          PROVE  /\ ledger'[id] # NoRow
                 /\ ledger'[id] # ledger[id] =>
                      id \in dirty[s] /\ Newer(s, ledger'[id], ledger[id])
      <3>1. ledger'[id] = Visible(s, id)
        BY <2>1 DEF Commit
      <3> QED BY <3>1 DEF Visible, OrderInv, LedgerInv, RowsExist, DraftsInOrder
    <2>2. ASSUME NEW s \in Sessions,
                 \/ Begin(s) \/ ResolveEvent(s) \/ WriteEvent(s)
                 \/ InsertFails(s) \/ ArchiveFails(s) \/ Rollback(s)
          PROVE  ledger' = ledger
      BY <2>2 DEF Begin, ResolveEvent, WriteEvent, InsertFails, ArchiveFails,
             Rollback, database
    <2> QED BY <2>1, <2>2 DEF Next
  <1> QED BY <1>1, OrderInvariant, PTL DEF Spec, SupersedesInOrder

-----------------------------------------------------------------------------
(***************************************************************************)
(* Conflicts, for any number of overlapping requests.  A row of the ledger *)
(* need not be the row of any report: two requests that overlap merge      *)
(* their columns.  But then the reports it comes of differ, and so it is   *)
(* enough that a row is either one of those reported so far, or that two   *)
(* of them differ.                                                         *)
(***************************************************************************)

(* Clients write a cost with all the digits of its column, or none: with   *)
(* fewer the row reads back different from the report it came of, which    *)
(* then conflicts with its own retransmission.                             *)
CostsScaled == \A sent \in Batches : \A i \in DOMAIN sent.events : sent.events[i].row.money # "short"

RowsReported(id) == {r.row : r \in reported[id]}

(* The rows of an id that are reported when session s commits now.         *)
RowsSeen(s, id) ==
    RowsReported(id) \cup
      {batch[s].events[i].row : i \in {j \in DOMAIN batch[s].events :
                                         j < pos[s] /\ batch[s].events[j].id = id}}

Differ(S) == \E x, y \in S : x # y

Backed(row, S) == row \in S \/ Differ(S)

LedgerBacked == \A id \in Ids : ledger[id] # NoRow => Backed(ledger[id], RowsReported(id))

SessionBacked(s) ==
    /\ \A id \in Ids :
          /\ Visible(s, id) # NoRow => Backed(Visible(s, id), RowsSeen(s, id))
          /\ id \in flagged[s] => Differ(RowsSeen(s, id))
    /\ phase[s] = "write" /\ read[s] # NoRow
          => Backed(read[s], RowsSeen(s, Event(s).id))

SessionsBacked == \A s \in Sessions : SessionBacked(s)

ConflictInv == LedgerInv /\ LedgerBacked /\ SessionsBacked /\ ConflictMeansDisagreement

-----------------------------------------------------------------------------
LEMMA BackedGrows ==
    ASSUME NEW S, NEW T, S \subseteq T
    PROVE  /\ Differ(S) => Differ(T)
           /\ \A row : Backed(row, S) => Backed(row, T)
  BY DEF Differ, Backed

(* A row with a scaled cost is stored and merged as it is.                 *)
LEMMA ScaledRow ==
    ASSUME NEW row \in Rows, row.money # "short"
    PROVE  Stored(row) = row /\ Updated(row, row, row) = row
  <1>1. Stored(row) \in Rows /\ Updated(row, row, row) \in Rows
    BY RowType
  <1>2. /\ Stored(row).finality = row.finality /\ Stored(row).sequence = row.sequence
        /\ Stored(row).output = row.output /\ Stored(row).detail = row.detail
        /\ Stored(row).money = row.money
    BY DEF Stored, StoredMoney, Rows
  <1>3. LET merged == Updated(row, row, row)
        IN  /\ merged.finality = row.finality /\ merged.sequence = row.sequence
            /\ merged.output = row.output /\ merged.detail = row.detail
            /\ merged.money = row.money
    BY DEF Updated, Column
  <1> QED BY <1>1, <1>2, <1>3 DEF Rows

LEMMA MergedBacked ==
    ASSUME NEW S, NEW current \in Rows, NEW seen \in Rows, NEW new \in Rows,
           new.money # "short", Backed(current, S), Backed(seen, S)
    PROVE  Backed(Updated(current, seen, new), S \cup {new})
  <1>1. CASE Differ(S \cup {new})
    BY <1>1 DEF Backed
  <1>2. CASE ~ Differ(S \cup {new})
    <2>1. current = new /\ seen = new
      BY <1>2 DEF Backed, Differ
    <2> QED BY <2>1, ScaledRow DEF Backed
  <1> QED BY <1>1, <1>2

(* A conflict is two rows.                                                 *)
LEMMA RejectedDiffers ==
    ASSUME NEW incoming, NEW existing, NEW mode, NEW correction,
           Resolve(incoming, existing, mode, correction).conflict
    PROVE  existing # NoRow /\ incoming # existing
  BY DEF Resolve, ResolveKeepMax, ResolveOverFinal, ResolveOverSnapshot, SameFingerprint,
         Accept, Supersede, Overwrite, Correct, Reject, Ignore, Decision

(* What is seen stays seen, and the event at hand is seen with the next.   *)
LEMMA EventSeen ==
    ASSUME LedgerInv, NEW s \in Sessions, batch[s] \in Batches, Remaining(s),
           UNCHANGED <<batch, reported>>, pos'[s] = pos[s] + 1
    PROVE  /\ \A id : RowsSeen(s, id) \subseteq RowsSeen(s, id)'
           /\ \A id : id = Event(s).id => Event(s).row \in RowsSeen(s, id)'
  <1>1. pos[s] \in Nat /\ batch[s].events \in Seq(Events)
    BY OrderTypes
  <1>2. pos[s] \in DOMAIN batch[s].events
    BY <1>1, OrderTypes DEF Remaining
  <1>3. \A j \in DOMAIN batch[s].events : j \in Nat
    BY <1>1
  <1>4. ASSUME NEW id PROVE RowsSeen(s, id) \subseteq RowsSeen(s, id)'
    <2>1. \A j \in DOMAIN batch[s].events : j < pos[s] => j < pos'[s]
      BY <1>1, <1>3
    <2> QED BY <2>1 DEF RowsSeen, RowsReported
  <1>5. ASSUME NEW id, id = Event(s).id PROVE Event(s).row \in RowsSeen(s, id)'
    <2>1. pos[s] < pos'[s]
      BY <1>1
    <2> QED BY <1>2, <1>5, <2>1 DEF RowsSeen, Event
  <1> QED BY <1>4, <1>5

(* A session no step of its own or commit of another concerns.             *)
LEMMA AloneBacked ==
    ASSUME NEW o \in Sessions, SessionBacked(o), UNCHANGED <<ledger, reported>>,
           phase'[o] = phase[o], batch'[o] = batch[o], pos'[o] = pos[o], read'[o] = read[o],
           draft'[o] = draft[o], dirty'[o] = dirty[o], flagged'[o] = flagged[o]
    PROVE  SessionBacked(o)'
  BY DEF SessionBacked, Visible, RowsSeen, RowsReported, Event

(* A session that holds nothing sees the ledger.                           *)
LEMMA IdleBacked ==
    ASSUME NEW s \in Sessions, LedgerBacked', phase'[s] = "idle", dirty'[s] = {},
           flagged'[s] = {}
    PROVE  SessionBacked(s)'
  <1>1. \A id : RowsReported(id)' \subseteq RowsSeen(s, id)'
    BY DEF RowsSeen
  <1> QED BY <1>1, BackedGrows DEF SessionBacked, LedgerBacked, Visible

LEMMA ConflictEndRequest ==
    ASSUME ConflictInv, NEW s \in Sessions, EndRequest(s), UNCHANGED <<database, reported>>
    PROVE  ConflictInv'
  <1>1. LedgerInv'
    BY EndRequestInv DEF ConflictInv
  <1>2. LedgerBacked' /\ ConflictMeansDisagreement'
    BY DEF ConflictInv, LedgerBacked, ConflictMeansDisagreement, RowsReported, database
  <1>3. phase'[s] = "idle" /\ dirty'[s] = {} /\ flagged'[s] = {}
    BY DEF EndRequest, ConflictInv, LedgerInv, TypeOK
  <1>4. SessionBacked(s)'
    BY <1>2, <1>3, IdleBacked
  <1>5. ASSUME NEW o \in Sessions, o # s PROVE SessionBacked(o)'
    <2>1. /\ phase'[o] = phase[o] /\ batch'[o] = batch[o] /\ pos'[o] = pos[o]
          /\ read'[o] = read[o] /\ draft'[o] = draft[o] /\ dirty'[o] = dirty[o]
          /\ flagged'[o] = flagged[o]
      BY <1>5 DEF EndRequest, ConflictInv, LedgerInv, TypeOK
    <2>2. UNCHANGED <<ledger, reported>> /\ SessionBacked(o)
      BY DEF database, ConflictInv, SessionsBacked
    <2> QED BY <2>1, <2>2, AloneBacked
  <1> QED BY <1>1, <1>2, <1>4, <1>5 DEF ConflictInv, SessionsBacked

LEMMA ConflictBegin ==
    ASSUME ConflictInv, NEW s \in Sessions, Begin(s)
    PROVE  ConflictInv'
  <1>1. LedgerInv'
    BY BeginInv DEF ConflictInv
  <1>2. /\ UNCHANGED <<ledger, conflicts, reported, read, draft, dirty, flagged, pos>>
        /\ phase' = [phase EXCEPT ![s] = "resolve"] /\ phase[s] = "idle" /\ pos[s] = 1
        /\ dirty[s] = {} /\ batch'[s] \in Batches
        /\ \A o \in Sessions \ {s} : batch'[o] = batch[o]
    BY DEF Begin, database, pending, ConflictInv, LedgerInv, SessionsConsistent, TypeOK
  <1>3. LedgerBacked' /\ ConflictMeansDisagreement'
    BY <1>2 DEF ConflictInv, LedgerBacked, ConflictMeansDisagreement, RowsReported
  <1>4. SessionBacked(s)'
    <2>1. batch[s].events \in Seq(Events) \cup {<<>>} /\ batch'[s].events \in Seq(Events)
      BY <1>2, LedgerAssumption DEF ConflictInv, LedgerInv, TypeOK, BatchType, NoBatch
    <2>2. ASSUME NEW id PROVE RowsSeen(s, id) = RowsReported(id) /\ RowsSeen(s, id)' = RowsReported(id)
      BY <1>2, <2>1 DEF RowsSeen, RowsReported
    <2>3. phase'[s] # "write"
      BY <1>2 DEF ConflictInv, LedgerInv, TypeOK
    <2> QED BY <1>2, <2>2, <2>3 DEF ConflictInv, SessionsBacked, SessionBacked, Visible
  <1>5. ASSUME NEW o \in Sessions, o # s PROVE SessionBacked(o)'
    <2>1. phase'[o] = phase[o]
      BY <1>2, <1>5 DEF ConflictInv, LedgerInv, TypeOK
    <2> QED BY <1>2, <1>5, <2>1, AloneBacked DEF ConflictInv, SessionsBacked
  <1> QED BY <1>1, <1>3, <1>4, <1>5 DEF ConflictInv, SessionsBacked

LEMMA ConflictResolveEvent ==
    ASSUME ConflictInv, NEW s \in Sessions, ResolveEvent(s)
    PROVE  ConflictInv'
  <1>e. PICK id \in Ids : id = Event(s).id
    BY EventType DEF ResolveEvent, ConflictInv, LedgerInv, SessionsConsistent
  <1>1. LedgerInv'
    BY ResolveEventInv DEF ConflictInv
  <1>2. /\ UNCHANGED <<ledger, conflicts, reported, batch, draft, dirty>>
        /\ phase[s] = "resolve" /\ Remaining(s) /\ batch[s] \in Batches
    BY DEF ResolveEvent, database, ConflictInv, LedgerInv, SessionsConsistent
  <1>3. LedgerBacked' /\ ConflictMeansDisagreement'
    BY <1>2 DEF ConflictInv, LedgerBacked, ConflictMeansDisagreement, RowsReported
  <1>4. SessionBacked(s) /\ \A x : Visible(s, x)' = Visible(s, x)
    BY <1>2 DEF ConflictInv, SessionsBacked, Visible
  <1>5. CASE /\ phase' = [phase EXCEPT ![s] = "write"]
             /\ read' = [read EXCEPT ![s] = Visible(s, id)]
             /\ UNCHANGED <<pos, flagged>>
    <2>1. read'[s] = Visible(s, id) /\ Event(s)' = Event(s)
      BY <1>2, <1>5 DEF ConflictInv, LedgerInv, TypeOK, Event
    <2>2. \A x : RowsSeen(s, x)' = RowsSeen(s, x)
      BY <1>2, <1>5 DEF RowsSeen, RowsReported
    <2>3. SessionBacked(s)'
      BY <1>e, <1>4, <1>5, <2>1, <2>2 DEF SessionBacked
    <2>4. ASSUME NEW o \in Sessions, o # s PROVE SessionBacked(o)'
      <3>1. phase'[o] = phase[o] /\ read'[o] = read[o]
        BY <1>5, <2>4 DEF ConflictInv, LedgerInv, TypeOK
      <3> QED BY <1>2, <1>5, <3>1, AloneBacked DEF ConflictInv, SessionsBacked
    <2> QED BY <1>1, <1>3, <2>3, <2>4 DEF ConflictInv, SessionsBacked
  <1>6. CASE /\ pos' = [pos EXCEPT ![s] = @ + 1]
             /\ flagged' = IF Verdict(s, Visible(s, id)).conflict
                           THEN [flagged EXCEPT ![s] = @ \cup {id}] ELSE flagged
             /\ UNCHANGED <<phase, read>>
    <2>1. pos'[s] = pos[s] + 1
      BY <1>6 DEF ConflictInv, LedgerInv, TypeOK
    <2>2. /\ \A x : RowsSeen(s, x) \subseteq RowsSeen(s, x)'
          /\ Event(s).row \in RowsSeen(s, id)'
      BY <1>e, <1>2, <2>1, EventSeen DEF ConflictInv
    <2>3. ASSUME Verdict(s, Visible(s, id)).conflict PROVE Differ(RowsSeen(s, id)')
      <3>1. Visible(s, id) # NoRow /\ Event(s).row # Visible(s, id)
        BY <2>3, RejectedDiffers DEF Verdict
      <3>2. Backed(Visible(s, id), RowsSeen(s, id)')
        BY <1>4, <2>2, <3>1, BackedGrows DEF SessionBacked
      <3> QED BY <2>2, <3>1, <3>2 DEF Backed, Differ
    <2>4. ASSUME NEW x \in Ids, x \in flagged'[s] PROVE Differ(RowsSeen(s, x)')
      <3>1. x \in flagged[s] \/ (x = id /\ Verdict(s, Visible(s, id)).conflict)
        BY <1>6, <2>4 DEF ConflictInv, LedgerInv, TypeOK
      <3> QED BY <1>4, <2>2, <2>3, <3>1, BackedGrows DEF SessionBacked
    <2>5. \A x \in Ids : Visible(s, x)' # NoRow => Backed(Visible(s, x)', RowsSeen(s, x)')
      BY <1>4, <2>2, BackedGrows DEF SessionBacked
    <2>6. phase'[s] # "write"
      BY <1>2, <1>6
    <2>7. SessionBacked(s)'
      BY <2>4, <2>5, <2>6 DEF SessionBacked, Differ, Backed
    <2>8. ASSUME NEW o \in Sessions, o # s PROVE SessionBacked(o)'
      <3>1. pos'[o] = pos[o] /\ flagged'[o] = flagged[o]
        BY <1>6, <2>8 DEF ConflictInv, LedgerInv, TypeOK
      <3> QED BY <1>2, <1>6, <3>1, AloneBacked DEF ConflictInv, SessionsBacked
    <2> QED BY <1>1, <1>3, <2>7, <2>8 DEF ConflictInv, SessionsBacked
  <1> QED BY <1>e, <1>5, <1>6 DEF ResolveEvent

LEMMA ConflictWriteEvent ==
    ASSUME CostsScaled, ConflictInv, NEW s \in Sessions, WriteEvent(s)
    PROVE  ConflictInv'
  <1>e. PICK id \in Ids : id = Event(s).id
    BY WriteFacts DEF ConflictInv
  <1>1. LedgerInv'
    BY WriteEventInv DEF ConflictInv
  <1>2. /\ phase[s] = "write" /\ batch[s] \in Batches /\ Remaining(s)
        /\ ~ DuplicateKey(s, id) /\ SessionBacked(s)
        /\ UNCHANGED <<ledger, conflicts, reported, batch, flagged>>
    BY <1>e DEF WriteEvent, database, ConflictInv, LedgerInv, SessionsConsistent,
                SessionsBacked
  <1>3. LedgerBacked' /\ ConflictMeansDisagreement'
    BY <1>2 DEF ConflictInv, LedgerBacked, ConflictMeansDisagreement, RowsReported
  <1>4. /\ draft' = [draft EXCEPT ![s][id] = Written(s, id)]
        /\ dirty' = [dirty EXCEPT ![s] = @ \cup {id}]
        /\ phase' = [phase EXCEPT ![s] = "resolve"]
        /\ pos' = [pos EXCEPT ![s] = @ + 1]
        /\ read' = [read EXCEPT ![s] = NoRow]
    BY <1>e DEF WriteEvent
  <1>5. /\ draft'[s][id] = Written(s, id) /\ dirty'[s] = dirty[s] \cup {id}
        /\ \A x \in Ids \ {id} : draft'[s][x] = draft[s][x]
        /\ pos'[s] = pos[s] + 1 /\ phase'[s] = "resolve"
    BY <1>4 DEF ConflictInv, LedgerInv, TypeOK
  <1>6. /\ \A x : RowsSeen(s, x) \subseteq RowsSeen(s, x)'
        /\ Event(s).row \in RowsSeen(s, id)'
    BY <1>e, <1>2, <1>5, EventSeen DEF ConflictInv
  <1>7. Event(s).row \in Rows /\ Event(s).row.money # "short"
    <2>1. pos[s] \in DOMAIN batch[s].events
      BY <1>2, OrderTypes DEF ConflictInv, Remaining
    <2> QED BY <1>2, <2>1, OrderTypes DEF CostsScaled, Event, ConflictInv
  <1>8. Backed(Written(s, id), RowsSeen(s, id)')
    <2>1. CASE read[s] = NoRow
      BY <1>6, <1>7, <2>1, ScaledRow DEF Written, Backed
    <2>2. CASE read[s] # NoRow
      <3>1. Visible(s, id) \in Rows /\ read[s] \in Rows
        BY <1>e, <1>2, <2>2, OrderTypes DEF ConflictInv, LedgerInv, RowsExist, TypeOK
      <3>2. Backed(Visible(s, id), RowsSeen(s, id)) /\ Backed(read[s], RowsSeen(s, id))
        BY <1>e, <1>2, <2>2, <3>1, NoRowAssumption DEF SessionBacked
      <3>3. Backed(Written(s, id), RowsSeen(s, id) \cup {Event(s).row})
        BY <1>7, <2>2, <3>1, <3>2, MergedBacked DEF Written
      <3> QED BY <1>6, <3>3, BackedGrows
    <2> QED BY <2>1, <2>2
  <1>9. SessionBacked(s)'
    <2>1. ASSUME NEW x \in Ids, Visible(s, x)' # NoRow
          PROVE  Backed(Visible(s, x)', RowsSeen(s, x)')
      <3>1. CASE x = id
        BY <1>5, <1>8, <3>1 DEF Visible
      <3>2. CASE x # id
        <4>1. Visible(s, x)' = Visible(s, x)
          BY <1>2, <1>5, <3>2 DEF Visible
        <4> QED BY <1>2, <1>6, <2>1, <4>1, BackedGrows DEF SessionBacked
      <3> QED BY <3>1, <3>2
    <2>2. \A x \in Ids : x \in flagged'[s] => Differ(RowsSeen(s, x)')
      BY <1>2, <1>6, BackedGrows DEF SessionBacked
    <2>3. phase'[s] # "write"
      BY <1>5
    <2> QED BY <2>1, <2>2, <2>3 DEF SessionBacked, Backed, Differ
  <1>10. ASSUME NEW o \in Sessions, o # s PROVE SessionBacked(o)'
    <2>1. /\ phase'[o] = phase[o] /\ pos'[o] = pos[o] /\ read'[o] = read[o]
          /\ draft'[o] = draft[o] /\ dirty'[o] = dirty[o]
      BY <1>4, <1>10 DEF ConflictInv, LedgerInv, TypeOK
    <2> QED BY <1>2, <2>1, AloneBacked DEF ConflictInv, SessionsBacked
  <1> QED BY <1>1, <1>3, <1>9, <1>10 DEF ConflictInv, SessionsBacked

(* What a session has seen is what is reported when it commits.            *)
LEMMA SeenIsReported ==
    ASSUME LedgerInv, NEW s \in Sessions, Commit(s), NEW id \in Ids
    PROVE  /\ RowsSeen(s, id) \subseteq RowsReported(id)'
           /\ RowsReported(id) \subseteq RowsReported(id)'
  <1>1. reported'[id] = reported[id] \cup ReportsOf(s, id)
    BY DEF Commit
  <1>2. ASSUME NEW i \in DOMAIN batch[s].events, batch[s].events[i].id = id
        PROVE  batch[s].events[i].row \in RowsReported(id)'
    <2> DEFINE r == [row |-> batch[s].events[i].row, units |-> batch[s].events[i].units,
                     mode |-> batch[s].mode]
    <2>1. r \in ReportsOf(s, id) /\ r.row = batch[s].events[i].row
      BY <1>2 DEF ReportsOf
    <2> QED BY <1>1, <2>1 DEF RowsReported
  <1>3. RowsReported(id) \subseteq RowsReported(id)'
    BY <1>1 DEF RowsReported
  <1> QED BY <1>2, <1>3 DEF RowsSeen

LEMMA ConflictCommit ==
    ASSUME ConflictInv, NEW s \in Sessions, Commit(s)
    PROVE  ConflictInv'
  <1>1. LedgerInv'
    BY CommitInv DEF ConflictInv
  <1>2. /\ \A id \in Ids : ledger'[id] = Visible(s, id)
        /\ conflicts' = conflicts \cup flagged[s]
        /\ EndRequest(s) /\ SessionBacked(s)
    BY DEF Commit, ConflictInv, SessionsBacked
  <1>3. LedgerBacked'
    <2>1. ASSUME NEW id \in Ids, ledger'[id] # NoRow
          PROVE  Backed(ledger'[id], RowsReported(id)')
      <3>1. Backed(ledger'[id], RowsSeen(s, id))
        BY <1>2, <2>1 DEF SessionBacked
      <3>2. RowsSeen(s, id) \subseteq RowsReported(id)'
        BY SeenIsReported DEF ConflictInv
      <3> QED BY <3>1, <3>2, BackedGrows
    <2> QED BY <2>1 DEF LedgerBacked, Backed, Differ
  <1>4. ConflictMeansDisagreement'
    <2>1. ASSUME NEW id \in conflicts' PROVE Differ(RowsReported(id)')
      <3>1. id \in Ids
        BY <1>2 DEF ConflictInv, LedgerInv, TypeOK
      <3>2. CASE id \in flagged[s]
        BY <1>2, <3>1, <3>2, SeenIsReported, BackedGrows DEF SessionBacked, ConflictInv
      <3>3. CASE id \in conflicts
        <4>1. Differ(RowsReported(id))
          BY <3>3 DEF ConflictInv, ConflictMeansDisagreement, Differ, RowsReported
        <4> QED BY <3>1, <4>1, SeenIsReported, BackedGrows DEF ConflictInv
      <3> QED BY <1>2, <2>1, <3>2, <3>3
    <2> QED BY <2>1 DEF ConflictMeansDisagreement, Differ, RowsReported
  <1>5. SessionBacked(s)'
    <2>1. phase'[s] = "idle" /\ dirty'[s] = {} /\ flagged'[s] = {}
      BY <1>2 DEF EndRequest, ConflictInv, LedgerInv, TypeOK
    <2> QED BY <1>3, <2>1, IdleBacked
  <1>6. ASSUME NEW o \in Sessions, o # s PROVE SessionBacked(o)'
    <2>1. /\ phase'[o] = phase[o] /\ batch'[o] = batch[o] /\ pos'[o] = pos[o]
          /\ read'[o] = read[o] /\ draft'[o] = draft[o] /\ dirty'[o] = dirty[o]
          /\ flagged'[o] = flagged[o] /\ SessionBacked(o)
      BY <1>2, <1>6 DEF EndRequest, ConflictInv, LedgerInv, TypeOK, SessionsBacked
    <2>2. ASSUME NEW id \in Ids
          PROVE  /\ RowsSeen(o, id) \subseteq RowsSeen(o, id)'
                 /\ RowsReported(id)' \subseteq RowsSeen(o, id)'
      <3>1. RowsReported(id) \subseteq RowsReported(id)'
        BY SeenIsReported DEF ConflictInv
      <3> QED BY <2>1, <3>1 DEF RowsSeen
    <2>3. ASSUME NEW id \in Ids, Visible(o, id)' # NoRow
          PROVE  Backed(Visible(o, id)', RowsSeen(o, id)')
      <3>1. CASE id \in dirty[o]
        <4>1. Visible(o, id)' = Visible(o, id)
          BY <2>1, <3>1 DEF Visible
        <4> QED BY <2>1, <2>2, <2>3, <4>1, BackedGrows DEF SessionBacked
      <3>2. CASE id \notin dirty[o]
        <4>1. Visible(o, id)' = ledger'[id]
          BY <2>1, <3>2 DEF Visible
        <4> QED BY <1>3, <2>2, <2>3, <4>1, BackedGrows DEF LedgerBacked, Backed, Differ
      <3> QED BY <3>1, <3>2
    <2>4. \A id \in Ids : id \in flagged'[o] => Differ(RowsSeen(o, id)')
      BY <2>1, <2>2, BackedGrows DEF SessionBacked
    <2>5. ASSUME phase'[o] = "write", read'[o] # NoRow, NEW id \in Ids, id = Event(o).id
          PROVE  Backed(read'[o], RowsSeen(o, id)')
      BY <2>1, <2>2, <2>5, BackedGrows DEF SessionBacked
    <2>6. phase'[o] = "write" => \E id \in Ids : id = Event(o).id /\ id = Event(o)'.id
      BY <2>1, EventType DEF ConflictInv, LedgerInv, SessionsConsistent, Event
    <2> QED BY <2>3, <2>4, <2>5, <2>6 DEF SessionBacked, Backed, Differ
  <1> QED BY <1>1, <1>3, <1>4, <1>5, <1>6 DEF ConflictInv, SessionsBacked

(* FR-IDEMP-007/008 for any number of overlapping requests: a conflict is  *)
(* recorded only for an event of which two answered reports differ         *)
(* (RevisionEngine.apply, record_safe), when costs are written as they are *)
(* stored.                                                                 *)
THEOREM ConflictsAreReal == CostsScaled => (Spec => []ConflictMeansDisagreement)
  <1> SUFFICES ASSUME CostsScaled PROVE Spec => []ConflictMeansDisagreement
    OBVIOUS
  <1>1. Init => ConflictInv
    <2> SUFFICES ASSUME Init PROVE ConflictInv
      OBVIOUS
    <2>1. LedgerInv
      BY InitInv
    <2>2. LedgerBacked /\ SessionsBacked /\ ConflictMeansDisagreement
      BY DEF Init, LedgerBacked, SessionsBacked, SessionBacked, ConflictMeansDisagreement, Visible
    <2> QED BY <2>1, <2>2 DEF ConflictInv
  <1>2. ConflictInv /\ [Next]_vars => ConflictInv'
    <2> SUFFICES ASSUME ConflictInv, [Next]_vars PROVE ConflictInv'
      OBVIOUS
    <2>1. ASSUME NEW s \in Sessions, InsertFails(s) \/ ArchiveFails(s) \/ Rollback(s)
          PROVE  ConflictInv'
      BY <2>1, ConflictEndRequest DEF InsertFails, ArchiveFails, Rollback
    <2>2. CASE UNCHANGED vars
      <3>1. LedgerInv'
        BY <2>2, NextInv DEF ConflictInv
      <3>2. LedgerBacked' /\ ConflictMeansDisagreement'
        BY <2>2 DEF vars, database, ConflictInv, LedgerBacked, ConflictMeansDisagreement,
                    RowsReported
      <3>3. SessionsBacked'
        BY <2>2, AloneBacked DEF vars, database, pending, ConflictInv, SessionsBacked
      <3> QED BY <3>1, <3>2, <3>3 DEF ConflictInv
    <2> QED BY <2>1, <2>2, ConflictBegin, ConflictResolveEvent, ConflictWriteEvent,
               ConflictCommit DEF Next
  <1>3. ConflictInv => ConflictMeansDisagreement
    BY DEF ConflictInv
  <1> QED BY <1>1, <1>2, <1>3, PTL DEF Spec

-----------------------------------------------------------------------------
(***************************************************************************)
(* What becomes of a report, when requests are served one at a time.  The  *)
(* induction is over one event at a time: what ReportsKept says of the     *)
(* committed state also holds of the state a busy session would leave if   *)
(* it committed what it has processed so far.                              *)
(***************************************************************************)

(* What ReportsKept says of one id, given its row and units, the rows      *)
(* archived of it, the ids in conflict and the reports of it.              *)
KeptRow(id, row, u, archive, flags, reports) ==
    /\ row # NoRow => \E r \in reports : Stored(r.row) = row /\ r.units = u
    /\ reports # {} => row # NoRow
    /\ \A r \in reports : r.mode = "revision" /\ IsFinal(r.row) =>
          \/ Stored(r.row) \in {row} \cup archive
          \/ id \in flags
          \/ \E q \in reports : q.mode = "keep_max"
    /\ (reports # {} /\ \A r \in reports : r.mode = "keep_max") =>
          /\ \A r \in reports : r.row.output <= row.output
          /\ \E r \in reports : r.row.output = row.output

(* The reports, units, archived rows and conflicts of an id when session s *)
(* commits now.                                                            *)
ReportsSeen(s, id) ==
    reported[id] \cup
      {[row |-> batch[s].events[i].row, units |-> batch[s].events[i].units,
        mode |-> batch[s].mode] :
          i \in {j \in DOMAIN batch[s].events :
                   j < pos[s] /\ batch[s].events[j].id = id}}

UnitsSeen(s, id) == IF id \in dirty[s] THEN newUnits[s][id] ELSE units[id]

RowsOf(states, id) == {a.row : a \in {x \in states : x.id = id}}

Kept(id) ==
    KeptRow(id, ledger[id], units[id], RowsOf(revisions, id), conflicts, reported[id])

KeptBy(s, id) ==
    KeptRow(id, Visible(s, id), UnitsSeen(s, id), RowsOf(revisions \cup archived[s], id),
            conflicts \cup flagged[s], ReportsSeen(s, id))

(* The first write of a v2 batch over a row archives it.                   *)
ArchivedFirst ==
    \A s \in Sessions : \A id \in dirty[s] :
        batch[s].mode = "revision" /\ ledger[id] # NoRow =>
            ledger[id] \in RowsOf(archived[s], id)

ReportsInv ==
    /\ OrderInv
    /\ ArchivedFirst
    /\ \A id \in Ids : Kept(id)
    /\ \A s \in Sessions, id \in Ids : KeptBy(s, id)

-----------------------------------------------------------------------------
(* A row read back is stored as it is, and what is written over it is the  *)
(* event's row as it is stored.                                            *)
LEMMA StoredFacts ==
    ASSUME NEW new \in Rows
    PROVE  /\ Stored(new) \in Rows /\ Stored(Stored(new)) = Stored(new)
           /\ Stored(new).output = new.output
           /\ \A old \in Rows : Updated(Stored(old), Stored(old), new) = Stored(new)
  <1>1. ASSUME NEW row \in Rows
        PROVE  /\ Stored(row) \in Rows
               /\ Stored(row).finality = row.finality /\ Stored(row).sequence = row.sequence
               /\ Stored(row).output = row.output /\ Stored(row).detail = row.detail
               /\ Stored(row).money = StoredMoney(row.money)
    BY RowType DEF Stored, Rows
  <1>2. Stored(Stored(new)) = Stored(new)
    <2>1. StoredMoney(StoredMoney(new.money)) = StoredMoney(new.money)
      BY DEF StoredMoney
    <2>2. Stored(new) \in Rows /\ Stored(Stored(new)) \in Rows
      BY <1>1
    <2>3. LET x == Stored(new)  y == Stored(Stored(new))
          IN  /\ y.finality = x.finality /\ y.sequence = x.sequence
              /\ y.output = x.output /\ y.detail = x.detail /\ y.money = x.money
      BY <1>1, <2>1, <2>2
    <2> QED BY <2>2, <2>3 DEF Rows
  <1>3. ASSUME NEW old \in Rows
        PROVE  Updated(Stored(old), Stored(old), new) = Stored(new)
    <2> DEFINE x == Stored(old)
               y == Updated(x, x, new)
               z == Stored(new)
    <2>1. x \in Rows /\ y \in Rows /\ z \in Rows
      BY <1>1, RowType
    <2>2. x.money = StoredMoney(x.money)
      BY <1>1 DEF StoredMoney
    <2>3. /\ y.finality = z.finality /\ y.sequence = z.sequence /\ y.output = z.output
          /\ y.detail = z.detail /\ y.money = z.money
      BY <1>1, <2>2 DEF Updated, Column
    <2> HIDE DEF x, y, z
    <2>4. y = z
      BY <2>1, <2>3 DEF Rows
    <2> QED BY <2>4 DEF x, y, z
  <1> QED BY <1>1, <1>2, <1>3

(* What resolve() drops, and what it writes, of the reports that count.    *)
LEMMA DroppedEvent ==
    ASSUME NEW new \in Rows, NEW row \in Rows, NEW mode \in Modes, NEW correction \in BOOLEAN,
           ~ Resolve(new, row, mode, correction).write
    PROVE  /\ mode = "keep_max" => new = row \/ new.output < row.output
           /\ mode = "revision" /\ IsFinal(new)
                => new = row \/ Resolve(new, row, mode, correction).conflict
  <1>1. row # NoRow /\ new.output \in Nat /\ row.output \in Nat
    BY NoRowAssumption DEF Rows
  <1> QED BY <1>1 DEF Resolve, ResolveKeepMax, ResolveOverFinal, ResolveOverSnapshot,
                      SameFingerprint, Supersede, Overwrite, Correct, Reject, Ignore, Decision,
                      IsFinal

LEMMA WrittenEvent ==
    ASSUME NEW new \in Rows, NEW row \in Rows, NEW mode \in Modes, NEW correction \in BOOLEAN,
           Resolve(new, row, mode, correction).write
    PROVE  /\ mode = "keep_max" => row.output <= new.output
           /\ mode = "revision" => Resolve(new, row, mode, correction).reason # NoReason
  <1>1. row # NoRow /\ new.output \in Nat /\ row.output \in Nat
    BY NoRowAssumption DEF Rows
  <1> QED BY <1>1 DEF Resolve, ResolveKeepMax, ResolveOverFinal, ResolveOverSnapshot,
                      SameFingerprint, Supersede, Overwrite, Correct, Reject, Ignore, Decision,
                      NoReason

LEMMA KeptUnchanged ==
    ASSUME NEW id, NEW row, NEW u, NEW archive, NEW flags, NEW more, NEW reports,
           KeptRow(id, row, u, archive, flags, reports), id \in flags => id \in more
    PROVE  KeptRow(id, row, u, archive, more, reports)
  BY DEF KeptRow

LEMMA KeptDropped ==
    ASSUME NEW id, NEW reports \in SUBSET Reports, NEW row \in Rows, NEW u, NEW archive,
           NEW flags, NEW more, NEW r \in Reports, NEW correction \in BOOLEAN,
           KeptRow(id, row, u, archive, flags, reports),
           ~ Resolve(r.row, row, r.mode, correction).write,
           id \in flags \/ Resolve(r.row, row, r.mode, correction).conflict => id \in more
    PROVE  KeptRow(id, row, u, archive, more, reports \cup {r})
  <1>1. row # NoRow
    BY NoRowAssumption
  <1>2. PICK q \in reports : Stored(q.row) = row /\ q.units = u
    BY <1>1 DEF KeptRow
  <1>3. /\ r.row \in Rows /\ r.mode \in Modes /\ q.row \in Rows
        /\ \A x \in reports : x.row \in Rows /\ x.mode \in Modes
    BY DEF Reports
  <1>4. Stored(row) = row
    BY <1>2, <1>3, StoredFacts
  <1>5. /\ r.mode = "keep_max" => r.row = row \/ r.row.output < row.output
        /\ r.mode = "revision" /\ IsFinal(r.row) => r.row = row \/ id \in more
    BY <1>3, DroppedEvent
  <1>6. r.row.output \in Nat /\ row.output \in Nat
    BY <1>3 DEF Rows
  <1>7. ASSUME NEW x \in reports \cup {r}, x.mode = "revision", IsFinal(x.row)
        PROVE  \/ Stored(x.row) \in {row} \cup archive
               \/ id \in more
               \/ \E y \in reports \cup {r} : y.mode = "keep_max"
    BY <1>4, <1>5, <1>7 DEF KeptRow
  <1>8. ASSUME \A x \in reports \cup {r} : x.mode = "keep_max"
        PROVE  /\ \A x \in reports \cup {r} : x.row.output <= row.output
               /\ \E x \in reports \cup {r} : x.row.output = row.output
    BY <1>2, <1>5, <1>6, <1>8 DEF KeptRow
  <1> QED BY <1>1, <1>2, <1>7, <1>8 DEF KeptRow

LEMMA KeptWritten ==
    ASSUME NEW id, NEW reports \in SUBSET Reports, NEW row \in Rows \cup {NoRow}, NEW u,
           NEW archive, NEW added, NEW flags, NEW r \in Reports, NEW correction \in BOOLEAN,
           KeptRow(id, row, u, archive, flags, reports),
           Resolve(r.row, row, r.mode, correction).write,
           row # NoRow /\ Resolve(r.row, row, r.mode, correction).reason # NoReason
             => row \in added
    PROVE  KeptRow(id, IF row = NoRow THEN Stored(r.row) ELSE Updated(row, row, r.row),
                   r.units, archive \cup added, flags, reports \cup {r})
  <1> DEFINE written == IF row = NoRow THEN Stored(r.row) ELSE Updated(row, row, r.row)
  <1>1. /\ r.row \in Rows /\ r.mode \in Modes
        /\ \A x \in reports : x.row \in Rows /\ x.mode \in Modes
    BY DEF Reports
  <1>2. written = Stored(r.row)
    <2>1. CASE row = NoRow
      BY <2>1
    <2>2. CASE row # NoRow
      <3>1. PICK q \in reports : Stored(q.row) = row
        BY <2>2 DEF KeptRow
      <3> QED BY <1>1, <2>2, <3>1, StoredFacts
    <2> QED BY <2>1, <2>2
  <1>3. written \in Rows /\ written # NoRow /\ written.output = r.row.output
        /\ r.row.output \in Nat
    BY <1>1, <1>2, StoredFacts, NoRowAssumption DEF Rows
  <1>4. CASE row = NoRow
    <2>1. reports = {}
      BY <1>4 DEF KeptRow
    <2> HIDE DEF written
    <2>2. KeptRow(id, written, r.units, archive \cup added, flags, {r})
      BY <1>2, <1>3 DEF KeptRow
    <2> QED BY <2>1, <2>2 DEF written
  <1>5. CASE row # NoRow
    <2>1. /\ r.mode = "keep_max" => row.output <= r.row.output
          /\ r.mode = "revision" => row \in added
      BY <1>1, <1>5, WrittenEvent
    <2>2. r.mode \in {"revision", "keep_max"} /\ row.output \in Nat
          /\ \A x \in reports : x.row.output \in Nat
      BY <1>1, <1>5 DEF Modes, Rows
    <2> HIDE DEF written
    <2>3. ASSUME NEW x \in reports \cup {r}, x.mode = "revision", IsFinal(x.row)
          PROVE  \/ Stored(x.row) \in {written} \cup (archive \cup added)
                 \/ id \in flags
                 \/ \E y \in reports \cup {r} : y.mode = "keep_max"
      BY <1>2, <2>1, <2>2, <2>3 DEF KeptRow
    <2>4. ASSUME \A x \in reports \cup {r} : x.mode = "keep_max"
          PROVE  /\ \A x \in reports \cup {r} : x.row.output <= written.output
                 /\ \E x \in reports \cup {r} : x.row.output = written.output
      BY <1>3, <2>1, <2>2, <2>4 DEF KeptRow
    <2>5. KeptRow(id, written, r.units, archive \cup added, flags, reports \cup {r})
      BY <1>2, <1>3, <2>3, <2>4 DEF KeptRow
    <2> QED BY <2>5 DEF written
  <1> QED BY <1>4, <1>5

-----------------------------------------------------------------------------
(* The report of the event at hand.                                        *)
ReportOf(s) == [row |-> Event(s).row, units |-> Event(s).units, mode |-> batch[s].mode]

LEMMA ReportTypes ==
    ASSUME LedgerInv, NEW s \in Sessions, batch[s] \in Batches
    PROVE  /\ \A id \in Ids : ReportsSeen(s, id) \in SUBSET Reports
           /\ Remaining(s) => ReportOf(s) \in Reports /\ batch[s].correction \in BOOLEAN
  <1>1. batch[s].mode \in Modes
    BY LedgerAssumption DEF BatchType
  <1>2. \A i \in DOMAIN batch[s].events : batch[s].events[i] \in Events
    BY LedgerAssumption DEF BatchType
  <1>3. \A id \in Ids : ReportsSeen(s, id) \in SUBSET Reports
    BY <1>1, <1>2 DEF ReportsSeen, Reports, Events, LedgerInv, TypeOK
  <1>4. Remaining(s) => ReportOf(s) \in Reports /\ batch[s].correction \in BOOLEAN
    BY EventType DEF LedgerInv, ReportOf, Reports
  <1> QED BY <1>3, <1>4

(* Going on to the next event adds the report of this one.                 *)
LEMMA ReportSeen ==
    ASSUME LedgerInv, NEW s \in Sessions, batch[s] \in Batches, Remaining(s),
           UNCHANGED <<batch, reported>>, pos'[s] = pos[s] + 1, NEW id
    PROVE  /\ id = Event(s).id => ReportsSeen(s, id)' = ReportsSeen(s, id) \cup {ReportOf(s)}
           /\ id # Event(s).id => ReportsSeen(s, id)' = ReportsSeen(s, id)
  <1> DEFINE Before == {j \in DOMAIN batch[s].events :
                          j < pos[s] /\ batch[s].events[j].id = id}
             After == {j \in DOMAIN batch[s].events :
                          j < pos[s] + 1 /\ batch[s].events[j].id = id}
             Report(i) == [row |-> batch[s].events[i].row, units |-> batch[s].events[i].units,
                           mode |-> batch[s].mode]
  <1>1. pos[s] \in Nat /\ batch[s].events \in Seq(Events)
    BY OrderTypes
  <1>2. pos[s] \in DOMAIN batch[s].events
    BY <1>1, OrderTypes DEF Remaining
  <1>3. \A j \in DOMAIN batch[s].events : j < pos[s] + 1 <=> (j < pos[s] \/ j = pos[s])
    BY <1>1
  <1>4. /\ id = Event(s).id => After = Before \cup {pos[s]}
        /\ id # Event(s).id => After = Before
    BY <1>2, <1>3 DEF Event
  <1>5. /\ ReportsSeen(s, id) = reported[id] \cup {Report(i) : i \in Before}
        /\ ReportsSeen(s, id)' = reported[id] \cup {Report(i) : i \in After}
    BY DEF ReportsSeen
  <1>6. ReportOf(s) = Report(pos[s])
    BY DEF ReportOf, Event
  <1> HIDE DEF Before, After, Report
  <1> QED BY <1>4, <1>5, <1>6

LEMMA SingleSession ==
    ASSUME OneSession, NEW s \in Sessions
    PROVE  \A o \in Sessions : o = s
  BY DEF OneSession

LEMMA ReportsEndRequest ==
    ASSUME OneSession, ReportsInv, NEW s \in Sessions, EndRequest(s),
           UNCHANGED <<database, reported>>
    PROVE  ReportsInv'
  <1>1. OrderInv'
    BY OrderEndRequest DEF ReportsInv
  <1>2. /\ dirty'[s] = {} /\ archived'[s] = {} /\ flagged'[s] = {} /\ batch'[s] = NoBatch
    BY DEF EndRequest, ReportsInv, OrderInv, LedgerInv, TypeOK
  <1>3. \A id \in Ids : Kept(id)'
    BY DEF database, ReportsInv, Kept, KeptRow, RowsOf
  <1>4. ASSUME NEW id \in Ids PROVE KeptBy(s, id)'
    <2>1. /\ Visible(s, id)' = ledger'[id] /\ UnitsSeen(s, id)' = units'[id]
          /\ (revisions \cup archived[s])' = revisions' /\ (conflicts \cup flagged[s])' = conflicts'
      BY <1>2 DEF Visible, UnitsSeen
    <2>2. ReportsSeen(s, id)' = reported'[id]
      BY <1>2 DEF ReportsSeen, NoBatch
    <2>3. RowsOf(revisions \cup archived[s], id)' = RowsOf(revisions', id)
      BY <2>1 DEF RowsOf
    <2> QED BY <1>3, <2>1, <2>2, <2>3 DEF Kept, KeptBy, KeptRow, RowsOf
  <1>5. ArchivedFirst'
    BY <1>2, SingleSession DEF ArchivedFirst
  <1> QED BY <1>1, <1>3, <1>4, <1>5, SingleSession DEF ReportsInv

LEMMA ReportsBegin ==
    ASSUME OneSession, ReportsInv, NEW s \in Sessions, Begin(s)
    PROVE  ReportsInv'
  <1>1. OrderInv'
    BY OrderBegin DEF ReportsInv
  <1>2. /\ UNCHANGED <<ledger, units, revisions, conflicts, reported, draft, dirty, newUnits,
                       archived, flagged, pos>>
        /\ pos[s] = 1 /\ dirty[s] = {} /\ batch'[s] \in Batches
    BY DEF Begin, database, pending, ReportsInv, OrderInv, LedgerInv, SessionsConsistent,
           TypeOK
  <1>3. batch[s].events \in Seq(Events) \cup {<<>>} /\ batch'[s].events \in Seq(Events)
    BY <1>2, LedgerAssumption DEF ReportsInv, OrderInv, LedgerInv, TypeOK, BatchType, NoBatch
  <1>4. ASSUME NEW id PROVE ReportsSeen(s, id) = reported[id] /\ ReportsSeen(s, id)' = reported[id]
    BY <1>2, <1>3 DEF ReportsSeen
  <1>5. ASSUME NEW id \in Ids PROVE Kept(id)'
    BY <1>2 DEF ReportsInv, Kept, RowsOf, KeptRow
  <1>6. ASSUME NEW id \in Ids PROVE KeptBy(s, id)'
    <2>1. Visible(s, id)' = Visible(s, id) /\ UnitsSeen(s, id)' = UnitsSeen(s, id)
      BY <1>2 DEF Visible, UnitsSeen
    <2> QED BY <1>2, <1>4, <2>1 DEF ReportsInv, KeptBy, RowsOf, KeptRow
  <1>7. ArchivedFirst'
    BY <1>2, SingleSession DEF ArchivedFirst
  <1> QED BY <1>1, <1>5, <1>6, <1>7, SingleSession DEF ReportsInv

LEMMA ReportsResolveEvent ==
    ASSUME OneSession, ReportsInv, NEW s \in Sessions, ResolveEvent(s)
    PROVE  ReportsInv'
  <1>1. OrderInv'
    BY OrderResolveEvent DEF ReportsInv
  <1>2. LedgerInv /\ phase[s] = "resolve" /\ batch[s] \in Batches /\ Remaining(s)
    BY DEF ResolveEvent, ReportsInv, OrderInv, LedgerInv, SessionsConsistent
  <1>3. UNCHANGED <<ledger, units, revisions, conflicts, batch, draft, dirty,
                    newUnits, archived, reported>>
    BY DEF ResolveEvent, database
  <1>4. PICK id \in Ids : id = Event(s).id
    BY <1>2, EventType DEF LedgerInv
  <1> DEFINE row == Visible(s, id)
             r == ReportOf(s)
             verdict == Resolve(r.row, row, r.mode, batch[s].correction)
  <1>5. /\ r \in Reports /\ batch[s].correction \in BOOLEAN
        /\ \A x \in Ids : ReportsSeen(s, x) \in SUBSET Reports
        /\ \A x \in Ids : Visible(s, x) \in Rows \cup {NoRow}
    BY <1>2, ReportTypes, OrderTypes
  <1>6. \/ /\ UNCHANGED <<pos, flagged>>
        \/ /\ ~ verdict.write
           /\ pos'[s] = pos[s] + 1
           /\ verdict.conflict => id \in flagged'[s]
           /\ \A x \in flagged[s] : x \in flagged'[s]
    BY <1>4 DEF ResolveEvent, ReportOf, Verdict, ReportsInv, OrderInv, LedgerInv, TypeOK
  <1>7. ASSUME NEW x \in Ids PROVE Kept(x)'
    BY <1>3 DEF ReportsInv, Kept, RowsOf, KeptRow
  <1>8. ArchivedFirst'
    BY <1>3 DEF ReportsInv, ArchivedFirst, RowsOf
  <1>9. ASSUME NEW x \in Ids PROVE KeptBy(s, x)'
    <2>1. /\ Visible(s, x)' = Visible(s, x) /\ UnitsSeen(s, x)' = UnitsSeen(s, x)
          /\ RowsOf(revisions \cup archived[s], x)' = RowsOf(revisions \cup archived[s], x)
      BY <1>3 DEF Visible, UnitsSeen, RowsOf
    <2> DEFINE archive == RowsOf(revisions \cup archived[s], x)
               flags == conflicts \cup flagged[s]
    <2>2. KeptRow(x, Visible(s, x), UnitsSeen(s, x), archive, flags, ReportsSeen(s, x))
      BY DEF ReportsInv, KeptBy
    <2>3. KeptRow(x, Visible(s, x), UnitsSeen(s, x), archive,
                  (conflicts \cup flagged[s])', ReportsSeen(s, x)')
      <3>1. CASE UNCHANGED <<pos, flagged>>
        <4>1. /\ ReportsSeen(s, x)' = ReportsSeen(s, x)
              /\ (conflicts \cup flagged[s])' = conflicts \cup flagged[s]
          BY <1>3, <3>1 DEF ReportsSeen
        <4> QED BY <2>2, <4>1
      <3>2. CASE /\ ~ verdict.write
                 /\ pos'[s] = pos[s] + 1
                 /\ verdict.conflict => id \in flagged'[s]
                 /\ \A y \in flagged[s] : y \in flagged'[s]
        <4> DEFINE more == conflicts \cup flagged'[s]
        <4>1. (conflicts \cup flagged[s])' = more /\ (x \in flags => x \in more)
          BY <1>3, <3>2
        <4>2. CASE x # id
          <5>1. ReportsSeen(s, x)' = ReportsSeen(s, x)
            BY <1>2, <1>3, <1>4, <3>2, <4>2, ReportSeen
          <5> HIDE DEF archive, flags, more
          <5>2. KeptRow(x, Visible(s, x), UnitsSeen(s, x), archive, more, ReportsSeen(s, x))
            BY <2>2, <4>1, KeptUnchanged
          <5> QED BY <4>1, <5>1, <5>2
        <4>3. CASE x = id
          <5>1. ReportsSeen(s, x)' = ReportsSeen(s, x) \cup {r}
            BY <1>2, <1>3, <1>4, <3>2, <4>3, ReportSeen
          <5>2. row \in Rows
            BY <1>5, <3>2, UnknownIsWritten
          <5>3. x \in flags \/ verdict.conflict => x \in more
            BY <3>2, <4>1, <4>3
          <5>4. /\ KeptRow(x, row, UnitsSeen(s, x), archive, flags, ReportsSeen(s, x))
                /\ ReportsSeen(s, x) \in SUBSET Reports /\ ~ verdict.write
            BY <1>5, <2>2, <3>2, <4>3
          <5> HIDE DEF archive, flags, more, row, r
          <5>5. KeptRow(x, row, UnitsSeen(s, x), archive, more, ReportsSeen(s, x) \cup {r})
            BY <1>5, <5>2, <5>3, <5>4, KeptDropped
          <5> QED BY <4>1, <4>3, <5>1, <5>5 DEF row
        <4> QED BY <4>2, <4>3
      <3> QED BY <1>6, <3>1, <3>2
    <2> HIDE DEF archive, flags
    <2> QED BY <2>1, <2>3 DEF KeptBy, KeptRow, archive
  <1> QED BY <1>1, <1>7, <1>8, <1>9, SingleSession DEF ReportsInv

LEMMA ReportsWriteEvent ==
    ASSUME OneSession, ReportsInv, NEW s \in Sessions, WriteEvent(s)
    PROVE  ReportsInv'
  <1>1. OrderInv'
    BY OrderWriteEvent DEF ReportsInv
  <1>2. /\ OrderInv /\ LedgerInv /\ phase[s] = "write" /\ batch[s] \in Batches
        /\ Remaining(s) /\ Verdict(s, read[s]).write
    BY DEF WriteEvent, ReportsInv, OrderInv, LedgerInv, SessionsConsistent
  <1>3. UNCHANGED <<ledger, units, revisions, conflicts, batch, flagged, reported>>
    BY DEF WriteEvent, database
  <1>4. PICK id \in Ids : id = Event(s).id
    BY <1>2, EventType DEF LedgerInv
  <1> DEFINE row == Visible(s, id)
             r == ReportOf(s)
             verdict == Resolve(r.row, row, r.mode, batch[s].correction)
             written == IF row = NoRow THEN Stored(r.row) ELSE Updated(row, row, r.row)
             new == ToArchive(s, id)
             added == RowsOf(new, id)
  <1>5. /\ r \in Reports /\ batch[s].correction \in BOOLEAN
        /\ \A x \in Ids : ReportsSeen(s, x) \in SUBSET Reports
        /\ \A x \in Ids : Visible(s, x) \in Rows \cup {NoRow}
    BY <1>2, ReportTypes, OrderTypes
  <1>6. row = read[s] /\ verdict = Verdict(s, read[s]) /\ Written(s, id) = written
        /\ r.row = Event(s).row /\ r.units = Event(s).units /\ r.mode = batch[s].mode
    BY <1>2, <1>4 DEF ReadIsCurrent, OrderInv, Verdict, ReportOf, Written
  <1>7. /\ new = IF verdict.reason = NoReason THEN {}
                 ELSE {[id |-> id, row |-> row, reason |-> verdict.reason]}
        /\ verdict.reason # NoReason => row \in added
    <2>1. new = IF verdict.reason = NoReason THEN {}
                ELSE {[id |-> id, row |-> row, reason |-> verdict.reason]}
      BY <1>6 DEF ToArchive
    <2>2. ASSUME verdict.reason # NoReason PROVE row \in added
      <3>1. PICK a \in new : a = [id |-> id, row |-> row, reason |-> verdict.reason]
        BY <2>1, <2>2
      <3>2. a.id = id /\ a.row = row
        BY <3>1
      <3> HIDE DEF new, verdict, row
      <3> QED BY <3>2 DEF RowsOf
    <2> QED BY <2>1, <2>2
  <1>8. /\ archived'[s] = archived[s] \cup new
        /\ draft'[s][id] = written /\ newUnits'[s][id] = r.units
        /\ \A x \in Ids \ {id} : draft'[s][x] = draft[s][x] /\ newUnits'[s][x] = newUnits[s][x]
        /\ dirty'[s] = dirty[s] \cup {id} /\ pos'[s] = pos[s] + 1
    BY <1>2, <1>4, <1>6 DEF WriteEvent, UnitsAfter, LedgerInv, TypeOK
  <1>9. ASSUME NEW x \in Ids PROVE Kept(x)'
    BY <1>3 DEF ReportsInv, Kept, RowsOf, KeptRow
  <1>10. ASSUME NEW x \in Ids PROVE KeptBy(s, x)'
    <2> DEFINE archive == RowsOf(revisions \cup archived[s], x)
               flags == conflicts \cup flagged[s]
    <2>1. KeptRow(x, Visible(s, x), UnitsSeen(s, x), archive, flags, ReportsSeen(s, x))
      BY DEF ReportsInv, KeptBy
    <2>2. (conflicts \cup flagged[s])' = flags
          /\ RowsOf(revisions \cup archived[s], x)' = RowsOf(revisions \cup archived'[s], x)
      BY <1>3 DEF RowsOf
    <2>3. CASE x # id
      <3>1. ReportsSeen(s, x)' = ReportsSeen(s, x)
        BY <1>2, <1>3, <1>4, <1>8, <2>3, ReportSeen
      <3>2. Visible(s, x)' = Visible(s, x) /\ UnitsSeen(s, x)' = UnitsSeen(s, x)
        BY <1>3, <1>8, <2>3 DEF Visible, UnitsSeen
      <3>3. RowsOf(revisions \cup archived'[s], x) = archive
        <4>1. \A a \in new : a.id # x
          BY <1>7, <2>3
        <4> HIDE DEF new
        <4> QED BY <1>8, <4>1 DEF RowsOf
      <3> HIDE DEF archive, flags
      <3> QED BY <2>1, <2>2, <3>1, <3>2, <3>3 DEF KeptBy, KeptRow
    <2>4. CASE x = id
      <3>1. ReportsSeen(s, x)' = ReportsSeen(s, x) \cup {r}
        BY <1>2, <1>3, <1>4, <1>8, <2>4, ReportSeen
      <3>2. Visible(s, x)' = written /\ UnitsSeen(s, x)' = r.units
        BY <1>8, <2>4 DEF Visible, UnitsSeen
      <3>3. RowsOf(revisions \cup archived'[s], x) = archive \cup added
        <4> HIDE DEF new
        <4> QED BY <1>8, <2>4 DEF RowsOf
      <3>4. /\ KeptRow(x, row, UnitsSeen(s, x), archive, flags, ReportsSeen(s, x))
            /\ ReportsSeen(s, x) \in SUBSET Reports /\ verdict.write /\ row \in Rows \cup {NoRow}
            /\ row # NoRow /\ verdict.reason # NoReason => row \in added
        BY <1>2, <1>5, <1>6, <1>7, <2>1, <2>4
      <3> HIDE DEF archive, flags, row, r, added, new
      <3>5. KeptRow(x, written, r.units, archive \cup added, flags, ReportsSeen(s, x) \cup {r})
        BY <1>5, <3>4, KeptWritten
      <3> HIDE DEF written, verdict
      <3> QED BY <2>2, <3>1, <3>2, <3>3, <3>5 DEF KeptBy, KeptRow
    <2> QED BY <2>3, <2>4
  <1>11. ArchivedFirst'
    <2> SUFFICES ASSUME NEW x \in dirty'[s], batch[s].mode = "revision", ledger[x] # NoRow
                 PROVE  ledger[x] \in RowsOf(archived'[s], x)
      BY <1>3, SingleSession DEF ArchivedFirst, RowsOf
    <2>1. CASE x \in dirty[s]
      <3>1. ledger[x] \in RowsOf(archived[s], x)
        BY <2>1 DEF ReportsInv, ArchivedFirst
      <3> HIDE DEF new
      <3> QED BY <1>8, <3>1 DEF RowsOf
    <2>2. CASE x \notin dirty[s]
      <3>1. x = id /\ row = ledger[id] /\ row \in Rows
        BY <1>5, <1>8, <2>2 DEF Visible
      <3>2. verdict.reason # NoReason
        <4>1. verdict.write /\ r.row \in Rows /\ r.mode = "revision" /\ r.mode \in Modes
          BY <1>2, <1>5, <1>6 DEF Reports
        <4> HIDE DEF row, r
        <4> QED BY <1>5, <3>1, <4>1, WrittenEvent
      <3>3. row \in RowsOf(new, id)
        BY <1>7, <3>2
      <3> HIDE DEF new
      <3> QED BY <1>8, <3>1, <3>3 DEF RowsOf
    <2> QED BY <2>1, <2>2
  <1> QED BY <1>1, <1>9, <1>10, <1>11, SingleSession DEF ReportsInv

(* A commit makes of each id what the session had made of it.              *)
LEMMA ReportsCommit ==
    ASSUME OneSession, ReportsInv, NEW s \in Sessions, Commit(s)
    PROVE  ReportsInv'
  <1>1. OrderInv'
    BY OrderCommit DEF ReportsInv
  <1>2. /\ LedgerInv /\ batch[s] \in Batches /\ ~ Remaining(s) /\ EndRequest(s)
        /\ ledger' = [id \in Ids |-> Visible(s, id)]
        /\ units' = [id \in Ids |-> UnitsSeen(s, id)]
        /\ revisions' = revisions \cup archived[s]
        /\ conflicts' = conflicts \cup flagged[s]
        /\ reported' = [id \in Ids |-> reported[id] \cup ReportsOf(s, id)]
    BY DEF Commit, UnitsSeen, ReportsInv, OrderInv, LedgerInv, SessionsConsistent
  <1>3. /\ dirty'[s] = {} /\ archived'[s] = {} /\ flagged'[s] = {} /\ batch'[s] = NoBatch
    BY <1>2 DEF EndRequest, LedgerInv, TypeOK
  <1>4. ASSUME NEW id \in Ids PROVE reported'[id] = ReportsSeen(s, id)
    <2>1. \A i \in DOMAIN batch[s].events : i < pos[s]
      BY <1>2, OrderTypes DEF Remaining
    <2>2. ReportsOf(s, id) =
            {[row |-> batch[s].events[i].row, units |-> batch[s].events[i].units,
              mode |-> batch[s].mode] :
                i \in {j \in DOMAIN batch[s].events :
                         j < pos[s] /\ batch[s].events[j].id = id}}
      BY <2>1 DEF ReportsOf
    <2> QED BY <1>2, <2>2 DEF ReportsSeen
  <1>5. ASSUME NEW id \in Ids PROVE Kept(id)'
    <2>1. KeptBy(s, id)
      BY DEF ReportsInv
    <2> QED BY <1>2, <1>4, <2>1 DEF KeptBy, Kept, KeptRow, RowsOf
  <1>6. ASSUME NEW id \in Ids PROVE KeptBy(s, id)'
    <2>1. /\ Visible(s, id)' = ledger'[id] /\ UnitsSeen(s, id)' = units'[id]
          /\ (revisions \cup archived[s])' = revisions' /\ (conflicts \cup flagged[s])' = conflicts'
      BY <1>3 DEF Visible, UnitsSeen
    <2>2. ReportsSeen(s, id)' = reported'[id]
      BY <1>3 DEF ReportsSeen, NoBatch
    <2>3. RowsOf(revisions \cup archived[s], id)' = RowsOf(revisions', id)
      BY <2>1 DEF RowsOf
    <2> QED BY <1>5, <2>1, <2>2, <2>3 DEF Kept, KeptBy, KeptRow, RowsOf
  <1>7. ArchivedFirst'
    BY <1>3, SingleSession DEF ArchivedFirst
  <1> QED BY <1>1, <1>5, <1>6, <1>7, SingleSession DEF ReportsInv

LEMMA ReportsInvariant == OneSession => (Spec => []ReportsInv)
  <1> SUFFICES ASSUME OneSession PROVE Spec => []ReportsInv
    OBVIOUS
  <1>1. Init => ReportsInv
    <2> SUFFICES ASSUME Init PROVE ReportsInv
      OBVIOUS
    <2>1. OrderInv
      <3>1. LedgerInv
        BY InitInv
      <3> QED BY <3>1 DEF Init, OrderInv, ReadIsCurrent, DraftsInOrder, ProcessedCovered,
                          NothingNewerIgnored, NoBatch
    <2>2. ArchivedFirst
      BY DEF Init, ArchivedFirst
    <2>3. \A id \in Ids : Kept(id)
      BY DEF Init, Kept, KeptRow
    <2>4. ASSUME NEW s \in Sessions, NEW id \in Ids PROVE KeptBy(s, id)
      <3>1. ReportsSeen(s, id) = {} /\ Visible(s, id) = NoRow
        BY DEF Init, ReportsSeen, Visible, NoBatch
      <3> QED BY <3>1 DEF KeptBy, KeptRow
    <2> QED BY <2>1, <2>2, <2>3, <2>4 DEF ReportsInv
  <1>2. ReportsInv /\ [Next]_vars => ReportsInv'
    <2> SUFFICES ASSUME ReportsInv, [Next]_vars PROVE ReportsInv'
      OBVIOUS
    <2>1. ASSUME NEW s \in Sessions, Begin(s) PROVE ReportsInv'
      BY <2>1, ReportsBegin
    <2>2. ASSUME NEW s \in Sessions, ResolveEvent(s) PROVE ReportsInv'
      BY <2>2, ReportsResolveEvent
    <2>3. ASSUME NEW s \in Sessions, WriteEvent(s) PROVE ReportsInv'
      BY <2>3, ReportsWriteEvent
    <2>4. ASSUME NEW s \in Sessions, InsertFails(s) \/ ArchiveFails(s) \/ Rollback(s)
          PROVE  ReportsInv'
      BY <2>4, ReportsEndRequest DEF InsertFails, ArchiveFails, Rollback
    <2>5. ASSUME NEW s \in Sessions, Commit(s) PROVE ReportsInv'
      BY <2>5, ReportsCommit
    <2>6. CASE UNCHANGED vars
      <3>1. LedgerInv'
        BY <2>6, NextInv DEF ReportsInv, OrderInv
      <3>2. (ReadIsCurrent /\ DraftsInOrder /\ ProcessedCovered)'
        BY <2>6 DEF ReportsInv, OrderInv, vars, database, pending, ReadIsCurrent,
                    DraftsInOrder, ProcessedCovered, Visible, Event, Newer, MayReplaceFinal
      <3>3. NothingNewerIgnored'
        BY <2>6 DEF ReportsInv, OrderInv, vars, database, NothingNewerIgnored
      <3>4. ArchivedFirst'
        BY <2>6 DEF ReportsInv, vars, database, pending, ArchivedFirst, RowsOf
      <3>5. ASSUME NEW id \in Ids PROVE Kept(id)'
        BY <2>6 DEF ReportsInv, vars, database, Kept, RowsOf, KeptRow
      <3>6. ASSUME NEW s \in Sessions, NEW id \in Ids PROVE KeptBy(s, id)'
        <4>1. KeptBy(s, id)
          BY DEF ReportsInv
        <4>2. /\ Visible(s, id)' = Visible(s, id) /\ UnitsSeen(s, id)' = UnitsSeen(s, id)
              /\ (revisions \cup archived[s])' = revisions \cup archived[s]
              /\ (conflicts \cup flagged[s])' = conflicts \cup flagged[s]
              /\ ReportsSeen(s, id)' = ReportsSeen(s, id)
          BY <2>6 DEF vars, database, pending, Visible, UnitsSeen, ReportsSeen
        <4>3. RowsOf(revisions \cup archived[s], id)' = RowsOf(revisions \cup archived[s], id)
          BY <4>2 DEF RowsOf
        <4> QED BY <4>1, <4>2, <4>3 DEF KeptBy, KeptRow
      <3> QED BY <3>1, <3>2, <3>3, <3>4, <3>5, <3>6 DEF ReportsInv, OrderInv
    <2> QED BY <2>1, <2>2, <2>3, <2>4, <2>5, <2>6 DEF Next
  <1> QED BY <1>1, <1>2, PTL DEF Spec

-----------------------------------------------------------------------------
(* FR-IDEMP-005/006/012: without overlapping requests a reported final     *)
(* stands, is archived or is flagged; an event only v1 clients report      *)
(* keeps their largest output; and the billable units stored of an event   *)
(* are those of the report that its row comes of.                          *)
THEOREM ReportsAreKept == OneSession => (Spec => []ReportsKept)
  <1>1. ReportsInv => ReportsKept
    <2> SUFFICES ASSUME ReportsInv PROVE ReportsKept
      OBVIOUS
    <2>1. ASSUME NEW id \in Ids PROVE Kept(id)
      BY DEF ReportsInv
    <2>2. FinalsAccountedFor
      BY <2>1 DEF FinalsAccountedFor, Kept, KeptRow, ArchivedRows, RowsOf
    <2>3. KeepMaxHolds
      BY <2>1 DEF KeepMaxHolds, Kept, KeptRow
    <2>4. UnitsFollowRow
      BY <2>1 DEF UnitsFollowRow, Kept, KeptRow
    <2> QED BY <2>2, <2>3, <2>4 DEF ReportsKept, ReportsAccountedFor
  <1> QED BY <1>1, ReportsInvariant, PTL

(* FR-IDEMP-006: without overlapping requests every row that a v2 write    *)
(* replaces is archived by the same commit: apply() archives the row it    *)
(* read before it writes over it, and the row it read is the one the       *)
(* commit replaces, or one that the same request wrote over it.            *)
THEOREM ArchiveIsComplete == OneSession => (Spec => ArchiveComplete)
  <1> SUFFICES ASSUME OneSession PROVE Spec => ArchiveComplete
    OBVIOUS
  <1> DEFINE Complete == \A id \in Ids :
               (/\ ledger[id] # NoRow
                /\ ledger'[id] # ledger[id]
                /\ \E s \in Sessions : id \in dirty[s] /\ batch[s].mode = "revision")
                  => ledger[id] \in ArchivedRows(id)'
  <1>1. ReportsInv /\ [Next]_vars => [Complete]_vars
    <2> SUFFICES ASSUME ReportsInv, Next, NEW id \in Ids, ledger[id] # NoRow,
                        ledger'[id] # ledger[id], NEW o \in Sessions,
                        id \in dirty[o], batch[o].mode = "revision"
                 PROVE  ledger[id] \in ArchivedRows(id)'
      BY DEF vars
    <2>1. ASSUME NEW s \in Sessions, Commit(s)
          PROVE  ledger[id] \in ArchivedRows(id)'
      <3>1. o = s
        BY SingleSession
      <3>2. ledger[id] \in RowsOf(archived[s], id)
        BY <3>1 DEF ReportsInv, ArchivedFirst
      <3>3. revisions' = revisions \cup archived[s]
        BY <2>1 DEF Commit
      <3> QED BY <3>2, <3>3 DEF ArchivedRows, RowsOf
    <2>2. ASSUME NEW s \in Sessions,
                 \/ Begin(s) \/ ResolveEvent(s) \/ WriteEvent(s)
                 \/ InsertFails(s) \/ ArchiveFails(s) \/ Rollback(s)
          PROVE  ledger' = ledger
      BY <2>2 DEF Begin, ResolveEvent, WriteEvent, InsertFails, ArchiveFails,
             Rollback, database
    <2> QED BY <2>1, <2>2 DEF Next
  <1> QED BY <1>1, ReportsInvariant, PTL DEF Spec, ArchiveComplete
=============================================================================
